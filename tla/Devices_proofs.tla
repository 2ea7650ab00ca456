--------------------------- MODULE Devices_proofs ---------------------------
(***************************************************************************)
(* The disk driver holds a request only as long as its caller waits, for    *)
(* any number of threads, semaphores and blocks and any calls; the network  *)
(* interface driver keeps the frames of the device in use, for any number   *)
(* of senders, receivers, arriving and sent frames.                         *)
(***************************************************************************)
EXTENDS Disk, NIC, QueueLemmas

Inside == {"send", "SEND", "sent", "recv", "receive", "received", "release"}

\* The threads inside nic_send or nic_recv and not in condition_wait are the
\* owner of the lock and those waiting for it, each once; who has tested or
\* commanded the device is the owner.
LockInv ==
    /\ owner \in [Locks -> NicThreads \cup {NoThread}]
    /\ depth \in [Locks -> Nat]
    /\ lock_waiting \in [Locks -> Seq(NicThreads)]
    /\ depth["nic"] = IF owner["nic"] = NoThread THEN 0 ELSE 1
    /\ IsInjective(lock_waiting["nic"])
    /\ owner["nic"] \notin Range(lock_waiting["nic"])
    /\ \A t \in NicThreads :
        /\ nic_pc[t] \in Inside <=> t = owner["nic"] \/ t \in Range(lock_waiting["nic"])
        /\ nic_pc[t] \in {"SEND", "sent", "received"} => t = owner["nic"]

\* Who sleeps is in the condition_wait of its condition.
SleepInv ==
    /\ sleeping \in [Conds -> Seq(NicThreads)]
    /\ \A t \in NicThreads :
        /\ t \in Range(sleeping["csdma"]) => nic_pc[t] = "wait_csdma"
        /\ t \in Range(sleeping["csirq"]) => nic_pc[t] = "wait_csirq"
        /\ t \in Range(sleeping["crxirq"]) => nic_pc[t] = "wait_crxirq"
        /\ t \in Range(sleeping["crirq"]) => nic_pc[t] = "wait_crirq"

\* Senders and receivers are where their calls lead, and the device's bits are bits.
PointsInv ==
    /\ NicTypeOK
    /\ \A t \in NicThreads :
        /\ nic_pc[t] \in {"send", "SEND", "sent", "wait_csdma", "wait_csirq"} => t \in Senders
        /\ nic_pc[t] \in {"recv", "receive", "received", "wait_crxirq", "wait_crirq"}
              => t \in Receivers
    /\ rxbusy \in BOOLEAN /\ rbusy \in BOOLEAN /\ sbusy \in BOOLEAN
    /\ rxirq \in BOOLEAN /\ rirq \in BOOLEAN /\ sirq \in BOOLEAN /\ panic \in BOOLEAN

\* A receiver on its way from the signal of RXIRQ to its RECEIVE.
Called(t) ==
    \/ nic_pc[t] = "receive"
    \/ nic_pc[t] = "wait_crxirq" /\ Signalled(t, "crxirq")

\* The frame in the receive buffer is announced, called for, in transfer or
\* transferred: one of them at a time, and never without a frame.
ReceiveInv ==
    /\ rxirq \/ rbusy \/ rirq => rxbusy
    /\ rbusy => ~rirq /\ ~rxirq
    /\ rirq => ~rxirq
    /\ \A t \in NicThreads : Called(t) => rxbusy /\ ~rxirq /\ ~rbusy /\ ~rirq
    /\ \A t, u \in NicThreads : Called(t) /\ Called(u) => t = u

\* A completion that is still to be signalled wakes somebody other than the
\* sender whose frame is in transfer: there is one ahead of it.
SendInv ==
    /\ \A t \in NicThreads : nic_pc[t] = "SEND" => ~nic_dmabusy
    /\ sirq => \/ ~sbusy /\ \E t \in NicThreads : nic_pc[t] = "sent"
               \/ /\ sleeping["csirq"] # <<>>
                  /\ sbusy => Head(sleeping["csirq"]) # dma

NicDmaInv ==
    /\ ~(rbusy /\ sbusy)
    /\ dma # NoThread <=> nic_dmabusy
    /\ sbusy => /\ dma \in Senders
                /\ nic_pc[dma] = "sent" \/ dma \in Range(sleeping["csirq"])
    /\ rbusy => /\ dma \in Receivers
                /\ nic_pc[dma] = "received" \/ dma \in Range(sleeping["crirq"])
    /\ panic => sbusy

NicInv == LockInv /\ SleepInv /\ PointsInv /\ ReceiveInv /\ SendInv /\ NicDmaInv
-----------------------------------------------------------------------------
LEMMA Names == "nic" \in Locks /\ \A l \in Locks : l = "nic"
  BY Zenon DEF Locks

LEMMA NicInitInv == ASSUME NICAssumption, NicInit PROVE NicInv
<1>1. LockInv
  BY EmptyQueue, Zenon DEF NICAssumption, NicInit, Mon!Init, LockInv, Inside, Locks
<1>2. SleepInv
  BY EmptyQueue, Zenon DEF NicInit, Mon!Init, SleepInv, Conds
<1>3. PointsInv
  <2>1. NicTypeOK
    BY DEF NICAssumption, NicInit, NicTypeOK, Points
  <2> QED  BY <2>1, Zenon DEF NicInit, PointsInv
<1>4. ReceiveInv /\ SendInv
  BY Zenon DEF NicInit, ReceiveInv, Called, SendInv
<1>5. NicDmaInv
  BY Zenon DEF NicInit, NicDmaInv, nic_dmabusy
<1> QED  BY <1>1, <1>2, <1>3, <1>4, <1>5, Zenon DEF NicInv
-----------------------------------------------------------------------------
\* lock_acquire: t has the lock at once or waits for it, and counts as inside.
LEMMA AcquireStep ==
    ASSUME NICAssumption, NicInv, NEW t \in NicThreads, NEW p, nic_pc[t] \notin Inside,
           p \in {"send", "recv", "receive", "release"},
           Mon!Acquire(t, "nic"), NicGoto(t, p)
    PROVE  LockInv'
<1>1. /\ owner["nic"] # t /\ t \notin Range(lock_waiting["nic"])
      /\ lock_waiting["nic"] \in Seq(NicThreads) /\ nic_pc \in [NicThreads -> Points] /\ t # NoThread
  BY Names, Zenon DEF NicInv, LockInv, PointsInv, NicTypeOK, NICAssumption
<1>2. \A u \in NicThreads : nic_pc'[u] = IF u = t THEN p ELSE nic_pc[u]
  BY <1>1, Zenon DEF NicGoto
<1>3. CASE owner["nic"] = NoThread
  <2>1. /\ owner' = [owner EXCEPT !["nic"] = t]
        /\ depth' = [depth EXCEPT !["nic"] = @ + 1] /\ lock_waiting' = lock_waiting
    BY <1>1, <1>3, Zenon DEF Mon!Acquire
  <2>2. /\ owner' \in [Locks -> NicThreads \cup {NoThread}] /\ owner'["nic"] = t
        /\ depth' \in [Locks -> Nat] /\ depth'["nic"] = 1
    BY <1>3, <2>1, Names DEF NicInv, LockInv
  <2> QED
    BY <1>1, <1>2, <1>3, <2>1, <2>2, Names DEF NicInv, LockInv, Inside, NICAssumption
<1>4. CASE owner["nic"] # NoThread
  <2>1. /\ lock_waiting' = [lock_waiting EXCEPT !["nic"] = Append(@, t)]
        /\ owner' = owner /\ depth' = depth
    BY <1>1, <1>4, Zenon DEF Mon!Acquire
  <2>2. lock_waiting'["nic"] = Append(lock_waiting["nic"], t)
    BY <2>1, Names, Zenon DEF NicInv, LockInv
  <2>3. Joined(NicThreads, lock_waiting["nic"], t, lock_waiting'["nic"])
    BY <1>1, <2>2, AfterAppend, Zenon
  <2>4. lock_waiting' \in [Locks -> Seq(NicThreads)]
    BY <2>1, <2>3, Names, Zenon DEF NicInv, LockInv, Joined
  <2> QED
    BY <1>1, <1>2, <2>1, <2>3, <2>4, Names, Zenon DEF NicInv, LockInv, Inside, Joined
<1> QED  BY <1>3, <1>4, Zenon

\* lock_release and the release in condition_wait: the next waiter has the lock.
LEMMA GiveUpStep ==
    ASSUME NICAssumption, NicInv, NEW t \in NicThreads, NEW p, owner["nic"] = t,
           p \notin Inside, Mon!GiveUp(t, "nic"), NicGoto(t, p)
    PROVE  LockInv'
<1>1. /\ depth["nic"] = 1 /\ t \notin Range(lock_waiting["nic"]) /\ t # NoThread
      /\ lock_waiting["nic"] \in Seq(NicThreads) /\ nic_pc \in [NicThreads -> Points]
  BY Names, Zenon DEF NicInv, LockInv, PointsInv, NicTypeOK, NICAssumption
<1>2. \A u \in NicThreads : nic_pc'[u] = IF u = t THEN p ELSE nic_pc[u]
  BY <1>1, Zenon DEF NicGoto
<1>3. CASE lock_waiting["nic"] = <<>>
  <2>1. /\ owner' = [owner EXCEPT !["nic"] = NoThread]
        /\ depth' = [depth EXCEPT !["nic"] = 0] /\ lock_waiting' = lock_waiting
    BY <1>1, <1>3 DEF Mon!GiveUp
  <2>2. Range(lock_waiting["nic"]) = {}
    BY <1>3, EmptyQueue, Zenon
  <2> QED
    BY <1>1, <1>2, <2>1, <2>2, Names DEF NicInv, LockInv, Inside, NICAssumption
<1>4. CASE lock_waiting["nic"] # <<>>
  <2>1. /\ owner' = [owner EXCEPT !["nic"] = Head(lock_waiting["nic"])]
        /\ depth' = [depth EXCEPT !["nic"] = 1]
        /\ lock_waiting' = [lock_waiting EXCEPT !["nic"] = Tail(@)]
    BY <1>1, <1>4 DEF Mon!GiveUp
  <2>2. lock_waiting'["nic"] = Tail(lock_waiting["nic"])
    BY <2>1, Names, Zenon DEF NicInv, LockInv
  <2>3. Left(NicThreads, lock_waiting["nic"], lock_waiting'["nic"])
    BY <1>1, <1>4, <2>2, AfterTail, Zenon
  <2>4. lock_waiting' \in [Locks -> Seq(NicThreads)]
    BY <2>1, <2>3, Names, Zenon DEF NicInv, LockInv, Left
  <2>5. owner'["nic"] = Head(lock_waiting["nic"]) /\ depth'["nic"] = 1
    BY <2>1, Names, Zenon DEF NicInv, LockInv
  <2>6. owner' \in [Locks -> NicThreads \cup {NoThread}] /\ depth' \in [Locks -> Nat]
    BY <2>1, <2>3, Names, Zenon DEF NicInv, LockInv, Left
  <2> QED
    BY <1>1, <1>2, <2>3, <2>4, <2>5, <2>6, Names
    DEF NicInv, LockInv, Inside, Left, NICAssumption
<1> QED  BY <1>3, <1>4, Zenon

\* The owner of the lock goes on without it changing hands.
LEMMA OwnerStep ==
    ASSUME NicInv, NEW t \in NicThreads, NEW p, owner["nic"] = t, p \in Inside,
           nic_pc[t] \in Inside, UNCHANGED <<owner, depth, lock_waiting>>, NicGoto(t, p)
    PROVE  LockInv'
  BY Zenon DEF NicInv, LockInv, PointsInv, NicTypeOK, NicGoto

\* A step of the handler or of the device.
LEMMA DeviceStep ==
    ASSUME NicInv, UNCHANGED <<owner, depth, lock_waiting, nic_pc>>
    PROVE  LockInv'
  BY Zenon DEF NicInv, LockInv
-----------------------------------------------------------------------------
\* Nobody who is not in a condition_wait sleeps.
LEMMA Awake ==
    ASSUME NicInv, NEW t \in NicThreads, NEW c \in Conds,
           nic_pc[t] \notin {"wait_csdma", "wait_csirq", "wait_crxirq", "wait_crirq"}
    PROVE  t \notin Range(sleeping[c])
  BY Zenon DEF NicInv, SleepInv, Conds

\* condition_wait: t sleeps behind the others.
LEMMA SleepStep ==
    ASSUME NicInv, NEW t \in NicThreads, NEW c \in Conds, NEW p,
           nic_pc[t] \in Inside, sleeping' = [sleeping EXCEPT ![c] = Append(@, t)], NicGoto(t, p),
           c = "csdma" => p = "wait_csdma", c = "csirq" => p = "wait_csirq",
           c = "crxirq" => p = "wait_crxirq", c = "crirq" => p = "wait_crirq"
    PROVE  /\ SleepInv'
           /\ \A d \in Conds : d # c => sleeping'[d] = sleeping[d]
           /\ Range(sleeping'[c]) = Range(sleeping[c]) \cup {t}
           /\ sleeping'[c] # <<>>
           /\ sleeping[c] # <<>> => Head(sleeping'[c]) = Head(sleeping[c])
<1>1. sleeping[c] \in Seq(NicThreads) /\ sleeping'[c] = Append(sleeping[c], t)
  BY Zenon DEF NicInv, SleepInv
<1>2. Joined(NicThreads, sleeping[c], t, sleeping'[c])
  BY <1>1, AfterAppend, Zenon
<1>3. sleeping' \in [Conds -> Seq(NicThreads)]
  BY <1>2, Zenon DEF NicInv, SleepInv, Joined
<1>4. \A d \in Conds : d # c => sleeping'[d] = sleeping[d]
  BY Zenon DEF NicInv, SleepInv
<1>5. \A d \in Conds : t \notin Range(sleeping[d])
  BY Awake, Zenon DEF Inside
<1>6. \A u \in NicThreads : nic_pc'[u] = IF u = t THEN p ELSE nic_pc[u]
  BY Zenon DEF NicGoto, NicInv, PointsInv, NicTypeOK
<1>7. SleepInv'
  BY <1>2, <1>3, <1>4, <1>5, <1>6 DEF NicInv, SleepInv, Joined, Conds
<1>8. /\ sleeping'[c] # <<>>
      /\ sleeping[c] # <<>> => Head(sleeping'[c]) = Head(sleeping[c])
  BY <1>1
<1> QED  BY <1>2, <1>4, <1>7, <1>8, Zenon DEF Joined

\* condition_signal: the first sleeper of each condition, if there is one, goes.
LEMMA SignalStep ==
    ASSUME NicInv, NEW C, condition_signal(C), UNCHANGED nic_pc
    PROVE  /\ SleepInv'
           /\ \A d \in Conds :
                /\ d \notin C => sleeping'[d] = sleeping[d]
                /\ sleeping[d] = <<>> => sleeping'[d] = <<>>
                /\ Range(sleeping'[d]) \subseteq Range(sleeping[d])
                /\ sleeping[d] # <<>> =>
                      Range(sleeping[d]) \subseteq Range(sleeping'[d]) \cup {Head(sleeping[d])}
<1>1. ASSUME NEW d \in Conds
      PROVE  /\ sleeping'[d] \in Seq(NicThreads)
             /\ d \notin C => sleeping'[d] = sleeping[d]
             /\ sleeping[d] = <<>> => sleeping'[d] = <<>>
             /\ Range(sleeping'[d]) \subseteq Range(sleeping[d])
             /\ sleeping[d] # <<>> =>
                   Range(sleeping[d]) \subseteq Range(sleeping'[d]) \cup {Head(sleeping[d])}
  <2>1. /\ sleeping[d] \in Seq(NicThreads)
        /\ sleeping'[d] = IF d \in C /\ sleeping[d] # <<>>
                          THEN Tail(sleeping[d]) ELSE sleeping[d]
    BY Zenon DEF NicInv, SleepInv, condition_signal
  <2>2. CASE d \in C /\ sleeping[d] # <<>>
    <3>1. Left(NicThreads, sleeping[d], sleeping'[d])
      BY <2>1, <2>2, AfterTail, Zenon
    <3> QED  BY <2>2, <3>1, Zenon DEF Left
  <2>3. CASE ~(d \in C /\ sleeping[d] # <<>>)
    BY <2>1, <2>3, Zenon
  <2> QED  BY <2>2, <2>3, Zenon
<1>2. sleeping' \in [Conds -> Seq(NicThreads)]
  BY <1>1, Zenon DEF condition_signal
<1>3. SleepInv'
  BY <1>1, <1>2, Zenon DEF NicInv, SleepInv, Conds
<1> QED  BY <1>1, <1>3, Zenon
-----------------------------------------------------------------------------
\* What Goto changes.
LEMMA GotoStep ==
    ASSUME NicInv, NEW t \in NicThreads, NEW p \in Points, NicGoto(t, p)
    PROVE  /\ nic_pc' \in [NicThreads -> Points]
           /\ \A u \in NicThreads : nic_pc'[u] = IF u = t THEN p ELSE nic_pc[u]
  BY Zenon DEF NicGoto, NicInv, PointsInv, NicTypeOK

\* Where a thread goes agrees with who it is.
LEMMA PointsStep ==
    ASSUME NicInv, NEW t \in NicThreads, NEW p \in Points, NicGoto(t, p),
           UNCHANGED <<handler, arrived>>, dma' \in NicThreads \cup {NoThread},
           p \in {"send", "SEND", "sent", "wait_csdma", "wait_csirq"} => t \in Senders,
           p \in {"recv", "receive", "received", "wait_crxirq", "wait_crirq"} => t \in Receivers,
           rxbusy' \in BOOLEAN, rbusy' \in BOOLEAN, sbusy' \in BOOLEAN,
           rxirq' \in BOOLEAN, rirq' \in BOOLEAN, sirq' \in BOOLEAN, panic' \in BOOLEAN
    PROVE  PointsInv'
  BY GotoStep, Zenon DEF NicInv, PointsInv, NicTypeOK

\* nic_send, nic_recv and the end of condition_wait: t asks for the lock.
LEMMA EnterStep ==
    ASSUME NICAssumption, NicInv, NEW t \in NicThreads, nic_pc[t] \notin Inside,
           NEW p \in {"send", "recv", "receive", "release"},
           \A c \in Conds : t \notin Range(sleeping[c]),
           p = "send" => t \in Senders, p \in {"recv", "receive"} => t \in Receivers,
           p = "receive" => Called(t),
           Mon!Acquire(t, "nic"), NicGoto(t, p), UNCHANGED <<device, handler, panic, arrived>>
    PROVE  NicInv'
<1>1. p \in Points /\ p \in Inside /\ UNCHANGED sleeping
  BY Zenon DEF Points, Inside, Mon!Acquire
<1>2. \A u \in NicThreads : nic_pc'[u] = IF u = t THEN p ELSE nic_pc[u]
  BY <1>1, GotoStep, Zenon
<1>3. LockInv'
  BY AcquireStep, Zenon
<1>4. SleepInv'
  BY <1>1, <1>2, Zenon DEF NicInv, SleepInv, Conds
<1>5. PointsInv'
  <2>1. /\ dma' \in NicThreads \cup {NoThread}
        /\ rxbusy' \in BOOLEAN /\ rbusy' \in BOOLEAN /\ sbusy' \in BOOLEAN
        /\ rxirq' \in BOOLEAN /\ rirq' \in BOOLEAN /\ sirq' \in BOOLEAN /\ panic' \in BOOLEAN
    BY Zenon DEF NicInv, PointsInv, NicTypeOK, device
  <2> QED  BY <1>1, <2>1, PointsStep, Zenon
<1>6. \A u \in NicThreads : Called(u)' => Called(u)
  BY <1>1, <1>2, Zenon DEF Called, Signalled
<1>7. ReceiveInv'
  BY <1>6, Zenon DEF NicInv, ReceiveInv, device
<1>8. SendInv'
  BY <1>1, <1>2, Zenon DEF NicInv, SendInv, Inside, device, nic_dmabusy
<1>9. NicDmaInv'
  BY <1>1, <1>2, Zenon DEF NicInv, NicDmaInv, Inside, device, nic_dmabusy, NicThreads
<1> QED  BY <1>3, <1>4, <1>5, <1>7, <1>8, <1>9, Zenon DEF NicInv

\* lock_release, at the end of nic_send and nic_recv.
LEMMA ReleaseStep ==
    ASSUME NICAssumption, NicInv, NEW t \in NicThreads, lock_release(t)
    PROVE  NicInv'
<1>1. /\ "out" \in Points /\ "out" \notin Inside /\ UNCHANGED <<device, handler, panic, arrived>>
      /\ UNCHANGED sleeping /\ nic_pc[t] = "release" /\ NicGoto(t, "out") /\ owner["nic"] = t
      /\ Mon!GiveUp(t, "nic")
  BY Zenon DEF Points, Inside, lock_release, Has, Mon!Release
<1>2. \A u \in NicThreads : nic_pc'[u] = IF u = t THEN "out" ELSE nic_pc[u]
  BY <1>1, GotoStep
<1>3. LockInv'
  BY <1>1, GiveUpStep, Zenon
<1>4. SleepInv'
  BY <1>1, <1>2, Zenon DEF NicInv, SleepInv, Conds
<1>5. PointsInv'
  <2>1. /\ dma' \in NicThreads \cup {NoThread}
        /\ rxbusy' \in BOOLEAN /\ rbusy' \in BOOLEAN /\ sbusy' \in BOOLEAN
        /\ rxirq' \in BOOLEAN /\ rirq' \in BOOLEAN /\ sirq' \in BOOLEAN /\ panic' \in BOOLEAN
    BY <1>1, Zenon DEF NicInv, PointsInv, NicTypeOK, device
  <2> QED  BY <1>1, <2>1, PointsStep, Zenon
<1>6. \A u \in NicThreads : Called(u)' => Called(u)
  BY <1>1, <1>2, Zenon DEF Called, Signalled
<1>7. ReceiveInv'
  BY <1>1, <1>6, Zenon DEF NicInv, ReceiveInv, device
<1>8. SendInv'
  BY <1>1, <1>2 DEF NicInv, SendInv, device, nic_dmabusy
<1>9. NicDmaInv'
  BY <1>1, <1>2, Zenon DEF NicInv, NicDmaInv, device, nic_dmabusy, NicThreads
<1> QED  BY <1>3, <1>4, <1>5, <1>7, <1>8, <1>9, Zenon DEF NicInv

\* The four places that wait for a condition.
LEMMA WaitStep ==
    ASSUME NICAssumption, NicInv, NEW t \in NicThreads, NEW c \in Conds, NEW p \in Points,
           owner["nic"] = t, condition_wait(t, c, p),
           \/ nic_pc[t] = "send" /\ c = "csdma" /\ p = "wait_csdma"
           \/ nic_pc[t] = "sent" /\ c = "csirq" /\ p = "wait_csirq"
           \/ nic_pc[t] = "recv" /\ c = "crxirq" /\ p = "wait_crxirq"
           \/ nic_pc[t] = "received" /\ c = "crirq" /\ p = "wait_crirq",
           UNCHANGED <<device, handler, panic, arrived>>
    PROVE  NicInv'
<1>1. /\ p \notin Inside /\ nic_pc[t] \in Inside /\ NicGoto(t, p) /\ Mon!GiveUp(t, "nic")
      /\ sleeping' = [sleeping EXCEPT ![c] = Append(@, t)]
  BY Zenon DEF Inside, condition_wait, Mon!Wait
<1>2. \A u \in NicThreads : nic_pc'[u] = IF u = t THEN p ELSE nic_pc[u]
  BY <1>1, GotoStep, Zenon
<1>3. LockInv'
  BY <1>1, GiveUpStep, Zenon
<1>4. /\ SleepInv'
      /\ \A d \in Conds : d # c => sleeping'[d] = sleeping[d]
      /\ Range(sleeping'[c]) = Range(sleeping[c]) \cup {t}
      /\ sleeping'[c] # <<>>
      /\ sleeping[c] # <<>> => Head(sleeping'[c]) = Head(sleeping[c])
  BY <1>1, SleepStep, Zenon
<1>5. PointsInv'
  <2>1. /\ dma' \in NicThreads \cup {NoThread}
        /\ rxbusy' \in BOOLEAN /\ rbusy' \in BOOLEAN /\ sbusy' \in BOOLEAN
        /\ rxirq' \in BOOLEAN /\ rirq' \in BOOLEAN /\ sirq' \in BOOLEAN /\ panic' \in BOOLEAN
    BY Zenon DEF NicInv, PointsInv, NicTypeOK, device
  <2>2. /\ nic_pc[t] \in {"send", "sent"} => t \in Senders
        /\ nic_pc[t] \in {"recv", "received"} => t \in Receivers
    BY Zenon DEF NicInv, PointsInv
  <2> QED  BY <1>1, <2>1, <2>2, PointsStep, Zenon
<1>6. \A u \in NicThreads : Called(u)' => Called(u)
  BY <1>2, <1>4, Zenon DEF Called, Signalled, Conds
<1>7. ReceiveInv'
  BY <1>6, Zenon DEF NicInv, ReceiveInv, device
<1>8. SendInv'
  <2>1. \A u \in NicThreads : (nic_pc[u] = "SEND")' => ~nic_dmabusy'
    BY <1>2, Zenon DEF NicInv, SendInv, device, nic_dmabusy
  <2>2. CASE c = "csirq"
    <3>1. sirq => sleeping[c] # <<>> \/ ~sbusy
      BY <2>2, Zenon DEF NicInv, SendInv
    <3>2. sleeping[c] # <<>> /\ sbusy /\ sirq => Head(sleeping[c]) # dma
      BY <2>2, Zenon DEF NicInv, SendInv
    <3> QED  BY <1>4, <2>1, <2>2, <3>1, <3>2, Zenon DEF SendInv, device
  <2>3. CASE c # "csirq"
    <3>1. sleeping'["csirq"] = sleeping["csirq"] /\ nic_pc[t] # "sent" /\ p # "sent"
      BY <1>4, <2>3, Zenon DEF Conds
    <3> QED  BY <1>2, <2>1, <3>1, Zenon DEF NicInv, SendInv, device
  <2> QED  BY <2>2, <2>3, Zenon
<1>9. NicDmaInv'
  BY <1>2, <1>4, Zenon DEF NicInv, NicDmaInv, Conds, device, nic_dmabusy, NicThreads
<1> QED  BY <1>3, <1>4, <1>5, <1>7, <1>8, <1>9, Zenon DEF NicInv

\* nic_send: the test, with the lock held, lasts until the command.
LEMMA SendTestStep ==
    ASSUME NicInv, NEW t \in NicThreads, Has(t, "send"), ~nic_dmabusy, NicGoto(t, "SEND"),
           UNCHANGED <<monitor, device, handler, panic, arrived>>
    PROVE  NicInv'
<1>1. "SEND" \in Points /\ "SEND" \in Inside /\ nic_pc[t] = "send" /\ nic_pc[t] \in Inside
      /\ owner["nic"] = t /\ UNCHANGED <<owner, depth, lock_waiting, sleeping>>
  BY Zenon DEF Points, Inside, Has, monitor
<1>2. \A u \in NicThreads : nic_pc'[u] = IF u = t THEN "SEND" ELSE nic_pc[u]
  BY <1>1, GotoStep
<1>3. LockInv'
  BY <1>1, OwnerStep, Zenon
<1>4. SleepInv'
  BY <1>1, <1>2, Zenon DEF NicInv, SleepInv, Conds
<1>5. PointsInv'
  <2>1. /\ dma' \in NicThreads \cup {NoThread} /\ t \in Senders
        /\ rxbusy' \in BOOLEAN /\ rbusy' \in BOOLEAN /\ sbusy' \in BOOLEAN
        /\ rxirq' \in BOOLEAN /\ rirq' \in BOOLEAN /\ sirq' \in BOOLEAN /\ panic' \in BOOLEAN
    BY <1>1, Zenon DEF NicInv, PointsInv, NicTypeOK, device
  <2> QED  BY <1>1, <2>1, PointsStep, Zenon
<1>6. \A u \in NicThreads : Called(u)' => Called(u)
  BY <1>1, <1>2, Zenon DEF Called, Signalled
<1>7. ReceiveInv'
  BY <1>6, Zenon DEF NicInv, ReceiveInv, device
<1>8. SendInv'
  BY <1>1, <1>2, Zenon DEF NicInv, SendInv, device, nic_dmabusy
<1>9. NicDmaInv'
  BY <1>1, <1>2, Zenon DEF NicInv, NicDmaInv, device, nic_dmabusy, NicThreads
<1> QED  BY <1>3, <1>4, <1>5, <1>7, <1>8, <1>9, Zenon DEF NicInv

\* The command of nic_send finds the device free.
LEMMA SendCommandStep ==
    ASSUME NICAssumption, NicInv, NEW t \in NicThreads, nic_send_command(t)
    PROVE  NicInv'
<1>1. /\ "sent" \in Points /\ "sent" \in Inside /\ nic_pc[t] = "SEND" /\ nic_pc[t] \in Inside
      /\ owner["nic"] = t /\ UNCHANGED <<owner, depth, lock_waiting, sleeping>>
      /\ UNCHANGED <<rxbusy, rbusy, rxirq, rirq, sirq, handler, arrived>>
  BY Zenon DEF Points, Inside, nic_send_command, Has, monitor
<1>2. ~nic_dmabusy
  BY <1>1, Zenon DEF NicInv, SendInv
<1>3. NicGoto(t, "sent") /\ sbusy' = TRUE /\ dma' = t /\ UNCHANGED panic
  BY <1>2, Zenon DEF nic_send_command
<1>4. \A u \in NicThreads : nic_pc'[u] = IF u = t THEN "sent" ELSE nic_pc[u]
  BY <1>1, <1>3, GotoStep, Zenon
<1>5. LockInv'
  BY <1>1, <1>3, OwnerStep, Zenon
<1>6. SleepInv'
  BY <1>1, <1>4, Zenon DEF NicInv, SleepInv, Conds
<1>7. t \in Senders /\ PointsInv'
  <2>1. /\ dma' \in NicThreads \cup {NoThread} /\ t \in Senders
        /\ rxbusy' \in BOOLEAN /\ rbusy' \in BOOLEAN /\ sbusy' \in BOOLEAN
        /\ rxirq' \in BOOLEAN /\ rirq' \in BOOLEAN /\ sirq' \in BOOLEAN /\ panic' \in BOOLEAN
    BY <1>1, <1>3, Zenon DEF NicInv, PointsInv
  <2> QED  BY <1>1, <1>3, <2>1, PointsStep, Zenon
<1>8. \A u \in NicThreads : Called(u)' => Called(u)
  BY <1>1, <1>4, Zenon DEF Called, Signalled
<1>9. ReceiveInv'
  BY <1>1, <1>8, Zenon DEF NicInv, ReceiveInv
<1>10. SendInv'
  <2>1. \A u \in NicThreads : nic_pc[u] = "SEND" \/ nic_pc[u] = "sent" => u = t
    BY <1>1, Zenon DEF NicInv, LockInv
  <2>2. sirq => sleeping["csirq"] # <<>>
    BY <1>1, <2>1, Zenon DEF NicInv, SendInv
  <2>3. sleeping["csirq"] # <<>> => Head(sleeping["csirq"]) # t
    <3>1. sleeping["csirq"] \in Seq(NicThreads) /\ t \notin Range(sleeping["csirq"])
      BY <1>1, Awake, Zenon DEF NicInv, SleepInv, Conds
    <3> QED  BY <3>1, TailQueue, SMTT(60)
  <2> QED  BY <1>1, <1>3, <1>4, <2>1, <2>2, <2>3, Zenon DEF SendInv
<1>11. NicDmaInv'
  BY <1>1, <1>2, <1>3, <1>4, <1>7, Zenon DEF NicInv, NicDmaInv, nic_dmabusy, NICAssumption
<1> QED  BY <1>5, <1>6, <1>7, <1>9, <1>10, <1>11, Zenon DEF NicInv

\* The command of nic_recv finds a frame, and no other receiver at work; if it
\* meets the transfer of a sender, the kernel stops.
LEMMA RecvCommandStep ==
    ASSUME NICAssumption, NicInv, NEW t \in NicThreads, nic_recv_command(t)
    PROVE  NicInv'
<1>1. /\ "received" \in Points /\ "received" \in Inside /\ nic_pc[t] = "receive"
      /\ nic_pc[t] \in Inside /\ owner["nic"] = t
      /\ UNCHANGED <<owner, depth, lock_waiting, sleeping>>
      /\ UNCHANGED <<rxbusy, sbusy, rxirq, rirq, sirq, handler, arrived>>
  BY Zenon DEF Points, Inside, nic_recv_command, Has, monitor
<1>2. Called(t) /\ rxbusy /\ ~rbusy /\ ~rxirq /\ ~rirq
  BY <1>1, Zenon DEF Called, NicInv, ReceiveInv
<1>3. CASE sbusy
  <2>1. panic' = TRUE /\ UNCHANGED <<rbusy, dma, nic_pc>>
    BY <1>3, Zenon DEF nic_recv_command, nic_dmabusy
  <2>2. LockInv' /\ SleepInv'
    BY <1>1, <2>1, Zenon DEF NicInv, LockInv, SleepInv
  <2>3. PointsInv' /\ NicDmaInv'
    BY <1>1, <1>3, <2>1, Zenon DEF NicInv, PointsInv, NicTypeOK, NicDmaInv, nic_dmabusy
  <2>4. ReceiveInv' /\ SendInv'
    BY <1>1, <2>1, Zenon DEF NicInv, ReceiveInv, SendInv, Called, Signalled, nic_dmabusy
  <2> QED  BY <2>2, <2>3, <2>4, Zenon DEF NicInv
<1>4. CASE ~sbusy
  <2>1. NicGoto(t, "received") /\ rbusy' = TRUE /\ dma' = t /\ UNCHANGED panic
    BY <1>2, <1>4, Zenon DEF nic_recv_command, nic_dmabusy
  <2>2. \A u \in NicThreads : nic_pc'[u] = IF u = t THEN "received" ELSE nic_pc[u]
    BY <1>1, <2>1, GotoStep, Zenon
  <2>3. LockInv'
    BY <1>1, <2>1, OwnerStep, Zenon
  <2>4. SleepInv'
    BY <1>1, <2>2, Zenon DEF NicInv, SleepInv, Conds
  <2>5. t \in Receivers /\ PointsInv'
    <3>1. /\ dma' \in NicThreads \cup {NoThread} /\ t \in Receivers
          /\ rxbusy' \in BOOLEAN /\ rbusy' \in BOOLEAN /\ sbusy' \in BOOLEAN
          /\ rxirq' \in BOOLEAN /\ rirq' \in BOOLEAN /\ sirq' \in BOOLEAN /\ panic' \in BOOLEAN
      BY <1>1, <2>1, Zenon DEF NicInv, PointsInv
    <3> QED  BY <1>1, <2>1, <3>1, PointsStep, Zenon
  <2>6. \A u \in NicThreads : ~Called(u)'
    BY <1>1, <1>2, <2>2, Zenon DEF NicInv, ReceiveInv, Called, Signalled
  <2>7. ReceiveInv'
    BY <1>1, <1>2, <2>1, <2>6, Zenon DEF ReceiveInv
  <2>8. SendInv'
    BY <1>1, <1>4, <2>1, <2>2, Zenon DEF NicInv, LockInv, SendInv
  <2>9. NicDmaInv'
    BY <1>1, <1>2, <1>4, <2>1, <2>2, <2>5, Zenon DEF NicInv, NicDmaInv, nic_dmabusy, NICAssumption
  <2> QED  BY <2>3, <2>4, <2>5, <2>7, <2>8, <2>9, Zenon DEF NicInv
<1> QED  BY <1>3, <1>4, Zenon
-----------------------------------------------------------------------------
\* The interrupt handler: RXIRQ calls at most one receiver for the frame.
LEMMA RxirqStep ==
    ASSUME NicInv, nic_interrupt_handle
    PROVE  NicInv'
<1>1. /\ UNCHANGED <<owner, depth, lock_waiting, nic_pc>> /\ handler' = "rirq"
      /\ UNCHANGED <<rxbusy, rbusy, sbusy, rirq, sirq, dma, panic, arrived>>
  BY Zenon DEF nic_interrupt_handle, condition_signal, monitor
<1>2. LockInv'
  BY <1>1, DeviceStep, Zenon
<1>3. CASE rxirq /\ ~nic_dmabusy
  <2>1. condition_signal({"crxirq"}) /\ rxirq' = FALSE
    BY <1>3, Zenon DEF nic_interrupt_handle
  <2>2. /\ SleepInv'
        /\ \A d \in Conds \ {"crxirq"} : sleeping'[d] = sleeping[d]
        /\ sleeping["crxirq"] = <<>> => sleeping'["crxirq"] = sleeping["crxirq"]
        /\ sleeping["crxirq"] # <<>> =>
              Range(sleeping["crxirq"])
                  \subseteq Range(sleeping'["crxirq"]) \cup {Head(sleeping["crxirq"])}
    BY <1>1, <2>1, SignalStep, Zenon DEF Conds
  <2>3. \A u \in NicThreads : ~Called(u)
    BY <1>3, Zenon DEF NicInv, ReceiveInv
  <2>4. \A u \in NicThreads : Called(u)' => u = Head(sleeping["crxirq"])
    BY <1>1, <2>2, <2>3, Zenon DEF Called, Signalled
  <2>5. rxbusy /\ ~rbusy /\ ~rirq
    BY <1>3, Zenon DEF NicInv, ReceiveInv
  <2>6. ReceiveInv'
    BY <1>1, <2>1, <2>4, <2>5, Zenon DEF ReceiveInv
  <2>7. PointsInv'
    BY <1>1, <2>1, Zenon DEF NicInv, PointsInv, NicTypeOK
  <2>8. sleeping'["csirq"] = sleeping["csirq"] /\ sleeping'["crirq"] = sleeping["crirq"]
    BY <2>2, Zenon DEF Conds
  <2>9. SendInv' /\ NicDmaInv'
    BY <1>1, <2>8, Zenon DEF NicInv, SendInv, NicDmaInv, nic_dmabusy
  <2> QED  BY <1>2, <2>2, <2>6, <2>7, <2>9, Zenon DEF NicInv
<1>4. CASE ~(rxirq /\ ~nic_dmabusy)
  <2>1. UNCHANGED <<sleeping, rxirq>>
    BY <1>4, Zenon DEF nic_interrupt_handle, monitor
  <2>2. SleepInv' /\ PointsInv'
    BY <1>1, <2>1, SMTT(60) DEF NicInv, SleepInv, PointsInv, NicTypeOK
  <2>3. ReceiveInv' /\ SendInv' /\ NicDmaInv'
    BY <1>1, <2>1, Zenon
    DEF NicInv, ReceiveInv, SendInv, NicDmaInv, Called, Signalled, nic_dmabusy
  <2> QED  BY <1>2, <2>2, <2>3, Zenon DEF NicInv
<1> QED  BY <1>3, <1>4, Zenon

\* RIRQ: no receiver is on its way to the buffer that becomes free.
LEMMA RirqStep ==
    ASSUME NicInv, nic_interrupt_rirq
    PROVE  NicInv'
<1>1. /\ UNCHANGED <<owner, depth, lock_waiting, nic_pc>> /\ handler' = "sirq"
      /\ UNCHANGED <<rbusy, sbusy, rxirq, sirq, dma, panic, arrived>>
  BY Zenon DEF nic_interrupt_rirq, condition_signal, monitor
<1>2. LockInv'
  BY <1>1, DeviceStep, Zenon
<1>3. CASE rirq
  <2>1. condition_signal({"crirq", "csdma"}) /\ rirq' = FALSE /\ rxbusy' = FALSE
    BY <1>3, Zenon DEF nic_interrupt_rirq
  <2>2. /\ SleepInv'
        /\ sleeping'["crxirq"] = sleeping["crxirq"] /\ sleeping'["csirq"] = sleeping["csirq"]
    BY <1>1, <2>1, SignalStep DEF Conds
  <2>3. ~rbusy /\ ~rxirq /\ \A u \in NicThreads : ~Called(u)
    BY <1>3, Zenon DEF NicInv, ReceiveInv
  <2>4. \A u \in NicThreads : ~Called(u)'
    BY <1>1, <2>2, <2>3, Zenon DEF Called, Signalled
  <2>5. ReceiveInv'
    BY <1>1, <2>1, <2>3, <2>4, Zenon DEF ReceiveInv
  <2>6. PointsInv'
    BY <1>1, <2>1, Zenon DEF NicInv, PointsInv, NicTypeOK
  <2>7. SendInv' /\ NicDmaInv'
    BY <1>1, <2>2, <2>3, Zenon DEF NicInv, SendInv, NicDmaInv, nic_dmabusy
  <2> QED  BY <1>2, <2>2, <2>5, <2>6, <2>7, Zenon DEF NicInv
<1>4. CASE ~rirq
  <2>1. UNCHANGED <<sleeping, rirq, rxbusy>>
    BY <1>4, Zenon DEF nic_interrupt_rirq, monitor
  <2>2. SleepInv' /\ PointsInv'
    BY <1>1, <2>1, SMTT(60) DEF NicInv, SleepInv, PointsInv, NicTypeOK
  <2>3. ReceiveInv' /\ SendInv' /\ NicDmaInv'
    BY <1>1, <2>1, Zenon
    DEF NicInv, ReceiveInv, SendInv, NicDmaInv, Called, Signalled, nic_dmabusy
  <2> QED  BY <1>2, <2>2, <2>3, Zenon DEF NicInv
<1> QED  BY <1>3, <1>4, Zenon

\* SIRQ: the sender that is woken is not the one whose frame is in transfer.
LEMMA SirqStep ==
    ASSUME NicInv, nic_interrupt_sirq
    PROVE  NicInv'
<1>1. /\ UNCHANGED <<owner, depth, lock_waiting, nic_pc>> /\ handler' = "idle"
      /\ UNCHANGED <<rxbusy, rbusy, sbusy, rxirq, rirq, dma, panic, arrived>>
  BY Zenon DEF nic_interrupt_sirq, condition_signal, monitor
<1>2. LockInv'
  BY <1>1, DeviceStep, Zenon
<1>3. CASE sirq
  <2>1. condition_signal({"csirq", "csdma"}) /\ sirq' = FALSE
    BY <1>3, Zenon DEF nic_interrupt_sirq
  <2>2. /\ SleepInv'
        /\ sleeping'["crxirq"] = sleeping["crxirq"] /\ sleeping'["crirq"] = sleeping["crirq"]
        /\ sleeping["csirq"] = <<>> => sleeping'["csirq"] = sleeping["csirq"]
        /\ sleeping["csirq"] # <<>> =>
              Range(sleeping["csirq"])
                  \subseteq Range(sleeping'["csirq"]) \cup {Head(sleeping["csirq"])}
    BY <1>1, <2>1, SignalStep DEF Conds
  <2>3. sbusy /\ dma \in Range(sleeping["csirq"]) => dma \in Range(sleeping'["csirq"])
    BY <1>3, <2>2, Zenon DEF NicInv, SendInv
  <2>4. NicDmaInv'
    BY <1>1, <2>2, <2>3, Zenon DEF NicInv, NicDmaInv, nic_dmabusy
  <2>5. ReceiveInv'
    BY <1>1, <2>2, Zenon DEF NicInv, ReceiveInv, Called, Signalled
  <2>6. PointsInv' /\ SendInv'
    BY <1>1, <2>1, Zenon DEF NicInv, PointsInv, NicTypeOK, SendInv, nic_dmabusy
  <2> QED  BY <1>2, <2>2, <2>4, <2>5, <2>6, Zenon DEF NicInv
<1>4. CASE ~sirq
  <2>1. UNCHANGED <<sleeping, sirq>>
    BY <1>4, Zenon DEF nic_interrupt_sirq, monitor
  <2>2. SleepInv' /\ PointsInv'
    BY <1>1, <2>1, SMTT(60) DEF NicInv, SleepInv, PointsInv, NicTypeOK
  <2>3. ReceiveInv' /\ SendInv' /\ NicDmaInv'
    BY <1>1, <2>1, Zenon
    DEF NicInv, ReceiveInv, SendInv, NicDmaInv, Called, Signalled, nic_dmabusy
  <2> QED  BY <1>2, <2>2, <2>3, Zenon DEF NicInv
<1> QED  BY <1>3, <1>4, Zenon

\* The device: a frame is kept only if nobody is on the way to the buffer.
LEMMA ArrivalStep ==
    ASSUME NICAssumption, NicInv, FrameArrives
    PROVE  NicInv'
<1>1. /\ UNCHANGED <<owner, depth, lock_waiting, sleeping, nic_pc>>
      /\ UNCHANGED <<rbusy, sbusy, rirq, sirq, dma, handler, panic>>
  BY Zenon DEF FrameArrives, monitor
<1>2. LockInv' /\ SleepInv'
  BY <1>1, DeviceStep, Zenon DEF NicInv, SleepInv
<1>3. arrived' \in 0..Arrivals
  BY DEF NICAssumption, NicInv, PointsInv, NicTypeOK, FrameArrives
<1>4. PointsInv'
  BY <1>1, <1>3, Zenon DEF NicInv, PointsInv, NicTypeOK, FrameArrives
<1>5. SendInv' /\ NicDmaInv'
  BY <1>1, Zenon DEF NicInv, SendInv, NicDmaInv, nic_dmabusy
<1>6. \A u \in NicThreads : Called(u)' <=> Called(u)
  BY <1>1, Zenon DEF Called, Signalled
<1>7. ReceiveInv'
  BY <1>1, <1>6 DEF NicInv, ReceiveInv, FrameArrives
<1> QED  BY <1>2, <1>4, <1>5, <1>7, Zenon DEF NicInv

\* A transfer ends: its sender is on the queue, or about to join it.
LEMMA TransferStep ==
    ASSUME NICAssumption, NicInv, TransferEnds
    PROVE  NicInv'
<1>1. /\ UNCHANGED <<owner, depth, lock_waiting, sleeping, nic_pc>>
      /\ UNCHANGED <<rxbusy, rxirq, handler, panic, arrived>> /\ ~panic
      /\ dma' = NoThread /\ rbusy' = FALSE /\ sbusy' = FALSE
      /\ rirq' = (rirq \/ rbusy) /\ sirq' = (sirq \/ sbusy)
  BY Zenon DEF TransferEnds, monitor
<1>2. LockInv' /\ SleepInv'
  BY <1>1, DeviceStep, Zenon DEF NicInv, SleepInv
<1>3. PointsInv'
  BY <1>1, Zenon DEF NicInv, PointsInv, NicTypeOK
<1>4. NicDmaInv'
  BY <1>1, Zenon DEF NicInv, NicDmaInv, nic_dmabusy
<1>5. \A u \in NicThreads : Called(u)' <=> Called(u)
  BY <1>1, Zenon DEF Called, Signalled
<1>6. ReceiveInv'
  BY <1>1, <1>5, Zenon DEF NicInv, ReceiveInv
<1>7. SendInv'
  <2>1. sbusy => sleeping["csirq"] # <<>> \/ \E u \in NicThreads : nic_pc[u] = "sent"
    <3>1. Range(<<>>) = {}
      BY EmptyQueue, Zenon
    <3> QED  BY <3>1, Zenon DEF NicInv, NicDmaInv, NicThreads
  <2>2. sirq => sleeping["csirq"] # <<>> \/ \E u \in NicThreads : nic_pc[u] = "sent"
    BY Zenon DEF NicInv, SendInv
  <2> QED  BY <1>1, <2>1, <2>2, Zenon DEF SendInv, nic_dmabusy
<1> QED  BY <1>2, <1>3, <1>4, <1>6, <1>7, Zenon DEF NicInv
-----------------------------------------------------------------------------
\* The end of condition_wait, for each of the four conditions.
LEMMA WakeStep ==
    ASSUME NICAssumption, NicInv, NEW t \in NicThreads, condition_wait_end(t)
    PROVE  NicInv'
<1> DEFINE Way(c, from, p) == Signalled(t, c) /\ lock_acquire(t, from, p)
<1>1. \/ Way("csdma", "wait_csdma", "send") \/ Way("csirq", "wait_csirq", "release")
      \/ Way("crxirq", "wait_crxirq", "receive") \/ Way("crirq", "wait_crirq", "release")
  BY DEF condition_wait_end
<1>2. ASSUME NEW c, NEW from, NEW p, Way(c, from, p),
             \/ c = "csdma" /\ from = "wait_csdma" /\ p = "send"
             \/ c = "csirq" /\ from = "wait_csirq" /\ p = "release"
             \/ c = "crxirq" /\ from = "wait_crxirq" /\ p = "receive"
             \/ c = "crirq" /\ from = "wait_crirq" /\ p = "release"
      PROVE  NicInv'
  <2>1. /\ nic_pc[t] = from /\ t \notin Range(sleeping[c]) /\ Mon!Acquire(t, "nic") /\ NicGoto(t, p)
        /\ UNCHANGED <<device, handler, panic, arrived>>
    BY <1>2, Zenon DEF Signalled, lock_acquire
  <2>2. \A d \in Conds : t \notin Range(sleeping[d])
    BY <1>2, <2>1, Zenon DEF NicInv, SleepInv, Conds
  <2>3. /\ p = "send" => t \in Senders
        /\ p \in {"recv", "receive"} => t \in Receivers
    BY <1>2, <2>1, Zenon DEF NicInv, PointsInv
  <2>4. p = "receive" => Called(t)
    BY <1>2, <2>1, Zenon DEF Called, Signalled
  <2>5. p \in {"send", "recv", "receive", "release"} /\ nic_pc[t] \notin Inside
    BY <1>2, <2>1, Zenon DEF Inside
  <2> QED  BY <2>1, <2>2, <2>3, <2>4, <2>5, EnterStep, Zenon
<1> QED  BY <1>1, <1>2, Zenon

LEMMA NicNextInv == ASSUME NICAssumption, NicInv, [NicNext]_nic_vars PROVE NicInv'
<1>1. ASSUME NEW t \in NicThreads, nic_send(t) \/ nic_recv(t) PROVE NicInv'
  <2>1. /\ nic_pc[t] = "out" /\ Mon!Acquire(t, "nic")
        /\ \/ t \in Senders /\ NicGoto(t, "send")
           \/ t \in Receivers /\ NicGoto(t, "recv")
        /\ UNCHANGED <<device, handler, panic, arrived>>
    BY <1>1, Zenon DEF nic_send, nic_recv, lock_acquire
  <2>2. nic_pc[t] \notin Inside /\ \A d \in Conds : t \notin Range(sleeping[d])
    BY <2>1, Awake, Zenon DEF Inside
  <2> QED  BY <2>1, <2>2, EnterStep, Zenon
<1>2. ASSUME NEW t \in NicThreads,
             nic_send_test(t) \/ nic_send_wait(t) \/ nic_recv_wait(t) \/ nic_recv_command_wait(t)
      PROVE  NicInv'
  <2>1. CASE nic_send_test(t) /\ ~nic_dmabusy
    BY <2>1, SendTestStep, Zenon DEF nic_send_test
  <2>2. CASE ~(nic_send_test(t) /\ ~nic_dmabusy)
    <3>1. /\ owner["nic"] = t
          /\ \/ nic_pc[t] = "send" /\ condition_wait(t, "csdma", "wait_csdma")
             \/ nic_pc[t] = "sent" /\ condition_wait(t, "csirq", "wait_csirq")
             \/ nic_pc[t] = "recv" /\ condition_wait(t, "crxirq", "wait_crxirq")
             \/ nic_pc[t] = "received" /\ condition_wait(t, "crirq", "wait_crirq")
          /\ UNCHANGED <<device, handler, panic, arrived>>
      BY <1>2, <2>2, Zenon
      DEF nic_send_test, nic_send_wait, nic_recv_wait, nic_recv_command_wait, Has
    <3> QED  BY <3>1, WaitStep, Zenon DEF Conds, Points
  <2> QED  BY <2>1, <2>2, Zenon
<1>3. CASE UNCHANGED nic_vars
  <2>1. UNCHANGED <<owner, depth, lock_waiting, sleeping, nic_pc, rxbusy, rbusy, sbusy, rxirq, rirq,
                    sirq, dma, handler, panic, arrived>>
    BY <1>3, Zenon DEF nic_vars, monitor, device
  <2>2. LockInv' /\ SleepInv' /\ PointsInv'
    BY <2>1, SMTT(60) DEF NicInv, LockInv, SleepInv, PointsInv, NicTypeOK
  <2>3. ReceiveInv' /\ SendInv' /\ NicDmaInv'
    BY <2>1, Zenon DEF NicInv, ReceiveInv, SendInv, NicDmaInv, Called, Signalled, nic_dmabusy
  <2> QED  BY <2>2, <2>3, Zenon DEF NicInv
<1> QED
  BY <1>1, <1>2, <1>3, SendCommandStep, RecvCommandStep, WakeStep, ReleaseStep, RxirqStep,
     RirqStep, SirqStep, ArrivalStep, TransferStep, Zenon DEF NicNext, NicGoOn, NicHandler
-----------------------------------------------------------------------------
\* nic.c never frees or reuses a page under the device, never gives RECEIVE
\* without a frame and stops the kernel only where a RECEIVE meets the transfer
\* of a sender: for any senders, receivers and numbers of frames.
THEOREM FramesStay == ASSUME NICAssumption PROVE NicSpec => []FramesInUse
<1>1. NicInit => NicInv
  BY NicInitInv, Zenon
<1>2. NicInv /\ [NicNext]_nic_vars => NicInv'
  BY NicNextInv, Zenon
<1>3. NicInv => FramesInUse
  <2> SUFFICES ASSUME NicInv PROVE FramesInUse
    BY Zenon
  <2>1. /\ sbusy => dma \in NicThreads /\ nic_pc[dma] \in {"sent", "wait_csirq"}
        /\ rbusy => dma \in NicThreads /\ nic_pc[dma] \in {"received", "wait_crirq"}
    BY Zenon DEF NicInv, NicDmaInv, SleepInv, NicThreads
  <2> QED
    BY <2>1, Zenon DEF NicInv, NicDmaInv, PointsInv, ReceiveInv, FramesInUse, Signalled, nic_dmabusy
<1> QED  BY <1>1, <1>2, <1>3, PTL DEF NicSpec

-----------------------------------------------------------------------------
\* Each thread in the driver has a semaphore of its own.
SemInv ==
    /\ created = {sem[t] : t \in {u \in Threads : pc[u] # "out"}}
    /\ \A t, u \in Threads : sem[t] = sem[u] /\ sem[t] # NULL => t = u
    /\ \A t \in Threads : pc[t] = "out" <=> sem[t] = NULL

\* Until its request is served a caller finds nothing to take, and then once: the
\* semaphore has been raised before its P or its P has returned, with the result.
Told(t) ==
    IF t \in InFlight
    THEN /\ count[sem[t]] = 0
         /\ \/ pc[t] = "wait" /\ waiting[sem[t]] = <<>>
            \/ pc[t] = "P" /\ waiting[sem[t]] = <<t>>
    ELSE /\ waiting[sem[t]] = <<>>
         /\ count[sem[t]] = IF pc[t] = "wait" THEN 1 ELSE 0
         /\ pc[t] \in {"wait", "P"} => return_value[t] = 0

WaitInv == \A t \in Threads : pc[t] # "out" => Told(t)

\* Requests in flight are there once, and their callers wait.
QueueInv ==
    /\ IsInjective(request_queue)
    /\ request_served \notin Range(request_queue)
    /\ \A t \in InFlight : pc[t] \in {"wait", "P"}

\* The device works for the request being served.
HwInv ==
    /\ hw.status # "idle" \/ slock = "handler" => request_served # NULL
    /\ hw.status # "idle" => slock = "free"
    /\ hw.status = "busy" => hw.dmaaddr \in Threads

\* The rest of a vblock lies on the disk.
RestInv ==
    \A t \in Threads :
        /\ pc[t] = "next" => left[t] > 0
        /\ left[t] > 0 =>
            block[t] + left[t] + (IF pc[t] = "next" THEN 0 ELSE -1) <= LastBlock

IInv == TypeOK /\ SemInv /\ WaitInv /\ QueueInv /\ HwInv /\ RestInv
-----------------------------------------------------------------------------
LEMMA InitInv == Init => IInv
<1> SUFFICES ASSUME Init PROVE IInv
  BY Zenon
<1>1. SFS_BLOCKS_PER_VBLOCK \in Nat \ {0} /\ LastBlock \in Nat /\ 0 \in Blocks
  BY DiskAssumption DEF Blocks
<1>2. TypeOK
  <2>1. PICK v \in Values : buf = [t \in Threads |-> v] /\ store = [b \in Blocks |-> v]
    BY Zenon DEF Init
  <2>2. buf \in [Threads -> Values] /\ store \in [Blocks -> Values]
    BY <2>1, Zenon
  <2>3. hw \in [status : {"idle", "busy", "irq"}, command : {"READ", "WRITE"},
                tsector : Blocks, dmaaddr : Threads \cup {NULL}]
    BY <1>1, Zenon DEF Init, Idle
  <2>4. count \in [Semaphores -> Nat] /\ waiting \in [Semaphores -> Seq(Threads)]
    BY EmptyQueue, Zenon DEF Init, Sem!Init
  <2> QED  BY <1>1, <2>2, <2>3, <2>4, EmptyQueue DEF Init, TypeOK
<1>3. SemInv /\ WaitInv /\ RestInv
  BY <1>1 DEF Init, SemInv, WaitInv, RestInv
<1>4. QueueInv
  BY EmptyQueue, DiskAssumption, Zenon DEF Init, QueueInv, InFlight
<1>5. HwInv
  BY Zenon DEF Init, HwInv, Idle
<1> QED  BY <1>2, <1>3, <1>4, <1>5, Zenon DEF IInv

\* A step of t that touches neither queue nor device, and its own request at most.
LEMMA OwnStep ==
    ASSUME IInv, TypeOK', NEW t \in Threads, NEW p, Goto(t, p),
           UNCHANGED <<request_queue, request_served, slock, hw>>,
           p \in {"wait", "P"} \/ t \notin InFlight
    PROVE  QueueInv' /\ HwInv' /\ InFlight' = InFlight
<1>1. \A u \in Threads : pc'[u] = IF u = t THEN p ELSE pc[u]
  BY DEF IInv, TypeOK, Goto
<1>2. InFlight' = InFlight
  BY Zenon DEF InFlight
<1>3. InFlight \subseteq Threads
  BY EmptyIff DEF IInv, TypeOK, InFlight
<1>4. QueueInv'
  BY <1>1, <1>2, <1>3, Zenon DEF IInv, QueueInv
<1> QED  BY <1>2, <1>4, Zenon DEF IInv, HwInv

\* A call begins: its semaphore is new, so no other request uses it.
LEMMA StartStep ==
    ASSUME IInv, NEW t \in Threads, pc[t] = "out", semaphore_create(t), Goto(t, "submit"),
           NEW op \in {"READ", "WRITE"}, NEW b \in Blocks, NEW v \in Values, Fill(t, op, b, v),
           NEW n \in 0..SFS_BLOCKS_PER_VBLOCK, left' = [left EXCEPT ![t] = n],
           n > 0 => b + n - 1 <= LastBlock,
           UNCHANGED <<request_queue, request_served, slock, return_value, hw, store>>
    PROVE  IInv'
<1>1. PICK s \in Semaphores \ created :
        /\ waiting[s] = <<>> /\ count' = [count EXCEPT ![s] = 0] /\ UNCHANGED waiting
        /\ created' = created \cup {s} /\ sem' = [sem EXCEPT ![t] = s]
  BY Zenon DEF semaphore_create, Sem!Create
<1>2. /\ operation' \in [Threads -> {"READ", "WRITE"}] /\ block' \in [Threads -> Blocks]
      /\ buf' \in [Threads -> Values] /\ left' \in [Threads -> 0..SFS_BLOCKS_PER_VBLOCK]
      /\ \A u \in Threads : block'[u] = IF u = t THEN b ELSE block[u]
      /\ \A u \in Threads : left'[u] = IF u = t THEN n ELSE left[u]
  BY SMTT(60) DEF Fill, IInv, TypeOK
<1>3. /\ sem' \in [Threads -> Semaphores \cup {NULL}] /\ created' \in SUBSET Semaphores
      /\ count' \in [Semaphores -> Nat] /\ count'[s] = 0
      /\ \A r \in Semaphores \ {s} : count'[r] = count[r]
      /\ \A u \in Threads : sem'[u] = IF u = t THEN s ELSE sem[u]
  BY <1>1, Zenon DEF IInv, TypeOK
<1>4. /\ pc' \in [Threads -> {"out", "submit", "wait", "P", "next"}]
      /\ \A u \in Threads : pc'[u] = IF u = t THEN "submit" ELSE pc[u]
  BY Zenon DEF Goto, IInv, TypeOK
<1>5. TypeOK'
  BY <1>1, <1>2, <1>3, <1>4, Zenon DEF IInv, TypeOK
<1>6. t \notin InFlight
  BY Zenon DEF IInv, QueueInv
<1>7. QueueInv' /\ HwInv' /\ InFlight' = InFlight
  BY <1>5, <1>6, OwnStep, Zenon
<1>8. \A u \in Threads \ {t} : sem[u] # s
  BY <1>1, DiskAssumption, Zenon DEF IInv, SemInv
<1>9. SemInv'
  <2>1. created' = {sem'[u] : u \in {w \in Threads : pc'[w] # "out"}}
    BY <1>1, <1>3, <1>4 DEF IInv, SemInv
  <2> QED  BY <1>1, <1>3, <1>4, <1>8, <2>1, DiskAssumption DEF IInv, SemInv
<1>10. ASSUME NEW u \in Threads, pc'[u] # "out" PROVE Told(u)'
  <2>1. CASE u = t
    BY <1>1, <1>3, <1>4, <1>6, <1>7, <2>1, Zenon DEF Told
  <2>2. CASE u # t
    <3>1. Told(u) /\ pc'[u] = pc[u] /\ sem'[u] = sem[u] /\ sem[u] \in Semaphores \ {s}
      BY <1>3, <1>4, <1>8, <1>10, <2>2, SMTT(60) DEF IInv, WaitInv, SemInv, TypeOK
    <3> QED  BY <1>1, <1>3, <1>7, <3>1 DEF Told
  <2> QED  BY <2>1, <2>2, Zenon
<1>11. RestInv'
  <2>1. b \in Int /\ n \in Int /\ LastBlock \in Int
    BY DiskAssumption DEF Blocks
  <2>2. ASSUME NEW u \in Threads, left'[u] > 0
        PROVE  block'[u] + left'[u] + (IF pc'[u] = "next" THEN 0 ELSE -1) <= LastBlock
    <3>1. CASE u = t
      BY <1>2, <1>4, <2>1, <2>2, <3>1
    <3>2. CASE u # t
      BY <1>2, <1>4, <2>2, <3>2, Zenon DEF IInv, RestInv
    <3> QED  BY <3>1, <3>2, ZenonT(60)
  <2> QED  BY <1>2, <1>4, <2>2, Zenon DEF IInv, RestInv
<1> QED  BY <1>5, <1>7, <1>9, <1>10, <1>11, Zenon DEF IInv, WaitInv
-----------------------------------------------------------------------------
\* Starting the first request of a queue: all that were queued are in flight.
LEMMA NextRequest ==
    ASSUME IInv, NEW q \in Seq(Threads), IsInjective(q), disk_next_request(q),
           hw.status = "idle", slock' = "free"
    PROVE  /\ request_queue' \in Seq(Threads) /\ request_served' \in Threads \cup {NULL}
           /\ IsInjective(request_queue') /\ request_served' \notin Range(request_queue')
           /\ hw' \in [status : {"idle", "busy", "irq"}, command : {"READ", "WRITE"},
                       tsector : Blocks, dmaaddr : Threads \cup {NULL}]
           /\ HwInv' /\ InFlight' = Range(q)
<1>1. CASE q = <<>>
  <2>1. request_queue' = <<>> /\ request_served' = NULL /\ UNCHANGED hw
    BY <1>1, Zenon DEF disk_next_request
  <2>2. /\ request_queue' \in Seq(Threads) /\ Range(request_queue') = {} /\ Range(q) = {}
        /\ IsInjective(request_queue')
    BY <1>1, <2>1, EmptyQueue, Zenon
  <2>3. HwInv'
    BY <2>1, Zenon DEF HwInv
  <2> QED  BY <2>1, <2>2, <2>3, Zenon DEF InFlight, IInv, TypeOK
<1>2. CASE q # <<>>
  <2>1. /\ request_queue' = Tail(q) /\ request_served' = Head(q)
        /\ hw' = [status |-> "busy", command |-> operation[Head(q)],
                  tsector |-> block[Head(q)], dmaaddr |-> Head(q)]
    BY <1>2, Zenon DEF disk_next_request
  <2>2. Left(Threads, q, request_queue')
    BY <1>2, <2>1, AfterTail, Zenon
  <2>3. /\ request_served' \in Threads /\ request_served' \notin Range(request_queue')
        /\ request_queue' \in Seq(Threads) /\ IsInjective(request_queue')
        /\ Range(q) = Range(request_queue') \cup {request_served'}
    BY <2>1, <2>2, Zenon DEF Left
  <2>4. InFlight' = Range(q)
    BY <2>3, DiskAssumption, Zenon DEF InFlight
  <2>5. /\ hw' \in [status : {"idle", "busy", "irq"}, command : {"READ", "WRITE"},
                    tsector : Blocks, dmaaddr : Threads \cup {NULL}]
        /\ hw'.status = "busy" /\ hw'.dmaaddr \in Threads
    BY <2>1, <2>3, Zenon DEF IInv, TypeOK
  <2>6. HwInv'
    BY <2>3, <2>5, DiskAssumption, Zenon DEF HwInv
  <2> QED  BY <2>3, <2>4, <2>5, <2>6, Zenon
<1> QED  BY <1>1, <1>2, Zenon

LEMMA SubmitStep ==
    ASSUME IInv, NEW t \in Threads, disk_submit_request(t)
    PROVE  IInv'
<1> DEFINE q == Append(request_queue, t)
<1>1. /\ pc[t] = "submit" /\ slock = "free" /\ Goto(t, "wait")
      /\ UNCHANGED <<slock, request, buf, sems, store, left>>
      /\ IF request_served = NULL THEN disk_next_request(q)
         ELSE request_queue' = q /\ UNCHANGED <<request_served, hw>>
  BY Zenon DEF disk_submit_request, disksched_schedule
<1>2. t \notin InFlight /\ t \notin Range(request_queue) /\ t # request_served /\ t # NULL
  BY <1>1, DiskAssumption, Zenon DEF IInv, QueueInv, InFlight
<1>3. /\ q \in Seq(Threads) /\ IsInjective(q) /\ Range(q) = Range(request_queue) \cup {t}
  BY <1>2, AppendQueue DEF IInv, TypeOK, QueueInv
<1> HIDE DEF q
<1>4. /\ request_queue' \in Seq(Threads) /\ request_served' \in Threads \cup {NULL}
      /\ IsInjective(request_queue') /\ request_served' \notin Range(request_queue')
      /\ hw' \in [status : {"idle", "busy", "irq"}, command : {"READ", "WRITE"},
                  tsector : Blocks, dmaaddr : Threads \cup {NULL}]
      /\ HwInv' /\ InFlight' = InFlight \cup {t}
  <2>1. CASE request_served = NULL
    <3>1. hw.status = "idle" /\ InFlight = Range(request_queue) /\ slock' = "free"
      BY <1>1, <2>1, Zenon DEF IInv, HwInv, InFlight
    <3> QED  BY <1>1, <1>3, <2>1, <3>1, NextRequest, Zenon
  <2>2. CASE request_served # NULL
    <3>1. request_queue' = q /\ UNCHANGED <<request_served, hw, slock>>
      BY <1>1, <2>2, Zenon
    <3>2. InFlight' = InFlight \cup {t}
      BY <1>1, <1>3, <3>1, Zenon DEF InFlight
    <3> QED  BY <1>2, <1>3, <3>1, <3>2, Zenon DEF IInv, TypeOK, QueueInv, HwInv
  <2> QED  BY <2>1, <2>2, Zenon
<1>5. /\ pc' \in [Threads -> {"out", "submit", "wait", "P", "next"}]
      /\ \A u \in Threads : pc'[u] = IF u = t THEN "wait" ELSE pc[u]
  BY <1>1, Zenon DEF Goto, IInv, TypeOK
<1>6. TypeOK'
  BY <1>1, <1>4, <1>5, Zenon DEF IInv, TypeOK, request, sems
<1>7. QueueInv'
  <2>1. InFlight \subseteq Threads
    BY EmptyIff DEF IInv, TypeOK, InFlight
  <2> QED  BY <1>4, <1>5, <2>1, Zenon DEF IInv, QueueInv
<1>8. SemInv'
  <2>1. UNCHANGED <<sem, created>> /\ {w \in Threads : pc'[w] # "out"} = {w \in Threads : pc[w] # "out"}
    BY <1>1, <1>5, Zenon DEF request, sems
  <2> QED  BY <1>1, <1>5, <2>1 DEF IInv, SemInv
<1>9. ASSUME NEW u \in Threads, pc'[u] # "out" PROVE Told(u)'
  <2>1. UNCHANGED <<count, waiting, sem, return_value>> /\ Told(u)
    BY <1>1, <1>5, <1>9, Zenon DEF IInv, WaitInv, request, sems
  <2> QED  BY <1>1, <1>2, <1>4, <1>5, <2>1, Zenon DEF Told
<1>10. RestInv'
  BY <1>1, <1>5, ZenonT(60) DEF IInv, RestInv, request
<1> QED  BY <1>4, <1>6, <1>7, <1>8, <1>9, <1>10, Zenon DEF IInv, WaitInv
-----------------------------------------------------------------------------
\* t stays in the driver: everybody keeps its semaphore.
LEMMA SemsStay ==
    ASSUME IInv, NEW t \in Threads, NEW p \in {"submit", "wait", "P", "next"}, pc[t] # "out",
           Goto(t, p), UNCHANGED <<sem, created>>
    PROVE  /\ SemInv'
           /\ pc' \in [Threads -> {"out", "submit", "wait", "P", "next"}]
           /\ \A u \in Threads : pc'[u] = IF u = t THEN p ELSE pc[u]
<1>1. /\ pc' \in [Threads -> {"out", "submit", "wait", "P", "next"}]
      /\ \A u \in Threads : pc'[u] = IF u = t THEN p ELSE pc[u]
  BY Zenon DEF Goto, IInv, TypeOK
<1>2. {w \in Threads : pc'[w] # "out"} = {w \in Threads : pc[w] # "out"}
  BY <1>1, Zenon
<1> QED  BY <1>1, <1>2 DEF IInv, SemInv

\* The semaphore of a thread in the driver is its own.
LEMMA OwnSem ==
    ASSUME IInv, NEW t \in Threads, pc[t] # "out"
    PROVE  /\ sem[t] \in Semaphores /\ Told(t)
           /\ \A u \in Threads \ {t} : pc[u] # "out" => sem[u] \in Semaphores \ {sem[t]}
  BY Zenon DEF IInv, TypeOK, SemInv, WaitInv

LEMMA PStep ==
    ASSUME IInv, NEW t \in Threads, semaphore_P(t)
    PROVE  IInv'
<1> DEFINE s == sem[t]
<1>1. /\ pc[t] = "wait" /\ Goto(t, "P") /\ Sem!P(t, s)
      /\ UNCHANGED <<request_queue, request_served, slock, hw, store, left, buf>>
      /\ UNCHANGED <<operation, block, sem, return_value, created>>
  BY Zenon DEF semaphore_P, request
<1>2. /\ s \in Semaphores /\ Told(t)
      /\ \A u \in Threads \ {t} : pc[u] # "out" => sem[u] \in Semaphores \ {s}
  BY <1>1, OwnSem, Zenon
<1>3. /\ SemInv' /\ pc' \in [Threads -> {"out", "submit", "wait", "P", "next"}]
      /\ \A u \in Threads : pc'[u] = IF u = t THEN "P" ELSE pc[u]
  BY <1>1, SemsStay, Zenon
<1>4. waiting[s] = <<>> /\ count[s] = IF t \in InFlight THEN 0 ELSE 1
  BY <1>1, <1>2, Zenon DEF Told
<1>5. /\ count' \in [Semaphores -> Nat] /\ waiting' \in [Semaphores -> Seq(Threads)]
      /\ count'[s] = 0 /\ waiting'[s] = IF t \in InFlight THEN <<t>> ELSE <<>>
      /\ \A r \in Semaphores \ {s} : count'[r] = count[r] /\ waiting'[r] = waiting[r]
  <2>1. CASE t \in InFlight
    <3>1. waiting' = [waiting EXCEPT ![s] = Append(@, t)] /\ UNCHANGED count
      BY <1>1, <1>4, <2>1 DEF Sem!P
    <3>2. Append(waiting[s], t) = <<t>> /\ <<t>> \in Seq(Threads)
      BY <1>4
    <3> QED  BY <1>2, <1>4, <2>1, <3>1, <3>2, ZenonT(60) DEF IInv, TypeOK
  <2>2. CASE t \notin InFlight
    <3>1. count' = [count EXCEPT ![s] = @ - 1] /\ UNCHANGED waiting
      BY <1>1, <1>4, <2>2 DEF Sem!P
    <3>2. count'[s] = 0 /\ \A r \in Semaphores \ {s} : count'[r] = count[r]
      BY <1>2, <1>4, <2>2, <3>1 DEF IInv, TypeOK
    <3>3. count' \in [Semaphores -> Nat]
      BY <1>2, <1>4, <2>2, <3>1 DEF IInv, TypeOK
    <3> QED  BY <1>4, <2>2, <3>1, <3>2, <3>3, Zenon DEF IInv, TypeOK
  <2> QED  BY <2>1, <2>2, Zenon
<1>6. TypeOK'
  BY <1>1, <1>3, <1>5, Zenon DEF IInv, TypeOK
<1>7. QueueInv' /\ HwInv' /\ InFlight' = InFlight
  BY <1>1, <1>6, OwnStep, Zenon
<1>8. ASSUME NEW u \in Threads, pc'[u] # "out" PROVE Told(u)'
  <2>1. CASE u = t
    BY <1>1, <1>2, <1>3, <1>5, <1>7, <2>1, Zenon DEF Told
  <2>2. CASE u # t
    <3>1. Told(u) /\ sem[u] \in Semaphores \ {s} /\ pc'[u] = pc[u]
      BY <1>2, <1>3, <1>8, <2>2, Zenon DEF IInv, WaitInv
    <3> QED  BY <1>1, <1>5, <1>7, <3>1, Zenon DEF Told
  <2> QED  BY <2>1, <2>2, Zenon
<1>9. RestInv'
  BY <1>1, <1>3, Zenon DEF IInv, RestInv
<1> QED  BY <1>3, <1>6, <1>7, <1>8, <1>9, Zenon DEF IInv, WaitInv

\* Who has returned from P was told, and with the result.
LEMMA ReturnedTold ==
    ASSUME IInv, NEW t \in Threads, Returned(t)
    PROVE  t \notin InFlight /\ pc[t] = "P" /\ return_value[t] = 0
<1>1. pc[t] = "P" /\ Told(t) /\ t \notin Range(waiting[sem[t]])
  BY Zenon DEF Returned, IInv, WaitInv
<1>2. t \in Range(<<t>>)
  BY DEF Range
<1> QED  BY <1>1, <1>2, Zenon DEF Told

LEMMA EndStep ==
    ASSUME IInv, NEW t \in Threads, disk_submit_request_end(t)
    PROVE  IInv'
<1>1. t \notin InFlight /\ pc[t] = "P" /\ return_value[t] = 0
  BY ReturnedTold, Zenon DEF disk_submit_request_end
<1>2. /\ created' = created \ {sem[t]} /\ Forget(t) /\ Goto(t, "out")
      /\ left' = [left EXCEPT ![t] = 0]
      /\ UNCHANGED <<request_queue, request_served, slock, buf, count, waiting, hw, store>>
  BY <1>1, Zenon DEF disk_submit_request_end, Finish
<1>3. 0 \in Blocks /\ 0 \in 0..SFS_BLOCKS_PER_VBLOCK
  BY DiskAssumption DEF Blocks
<1>4. TypeOK'
  BY <1>2, <1>3, Zenon DEF IInv, TypeOK, Forget, Goto
<1>5. /\ \A u \in Threads : pc'[u] = IF u = t THEN "out" ELSE pc[u]
      /\ \A u \in Threads : sem'[u] = IF u = t THEN NULL ELSE sem[u]
      /\ \A u \in Threads : left'[u] = IF u = t THEN 0 ELSE left[u]
      /\ \A u \in Threads \ {t} : block'[u] = block[u] /\ return_value'[u] = return_value[u]
  BY <1>2, Zenon DEF IInv, TypeOK, Forget, Goto
<1>6. QueueInv' /\ HwInv' /\ InFlight' = InFlight
  BY <1>1, <1>2, <1>4, OwnStep, Zenon
<1>7. /\ sem[t] \in Semaphores
      /\ \A u \in Threads \ {t} : pc[u] # "out" => sem[u] \in Semaphores \ {sem[t]}
  BY <1>1, OwnSem, Zenon
<1>8. SemInv'
  <2>1. created' = {sem'[u] : u \in {w \in Threads : pc'[w] # "out"}}
    BY <1>2, <1>5, <1>7, SMTT(60) DEF IInv, SemInv
  <2> QED  BY <1>5, <2>1, SMTT(60) DEF IInv, SemInv
<1>9. ASSUME NEW u \in Threads, pc'[u] # "out" PROVE Told(u)'
  <2>1. u # t /\ Told(u)
    BY <1>5, <1>9, Zenon DEF IInv, WaitInv
  <2> QED  BY <1>2, <1>5, <1>6, <2>1, Zenon DEF Told
<1>10. RestInv'
  BY <1>5 DEF IInv, RestInv
<1> QED  BY <1>4, <1>6, <1>8, <1>9, <1>10, Zenon DEF IInv, WaitInv

\* Between two blocks of a vblock.
LEMMA BetweenStep ==
    ASSUME IInv, NEW t \in Threads, vblock_P_end(t)
    PROVE  IInv'
<1>1. t \notin InFlight /\ pc[t] = "P" /\ return_value[t] = 0
  BY ReturnedTold, Zenon DEF vblock_P_end
<1>2. /\ left[t] > 1 /\ left' = [left EXCEPT ![t] = @ - 1] /\ Goto(t, "next")
      /\ UNCHANGED <<request_queue, request_served, slock, buf, hw, store>>
      /\ UNCHANGED <<operation, block, sem, return_value, created, count, waiting>>
  BY Zenon DEF vblock_P_end, request, sems
<1>3. /\ SemInv' /\ pc' \in [Threads -> {"out", "submit", "wait", "P", "next"}]
      /\ \A u \in Threads : pc'[u] = IF u = t THEN "next" ELSE pc[u]
  BY <1>1, <1>2, SemsStay, Zenon
<1>4. /\ left' \in [Threads -> 0..SFS_BLOCKS_PER_VBLOCK] /\ left[t] \in Int
      /\ \A u \in Threads : left'[u] = IF u = t THEN left[t] - 1 ELSE left[u]
  BY <1>2, DiskAssumption DEF IInv, TypeOK
<1>5. TypeOK'
  BY <1>2, <1>3, <1>4, Zenon DEF IInv, TypeOK
<1>6. QueueInv' /\ HwInv' /\ InFlight' = InFlight
  BY <1>1, <1>2, <1>5, OwnStep, Zenon
<1>7. ASSUME NEW u \in Threads, pc'[u] # "out" PROVE Told(u)'
  <2>1. Told(u)
    BY <1>1, <1>3, <1>7, Zenon DEF IInv, WaitInv
  <2> QED  BY <1>1, <1>2, <1>3, <1>6, <2>1, Zenon DEF Told
<1>8. RestInv'
  <2>1. block[t] \in Int /\ LastBlock \in Int
    BY DiskAssumption, SMTT(60) DEF IInv, TypeOK, Blocks
  <2>2. block[t] + left[t] + -1 <= LastBlock
    <3>1. pc[t] # "next" /\ left[t] > 0
      BY <1>1, <1>2, <1>4
    <3> QED  BY <3>1, Zenon DEF IInv, RestInv
  <2>3. block[t] + (left[t] - 1) + 0 <= LastBlock /\ left[t] - 1 > 0
    BY <1>2, <1>4, <2>1, <2>2
  <2> QED  BY <1>2, <1>3, <1>4, <2>3, Zenon DEF IInv, RestInv
<1> QED  BY <1>3, <1>5, <1>6, <1>7, <1>8, Zenon DEF IInv, WaitInv

LEMMA NextBlockStep ==
    ASSUME IInv, NEW t \in Threads, NEW v \in Values, vblock_next(t, v)
    PROVE  IInv'
<1>1. /\ pc[t] = "next" /\ Goto(t, "submit") /\ Fill(t, operation[t], block[t] + 1, v)
      /\ return_value' = [return_value EXCEPT ![t] = -1]
      /\ UNCHANGED <<request_queue, request_served, slock, sem, hw, store, left>>
      /\ UNCHANGED <<created, count, waiting>>
  BY Zenon DEF vblock_next, sems
<1>2. t \notin InFlight
  BY <1>1, Zenon DEF IInv, QueueInv
<1>3. /\ block[t] \in Nat /\ left[t] \in Nat /\ left[t] > 0 /\ LastBlock \in Nat
      /\ block[t] + left[t] + 0 <= LastBlock
  BY <1>1, DiskAssumption DEF IInv, TypeOK, Blocks, RestInv
<1>4. block[t] + 1 \in Blocks
  BY <1>3, SMTT(60) DEF Blocks
<1>5. /\ SemInv' /\ pc' \in [Threads -> {"out", "submit", "wait", "P", "next"}]
      /\ \A u \in Threads : pc'[u] = IF u = t THEN "submit" ELSE pc[u]
  BY <1>1, SemsStay, Zenon
<1>6. /\ operation' \in [Threads -> {"READ", "WRITE"}] /\ block' \in [Threads -> Blocks]
      /\ buf' \in [Threads -> Values] /\ return_value' \in [Threads -> {-1, 0}]
      /\ \A u \in Threads : block'[u] = IF u = t THEN block[t] + 1 ELSE block[u]
      /\ \A u \in Threads \ {t} : return_value'[u] = return_value[u]
  BY <1>1, <1>4, Zenon DEF Fill, IInv, TypeOK
<1>7. TypeOK'
  BY <1>1, <1>5, <1>6, Zenon DEF IInv, TypeOK
<1>8. QueueInv' /\ HwInv' /\ InFlight' = InFlight
  BY <1>1, <1>2, <1>7, OwnStep, Zenon
<1>9. ASSUME NEW u \in Threads, pc'[u] # "out" PROVE Told(u)'
  <2>1. Told(u)
    BY <1>1, <1>5, <1>9, Zenon DEF IInv, WaitInv
  <2> QED  BY <1>1, <1>2, <1>5, <1>6, <1>8, <2>1, Zenon DEF Told
<1>10. RestInv'
  <2>1. block[t] + 1 + left[t] + -1 <= LastBlock
    BY <1>3
  <2> QED  BY <1>1, <1>5, <1>6, <2>1, Zenon DEF IInv, RestInv
<1> QED  BY <1>5, <1>7, <1>8, <1>9, <1>10, Zenon DEF IInv, WaitInv
-----------------------------------------------------------------------------
LEMMA IdleHw ==
    ASSUME NEW st \in {"idle", "busy", "irq"}
    PROVE  /\ Idle(st) \in [status : {"idle", "busy", "irq"}, command : {"READ", "WRITE"},
                            tsector : Blocks, dmaaddr : Threads \cup {NULL}]
           /\ Idle(st).status = st
<1>1. 0 \in Blocks
  BY DiskAssumption DEF Blocks
<1> QED  BY <1>1, Zenon DEF Idle

LEMMA DoneStep == ASSUME IInv, DiskDone PROVE IInv'
<1>1. /\ hw.status = "busy" /\ hw' = Idle("irq") /\ hw.dmaaddr \in Threads
      /\ hw.tsector \in Blocks
      /\ UNCHANGED <<request_queue, request_served, slock, pc, left>>
      /\ UNCHANGED <<operation, block, sem, return_value, created, count, waiting>>
  BY Zenon DEF DiskDone, IInv, HwInv, TypeOK, request, sems
<1>2. buf' \in [Threads -> Values] /\ store' \in [Blocks -> Values]
  BY <1>1, ZenonT(60) DEF DiskDone, IInv, TypeOK
<1>3. TypeOK'
  BY <1>1, <1>2, IdleHw, Zenon DEF IInv, TypeOK
<1>4. InFlight' = InFlight
  BY <1>1, Zenon DEF InFlight
<1>5. SemInv' /\ QueueInv' /\ RestInv'
  BY <1>1, <1>4, ZenonT(60) DEF IInv, SemInv, QueueInv, RestInv
<1>6. \A t \in Threads : Told(t)' <=> Told(t)
  BY <1>1, <1>4, Zenon DEF Told
<1>7. WaitInv'
  BY <1>1, <1>6, Zenon DEF IInv, WaitInv
<1>8. HwInv'
  BY <1>1, IdleHw, Zenon DEF IInv, HwInv
<1> QED  BY <1>3, <1>5, <1>7, <1>8, Zenon DEF IInv

\* The caller of the request being served is told, and its request is no longer
\* in flight.
LEMMA HandleStep == ASSUME IInv, disk_interrupt_handle PROVE IInv'
<1> DEFINE t == request_served
           s == sem[t]
<1>1. /\ slock = "free" /\ slock' = "handler" /\ hw.status = "irq" /\ hw' = Idle("idle")
      /\ return_value' = [return_value EXCEPT ![t] = 0] /\ Sem!V(s)
      /\ UNCHANGED <<request_queue, request_served, operation, block, sem, buf, created>>
      /\ UNCHANGED <<store, pc, left>>
  BY Zenon DEF disk_interrupt_handle
<1>2. t \in Threads /\ t \in InFlight /\ t \notin Range(request_queue)
  BY <1>1, Zenon DEF IInv, HwInv, TypeOK, InFlight, QueueInv
<1>3. /\ pc[t] \in {"wait", "P"} /\ s \in Semaphores /\ Told(t)
      /\ \A u \in Threads \ {t} : pc[u] # "out" => sem[u] \in Semaphores \ {s}
  <2>1. pc[t] \in {"wait", "P"}
    BY <1>2, Zenon DEF IInv, QueueInv
  <2> QED  BY <1>2, <2>1, OwnSem, Zenon
<1>4. InFlight' = InFlight \ {t}
  BY <1>1, <1>2, Zenon DEF InFlight
<1>5. /\ count' \in [Semaphores -> Nat] /\ waiting' \in [Semaphores -> Seq(Threads)]
      /\ waiting'[s] = <<>> /\ count'[s] = IF pc[t] = "wait" THEN 1 ELSE 0
      /\ \A r \in Semaphores \ {s} : count'[r] = count[r] /\ waiting'[r] = waiting[r]
  <2>1. CASE pc[t] = "wait"
    <3>1. count[s] = 0 /\ waiting[s] = <<>>
      BY <1>2, <1>3, <2>1, Zenon DEF Told
    <3>2. count' = [count EXCEPT ![s] = @ + 1] /\ UNCHANGED waiting
      BY <1>1, <3>1, Zenon DEF Sem!V
    <3> QED  BY <1>3, <2>1, <3>1, <3>2, SMTT(60) DEF IInv, TypeOK
  <2>2. CASE pc[t] = "P"
    <3>1. count[s] = 0 /\ waiting[s] = <<t>>
      BY <1>2, <1>3, <2>2, Zenon DEF Told
    <3>2. <<t>> # <<>> /\ Tail(<<t>>) = <<>> /\ <<>> \in Seq(Threads)
      OBVIOUS
    <3>3. waiting' = [waiting EXCEPT ![s] = Tail(@)] /\ UNCHANGED count
      BY <1>1, <3>1, <3>2, Zenon DEF Sem!V
    <3> QED  BY <1>3, <2>2, <3>1, <3>2, <3>3, SMTT(60) DEF IInv, TypeOK
  <2> QED  BY <1>3, <2>1, <2>2, Zenon
<1>6. /\ return_value' \in [Threads -> {-1, 0}] /\ return_value'[t] = 0
      /\ \A u \in Threads \ {t} : return_value'[u] = return_value[u]
  BY <1>1, <1>2, Zenon DEF IInv, TypeOK
<1> HIDE DEF t, s
<1>7. TypeOK'
  BY <1>1, <1>5, <1>6, IdleHw, Zenon DEF IInv, TypeOK
<1>8. SemInv' /\ QueueInv' /\ RestInv'
  BY <1>1, <1>4, Zenon DEF IInv, SemInv, QueueInv, RestInv
<1>9. HwInv'
  BY <1>1, <1>2, IdleHw, DiskAssumption, Zenon DEF HwInv, t
<1>10. ASSUME NEW u \in Threads, pc'[u] # "out" PROVE Told(u)'
  <2>1. CASE u = t
    BY <1>1, <1>3, <1>4, <1>5, <1>6, <2>1, Zenon DEF Told, s
  <2>2. CASE u # t
    <3>1. Told(u) /\ sem[u] \in Semaphores \ {s}
      BY <1>1, <1>3, <1>10, <2>2, Zenon DEF IInv, WaitInv
    <3> QED  BY <1>1, <1>4, <1>5, <1>6, <2>2, <3>1, Zenon DEF Told
  <2> QED  BY <2>1, <2>2, Zenon
<1> QED  BY <1>7, <1>8, <1>9, <1>10, Zenon DEF IInv, WaitInv

LEMMA HandleNextStep == ASSUME IInv, disk_interrupt_handle_next PROVE IInv'
<1>1. /\ slock = "handler" /\ slock' = "free" /\ disk_next_request(request_queue)
      /\ UNCHANGED <<operation, block, sem, return_value, created, count, waiting>>
      /\ UNCHANGED <<buf, store, pc, left>>
  BY Zenon DEF disk_interrupt_handle_next, request, sems
<1>2. hw.status = "idle" /\ InFlight = Range(request_queue)
  BY <1>1, Zenon DEF IInv, TypeOK, HwInv, InFlight
<1>3. /\ request_queue' \in Seq(Threads) /\ request_served' \in Threads \cup {NULL}
      /\ IsInjective(request_queue') /\ request_served' \notin Range(request_queue')
      /\ hw' \in [status : {"idle", "busy", "irq"}, command : {"READ", "WRITE"},
                  tsector : Blocks, dmaaddr : Threads \cup {NULL}]
      /\ HwInv' /\ InFlight' = InFlight
  BY <1>1, <1>2, NextRequest, Zenon DEF IInv, TypeOK, QueueInv
<1>4. TypeOK'
  BY <1>1, <1>3, Zenon DEF IInv, TypeOK
<1>5. SemInv' /\ QueueInv' /\ RestInv'
  BY <1>1, <1>3, SMTT(60) DEF IInv, SemInv, QueueInv, RestInv
<1>6. \A t \in Threads : Told(t)' <=> Told(t)
  BY <1>1, <1>3, Zenon DEF Told
<1> QED  BY <1>1, <1>3, <1>4, <1>5, <1>6, Zenon DEF IInv, WaitInv
-----------------------------------------------------------------------------
LEMMA CallStep ==
    ASSUME IInv, NEW t \in Threads, NEW op \in {"READ", "WRITE"}, NEW b \in Blocks,
           NEW v \in Values, disk_block(t, op, b, v) \/ vblock(t, op, b, v)
    PROVE  IInv'
<1>1. /\ SFS_BLOCKS_PER_VBLOCK \in Nat \ {0}
      /\ 0 \in 0..SFS_BLOCKS_PER_VBLOCK
      /\ SFS_BLOCKS_PER_VBLOCK \in 0..SFS_BLOCKS_PER_VBLOCK
  BY DiskAssumption
<1>2. CASE disk_block(t, op, b, v)
  <2>1. ~(0 > 0)
    OBVIOUS
  <2>2. /\ pc[t] = "out" /\ semaphore_create(t) /\ Fill(t, op, b, v) /\ Goto(t, "submit")
        /\ left' = [left EXCEPT ![t] = 0]
        /\ UNCHANGED <<request_queue, request_served, slock, return_value, hw, store>>
    BY <1>2, Zenon DEF disk_block
  <2> QED  BY <1>1, <2>1, <2>2, StartStep, Zenon
<1>3. CASE vblock(t, op, b, v)
  <2>1. b + SFS_BLOCKS_PER_VBLOCK - 1 <= LastBlock
    <3>1. b + SFS_BLOCKS_PER_VBLOCK - 1 \in Blocks
      BY <1>3, Zenon DEF vblock
    <3> HIDE <1>3
    <3> QED  BY <3>1, DiskAssumption DEF Blocks
  <2> QED  BY <1>1, <1>3, <2>1, StartStep, Zenon DEF vblock
<1> QED  BY <1>2, <1>3, Zenon

LEMMA NextInv == IInv /\ [Next]_vars => IInv'
<1> SUFFICES ASSUME IInv, [Next]_vars PROVE IInv'
  BY ZenonT(60)
<1>1. CASE UNCHANGED vars
  <2>1. /\ UNCHANGED <<request_queue, request_served, slock, hw, store, pc, left, buf>>
        /\ UNCHANGED <<operation, block, sem, return_value, created, count, waiting>>
    BY <1>1, Zenon DEF vars, request, sems
  <2> QED
    BY <2>1 DEF IInv, TypeOK, SemInv, WaitInv, Told, QueueInv, HwInv, RestInv, InFlight
<1>2. ASSUME NEW t \in Threads, NEW op \in {"READ", "WRITE"}, NEW b \in Blocks,
             NEW v \in Values, disk_block(t, op, b, v) \/ vblock(t, op, b, v)
      PROVE  IInv'
  BY <1>2, CallStep, Zenon
<1>3. ASSUME NEW t \in Threads, GoOn(t) PROVE IInv'
  BY <1>3, SubmitStep, PStep, EndStep, BetweenStep, NextBlockStep, Zenon DEF GoOn
<1>4. CASE DiskDone
  BY <1>4, DoneStep, Zenon
<1>5. CASE Handler
  BY <1>5, HandleStep, HandleNextStep, Zenon DEF Handler
<1> QED  BY <1>1, <1>2, <1>3, <1>4, <1>5, Zenon DEF Next

\* The driver holds a request once and only as long as its caller waits, callers
\* return with their result, semaphores are neither shared nor left behind, and the
\* assertions of disk.c hold, whatever threads, calls, blocks and semaphores there are.
THEOREM RequestsStayAlive == Spec => []RequestsAlive
<1>1. IInv => RequestsAlive
  <2> SUFFICES ASSUME IInv PROVE RequestsAlive
    BY Zenon
  <2>1. DriverAsserts
    BY Zenon DEF IInv, TypeOK, HwInv, DriverAsserts
  <2>2. ASSUME NEW t \in InFlight
        PROVE  pc[t] \in {"wait", "P"} /\ ~Returned(t) /\ sem[t] \in created
    <3>1. t \in Threads
      BY EmptyIff DEF IInv, TypeOK, InFlight
    <3>2. pc[t] \in {"wait", "P"}
      BY Zenon DEF IInv, QueueInv
    <3>3. ~Returned(t)
      BY <3>1, ReturnedTold, Zenon
    <3> QED  BY <3>1, <3>2, <3>3, Zenon DEF IInv, SemInv
  <2>3. \A t \in Threads : Returned(t) => return_value[t] = 0
    BY ReturnedTold, Zenon
  <2> QED  BY <2>1, <2>2, <2>3, Zenon DEF IInv, SemInv, QueueInv, RequestsAlive
<1> QED  BY <1>1, InitInv, NextInv, PTL DEF Spec
-----------------------------------------------------------------------------
(* The refinement: a request is in line until the device has performed it. *)

Want(t) == IF pc[t] = "out" THEN NULL ELSE [op |-> operation[t], block |-> block[t]]
Wants == [t \in Threads |-> Want(t)]
Line == IF hw.status = "busy" THEN <<request_served>> \o request_queue ELSE request_queue
Open == {t \in Threads : pc[t] \in {"wait", "P"}}

\* The registers of the device hold the request being served.
DmaInv ==
    hw.status = "busy" => /\ hw.dmaaddr = request_served
                          /\ hw.command = operation[request_served]
                          /\ hw.tsector = block[request_served]

\* A step that starts no transfer and changes the request of nobody in flight.
LEMMA DmaKept ==
    ASSUME IInv, DmaInv, NEW t \in Threads \cup {NULL}, t \notin InFlight,
           UNCHANGED <<hw, request_served>>,
           \A u \in Threads \ {t} : operation'[u] = operation[u] /\ block'[u] = block[u]
    PROVE  DmaInv'
<1>1. hw.status = "busy" => request_served \in Threads \ {t}
  BY Zenon DEF IInv, HwInv, TypeOK, InFlight
<1> QED  BY <1>1, Zenon DEF DmaInv

LEMMA DmaStarted ==
    ASSUME IInv, DmaInv, NEW q \in Seq(Threads), disk_next_request(q), hw.status = "idle",
           UNCHANGED <<operation, block>>
    PROVE  DmaInv' /\ Line' = q
<1>1. CASE q = <<>>
  BY <1>1, Zenon DEF disk_next_request, DmaInv, Line
<1>2. CASE q # <<>>
  <2>1. /\ request_queue' = Tail(q) /\ request_served' = Head(q) /\ hw'.status = "busy"
        /\ hw'.command = operation[Head(q)] /\ hw'.tsector = block[Head(q)]
        /\ hw'.dmaaddr = Head(q)
    BY <1>2 DEF disk_next_request
  <2>2. <<Head(q)>> \o Tail(q) = q
    BY <1>2, HeadAndTail, Zenon
  <2> QED  BY <2>1, <2>2, Zenon DEF DmaInv, Line
<1> QED  BY <1>1, <1>2, Zenon

\* Whoever is not in the driver's hands is not in line.
LEMMA LineInFlight ==
    ASSUME IInv
    PROVE  Range(Line) \subseteq InFlight
<1>1. CASE hw.status = "busy"
  <2>1. request_served \in Threads /\ request_queue \in Seq(Threads) /\ slock = "free"
    BY <1>1, Zenon DEF IInv, TypeOK, HwInv
  <2>2. Range(<<request_served>> \o request_queue) = Range(request_queue) \cup {request_served}
    BY <2>1, ServedQueue, Zenon
  <2> QED  BY <1>1, <2>1, <2>2, DiskAssumption, Zenon DEF Line, InFlight
<1>2. CASE hw.status # "busy"
  BY <1>2, Zenon DEF Line, InFlight
<1> QED  BY <1>1, <1>2, Zenon

LEMMA InitMaps == Init => DmaInv /\ Device!Init
<1> SUFFICES ASSUME Init PROVE DmaInv /\ Device!Init
  BY Zenon
<1>1. /\ hw.status = "idle" /\ request_queue = <<>> /\ \A t \in Threads : pc[t] = "out"
  BY Zenon DEF Init, Idle
<1>2. PICK v \in Values : buf = [t \in Threads |-> v] /\ store = [b \in Blocks |-> v]
  BY Zenon DEF Init
<1>3. buf \in [Threads -> Values] /\ store \in [Blocks -> Values]
  BY <1>2, Zenon
<1> QED  BY <1>1, <1>3, Zenon DEF DmaInv, Device!Init

\* The functions of the mapping have their domains.
LEMMA WantsOf ==
    /\ Wants = [t \in Threads |-> Wants[t]] /\ Wants' = [t \in Threads |-> Wants'[t]]
    /\ \A t \in Threads : Wants[t] = Want(t) /\ Wants'[t] = Want(t)'
  BY Zenon DEF Wants

\* The caller fills the request, for a first block or for the next one.
LEMMA FillMaps ==
    ASSUME IInv, DmaInv, NEW t \in Threads, pc[t] \in {"out", "next"},
           NEW op \in {"READ", "WRITE"}, NEW b \in Blocks, NEW v \in Values,
           Fill(t, op, b, v), Goto(t, "submit"),
           UNCHANGED <<request_queue, request_served, slock, hw, store>>
    PROVE  DmaInv' /\ Device!Prepare(t)
<1>1. /\ TypeOK /\ t \notin InFlight
  BY Zenon DEF IInv, QueueInv
<1>2. /\ operation' = [operation EXCEPT ![t] = op] /\ block' = [block EXCEPT ![t] = b]
      /\ pc' = [pc EXCEPT ![t] = "submit"]
      /\ buf' = [buf EXCEPT ![t] = IF op = "READ" THEN buf[t] ELSE v]
  BY <1>1, Zenon DEF Fill, Goto, TypeOK
<1>3. DmaInv'
  BY <1>1, <1>2, DmaKept, Zenon DEF TypeOK
<1>4. Line' = Line
  BY Zenon DEF Line
<1>5. Open' = Open /\ t \notin Open
  BY <1>1, <1>2, Zenon DEF Open, TypeOK
<1>6. Wants' = [Wants EXCEPT ![t] = [op |-> op, block |-> b]]
  <2>1. Want(t)' = [op |-> op, block |-> b]
    BY <1>1, <1>2, Zenon DEF Want, TypeOK
  <2>2. \A u \in Threads \ {t} : Want(u)' = Want(u)
    BY <1>1, <1>2, SMTT(60) DEF Want, TypeOK
  <2> QED  BY <2>1, <2>2, WantsOf, SMTT(60)
<1>7. (IF op = "READ" THEN buf[t] ELSE v) \in Values
  BY <1>1, Zenon DEF TypeOK
<1>8. PICK w \in Values : buf' = [buf EXCEPT ![t] = w]
  BY <1>2, <1>7, Zenon
<1> QED
  BY <1>3, <1>4, <1>5, <1>6, <1>8, Zenon DEF Device!Prepare, Wants, Want, Line, Open

LEMMA SubmitMaps ==
    ASSUME IInv, DmaInv, NEW t \in Threads, disk_submit_request(t)
    PROVE  DmaInv' /\ Device!Submit(t)
<1>1. /\ TypeOK /\ pc[t] = "submit" /\ pc' = [pc EXCEPT ![t] = "wait"] /\ slock = "free"
      /\ UNCHANGED <<operation, block, buf, store>> /\ request_queue \in Seq(Threads)
      /\ DOMAIN pc = Threads
  BY Zenon DEF IInv, disk_submit_request, Goto, request, TypeOK
<1>2. PICK q : q = Append(request_queue, t)
  BY Zenon
<1>3. q \in Seq(Threads)
  BY <1>1, <1>2, AppendQueue, Zenon
<1>4. DmaInv' /\ Line' = Append(Line, t)
  <2>1. CASE request_served = NULL
    <3>1. disk_next_request(q) /\ hw.status = "idle"
      BY <1>2, <2>1, Zenon DEF disk_submit_request, disksched_schedule, IInv, HwInv, TypeOK
    <3>2. DmaInv' /\ Line' = q
      BY <1>1, <1>3, <3>1, DmaStarted, Zenon
    <3> QED  BY <1>2, <3>1, <3>2, Zenon DEF Line
  <2>2. CASE request_served # NULL
    <3>1. request_queue' = q /\ UNCHANGED <<request_served, hw>> /\ request_served \in Threads
      BY <1>1, <1>2, <2>2, Zenon DEF disk_submit_request, disksched_schedule, TypeOK
    <3>2. DmaInv'
      BY <1>1, <3>1, Zenon DEF DmaInv
    <3>3. <<request_served>> \o Append(request_queue, t)
            = Append(<<request_served>> \o request_queue, t)
      BY <1>1, <3>1, ServedQueue
    <3> QED  BY <1>2, <3>1, <3>2, <3>3, Zenon DEF Line
  <2> QED  BY <2>1, <2>2, Zenon
<1>5. Open' = Open \cup {t} /\ t \notin Open
  BY <1>1, Zenon DEF Open
<1>6. Wants' = Wants
  <2>1. \A u \in Threads : Want(u)' = Want(u)
    BY <1>1, Zenon DEF Want
  <2> QED  BY <2>1, WantsOf, SMTT(60)
<1>7. Wants[t] # NULL
  <2>1. [op |-> operation[t], block |-> block[t]] \in [op : {"READ", "WRITE"}, block : Blocks]
    BY <1>1, Zenon DEF TypeOK
  <2> QED  BY <1>1, <2>1, WantsOf, DiskAssumption, Zenon DEF Want
<1> QED
  BY <1>1, <1>4, <1>5, <1>6, <1>7, Zenon DEF Device!Submit, Wants, Want, Line, Open

\* A step after which everybody wants the same and waits as before.
LEMMA StutterMaps ==
    ASSUME UNCHANGED <<operation, block, buf, store>>, Line' = Line,
           \A u \in Threads : pc'[u] = pc[u] \/ (pc[u] = "wait" /\ pc'[u] = "P")
    PROVE  UNCHANGED <<store, buf, Wants, Line, Open>>
<1>1. \A u \in Threads : Want(u)' = Want(u)
  BY Zenon DEF Want
<1>2. Open' = Open
  BY Zenon DEF Open
<1> QED  BY <1>1, <1>2, WantsOf, SMTT(60)

LEMMA DoneMaps ==
    ASSUME IInv, DmaInv, DiskDone
    PROVE  DmaInv' /\ Device!Perform
<1>1. /\ TypeOK /\ hw.status = "busy" /\ hw' = Idle("irq") /\ hw'.status = "irq"
      /\ UNCHANGED <<request_queue, request_served, operation, block, pc>>
  BY Zenon DEF IInv, DiskDone, request, Idle
<1>2. PICK t \in Threads : t = request_served
  BY <1>1, Zenon DEF IInv, HwInv, TypeOK
<1>3. hw.dmaaddr = t /\ hw.command = operation[t] /\ hw.tsector = block[t]
  BY <1>1, <1>2, Zenon DEF DmaInv
<1>4. t \in InFlight
  BY <1>1, <1>2, DiskAssumption, Zenon DEF IInv, HwInv, InFlight
<1>5. pc[t] # "out"
  BY <1>4, Zenon DEF IInv, QueueInv
<1>6. DmaInv'
  BY <1>1, Zenon DEF DmaInv
<1>7. request_queue \in Seq(Threads)
  BY <1>1, Zenon DEF TypeOK
<1>8. Line = <<t>> \o request_queue /\ Line' = request_queue
  BY <1>1, <1>2, Zenon DEF Line
<1>9. Line # <<>> /\ Head(Line) = t /\ Line' = Tail(Line)
  BY <1>7, <1>8, ServedQueue, SMTT(60)
<1>10. Wants' = Wants /\ Open' = Open
  BY <1>1, Zenon DEF Wants, Want, Open
<1>11. Wants[t].op = operation[t] /\ Wants[t].block = block[t]
  BY <1>5, WantsOf, SMTT(60) DEF Want
<1>12. IF Wants[t].op = "READ"
       THEN buf' = [buf EXCEPT ![t] = store[Wants[t].block]] /\ UNCHANGED store
       ELSE store' = [store EXCEPT ![Wants[t].block] = buf[t]] /\ UNCHANGED buf
  BY <1>3, <1>11, SMTT(60) DEF DiskDone
<1> QED
  BY <1>6, <1>9, <1>10, <1>12, Zenon DEF Device!Perform, Wants, Want, Line, Open

LEMMA ReturnMaps ==
    ASSUME IInv, DmaInv, NEW t \in Threads,
           disk_submit_request_end(t) \/ vblock_P_end(t)
    PROVE  DmaInv' /\ Device!Return(t)
<1>1. /\ TypeOK /\ t \notin InFlight /\ pc[t] = "P" /\ DOMAIN pc = Threads
      /\ DOMAIN operation = Threads /\ DOMAIN block = Threads
      /\ UNCHANGED <<request_queue, request_served, hw, buf, store>>
  BY ReturnedTold, Zenon DEF IInv, disk_submit_request_end, vblock_P_end, TypeOK
<1>2. PICK p \in {"out", "next"} :
        /\ pc' = [pc EXCEPT ![t] = p]
        /\ \A u \in Threads \ {t} : operation'[u] = operation[u] /\ block'[u] = block[u]
        /\ p = "next" => operation' = operation /\ block' = block
  <2>1. CASE disk_submit_request_end(t)
    BY <1>1, <2>1, Zenon DEF disk_submit_request_end, Finish, Forget, Goto
  <2>2. CASE vblock_P_end(t)
    BY <2>2, Zenon DEF vblock_P_end, Goto, request
  <2> QED  BY <2>1, <2>2, Zenon
<1>3. DmaInv'
  BY <1>1, <1>2, DmaKept, Zenon
<1>4. Line' = Line /\ t \notin Range(Line)
  BY <1>1, LineInFlight, Zenon DEF Line
<1>5. t \in Open /\ Open' = Open \ {t}
  BY <1>1, <1>2, Zenon DEF Open
<1>6. \A u \in Threads \ {t} : Wants'[u] = Wants[u]
  <2>1. ASSUME NEW u \in Threads \ {t} PROVE Want(u)' = Want(u)
    BY <1>1, <1>2, Zenon DEF Want
  <2> QED  BY <2>1, WantsOf, Zenon
<1>7. Wants'[t] = IF p = "out" THEN NULL ELSE Wants[t]
  <2>1. pc'[t] = p
    BY <1>1, <1>2, Zenon
  <2>2. Want(t)' = IF p = "out" THEN NULL ELSE Want(t)
    BY <1>1, <1>2, <2>1, Zenon DEF Want
  <2> QED  BY <2>2, WantsOf, Zenon
<1>8. Wants' = Wants \/ Wants' = [Wants EXCEPT ![t] = NULL]
  BY <1>6, <1>7, WantsOf, Zenon
<1>9. t \notin Device!Range(Line)
  BY <1>4, Zenon DEF Device!Range, Range
<1> QED
  BY <1>1, <1>3, <1>4, <1>5, <1>8, <1>9, Zenon DEF Device!Return, Wants, Want, Line, Open

\* The semaphore and the handler do not show.
LEMMA HiddenMaps ==
    ASSUME IInv, DmaInv, Handler \/ \E t \in Threads : semaphore_P(t)
    PROVE  DmaInv' /\ UNCHANGED <<store, buf, Wants, Line, Open>>
<1>1. CASE \E t \in Threads : semaphore_P(t)
  <2>1. PICK t \in Threads : semaphore_P(t)
    BY <1>1, Zenon
  <2>2. /\ UNCHANGED <<request_queue, request_served, hw, operation, block, buf, store>>
        /\ pc[t] = "wait" /\ pc' = [pc EXCEPT ![t] = "P"] /\ DOMAIN pc = Threads
    BY <2>1, Zenon DEF IInv, TypeOK, semaphore_P, Goto, request
  <2>3. \A u \in Threads : pc'[u] = pc[u] \/ (pc[u] = "wait" /\ pc'[u] = "P")
    BY <2>2, Zenon
  <2>4. DmaInv' /\ Line' = Line
    BY <2>2, Zenon DEF DmaInv, Line
  <2> QED  BY <2>2, <2>3, <2>4, StutterMaps, Zenon
<1>2. CASE disk_interrupt_handle
  <2>1. /\ UNCHANGED <<request_queue, operation, block, buf, store, pc>>
        /\ hw.status = "irq" /\ hw'.status = "idle"
    BY <1>2, Zenon DEF disk_interrupt_handle, Idle
  <2>2. DmaInv' /\ Line' = Line
    BY <2>1, Zenon DEF DmaInv, Line
  <2> QED  BY <2>1, <2>2, StutterMaps, Zenon
<1>3. CASE disk_interrupt_handle_next
  <2>1. /\ disk_next_request(request_queue) /\ UNCHANGED <<operation, block, buf, store, pc>>
        /\ hw.status = "idle" /\ request_queue \in Seq(Threads)
    BY <1>3, Zenon DEF disk_interrupt_handle_next, request, IInv, HwInv, TypeOK
  <2>2. PICK q \in Seq(Threads) : q = request_queue
    BY <2>1, Zenon
  <2>3. DmaInv' /\ Line' = q
    BY <2>1, <2>2, DmaStarted, Zenon
  <2>4. Line = q
    BY <2>1, <2>2, Zenon DEF Line
  <2> QED  BY <2>1, <2>3, <2>4, StutterMaps, Zenon
<1> QED  BY <1>1, <1>2, <1>3, Zenon DEF Handler

LEMMA NextMaps ==
    ASSUME IInv, IInv', DmaInv, [Next]_vars
    PROVE  DmaInv' /\ (Device!Next \/ UNCHANGED <<store, buf, Wants, Line, Open>>)
<1>1. CASE UNCHANGED vars
  <2>1. UNCHANGED <<request_queue, request_served, hw, operation, block, buf, store, pc>>
    BY <1>1, Zenon DEF vars, request
  <2>2. DmaInv' /\ Line' = Line
    BY <2>1, Zenon DEF DmaInv, Line
  <2> QED  BY <2>1, <2>2, StutterMaps, Zenon
<1>2. ASSUME NEW t \in Threads, NEW op \in {"READ", "WRITE"}, NEW b \in Blocks,
             NEW v \in Values, disk_block(t, op, b, v) \/ vblock(t, op, b, v)
      PROVE  DmaInv' /\ Device!Next
  <2>1. DmaInv' /\ Device!Prepare(t)
    BY <1>2, FillMaps, Zenon DEF disk_block, vblock
  <2> QED  BY <2>1, Zenon DEF Device!Next
<1>3. ASSUME NEW t \in Threads, NEW v \in Values, vblock_next(t, v)
      PROVE  DmaInv' /\ Device!Next
  <2>1. PICK op \in {"READ", "WRITE"}, b \in Blocks : op = operation[t] /\ b = block[t] + 1
    <3>1. block'[t] = block[t] + 1 /\ block'[t] \in Blocks /\ operation[t] \in {"READ", "WRITE"}
      BY <1>3, ZenonT(60) DEF IInv, TypeOK, vblock_next, Fill
    <3> QED  BY <3>1, Zenon
  <2>2. DmaInv' /\ Device!Prepare(t)
    BY <1>3, <2>1, FillMaps, Zenon DEF vblock_next
  <2> QED  BY <2>2, Zenon DEF Device!Next
<1>4. ASSUME NEW t \in Threads, disk_submit_request(t) PROVE DmaInv' /\ Device!Next
  BY <1>4, SubmitMaps, Zenon DEF Device!Next
<1>5. ASSUME NEW t \in Threads, disk_submit_request_end(t) \/ vblock_P_end(t)
      PROVE  DmaInv' /\ Device!Next
  BY <1>5, ReturnMaps, Zenon DEF Device!Next
<1>6. CASE DiskDone
  BY <1>6, DoneMaps, Zenon DEF Device!Next
<1> QED
  BY <1>1, <1>2, <1>3, <1>4, <1>5, <1>6, HiddenMaps, Zenon DEF Next, GoOn

\* disk.c and disksched.c implement the block device: each request is performed
\* once, in the order of submission, with the buffer and the block of its caller,
\* who returns only afterwards, for any threads, calls, blocks and contents.
THEOREM DiskIsBlockDevice == Spec => ImplementsBlockDevice
<1>1. Init => IInv /\ DmaInv /\ Device!Init
  BY InitInv, InitMaps, Zenon
<1>2. IInv /\ DmaInv /\ [Next]_vars => IInv' /\ DmaInv'
  BY NextInv, NextMaps, Zenon
<1>3. IInv /\ IInv' /\ DmaInv /\ [Next]_vars => [Device!Next]_<<store, buf, Wants, Line, Open>>
  BY NextMaps, Zenon
<1> QED
  BY <1>1, <1>2, <1>3, PTL
     DEF Spec, ImplementsBlockDevice, Device!Spec, Wants, Want, Line, Open
=============================================================================
