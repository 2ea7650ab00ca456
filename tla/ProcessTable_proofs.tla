------------------------ MODULE ProcessTable_proofs ------------------------
(***************************************************************************)
(* The process table, for any number of threads and entries.               *)
(***************************************************************************)
EXTENDS ProcessTable, TLAPS

Execs == {"exec_lock", "exec_test", "exec_wait"}
Joins == {"join_lock", "join_test", "join_wait"}
Starting == {"nonready", "start", "start_table", "load", "start_fail"}
InTable == {"load", "user", "exit_table", "exit_loop"} \cup Execs \cup Joins

\* A thread has an entry from process_start's search to exit.
ThreadInv ==
    \A t \in Tids :
        /\ userland_pid[t] # NO_PID <=> proc_pc[t] \in InTable
        /\ userland_pid[t] # NO_PID => tid[userland_pid[t]] = t
        /\ ready[t] => proc_pc[t] \in Execs
        /\ child_pid[t] # NO_PID => ready[t]
        /\ proc_pc[t] \in Joins => arg[t] # NO_PID

EntryInv == \A p \in Procs : tid[p] # NO_TID => userland_pid[tid[p]] = p

\* A parent inside execp has one child whose start has not come to an end.
CreatorInv ==
    \A c \in Tids :
        /\ proc_pc[c] \in {"nonready", "start"} => creator[c] # NO_TID
        /\ creator[c] # NO_TID =>
            /\ proc_pc[c] \in Starting /\ proc_pc[creator[c]] \in Execs /\ ~ready[creator[c]]
            /\ \A d \in Tids : creator[d] = creator[c] => d = c

\* Entries are numbered in the order in which they are handed out, and a list
\* belongs to a process that has been loaded.
FamilyInv ==
    /\ \A p \in Procs :
        /\ family[p] \subseteq listed[p]
        /\ tid[p] = NO_TID => listed[p] = {}
        /\ tid[p] # NO_TID => (proc_pc[tid[p]] = "load" => listed[p] = {})
        /\ inc[p] <= starts
    /\ \A p, q \in Procs : q \in listed[p] => 0 < inc[q]
    /\ \A p, q \in Procs : 0 < inc[p] /\ inc[p] = inc[q] => p = q

\* Along a list the numbers fall, without a gap.
ListInv ==
    /\ \A p, q, s \in Procs : q \in listed[p] /\ q \in listed[s] => p = s
    /\ \A p \in Procs : tid[p] # NO_TID =>
        /\ last_child_pid[p] = NO_PID => listed[p] = {}
        /\ last_child_pid[p] # NO_PID =>
            /\ last_child_pid[p] \in listed[p]
            /\ \A s \in listed[p] : inc[s] <= inc[last_child_pid[p]]
    /\ \A p, q \in Procs : q \in listed[p] =>
        /\ next[q] = NO_PID => \A s \in listed[p] : inc[q] <= inc[s]
        /\ next[q] # NO_PID =>
            /\ next[q] \in listed[p] /\ inc[next[q]] < inc[q]
            /\ \A s \in listed[p] : inc[s] < inc[q] => inc[s] <= inc[next[q]]

\* exit has not yet come to q on the list of p.
Due(p, q) ==
    tid[p] # NO_TID /\ proc_pc[tid[p]] = "exit_loop" =>
        arg[tid[p]] # NO_PID /\ inc[q] <= inc[arg[tid[p]]]

KinInv ==
    /\ \A p, q \in Procs : parent_pid[q] = p <=> q \in family[p] /\ Due(p, q)
    /\ \A t \in Tids :
        /\ child_pid[t] # NO_PID => child_pid[t] - 1 \in family[userland_pid[t]]
        /\ proc_pc[t] \in Joins => inc[arg[t]] = joined[t] /\ parent_pid[arg[t]] = userland_pid[t]
        /\ proc_pc[t] = "exit_loop" => arg[t] = NO_PID \/ arg[t] \in listed[userland_pid[t]]
        /\ proc_pc[t] = "load" /\ creator[t] # NO_TID =>
              parent_pid[userland_pid[t]] = userland_pid[creator[t]]

BaseInv == ProcessTypeOK /\ ThreadInv /\ EntryInv /\ CreatorInv /\ FamilyInv
IInv == BaseInv /\ (intact => ListInv /\ KinInv)
-----------------------------------------------------------------------------
LEMMA InitInv == ProcessAssumption /\ ProcessInit => IInv
<1> SUFFICES ASSUME ProcessAssumption, ProcessInit PROVE IInv
  BY Zenon
<1>1. ProcessTypeOK
  BY DEF ProcessInit, ProcessTypeOK, Pcs, Procs, NO_PID, NO_RETVAL, ProcessAssumption
<1>2. ThreadInv /\ EntryInv /\ CreatorInv
  BY Zenon DEF ProcessInit, ThreadInv, EntryInv, CreatorInv, InTable, Execs, Joins
<1>3. FamilyInv
  BY DEF ProcessInit, FamilyInv
<1>4. ListInv
  BY Zenon DEF ProcessInit, ListInv
<1>5. KinInv
  BY DEF ProcessInit, KinInv, Joins, Due, Procs, NO_PID
<1> QED  BY <1>1, <1>2, <1>3, <1>4, <1>5, Zenon DEF IInv, BaseInv

\* A step that leaves the entries alone: a thread keeps its entry, starts a loop of
\* exit at the last child, joins a child, or learns the pid of a child.
Quiet ==
    /\ UNCHANGED <<tid, parent_pid, next, last_child_pid, userland_pid, starts, inc, family,
                   listed, intact>>
    /\ \A t \in Tids :
        /\ proc_pc'[t] \in InTable <=> proc_pc[t] \in InTable
        /\ proc_pc'[t] = "load" => proc_pc[t] = "load" /\ creator'[t] = creator[t]
        /\ proc_pc[t] = "exit_loop" => proc_pc'[t] = "exit_loop"
        /\ proc_pc'[t] = "exit_loop" => IF proc_pc[t] = "exit_loop" THEN arg'[t] = arg[t]
                                   ELSE arg'[t] = last_child_pid[userland_pid[t]]
        /\ proc_pc'[t] \in Joins =>
              \/ proc_pc[t] \in Joins /\ arg'[t] = arg[t] /\ joined'[t] = joined[t]
              \/ /\ arg'[t] # NO_PID /\ joined'[t] = inc[arg'[t]]
                 /\ parent_pid[arg'[t]] = userland_pid[t]
        /\ ready'[t] => proc_pc'[t] \in Execs
        /\ child_pid'[t] # NO_PID =>
              /\ ready'[t]
              /\ \/ child_pid'[t] = child_pid[t]
                 \/ intact => child_pid'[t] - 1 \in family[userland_pid[t]]

LEMMA QuietStep ==
    ASSUME ProcessAssumption, IInv, Quiet, ProcessTypeOK', CreatorInv'
    PROVE  IInv'
<1>1. ThreadInv' /\ EntryInv'
  BY DEF IInv, BaseInv, ThreadInv, EntryInv, Quiet
<1>2. \A p \in Procs : tid[p] \in Tids \cup {NO_TID}
  BY Zenon DEF IInv, BaseInv, ProcessTypeOK
<1>3. FamilyInv'
  BY <1>2 DEF IInv, BaseInv, FamilyInv, Quiet
<1>4. ASSUME intact PROVE ListInv'
  BY <1>4 DEF IInv, ListInv, Quiet
<1>5. ASSUME intact PROVE KinInv'
  <2>1. ASSUME NEW p \in Procs, NEW q \in Procs
        PROVE  (parent_pid[q] = p <=> q \in family[p] /\ Due(p, q))'
    <3>1. UNCHANGED <<tid, parent_pid, family, inc, listed, last_child_pid>>
      BY Zenon DEF Quiet
    <3>2. parent_pid[q] = p <=> q \in family[p] /\ Due(p, q)
      BY <1>5, Zenon DEF IInv, KinInv
    <3>3. CASE tid[p] = NO_TID
      BY <3>1, <3>2, <3>3, Zenon DEF Due
    <3>4. CASE tid[p] # NO_TID
      <4>1. PICK t \in Tids : t = tid[p] /\ userland_pid[t] = p
        BY <1>2, <3>4, Zenon DEF IInv, BaseInv, EntryInv
      <4>2. CASE proc_pc[t] = "exit_loop" \/ proc_pc'[t] # "exit_loop"
        <5>1. /\ proc_pc'[t] = "exit_loop" <=> proc_pc[t] = "exit_loop"
              /\ proc_pc[t] = "exit_loop" => arg'[t] = arg[t]
          BY <4>2, Zenon DEF Quiet
        <5>2. Due(p, q)' <=> Due(p, q)
          BY <3>1, <4>1, <5>1, Zenon DEF Due
        <5> QED  BY <3>1, <3>2, <5>2, Zenon
      <4>3. CASE proc_pc[t] # "exit_loop" /\ proc_pc'[t] = "exit_loop"
        <5>1. arg'[t] = last_child_pid[p]
          BY <4>1, <4>3 DEF Quiet
        <5>2. q \in family[p] => last_child_pid[p] # NO_PID /\ inc[q] <= inc[last_child_pid[p]]
          <6>1. family[p] \subseteq listed[p]
            BY Zenon DEF IInv, BaseInv, FamilyInv
          <6>2. /\ last_child_pid[p] = NO_PID => listed[p] = {}
                /\ last_child_pid[p] # NO_PID => \A s \in listed[p] : inc[s] <= inc[last_child_pid[p]]
            BY <1>5, <3>4, Zenon DEF IInv, ListInv
          <6> QED  BY <6>1, <6>2, Zenon
        <5>3. Due(p, q)
          BY <4>1, <4>3, Zenon DEF Due
        <5>4. q \in family[p] => Due(p, q)'
          BY <3>1, <4>1, <5>1, <5>2, Zenon DEF Due
        <5> QED  BY <3>1, <3>2, <5>3, <5>4, Zenon
      <4> QED  BY <4>2, <4>3, Zenon
    <3> QED  BY <3>3, <3>4, Zenon
  <2>2. ASSUME NEW t \in Tids
        PROVE  (/\ child_pid[t] # NO_PID => child_pid[t] - 1 \in family[userland_pid[t]]
                /\ proc_pc[t] \in Joins => inc[arg[t]] = joined[t] /\ parent_pid[arg[t]] = userland_pid[t])'
    BY <1>5 DEF IInv, KinInv, Quiet
  <2>3. ASSUME NEW t \in Tids, proc_pc'[t] = "exit_loop"
        PROVE  (arg[t] = NO_PID \/ arg[t] \in listed[userland_pid[t]])'
    <3>1. CASE proc_pc[t] = "exit_loop"
      BY <1>5, <2>3, <3>1 DEF IInv, KinInv, Quiet
    <3>2. CASE proc_pc[t] # "exit_loop"
      <4>1. PICK p : p = userland_pid[t]
        BY Zenon
      <4>2. p \in Procs /\ tid[p] = t
        BY <2>3, <4>1 DEF IInv, BaseInv, ProcessTypeOK, ThreadInv, Quiet, InTable
      <4>3. last_child_pid[p] = NO_PID \/ last_child_pid[p] \in listed[p]
        BY <1>5, <4>2, Zenon DEF IInv, ListInv, ProcessAssumption
      <4> QED  BY <2>3, <3>2, <4>1, <4>3, Zenon DEF Quiet
    <3> QED  BY <3>1, <3>2, Zenon
  <2>4. ASSUME NEW t \in Tids, proc_pc'[t] = "load", creator'[t] # NO_TID
        PROVE  (parent_pid[userland_pid[t]] = userland_pid[creator[t]])'
    BY <1>5, <2>4 DEF IInv, KinInv, Quiet
  <2> QED  BY <2>1, <2>2, <2>3, <2>4, Zenon DEF KinInv
<1>6. intact' = intact
  BY Zenon DEF Quiet
<1> QED  BY <1>1, <1>3, <1>4, <1>5, <1>6, Zenon DEF IInv, BaseInv

-----------------------------------------------------------------------------
LEMMA execp_run_Inv ==
    ASSUME ProcessAssumption, IInv, NEW t \in Tids, execp_run(t)
    PROVE  IInv'
<1>1. ProcessTypeOK'
  BY ZenonT(40) DEF IInv, BaseInv, ProcessTypeOK, execp_run, Acquire, entry, locks, data, ghost, Pcs, NO_PID
<1>2. CreatorInv'
  <2>1. UNCHANGED <<creator, ready>>
    BY Zenon DEF execp_run, data
  <2>2. PICK c \in Tids : /\ proc_pc[t] = "exec_lock" /\ proc_pc[c] = "nonready"
                          /\ proc_pc' = [proc_pc EXCEPT ![t] = "exec_test", ![c] = "start"]
    BY Zenon DEF execp_run
  <2>3. /\ proc_pc'[c] = "start" /\ proc_pc'[t] = "exec_test"
        /\ \A d \in Tids : d # t /\ d # c => proc_pc'[d] = proc_pc[d]
    BY <2>2, ZenonT(40) DEF IInv, BaseInv, ProcessTypeOK
  <2>4. ASSUME NEW d \in Tids
        PROVE  /\ proc_pc'[d] \in {"nonready", "start"} => proc_pc[d] \in {"nonready", "start"}
               /\ proc_pc[d] \in Starting => proc_pc'[d] \in Starting
               /\ proc_pc[d] \in Execs => proc_pc'[d] \in Execs
    <3>1. CASE d = t
      BY <2>2, <2>3, <3>1 DEF Starting, Execs
    <3>2. CASE d = c
      BY <2>2, <2>3, <3>2 DEF Starting, Execs
    <3>3. CASE d # t /\ d # c
      BY <2>3, <3>3, Zenon
    <3> QED  BY <3>1, <3>2, <3>3, Zenon
  <2>5. \A d \in Tids : creator[d] # NO_TID => creator[d] \in Tids
    BY Zenon DEF IInv, BaseInv, ProcessTypeOK
  <2>6. CreatorInv
    BY Zenon DEF IInv, BaseInv
  <2> QED  BY <2>1, <2>4, <2>5, <2>6, ZenonT(40) DEF CreatorInv
<1>3. Quiet
  BY DEF IInv, BaseInv, ProcessTypeOK, ProcessAssumption, ThreadInv, CreatorInv, Quiet, InTable, Execs, Starting, Joins, execp_run, Acquire, entry, locks, data, ghost
<1> QED  BY <1>1, <1>2, <1>3, QuietStep, Zenon

LEMMA execp_test_Inv ==
    ASSUME ProcessAssumption, IInv, NEW t \in Tids, execp_test(t)
    PROVE  IInv'
<1>1. ProcessTypeOK'
  <2>1. CASE ready[t]
    BY <2>1, ZenonT(40) DEF IInv, BaseInv, ProcessTypeOK, execp_test, Unlock, Move, EndData, entry, ghost, Pcs
  <2>2. CASE ~ready[t]
    <3>1. waiting[userland_pid[t]] \cup {t} \in SUBSET Tids
      BY DEF IInv, BaseInv, ProcessTypeOK, ThreadInv, InTable, Execs, execp_test
    <3> QED
      BY <2>2, <3>1, ZenonT(40) DEF IInv, BaseInv, ProcessTypeOK, execp_test, Unlock, Wait, Move, entry, data, ghost, Pcs
  <2> QED  BY <2>1, <2>2, Zenon
<1>2. CreatorInv'
  <2>1. creator' = creator /\ proc_pc[t] = "exec_test" /\ \A d \in Tids : d # t => proc_pc'[d] = proc_pc[d]
    BY Zenon DEF execp_test, EndData, data, Move, IInv, BaseInv, ProcessTypeOK
  <2>2. proc_pc'[t] = (IF ready[t] THEN "user" ELSE "exec_wait")
    BY Zenon DEF execp_test, Move, IInv, BaseInv, ProcessTypeOK
  <2>3. \A d \in Tids : d # t \/ ~ready[t] => ready'[d] = ready[d]
    BY Zenon DEF execp_test, EndData, data, IInv, BaseInv, ProcessTypeOK
  <2>4. ASSUME NEW c \in Tids
        PROVE (/\ proc_pc[c] \in {"nonready", "start"} => creator[c] # NO_TID
               /\ creator[c] # NO_TID =>
                   /\ proc_pc[c] \in Starting /\ proc_pc[creator[c]] \in Execs /\ ~ready[creator[c]]
                   /\ \A d \in Tids : creator[d] = creator[c] => d = c)'
    <3>1. /\ proc_pc[c] \in {"nonready", "start"} => creator[c] # NO_TID
          /\ creator[c] # NO_TID =>
              /\ proc_pc[c] \in Starting /\ proc_pc[creator[c]] \in Execs /\ ~ready[creator[c]]
              /\ \A d \in Tids : creator[d] = creator[c] => d = c
              /\ creator[c] \in Tids
      BY Zenon DEF IInv, BaseInv, CreatorInv, ProcessTypeOK
    <3>2. proc_pc'[c] \in {"nonready", "start"} => proc_pc[c] \in {"nonready", "start"}
      BY <2>1, <2>2, Zenon
    <3>3. ASSUME creator[c] # NO_TID
          PROVE  proc_pc'[c] \in Starting /\ proc_pc'[creator[c]] \in Execs /\ ~ready'[creator[c]]
      <4>1. c # t
        BY <2>1, <3>1, <3>3, Zenon DEF Starting
      <4>2. CASE creator[c] = t
        BY <2>1, <2>2, <2>3, <3>1, <3>3, <4>1, <4>2, Zenon DEF Execs
      <4>3. CASE creator[c] # t
        BY <2>1, <2>3, <3>1, <3>3, <4>1, <4>3, Zenon
      <4> QED  BY <4>2, <4>3, Zenon
    <3> QED  BY <2>1, <3>1, <3>2, <3>3, Zenon
  <2> QED  BY <2>4, Zenon DEF CreatorInv
<1>3. Quiet
  BY DEF IInv, BaseInv, ProcessTypeOK, ProcessAssumption, ThreadInv, CreatorInv, Quiet, InTable, Execs, Starting, Joins, execp_test, Unlock, Wait, Move, EndData, entry, locks, data, ghost
<1> QED  BY <1>1, <1>2, <1>3, QuietStep, Zenon

LEMMA execp_woken_Inv ==
    ASSUME ProcessAssumption, IInv, NEW t \in Tids, execp_woken(t)
    PROVE  IInv'
<1>1. ProcessTypeOK'
  BY Zenon DEF IInv, BaseInv, ProcessTypeOK, execp_woken, Acquire, Move, entry, locks, data, ghost, Pcs, NO_PID
<1>2. CreatorInv'
  BY DEF IInv, BaseInv, ProcessTypeOK, ProcessAssumption, ThreadInv, CreatorInv, Execs, Starting, execp_woken, Acquire, Move, entry, locks, data, ghost
<1>3. Quiet
  BY DEF IInv, BaseInv, ProcessTypeOK, ProcessAssumption, ThreadInv, CreatorInv, Quiet, InTable, Execs, Starting, Joins, execp_woken, Acquire, Move, entry, locks, data, ghost
<1> QED  BY <1>1, <1>2, <1>3, QuietStep, Zenon

LEMMA process_start_Inv ==
    ASSUME ProcessAssumption, IInv, NEW t \in Tids, process_start(t)
    PROVE  IInv'
<1>1. ProcessTypeOK'
  BY Zenon DEF IInv, BaseInv, ProcessTypeOK, process_start, Acquire, Move, entry, locks, data, ghost, Pcs, NO_PID
<1>2. CreatorInv'
  BY DEF IInv, BaseInv, ProcessTypeOK, ProcessAssumption, ThreadInv, CreatorInv, Execs, Starting, process_start, Acquire, Move, entry, locks, data, ghost
<1>3. Quiet
  BY DEF IInv, BaseInv, ProcessTypeOK, ProcessAssumption, ThreadInv, CreatorInv, Quiet, InTable, Execs, Starting, Joins, process_start, Acquire, Move, entry, locks, data, ghost
<1> QED  BY <1>1, <1>2, <1>3, QuietStep, Zenon

LEMMA syscall_handle_exit_Inv ==
    ASSUME ProcessAssumption, IInv, NEW t \in Tids, syscall_handle_exit(t)
    PROVE  IInv'
<1>1. ProcessTypeOK'
  BY Zenon DEF IInv, BaseInv, ProcessTypeOK, syscall_handle_exit, Acquire, Move, entry, locks, data, ghost, Pcs, NO_PID
<1>2. CreatorInv'
  BY DEF IInv, BaseInv, ProcessTypeOK, ProcessAssumption, ThreadInv, CreatorInv, Execs, Starting, syscall_handle_exit, Acquire, Move, entry, locks, data, ghost
<1>3. Quiet
  BY DEF IInv, BaseInv, ProcessTypeOK, ProcessAssumption, ThreadInv, CreatorInv, Quiet, InTable, Execs, Starting, Joins, syscall_handle_exit, Acquire, Move, entry, locks, data, ghost
<1> QED  BY <1>1, <1>2, <1>3, QuietStep, Zenon

LEMMA exit_table_Inv ==
    ASSUME ProcessAssumption, IInv, NEW t \in Tids, exit_table(t)
    PROVE  IInv'
<1>1. ProcessTypeOK'
  <2>1. last_child_pid[userland_pid[t]] \in Procs \cup {NO_PID}
    BY DEF IInv, BaseInv, ProcessTypeOK, ThreadInv, InTable, exit_table
  <2> QED
    BY <2>1, Zenon DEF IInv, BaseInv, ProcessTypeOK, exit_table, Move, entry, data, ghost, Pcs
<1>2. CreatorInv'
  BY DEF IInv, BaseInv, ProcessTypeOK, ProcessAssumption, ThreadInv, CreatorInv, Execs, Starting, exit_table, Move, entry, locks, data, ghost
<1>3. Quiet
  BY DEF IInv, BaseInv, ProcessTypeOK, ProcessAssumption, ThreadInv, CreatorInv, Quiet, InTable, Execs, Starting, Joins, exit_table, Move, entry, locks, data, ghost
<1> QED  BY <1>1, <1>2, <1>3, QuietStep, Zenon

LEMMA join_lock_Inv ==
    ASSUME ProcessAssumption, IInv, NEW t \in Tids, join_lock(t)
    PROVE  IInv'
<1>1. ProcessTypeOK'
  BY Zenon DEF IInv, BaseInv, ProcessTypeOK, join_lock, Acquire, Move, entry, locks, data, ghost, Pcs, NO_PID
<1>2. CreatorInv'
  BY DEF IInv, BaseInv, ProcessTypeOK, ProcessAssumption, ThreadInv, CreatorInv, Execs, Starting, join_lock, Acquire, Move, entry, locks, data, ghost
<1>3. Quiet
  BY DEF IInv, BaseInv, ProcessTypeOK, ProcessAssumption, ThreadInv, CreatorInv, Quiet, InTable, Execs, Starting, Joins, join_lock, Acquire, Move, entry, locks, data, ghost
<1> QED  BY <1>1, <1>2, <1>3, QuietStep, Zenon

LEMMA restore_process_state_end_Inv ==
    ASSUME ProcessAssumption, IInv, NEW t \in Tids, restore_process_state_end(t)
    PROVE  IInv'
<1>1. ProcessTypeOK'
  BY Zenon DEF IInv, BaseInv, ProcessTypeOK, restore_process_state_end, Broadcast, Unlock, Move, entry, locks, data, ghost, Pcs, NO_PID
<1>2. CreatorInv'
  BY DEF IInv, BaseInv, ProcessTypeOK, ProcessAssumption, ThreadInv, CreatorInv, Execs, Starting, restore_process_state_end, Broadcast, Unlock, Move, entry, locks, data, ghost
<1>3. Quiet
  BY DEF IInv, BaseInv, ProcessTypeOK, ProcessAssumption, ThreadInv, CreatorInv, Quiet, InTable, Execs, Starting, Joins, restore_process_state_end, Broadcast, Unlock, Move, entry, locks, data, ghost
<1> QED  BY <1>1, <1>2, <1>3, QuietStep, Zenon

LEMMA syscall_handle_execp_Inv ==
    ASSUME ProcessAssumption, IInv, NEW t \in Tids, syscall_handle_execp(t)
    PROVE  IInv'
<1>1. ProcessTypeOK'
  BY DEF IInv, BaseInv, ProcessTypeOK, syscall_handle_execp, entry, locks, data, ghost, Pcs, NO_PID
<1>2. CreatorInv'
  <2>1. PICK c \in Tids :
            /\ proc_pc[t] = "user" /\ proc_pc[c] = "free"
            /\ proc_pc' = [proc_pc EXCEPT ![t] = "exec_lock", ![c] = "nonready"]
            /\ creator' = [creator EXCEPT ![c] = t] /\ ready' = ready
    BY Zenon DEF syscall_handle_execp
  <2>2. /\ proc_pc \in [Tids -> Pcs] /\ creator \in [Tids -> Tids \cup {NO_TID}]
        /\ NO_TID \notin Tids
    BY Zenon DEF IInv, BaseInv, ProcessTypeOK, ProcessAssumption
  <2>3. ~ready[t] /\ \A d \in Tids : creator[d] # t
    BY <2>1, <2>2, Zenon DEF IInv, BaseInv, ThreadInv, CreatorInv, Execs
  <2>4. ASSUME NEW d \in Tids, creator[d] # NO_TID
        PROVE  d # c /\ d # t /\ creator[d] # c /\ creator[d] # t /\ creator[d] \in Tids
    BY <2>1, <2>2, <2>3, <2>4 DEF IInv, BaseInv, CreatorInv, Execs, Starting
  <2>5. proc_pc'[t] = "exec_lock" /\ proc_pc'[c] = "nonready" /\ creator'[c] = t
    BY <2>1, <2>2, Zenon
  <2>6. \A d \in Tids : d # c /\ d # t => proc_pc'[d] = proc_pc[d] /\ creator'[d] = creator[d]
    BY <2>1, <2>2, Zenon
  <2>7. creator'[t] = NO_TID
    BY <2>1, <2>2, <2>4, Zenon
  <2> QED
    BY <2>1, <2>2, <2>3, <2>4, <2>5, <2>6, <2>7 DEF IInv, BaseInv, CreatorInv, Execs, Starting
<1>3. Quiet
  BY DEF IInv, BaseInv, ProcessTypeOK, ProcessAssumption, ThreadInv, CreatorInv, Quiet, InTable, Execs, Starting, Joins, syscall_handle_execp, entry, locks, data, ghost
<1> QED  BY <1>1, <1>2, <1>3, QuietStep, Zenon

LEMMA syscall_handle_join_Inv ==
    ASSUME ProcessAssumption, IInv, NEW t \in Tids, NEW p \in Procs, syscall_handle_join(t, p)
    PROVE  IInv'
<1>1. ProcessTypeOK'
  <2>1. inc[p] \in Nat
    BY Zenon DEF IInv, BaseInv, ProcessTypeOK
  <2> QED
    BY <2>1, Zenon DEF IInv, BaseInv, ProcessTypeOK, syscall_handle_join, Move, entry, locks, data, Pcs
<1>2. CreatorInv'
  BY DEF IInv, BaseInv, ProcessTypeOK, ProcessAssumption, ThreadInv, CreatorInv, Execs, Starting,
         syscall_handle_join, Move, entry, locks, data
<1>3. p # NO_PID
  BY DEF Procs, NO_PID, ProcessAssumption
<1>4. Quiet
  BY <1>3 DEF IInv, BaseInv, ProcessTypeOK, ThreadInv, CreatorInv, Quiet, InTable, Execs, Joins,
         syscall_handle_join, Move, entry, locks, data
<1> QED  BY <1>1, <1>2, <1>4, QuietStep, Zenon

LEMMA process_start_done_Inv ==
    ASSUME ProcessAssumption, IInv, NEW c \in Tids, process_start_done(c)
    PROVE  IInv'
<1>1. PICK t, p : t = creator[c] /\ p = userland_pid[c]
  BY Zenon
<1>2. p \in Procs /\ p + 1 \in Procs \cup {NO_PID, MAX_PROCESSES} /\ p + 1 # NO_PID /\ p + 1 - 1 = p
  <2>1. p \in Procs
    BY <1>1 DEF IInv, BaseInv, ProcessTypeOK, ThreadInv, InTable, process_start_done
  <2> QED  BY <2>1 DEF Procs, NO_PID, ProcessAssumption
<1>3. ProcessTypeOK'
  <2>1. CASE t = NO_TID
    BY <1>1, <2>1, Zenon DEF IInv, BaseInv, ProcessTypeOK, process_start_done, Move, entry, ghost, Pcs
  <2>2. CASE t # NO_TID
    BY <1>1, <1>2, <2>2, ZenonT(40)
    DEF IInv, BaseInv, ProcessTypeOK, process_start_done, Broadcast, Unlock, Move, entry, ghost, Pcs
  <2> QED  BY <2>1, <2>2, Zenon
<1>4. CreatorInv'
  <2>1. /\ proc_pc[c] = "load" /\ proc_pc'[c] = "user" /\ \A d \in Tids : d # c => proc_pc'[d] = proc_pc[d]
    BY Zenon DEF process_start_done, Move, IInv, BaseInv, ProcessTypeOK
  <2>2. creator'[c] = NO_TID /\ \A d \in Tids : d # c => creator'[d] = creator[d]
    BY Zenon DEF process_start_done, IInv, BaseInv, ProcessTypeOK
  <2>3. \A d \in Tids : d # t => ready'[d] = ready[d]
    BY <1>1, Zenon DEF process_start_done, IInv, BaseInv, ProcessTypeOK
  <2>4. ASSUME NEW d \in Tids
        PROVE (/\ proc_pc[d] \in {"nonready", "start"} => creator[d] # NO_TID
               /\ creator[d] # NO_TID =>
                   /\ proc_pc[d] \in Starting /\ proc_pc[creator[d]] \in Execs /\ ~ready[creator[d]]
                   /\ \A e \in Tids : creator[e] = creator[d] => e = d)'
    <3>1. CASE d = c
      BY <2>1, <2>2, <3>1, Zenon
    <3>2. CASE d # c
      <4>1. /\ proc_pc[d] \in {"nonready", "start"} => creator[d] # NO_TID
            /\ creator[d] # NO_TID =>
                /\ proc_pc[d] \in Starting /\ proc_pc[creator[d]] \in Execs /\ ~ready[creator[d]]
                /\ \A e \in Tids : creator[e] = creator[d] => e = d
                /\ creator[d] \in Tids
        BY Zenon DEF IInv, BaseInv, CreatorInv, ProcessTypeOK
      <4>2. creator[d] # NO_TID => creator[d] # c /\ creator[d] # t
        BY <1>1, <2>1, <3>2, <4>1, Zenon DEF Execs
      <4> QED  BY <2>1, <2>2, <2>3, <3>2, <4>1, <4>2, Zenon
    <3> QED  BY <3>1, <3>2, Zenon
  <2> QED  BY <2>4, Zenon DEF CreatorInv
<1>5. t # NO_TID /\ intact => p \in family[userland_pid[t]]
  <2>1. ASSUME t # NO_TID, intact PROVE parent_pid[p] = userland_pid[t]
    BY <1>1, <2>1, Zenon DEF IInv, KinInv, process_start_done
  <2>2. ASSUME t # NO_TID PROVE userland_pid[t] \in Procs
    BY <1>1, <2>2 DEF IInv, BaseInv, ProcessTypeOK, ThreadInv, CreatorInv, InTable, process_start_done
  <2> QED  BY <1>2, <2>1, <2>2, Zenon DEF IInv, KinInv
<1>6. Quiet
  <2>1. UNCHANGED <<tid, parent_pid, next, last_child_pid, userland_pid, starts, inc, family,
                    listed, intact, arg, joined>>
    BY Zenon DEF process_start_done, entry, ghost
  <2>2. proc_pc[c] = "load" /\ proc_pc' = [proc_pc EXCEPT ![c] = "user"] /\ proc_pc \in [Tids -> Pcs]
    BY Zenon DEF process_start_done, Move, IInv, BaseInv, ProcessTypeOK
  <2>3. CASE t = NO_TID
    <3>1. UNCHANGED <<ready, child_pid, creator>>
      BY <1>1, <2>3, Zenon DEF process_start_done
    <3> QED  BY <2>1, <2>2, <3>1 DEF IInv, BaseInv, ThreadInv, Quiet, InTable, Execs, Joins
  <2>4. CASE t # NO_TID
    <3>1. /\ child_pid' = [child_pid EXCEPT ![t] = p + 1] /\ ready' = [ready EXCEPT ![t] = TRUE]
          /\ creator' = [creator EXCEPT ![c] = NO_TID]
      BY <1>1, <2>4, Zenon DEF process_start_done
    <3>2. /\ t \in Tids /\ proc_pc[t] \in Execs /\ creator \in [Tids -> Tids \cup {NO_TID}]
          /\ child_pid \in [Tids -> Procs \cup {NO_PID, MAX_PROCESSES}]
          /\ ready \in [Tids -> BOOLEAN]
      BY <1>1, <2>4, Zenon DEF IInv, BaseInv, ProcessTypeOK, CreatorInv
    <3>3. proc_pc'[c] = "user" /\ \A d \in Tids : d # c => proc_pc'[d] = proc_pc[d] /\ creator'[d] = creator[d]
      BY <2>2, <3>1, <3>2, Zenon
    <3>4. /\ child_pid'[t] = p + 1 /\ ready'[t]
          /\ \A d \in Tids : d # t => child_pid'[d] = child_pid[d] /\ ready'[d] = ready[d]
      BY <3>1, <3>2, Zenon
    <3>5. \A d \in Tids : ready'[d] => proc_pc'[d] \in Execs
      BY <2>2, <3>2, <3>3, <3>4 DEF IInv, BaseInv, ThreadInv, Execs
    <3>6. \A d \in Tids : child_pid'[d] # NO_PID =>
              /\ ready'[d]
              /\ \/ child_pid'[d] = child_pid[d]
                 \/ intact => child_pid'[d] - 1 \in family[userland_pid[d]]
      <4>1. child_pid'[t] - 1 = p
        <5>1. p \in Int
          BY <1>2 DEF Procs, ProcessAssumption
        <5>2. child_pid'[t] = p + 1
          BY <3>4, Zenon
        <5> QED  BY <5>1, <5>2
      <4>2. \A d \in Tids : child_pid[d] # NO_PID => ready[d]
        BY Zenon DEF IInv, BaseInv, ThreadInv
      <4> QED  BY <1>5, <2>4, <3>4, <4>1, <4>2, Zenon
    <3> QED  BY <2>1, <2>2, <3>3, <3>5, <3>6 DEF Quiet, InTable, Execs, Joins
  <2> QED  BY <2>3, <2>4, Zenon
<1> QED  BY <1>3, <1>4, <1>6, QuietStep, Zenon

\* The start of a process for which there is no entry.
LEMMA process_start_full_Inv ==
    ASSUME ProcessAssumption, IInv, NEW c \in Tids, proc_pc[c] = "start_table", Move(c, "start_fail"),
           UNCHANGED <<entry, userland_pid, ghost, locks, arg, data>>
    PROVE  IInv'
<1>1. ProcessTypeOK'
  BY Zenon DEF IInv, BaseInv, ProcessTypeOK, Move, entry, locks, data, ghost, Pcs
<1>2. CreatorInv'
  BY DEF IInv, BaseInv, ProcessTypeOK, ProcessAssumption, ThreadInv, CreatorInv, Execs, Starting,
         Move, entry, locks, data, ghost
<1>3. Quiet
  BY DEF IInv, BaseInv, ProcessTypeOK, ThreadInv, CreatorInv, Quiet, InTable, Execs, Joins,
         Move, entry, locks, data, ghost
<1> QED  BY <1>1, <1>2, <1>3, QuietStep, Zenon

\* A join whose child still runs.
LEMMA join_wait_Inv ==
    ASSUME ProcessAssumption, IInv, NEW t \in Tids, join_test(t), tid[arg[t]] # NO_TID
    PROVE  IInv'
<1>1. /\ proc_pc[t] = "join_test" /\ Wait(t, arg[t]) /\ Move(t, "join_wait")
      /\ UNCHANGED <<entry, process_table_lock, userland_pid, arg, data, ghost>>
  BY Zenon DEF join_test, entry, data, ghost
<1>2. ProcessTypeOK'
  <2>1. waiting[arg[t]] \cup {t} \in SUBSET Tids
    BY <1>1 DEF IInv, BaseInv, ProcessTypeOK, ThreadInv, Joins
  <2> QED
    BY <1>1, <2>1, Zenon DEF IInv, BaseInv, ProcessTypeOK, Move, Wait, Unlock, entry, data, ghost, Pcs
<1>3. CreatorInv'
  BY <1>1 DEF IInv, BaseInv, ProcessTypeOK, ProcessAssumption, ThreadInv, CreatorInv, Execs, Starting,
         Move, entry, data, ghost
<1>4. Quiet
  BY <1>1 DEF IInv, BaseInv, ProcessTypeOK, ThreadInv, CreatorInv, Quiet, InTable, Execs, Joins,
         Move, entry, data, ghost
<1> QED  BY <1>2, <1>3, <1>4, QuietStep, Zenon

-----------------------------------------------------------------------------
\* A thread that has an entry is the one the entry names, and no other thread has it.
LEMMA InUse ==
    ASSUME ProcessAssumption, IInv, NEW t \in Tids,
           userland_pid[t] # NO_PID \/ proc_pc[t] \in InTable
    PROVE  /\ userland_pid[t] \in Procs /\ tid[userland_pid[t]] = t
           /\ \A d \in Tids : userland_pid[d] = userland_pid[t] => d = t
           /\ \A u \in Procs : tid[u] = t => u = userland_pid[t]
<1>1. userland_pid[t] # NO_PID
  BY Zenon DEF IInv, BaseInv, ThreadInv
<1>2. userland_pid[t] \in Procs /\ tid[userland_pid[t]] = t
  BY <1>1, Zenon DEF IInv, BaseInv, ProcessTypeOK, ThreadInv
<1>3. \A d \in Tids : userland_pid[d] = userland_pid[t] => d = t
  BY <1>1, <1>2, Zenon DEF IInv, BaseInv, ThreadInv
<1>4. \A u \in Procs : tid[u] = t => u = userland_pid[t]
  BY Zenon DEF IInv, BaseInv, EntryInv, ProcessAssumption
<1> QED  BY <1>2, <1>3, <1>4, Zenon

\* An entry on a list is a child of the list's owner or of nobody.
LEMMA ListedParent ==
    ASSUME IInv, intact, NEW p \in Procs, NEW q \in Procs, q \in listed[p], parent_pid[q] \in Procs
    PROVE  parent_pid[q] = p
<1>1. PICK u \in Procs : u = parent_pid[q]
  BY Zenon
<1>2. q \in family[u]
  BY <1>1, Zenon DEF IInv, KinInv
<1>3. q \in listed[u]
  BY <1>2, Zenon DEF IInv, BaseInv, FamilyInv
<1> QED  BY <1>1, <1>3, Zenon DEF IInv, ListInv

LEMMA exit_orphan_Inv ==
    ASSUME ProcessAssumption, IInv, NEW t \in Tids, exit_orphan(t)
    PROVE  IInv'
<1>1. PICK p, a : p = userland_pid[t] /\ a = arg[t]
  BY Zenon
<1>2. /\ proc_pc[t] = "exit_loop" /\ a # NO_PID
      /\ parent_pid' = [parent_pid EXCEPT ![a] = NO_PID]
      /\ arg' = [arg EXCEPT ![t] = next[a]]
      /\ UNCHANGED <<tid, next, last_child_pid, retval, locks, userland_pid, proc_pc, data, ghost>>
  BY <1>1, Zenon DEF exit_orphan
<1>3. a \in Procs /\ next[a] \in Procs \cup {NO_PID}
  BY <1>1, <1>2, Zenon DEF IInv, BaseInv, ProcessTypeOK
<1>4. ProcessTypeOK'
  BY <1>2, <1>3, Zenon DEF IInv, BaseInv, ProcessTypeOK, locks, data, ghost
<1>5. /\ p \in Procs /\ tid[p] = t /\ NO_PID \notin Procs
      /\ \A d \in Tids : userland_pid[d] = p => d = t
      /\ \A u \in Procs : tid[u] = t => u = p
  <2>1. NO_PID \notin Procs
    BY DEF Procs, NO_PID, ProcessAssumption
  <2> QED  BY <1>1, <1>2, <2>1, InUse, Zenon DEF InTable
<1>6. /\ arg'[t] = next[a] /\ \A d \in Tids : d # t => arg'[d] = arg[d]
      /\ parent_pid'[a] = NO_PID /\ \A q \in Procs : q # a => parent_pid'[q] = parent_pid[q]
  BY <1>2, <1>3, Zenon DEF IInv, BaseInv, ProcessTypeOK
<1>7. (ThreadInv /\ EntryInv /\ CreatorInv /\ FamilyInv)'
  <2>1. ThreadInv'
    <3>1. UNCHANGED <<userland_pid, proc_pc, tid, ready, child_pid>>
      BY <1>2, Zenon DEF data
    <3>2. ASSUME NEW d \in Tids, proc_pc'[d] \in Joins PROVE arg'[d] # NO_PID
      <4>1. proc_pc[d] \in Joins /\ d # t
        BY <1>2, <3>1, <3>2, Zenon DEF Joins
      <4> QED  BY <1>6, <4>1, Zenon DEF IInv, BaseInv, ThreadInv
    <3> QED  BY <3>1, <3>2, Zenon DEF IInv, BaseInv, ThreadInv
  <2>2. EntryInv'
    BY <1>2, Zenon DEF IInv, BaseInv, EntryInv
  <2>3. CreatorInv'
    BY <1>2, Zenon DEF IInv, BaseInv, CreatorInv, data
  <2>4. FamilyInv'
    BY <1>2, Zenon DEF IInv, BaseInv, FamilyInv, ghost
  <2> QED  BY <2>1, <2>2, <2>3, <2>4, Zenon
<1>8. ASSUME intact PROVE ListInv' /\ KinInv'
  <2>1. ListInv'
    BY <1>2, <1>8, Zenon DEF IInv, ListInv, ghost
  <2>2. a \in listed[p]
    BY <1>1, <1>2, <1>8, Zenon DEF IInv, KinInv
  <2>3. /\ next[a] = NO_PID => \A s \in listed[p] : inc[a] <= inc[s]
        /\ next[a] # NO_PID =>
            /\ next[a] \in listed[p] /\ inc[next[a]] < inc[a]
            /\ \A s \in listed[p] : inc[s] < inc[a] => inc[s] <= inc[next[a]]
    BY <1>3, <1>5, <1>8, <2>2, Zenon DEF IInv, ListInv
  <2>4. ASSUME NEW u \in Procs, parent_pid[a] = u PROVE u = p
    BY <1>3, <1>5, <1>8, <2>2, <2>4, ListedParent, Zenon
  <2>5. ASSUME NEW u \in Procs, NEW q \in Procs
        PROVE  (parent_pid[q] = u <=> q \in family[u] /\ Due(u, q))'
    <3>1. parent_pid[q] = u <=> q \in family[u] /\ Due(u, q)
      BY <1>8, Zenon DEF IInv, KinInv
    <3>2. family' = family /\ inc' = inc /\ tid' = tid /\ proc_pc' = proc_pc
      BY <1>2, Zenon DEF ghost
    <3>3. q \in family[u] => q \in listed[u] /\ 0 < inc[q]
      BY Zenon DEF IInv, BaseInv, FamilyInv
    <3>4. CASE u # p
      <4>1. tid[u] # NO_TID => tid[u] # t /\ tid[u] \in Tids
        BY <1>5, <3>4, Zenon DEF IInv, BaseInv, ProcessTypeOK
      <4>2. Due(u, q)' <=> Due(u, q)
        BY <1>6, <3>2, <4>1, ZenonT(40) DEF Due
      <4>3. q = a => q \notin family[u]
        BY <1>3, <1>5, <1>8, <2>2, <3>3, <3>4 DEF IInv, ListInv
      <4> QED  BY <1>5, <1>6, <3>1, <3>2, <4>2, <4>3, Zenon
    <3>5. CASE u = p
      <4>1. Due(p, q) <=> inc[q] <= inc[a]
        BY <1>1, <1>2, <1>5, ZenonT(40) DEF Due, ProcessAssumption
      <4>2. Due(p, q)' <=> next[a] # NO_PID /\ inc[q] <= inc[next[a]]
        BY <1>2, <1>5, <1>6, <3>2 DEF Due, ProcessAssumption
      <4>3. inc[q] \in Nat /\ inc[a] \in Nat /\ (next[a] # NO_PID => inc[next[a]] \in Nat)
        BY <1>3, ZenonT(40) DEF IInv, BaseInv, ProcessTypeOK
      <4>4. CASE q = a
        BY <1>5, <1>6, <2>3, <3>5, <4>2, <4>3, <4>4
      <4>5. CASE q # a
        <5>1. q \in family[p] => inc[q] # inc[a]
          BY <1>3, <3>3, <3>5, <4>5, ZenonT(40) DEF IInv, BaseInv, FamilyInv
        <5>2. q \in family[p] => (inc[q] <= inc[a] <=> next[a] # NO_PID /\ inc[q] <= inc[next[a]])
          BY <2>3, <3>3, <3>5, <4>3, <5>1
        <5> QED  BY <1>6, <3>1, <3>2, <3>5, <4>1, <4>2, <4>5, <5>2, Zenon
      <4> QED  BY <4>4, <4>5, Zenon
    <3> QED  BY <3>4, <3>5, Zenon
  <2>6. ASSUME NEW d \in Tids, proc_pc[d] \in Joins
        PROVE  (inc[arg[d]] = joined[d] /\ parent_pid[arg[d]] = userland_pid[d])'
    <3>1. d # t
      BY <1>2, <2>6, Zenon DEF Joins
    <3>2. inc[arg[d]] = joined[d] /\ parent_pid[arg[d]] = userland_pid[d]
      BY <1>8, <2>6, Zenon DEF IInv, KinInv
    <3>3. userland_pid[d] \in Procs /\ arg[d] \in Procs
      BY <2>6, ZenonT(40) DEF IInv, BaseInv, ProcessTypeOK, ThreadInv, InTable
    <3>4. arg[d] # a
      BY <1>5, <2>4, <3>1, <3>2, <3>3, Zenon
    <3> QED  BY <1>2, <1>6, <3>1, <3>2, <3>3, <3>4, Zenon DEF ghost
  <2>7. ASSUME NEW d \in Tids, proc_pc[d] = "exit_loop"
        PROVE  (arg[d] = NO_PID \/ arg[d] \in listed[userland_pid[d]])'
    BY <1>1, <1>2, <1>6, <1>8, <2>3, <2>7 DEF IInv, KinInv, ghost
  <2>8. ASSUME NEW d \in Tids, proc_pc[d] = "load", creator[d] # NO_TID
        PROVE  (parent_pid[userland_pid[d]] = userland_pid[creator[d]])'
    <3>1. parent_pid[userland_pid[d]] = userland_pid[creator[d]]
      BY <1>8, <2>8, Zenon DEF IInv, KinInv
    <3>2. creator[d] \in Tids /\ creator[d] # t /\ proc_pc[creator[d]] \in Execs
      BY <1>2, <2>8, Zenon DEF IInv, BaseInv, ProcessTypeOK, CreatorInv, Execs
    <3>3. userland_pid[d] \in Procs /\ userland_pid[creator[d]] \in Procs
      BY <2>8, <3>2 DEF IInv, BaseInv, ProcessTypeOK, ThreadInv, InTable
    <3>4. userland_pid[d] # a
      BY <1>5, <2>4, <3>1, <3>2, <3>3, Zenon
    <3> QED  BY <1>2, <1>6, <3>1, <3>3, <3>4 DEF data
  <2>9. \A d \in Tids : child_pid[d] # NO_PID => child_pid[d] - 1 \in family[userland_pid[d]]
    BY <1>8, Zenon DEF IInv, KinInv
  <2>10. UNCHANGED <<proc_pc, child_pid, family, userland_pid, creator>>
    BY <1>2, Zenon DEF data, ghost
  <2> QED  BY <2>1, <2>5, <2>6, <2>7, <2>8, <2>9, <2>10, Zenon DEF KinInv
<1>9. intact' = intact
  BY <1>2, Zenon DEF ghost
<1> QED  BY <1>4, <1>7, <1>8, <1>9, Zenon DEF IInv, BaseInv

\* Thread t gives up its entry p, and what then holds of the threads and entries.
GivesUp(t, p) ==
    /\ p \in Procs /\ p = userland_pid[t] /\ proc_pc[t] \in {"load", "exit_loop"}
    /\ tid' = [tid EXCEPT ![p] = NO_TID] /\ userland_pid' = [userland_pid EXCEPT ![t] = NO_PID]
    /\ proc_pc' = [proc_pc EXCEPT ![t] = IF proc_pc[t] = "load" THEN "start_fail" ELSE "free"]
    /\ UNCHANGED <<arg, ready, child_pid, creator>>

GivenUp(t, p) ==
    /\ tid[p] = t /\ tid'[p] = NO_TID /\ userland_pid'[t] = NO_PID
    /\ \A d \in Tids : d # t => userland_pid[d] # p /\ userland_pid'[d] = userland_pid[d]
                                  /\ proc_pc'[d] = proc_pc[d]
    /\ \A u \in Procs : u # p => tid[u] # t /\ tid'[u] = tid[u]
    /\ \A d \in Tids : creator[d] # t /\ (creator[d] # NO_TID => creator[d] \in Tids)
    /\ proc_pc'[t] \in {"start_fail", "free"}
    /\ (ThreadInv /\ EntryInv /\ CreatorInv)'

LEMMA GiveUp ==
    ASSUME ProcessAssumption, IInv, NEW t \in Tids, NEW p, GivesUp(t, p)
    PROVE  GivenUp(t, p)
<1> USE DEF GivesUp
<1>1. /\ tid[p] = t
      /\ \A d \in Tids : userland_pid[d] = p => d = t
      /\ \A u \in Procs : tid[u] = t => u = p
  BY InUse, Zenon DEF InTable
<1>2. /\ tid \in [Procs -> Tids \cup {NO_TID}] /\ userland_pid \in [Tids -> Procs \cup {NO_PID}]
      /\ proc_pc \in [Tids -> Pcs] /\ creator \in [Tids -> Tids \cup {NO_TID}]
  BY Zenon DEF IInv, BaseInv, ProcessTypeOK
<1>3. /\ tid'[p] = NO_TID /\ userland_pid'[t] = NO_PID
      /\ proc_pc'[t] = IF proc_pc[t] = "load" THEN "start_fail" ELSE "free"
  BY <1>2, Zenon
<1>4. \A d \in Tids : d # t => userland_pid[d] # p /\ userland_pid'[d] = userland_pid[d] /\ proc_pc'[d] = proc_pc[d]
  BY <1>1, <1>2, Zenon
<1>5. \A u \in Procs : u # p => tid[u] # t /\ tid'[u] = tid[u]
  BY <1>1, <1>2, Zenon
<1>6. \A d \in Tids : creator[d] # t /\ (creator[d] # NO_TID => creator[d] \in Tids)
  BY <1>2, Zenon DEF IInv, BaseInv, CreatorInv, Execs, ProcessAssumption
<1>7. ~ready[t] /\ child_pid[t] = NO_PID
  BY Zenon DEF IInv, BaseInv, ThreadInv, Execs
<1>8. ThreadInv'
  <2> SUFFICES ASSUME NEW d \in Tids
      PROVE (/\ userland_pid[d] # NO_PID <=> proc_pc[d] \in InTable
             /\ userland_pid[d] # NO_PID => tid[userland_pid[d]] = d
             /\ ready[d] => proc_pc[d] \in Execs
             /\ child_pid[d] # NO_PID => ready[d]
             /\ proc_pc[d] \in Joins => arg[d] # NO_PID)'
    BY Zenon DEF ThreadInv
  <2>1. CASE d = t
    BY <1>3, <1>7, <2>1 DEF InTable, Execs, Joins
  <2>2. CASE d # t
    BY <1>2, <1>4, <1>5, <2>2 DEF IInv, BaseInv, ThreadInv
  <2> QED  BY <2>1, <2>2, Zenon
<1>9. EntryInv'
  BY <1>2, <1>3, <1>4, <1>5 DEF IInv, BaseInv, EntryInv
<1>10. CreatorInv'
  <2>1. \A d \in Tids : proc_pc'[d] \in Starting <=> proc_pc[d] \in Starting
    <3>1. creator[t] # NO_TID => proc_pc[t] \in Starting
      BY Zenon DEF IInv, BaseInv, CreatorInv
    <3> QED  BY <1>3, <1>4 DEF Starting
  <2>2. \A d \in Tids : proc_pc'[d] \in {"nonready", "start"} => proc_pc[d] \in {"nonready", "start"}
    BY <1>3, <1>4
  <2>3. \A d \in Tids : creator[d] # NO_TID => proc_pc'[creator[d]] = proc_pc[creator[d]]
    BY <1>4, <1>6, Zenon
  <2> QED  BY <2>1, <2>2, <2>3 DEF IInv, BaseInv, CreatorInv
<1> QED  BY <1>1, <1>3, <1>4, <1>5, <1>6, <1>8, <1>9, <1>10, Zenon DEF GivenUp

LEMMA exit_end_Inv ==
    ASSUME ProcessAssumption, IInv, NEW t \in Tids, NEW v \in Retvals, exit_end(t, v)
    PROVE  IInv'
<1>1. PICK p : p = userland_pid[t]
  BY Zenon
<1>2. /\ proc_pc[t] = "exit_loop" /\ arg[t] = NO_PID
      /\ tid' = [tid EXCEPT ![p] = NO_TID]
      /\ userland_pid' = [userland_pid EXCEPT ![t] = NO_PID]
      /\ family' = [family EXCEPT ![p] = {}]
      /\ listed' = [listed EXCEPT ![p] = {}]
      /\ proc_pc' = [proc_pc EXCEPT ![t] = "free"]
      /\ UNCHANGED <<parent_pid, next, last_child_pid, arg, data, starts, inc, joined, intact>>
  BY <1>1, Zenon DEF exit_end, Move
<1>3. p \in Procs /\ NO_PID \notin Procs
  <2>1. NO_PID \notin Procs
    BY DEF Procs, NO_PID, ProcessAssumption
  <2> QED  BY <1>1, <1>2, <2>1, InUse, Zenon DEF InTable
<1>4. ProcessTypeOK'
  <2>1. (IF v < 0 THEN Negate(v) ELSE v) \in Int
    BY DEF Negate, ProcessAssumption
  <2> QED
    BY <1>1, <2>1, Zenon DEF IInv, BaseInv, ProcessTypeOK, exit_end, Broadcast, Unlock, Move, data, Pcs
<1>5. /\ tid[p] = t /\ tid'[p] = NO_TID /\ userland_pid'[t] = NO_PID
      /\ \A d \in Tids : d # t => userland_pid[d] # p /\ userland_pid'[d] = userland_pid[d]
                                    /\ proc_pc'[d] = proc_pc[d]
      /\ \A u \in Procs : u # p => tid[u] # t /\ tid'[u] = tid[u]
      /\ \A d \in Tids : creator[d] # t /\ (creator[d] # NO_TID => creator[d] \in Tids)
      /\ proc_pc'[t] \in {"start_fail", "free"}
      /\ (ThreadInv /\ EntryInv /\ CreatorInv)'
  <2>1. proc_pc' = [proc_pc EXCEPT ![t] = IF proc_pc[t] = "load" THEN "start_fail" ELSE "free"]
    BY <1>2, Zenon
  <2>2. UNCHANGED <<arg, ready, child_pid, creator>>
    BY <1>2, Zenon DEF data
  <2>3. GivesUp(t, p)
    BY <1>1, <1>2, <1>3, <2>1, <2>2, Zenon DEF GivesUp
  <2> QED  BY <2>3, GiveUp, Zenon DEF GivenUp
<1>6. /\ family'[p] = {} /\ listed'[p] = {}
      /\ \A u \in Procs : u # p => family'[u] = family[u] /\ listed'[u] = listed[u]
  BY <1>2, <1>3, Zenon DEF IInv, BaseInv, ProcessTypeOK
<1>7. \A u \in Procs : u # p /\ tid[u] # NO_TID => proc_pc'[tid[u]] = proc_pc[tid[u]]
  <2>1. \A u \in Procs : tid[u] # NO_TID => tid[u] \in Tids
    BY Zenon DEF IInv, BaseInv, ProcessTypeOK
  <2> QED  BY <1>5, <2>1, Zenon
<1>8. FamilyInv'
  <2>1. inc' = inc /\ starts' = starts
    BY <1>2, Zenon
  <2>2. ASSUME NEW u \in Procs
        PROVE (/\ family[u] \subseteq listed[u]
               /\ tid[u] = NO_TID => listed[u] = {}
               /\ tid[u] # NO_TID => (proc_pc[tid[u]] = "load" => listed[u] = {})
               /\ inc[u] <= starts)'
    <3>1. inc'[u] <= starts'
      BY <2>1, Zenon DEF IInv, BaseInv, FamilyInv
    <3>2. CASE u = p
      BY <1>6, <3>1, <3>2, Zenon
    <3>3. CASE u # p
      <4>1. /\ tid'[u] = tid[u] /\ (tid[u] # NO_TID => proc_pc'[tid[u]] = proc_pc[tid[u]])
            /\ family'[u] = family[u] /\ listed'[u] = listed[u]
        BY <1>5, <1>6, <1>7, <3>3, Zenon
      <4> QED  BY <3>1, <4>1, Zenon DEF IInv, BaseInv, FamilyInv
    <3> QED  BY <3>2, <3>3, Zenon
  <2>3. ASSUME NEW u \in Procs, NEW q \in Procs, q \in listed'[u] PROVE 0 < inc'[q]
    <3>1. q \in listed[u]
      BY <1>6, <2>3, Zenon
    <3> QED  BY <2>1, <3>1, Zenon DEF IInv, BaseInv, FamilyInv
  <2>4. \A u, q \in Procs : 0 < inc'[u] /\ inc'[u] = inc'[q] => u = q
    BY <2>1, Zenon DEF IInv, BaseInv, FamilyInv
  <2> QED  BY <2>2, <2>3, <2>4, Zenon DEF FamilyInv
<1>9. ASSUME intact PROVE ListInv' /\ KinInv'
  <2>1. ListInv'
    BY <1>2, <1>5, <1>6, <1>9 DEF IInv, ListInv
  <2>2. ASSUME NEW u \in Procs, NEW q \in Procs
        PROVE  (parent_pid[q] = u <=> q \in family[u] /\ Due(u, q))'
    <3>1. parent_pid[q] = u <=> q \in family[u] /\ Due(u, q)
      BY <1>9, Zenon DEF IInv, KinInv
    <3>2. CASE u = p
      <4>1. ~Due(p, q)
        BY <1>2, <1>5, Zenon DEF Due, ProcessAssumption
      <4> QED  BY <1>2, <1>6, <3>1, <3>2, <4>1, Zenon
    <3>3. CASE u # p
      <4>1. Due(u, q)' <=> Due(u, q)
        <5>1. /\ tid'[u] = tid[u] /\ (tid[u] # NO_TID => proc_pc'[tid[u]] = proc_pc[tid[u]])
              /\ inc' = inc /\ arg' = arg
          BY <1>2, <1>5, <1>7, <3>3, Zenon DEF data
        <5> QED  BY <5>1, Zenon DEF Due
      <4> QED  BY <1>2, <1>6, <3>1, <3>3, <4>1, Zenon
    <3> QED  BY <3>2, <3>3, Zenon
  <2>3. ASSUME NEW d \in Tids
        PROVE (/\ child_pid[d] # NO_PID => child_pid[d] - 1 \in family[userland_pid[d]]
               /\ proc_pc[d] \in Joins => inc[arg[d]] = joined[d] /\ parent_pid[arg[d]] = userland_pid[d]
               /\ proc_pc[d] = "exit_loop" => arg[d] = NO_PID \/ arg[d] \in listed[userland_pid[d]]
               /\ proc_pc[d] = "load" /\ creator[d] # NO_TID =>
                     parent_pid[userland_pid[d]] = userland_pid[creator[d]])'
    <3>1. CASE d = t
      <4>1. child_pid[t] = NO_PID
        BY <1>2, Zenon DEF IInv, BaseInv, ThreadInv, Execs
      <4>2. child_pid' = child_pid
        BY <1>2, Zenon DEF data
      <4> QED  BY <1>5, <3>1, <4>1, <4>2, Zenon DEF Joins
    <3>2. CASE d # t
      <4>1. UNCHANGED <<child_pid, creator, arg, inc, joined, parent_pid>>
        BY <1>2, ZenonT(40) DEF data
      <4>2. proc_pc[d] \in InTable => userland_pid[d] \in Procs /\ userland_pid[d] # p
        BY <1>5, <3>2 DEF IInv, BaseInv, ProcessTypeOK, ThreadInv
      <4>3. child_pid[d] # NO_PID => proc_pc[d] \in InTable
        BY Zenon DEF IInv, BaseInv, ThreadInv, InTable
      <4>4. creator[d] # NO_TID => userland_pid'[creator[d]] = userland_pid[creator[d]]
        BY <1>5, Zenon
      <4>5. proc_pc'[d] = proc_pc[d] /\ userland_pid'[d] = userland_pid[d]
        BY <1>5, <3>2, Zenon
      <4>6. proc_pc[d] \in InTable => /\ family'[userland_pid[d]] = family[userland_pid[d]]
                                /\ listed'[userland_pid[d]] = listed[userland_pid[d]]
        BY <1>6, <4>2, Zenon
      <4>7. /\ child_pid[d] # NO_PID => child_pid[d] - 1 \in family[userland_pid[d]]
            /\ proc_pc[d] \in Joins => inc[arg[d]] = joined[d] /\ parent_pid[arg[d]] = userland_pid[d]
            /\ proc_pc[d] = "exit_loop" => arg[d] = NO_PID \/ arg[d] \in listed[userland_pid[d]]
            /\ proc_pc[d] = "load" /\ creator[d] # NO_TID =>
                  parent_pid[userland_pid[d]] = userland_pid[creator[d]]
        BY <1>9, Zenon DEF IInv, KinInv
      <4>8. proc_pc[d] = "exit_loop" => proc_pc[d] \in InTable
        BY Zenon DEF InTable
      <4> QED  BY <4>1, <4>3, <4>4, <4>5, <4>6, <4>7, <4>8, Zenon
    <3> QED  BY <3>1, <3>2, Zenon
  <2> QED  BY <2>1, <2>2, <2>3, ZenonT(40) DEF KinInv
<1>10. intact' = intact
  BY <1>2, Zenon
<1> QED  BY <1>4, <1>5, <1>8, <1>9, <1>10, Zenon DEF IInv, BaseInv

LEMMA restore_process_state_Inv ==
    ASSUME ProcessAssumption, IInv, NEW c \in Tids, restore_process_state(c)
    PROVE  IInv'
<1>1. PICK p, e : p = userland_pid[c] /\ e = creator[c]
  BY Zenon
<1>2. /\ proc_pc[c] = "load" /\ e # NO_TID
      /\ tid' = [tid EXCEPT ![p] = NO_TID]
      /\ parent_pid' = [parent_pid EXCEPT ![p] = NO_PID]
      /\ next' = [next EXCEPT ![p] = NO_PID]
      /\ last_child_pid' = [last_child_pid EXCEPT ![p] = NO_PID]
      /\ userland_pid' = [userland_pid EXCEPT ![c] = NO_PID]
      /\ family' = [q \in Procs |-> family[q] \ {p}]
      /\ intact' = (intact /\ next[p] = NO_PID)
      /\ proc_pc' = [proc_pc EXCEPT ![c] = "start_fail"]
      /\ UNCHANGED <<locks, arg, data, starts, inc, joined, listed>>
  BY <1>1, Zenon DEF restore_process_state, Move
<1>3. p \in Procs /\ NO_PID \notin Procs
  <2>1. NO_PID \notin Procs
    BY DEF Procs, NO_PID, ProcessAssumption
  <2> QED  BY <1>1, <1>2, <2>1, InUse, Zenon DEF InTable
<1>4. ProcessTypeOK'
  <2>1. NO_RETVAL \in Int
    BY DEF NO_RETVAL
  <2>2. family' \in [Procs -> SUBSET Procs]
    BY <1>2, Zenon DEF IInv, BaseInv, ProcessTypeOK
  <2>3. intact' \in BOOLEAN
    BY <1>2, Zenon DEF IInv, BaseInv, ProcessTypeOK
  <2> QED
    BY <1>1, <2>1, <2>2, <2>3, Zenon
    DEF IInv, BaseInv, ProcessTypeOK, restore_process_state, Move, locks, data, Pcs
<1>5. /\ tid[p] = c /\ tid'[p] = NO_TID /\ userland_pid'[c] = NO_PID
      /\ \A d \in Tids : d # c => userland_pid[d] # p /\ userland_pid'[d] = userland_pid[d]
                                    /\ proc_pc'[d] = proc_pc[d]
      /\ \A u \in Procs : u # p => tid[u] # c /\ tid'[u] = tid[u]
      /\ \A d \in Tids : creator[d] # c /\ (creator[d] # NO_TID => creator[d] \in Tids)
      /\ proc_pc'[c] \in {"start_fail", "free"}
      /\ (ThreadInv /\ EntryInv /\ CreatorInv)'
  <2>1. proc_pc' = [proc_pc EXCEPT ![c] = IF proc_pc[c] = "load" THEN "start_fail" ELSE "free"]
    BY <1>2, Zenon
  <2>2. UNCHANGED <<arg, ready, child_pid, creator>>
    BY <1>2, Zenon DEF data
  <2>3. GivesUp(c, p)
    BY <1>1, <1>2, <1>3, <2>1, <2>2, Zenon DEF GivesUp
  <2> QED  BY <2>3, GiveUp, Zenon DEF GivenUp
<1>6. /\ parent_pid'[p] = NO_PID /\ next'[p] = NO_PID /\ last_child_pid'[p] = NO_PID
      /\ \A u \in Procs : u # p => /\ parent_pid'[u] = parent_pid[u] /\ next'[u] = next[u]
                                   /\ last_child_pid'[u] = last_child_pid[u]
      /\ \A u \in Procs : family'[u] = family[u] \ {p}
  BY <1>2, <1>3, ZenonT(40) DEF IInv, BaseInv, ProcessTypeOK
<1>7. \A u \in Procs : u # p /\ tid[u] # NO_TID => proc_pc'[tid[u]] = proc_pc[tid[u]]
  BY <1>5 DEF IInv, BaseInv, ProcessTypeOK
<1>8. listed[p] = {} /\ family[p] = {}
  <2>1. tid[p] # NO_TID
    BY <1>5, ZenonT(40) DEF ProcessAssumption
  <2> QED  BY <1>2, <1>3, <1>5, <2>1, Zenon DEF IInv, BaseInv, FamilyInv
<1>9. FamilyInv'
  BY <1>2, <1>3, <1>5, <1>6, <1>7, <1>8 DEF IInv, BaseInv, FamilyInv
<1>10. ASSUME intact' PROVE ListInv' /\ KinInv'
  <2>1. intact /\ next[p] = NO_PID
    BY <1>2, <1>10, Zenon
  <2>2. next' = next
    BY <1>2, <1>3, <2>1, ZenonT(40) DEF IInv, BaseInv, ProcessTypeOK
  <2>3. ListInv'
    BY <1>2, <1>5, <1>6, <2>1, <2>2 DEF IInv, ListInv
  <2>4. /\ e \in Tids /\ proc_pc[e] \in Execs /\ ~ready[e] /\ userland_pid[e] \in Procs
        /\ parent_pid[p] = userland_pid[e] /\ p \in family[userland_pid[e]]
    <3>1. e \in Tids /\ proc_pc[e] \in Execs /\ ~ready[e]
      BY <1>1, <1>2, Zenon DEF IInv, BaseInv, ProcessTypeOK, CreatorInv
    <3>2. userland_pid[e] \in Procs
      BY <3>1, InUse, Zenon DEF InTable
    <3>3. parent_pid[p] = userland_pid[e]
      BY <1>1, <1>2, <2>1, Zenon DEF IInv, KinInv
    <3> QED  BY <1>3, <2>1, <3>1, <3>2, <3>3, Zenon DEF IInv, KinInv
  <2>5. \A d \in Tids : userland_pid[d] = userland_pid[e] => d = e
    BY <2>4, InUse, Zenon DEF InTable
  <2>6. ASSUME NEW u \in Procs, NEW q \in Procs
        PROVE  (parent_pid[q] = u <=> q \in family[u] /\ Due(u, q))'
    <3>1. parent_pid[q] = u <=> q \in family[u] /\ Due(u, q)
      BY <2>1, Zenon DEF IInv, KinInv
    <3>2. CASE q = p
      BY <1>3, <1>6, <3>2, Zenon
    <3>3. CASE q # p /\ u = p
      BY <1>6, <1>8, <3>1, <3>3, Zenon
    <3>4. CASE q # p /\ u # p
      <4>1. Due(u, q)' <=> Due(u, q)
        BY <1>2, <1>5, <1>7, <3>4 DEF Due
      <4> QED  BY <1>6, <3>1, <3>4, <4>1, ZenonT(40)
    <3> QED  BY <3>2, <3>3, <3>4, Zenon
  <2>7. ASSUME NEW d \in Tids
        PROVE (/\ child_pid[d] # NO_PID => child_pid[d] - 1 \in family[userland_pid[d]]
               /\ proc_pc[d] \in Joins => inc[arg[d]] = joined[d] /\ parent_pid[arg[d]] = userland_pid[d]
               /\ proc_pc[d] = "exit_loop" => arg[d] = NO_PID \/ arg[d] \in listed[userland_pid[d]]
               /\ proc_pc[d] = "load" /\ creator[d] # NO_TID =>
                     parent_pid[userland_pid[d]] = userland_pid[creator[d]])'
    <3>1. CASE d = c
      <4>1. child_pid[c] = NO_PID
        BY <1>2, Zenon DEF IInv, BaseInv, ThreadInv, Execs
      <4>2. child_pid' = child_pid
        BY <1>2, Zenon DEF data
      <4> QED  BY <1>5, <3>1, <4>1, <4>2, Zenon DEF Joins
    <3>2. CASE d # c
      <4>1. UNCHANGED <<child_pid, creator, arg, inc, joined, listed>>
        BY <1>2, Zenon DEF data
      <4>2. proc_pc'[d] = proc_pc[d] /\ userland_pid'[d] = userland_pid[d] /\ userland_pid[d] # p
        BY <1>5, <3>2, Zenon
      <4>3. /\ child_pid[d] # NO_PID => child_pid[d] - 1 \in family[userland_pid[d]]
            /\ proc_pc[d] \in Joins => inc[arg[d]] = joined[d] /\ parent_pid[arg[d]] = userland_pid[d]
            /\ proc_pc[d] = "exit_loop" => arg[d] = NO_PID \/ arg[d] \in listed[userland_pid[d]]
            /\ proc_pc[d] = "load" /\ creator[d] # NO_TID =>
                  parent_pid[userland_pid[d]] = userland_pid[creator[d]]
        BY <2>1, Zenon DEF IInv, KinInv
      <4>4. ASSUME child_pid[d] # NO_PID PROVE child_pid[d] - 1 \in family'[userland_pid[d]]
        <5>1. ready[d] /\ userland_pid[d] \in Procs
          BY <4>4, Zenon DEF IInv, BaseInv, ProcessTypeOK, ThreadInv, InTable
        <5>2. userland_pid[d] # userland_pid[e]
          BY <2>4, <2>5, <5>1, Zenon
        <5>3. p \notin family[userland_pid[d]]
          <6>1. \A u \in Procs : p \in family[u] => p \in listed[u]
            BY Zenon DEF IInv, BaseInv, FamilyInv
          <6> QED  BY <1>3, <2>1, <2>4, <5>1, <5>2, <6>1, Zenon DEF IInv, ListInv
        <5> QED  BY <1>6, <4>3, <4>4, <5>1, <5>3, Zenon
      <4>5. ASSUME proc_pc[d] \in Joins PROVE arg[d] \in Procs /\ arg[d] # p
        <5>1. d # e /\ arg[d] \in Procs
          BY <2>4, <4>5 DEF IInv, BaseInv, ProcessTypeOK, ThreadInv, Joins, Execs
        <5> QED  BY <2>4, <2>5, <4>3, <4>5, <5>1, ZenonT(40)
      <4>6. creator[d] # NO_TID => userland_pid'[creator[d]] = userland_pid[creator[d]]
        BY <1>5, Zenon
      <4>7. proc_pc[d] = "load" => userland_pid[d] \in Procs
        BY Zenon DEF IInv, BaseInv, ProcessTypeOK, ThreadInv, InTable
      <4> QED  BY <1>6, <4>1, <4>2, <4>3, <4>4, <4>5, <4>6, <4>7, Zenon
    <3> QED  BY <3>1, <3>2, Zenon
  <2> QED  BY <2>3, <2>6, <2>7, Zenon DEF KinInv
<1> QED  BY <1>4, <1>5, <1>9, <1>10, Zenon DEF IInv, BaseInv

\* A join whose child has exited.
LEMMA join_end_Inv ==
    ASSUME ProcessAssumption, IInv, NEW t \in Tids, join_test(t), tid[arg[t]] = NO_TID
    PROVE  IInv'
<1>1. PICK p, w : p = arg[t] /\ w = userland_pid[t]
  BY Zenon
<1>2. /\ proc_pc[t] = "join_test" /\ tid[p] = NO_TID
      /\ parent_pid' = [parent_pid EXCEPT ![p] = NO_PID]
      /\ family' = [family EXCEPT ![w] = family[w] \ {p}]
      /\ arg' = [arg EXCEPT ![t] = NO_PID]
      /\ joined' = [joined EXCEPT ![t] = 0]
      /\ die_lock' = [die_lock EXCEPT ![p] = NO_TID]
      /\ proc_pc' = [proc_pc EXCEPT ![t] = "user"]
      /\ UNCHANGED <<tid, next, last_child_pid, retval, process_table_lock, waiting,
                     userland_pid, data, starts, inc, listed, intact>>
  BY <1>1, Zenon DEF join_test, Unlock, Move
<1>3. /\ p \in Procs /\ w \in Procs /\ NO_PID \notin Procs /\ tid[w] = t
      /\ \A d \in Tids : userland_pid[d] = w => d = t
      /\ \A u \in Procs : tid[u] = t => u = w
  <2>1. NO_PID \notin Procs
    BY DEF Procs, NO_PID, ProcessAssumption
  <2>2. p \in Procs
    BY <1>1, <1>2, Zenon DEF IInv, BaseInv, ProcessTypeOK, ThreadInv, Joins
  <2> QED  BY <1>1, <1>2, <2>1, <2>2, InUse, Zenon DEF InTable, Joins
<1>4. ProcessTypeOK'
  <2>1. family[w] \ {p} \in SUBSET Procs
    BY <1>3, Zenon DEF IInv, BaseInv, ProcessTypeOK
  <2> QED
    BY <1>2, <2>1, Zenon DEF IInv, BaseInv, ProcessTypeOK, data, Pcs
<1>5. /\ proc_pc'[t] = "user" /\ arg'[t] = NO_PID
      /\ \A d \in Tids : d # t => proc_pc'[d] = proc_pc[d] /\ arg'[d] = arg[d] /\ joined'[d] = joined[d]
      /\ parent_pid'[p] = NO_PID /\ \A q \in Procs : q # p => parent_pid'[q] = parent_pid[q]
      /\ family'[w] = family[w] \ {p} /\ \A u \in Procs : u # w => family'[u] = family[u]
  BY <1>2, <1>3, Zenon DEF IInv, BaseInv, ProcessTypeOK
<1>6. ThreadInv' /\ EntryInv'
  <2>1. UNCHANGED <<tid, userland_pid, ready, child_pid>> /\ proc_pc[t] \in Joins
    BY <1>2, Zenon DEF data, Joins
  <2>2. EntryInv'
    BY <2>1, Zenon DEF IInv, BaseInv, EntryInv
  <2>3. ASSUME NEW d \in Tids
        PROVE (/\ userland_pid[d] # NO_PID <=> proc_pc[d] \in InTable
               /\ userland_pid[d] # NO_PID => tid[userland_pid[d]] = d
               /\ ready[d] => proc_pc[d] \in Execs
               /\ child_pid[d] # NO_PID => ready[d]
               /\ proc_pc[d] \in Joins => arg[d] # NO_PID)'
    <3>1. CASE d = t
      <4>1. proc_pc'[t] \in InTable /\ proc_pc[t] \in InTable /\ proc_pc[t] \notin Execs /\ proc_pc'[t] \notin Joins
        BY <1>5, <2>1, Zenon DEF InTable, Execs, Joins
      <4> QED  BY <2>1, <3>1, <4>1, Zenon DEF IInv, BaseInv, ThreadInv
    <3>2. CASE d # t
      BY <1>5, <2>1, <3>2, Zenon DEF IInv, BaseInv, ThreadInv
    <3> QED  BY <3>1, <3>2, Zenon
  <2> QED  BY <2>2, <2>3, Zenon DEF ThreadInv
<1>7. CreatorInv'
  <2>1. UNCHANGED <<creator, ready>> /\ proc_pc[t] \in Joins
    BY <1>2, Zenon DEF data, Joins
  <2>2. \A d \in Tids : proc_pc'[d] \in Starting <=> proc_pc[d] \in Starting
    BY <1>5, <2>1, Zenon DEF Starting, Joins
  <2>3. \A d \in Tids : proc_pc[d] \in Execs => proc_pc'[d] = proc_pc[d]
    BY <1>5, <2>1, Zenon DEF Execs, Joins
  <2>4. \A d \in Tids : proc_pc'[d] \in {"nonready", "start"} => proc_pc[d] \in {"nonready", "start"}
    BY <1>5, Zenon
  <2>5. \A d \in Tids : creator[d] # NO_TID => creator[d] \in Tids
    BY ZenonT(40) DEF IInv, BaseInv, ProcessTypeOK
  <2> QED  BY <2>1, <2>2, <2>3, <2>4, <2>5, Zenon DEF IInv, BaseInv, CreatorInv
<1>8. \A u \in Procs : tid[u] # NO_TID =>
          /\ proc_pc'[tid[u]] = "load" => proc_pc[tid[u]] = "load"
          /\ proc_pc'[tid[u]] = "exit_loop" <=> proc_pc[tid[u]] = "exit_loop"
          /\ proc_pc[tid[u]] = "exit_loop" => arg'[tid[u]] = arg[tid[u]]
  BY <1>2, <1>5 DEF IInv, BaseInv, ProcessTypeOK
<1>9. FamilyInv'
  <2>1. UNCHANGED <<tid, inc, starts, listed>>
    BY <1>2, Zenon
  <2>2. ASSUME NEW u \in Procs
        PROVE (/\ family[u] \subseteq listed[u]
               /\ tid[u] = NO_TID => listed[u] = {}
               /\ tid[u] # NO_TID => (proc_pc[tid[u]] = "load" => listed[u] = {})
               /\ inc[u] <= starts)'
    <3>1. family'[u] \subseteq family[u]
      <4>1. CASE u = w
        BY <1>5, <4>1, Zenon
      <4>2. CASE u # w
        BY <1>5, <4>2, Zenon
      <4> QED  BY <4>1, <4>2, Zenon
    <3>2. family[u] \subseteq listed[u]
      BY Zenon DEF IInv, BaseInv, FamilyInv
    <3>3. family'[u] \subseteq listed'[u]
      BY <2>1, <3>1, <3>2, Zenon
    <3> QED  BY <1>8, <2>1, <3>3, Zenon DEF IInv, BaseInv, FamilyInv
  <2> QED  BY <2>1, <2>2, Zenon DEF IInv, BaseInv, FamilyInv
<1>10. ASSUME intact PROVE ListInv' /\ KinInv'
  <2>1. ListInv'
    BY <1>2, <1>10, Zenon DEF IInv, ListInv
  <2>2. parent_pid[p] = w
    BY <1>1, <1>2, <1>10, Zenon DEF IInv, KinInv, Joins
  <2>3. ASSUME NEW u \in Procs, NEW q \in Procs
        PROVE  (parent_pid[q] = u <=> q \in family[u] /\ Due(u, q))'
    <3>1. parent_pid[q] = u <=> q \in family[u] /\ Due(u, q)
      BY <1>10, Zenon DEF IInv, KinInv
    <3>2. Due(u, q)' <=> Due(u, q)
      BY <1>2, <1>8, Zenon DEF Due
    <3>3. CASE q = p
      <4>1. parent_pid'[p] # u
        BY <1>3, <1>5, Zenon
      <4>2. CASE u = w
        <5>1. p \notin family'[w]
          BY <1>5, Zenon
        <5> QED  BY <3>3, <4>1, <4>2, <5>1, Zenon
      <4>3. CASE u # w
        <5>1. family'[u] = family[u]
          BY <1>5, <4>3, Zenon
        <5> QED  BY <2>2, <3>1, <3>2, <3>3, <4>1, <4>3, <5>1, Zenon
      <4> QED  BY <4>2, <4>3, Zenon
    <3>4. CASE q # p
      BY <1>5, <3>1, <3>2, <3>4, Zenon
    <3> QED  BY <3>3, <3>4, Zenon
  <2>4. ASSUME NEW d \in Tids
        PROVE (/\ child_pid[d] # NO_PID => child_pid[d] - 1 \in family[userland_pid[d]]
               /\ proc_pc[d] \in Joins => inc[arg[d]] = joined[d] /\ parent_pid[arg[d]] = userland_pid[d]
               /\ proc_pc[d] = "exit_loop" => arg[d] = NO_PID \/ arg[d] \in listed[userland_pid[d]]
               /\ proc_pc[d] = "load" /\ creator[d] # NO_TID =>
                     parent_pid[userland_pid[d]] = userland_pid[creator[d]])'
    <3>1. CASE d = t
      <4>1. child_pid[t] = NO_PID
        BY <1>2, Zenon DEF IInv, BaseInv, ThreadInv, Execs
      <4>2. child_pid' = child_pid
        BY <1>2, Zenon DEF data
      <4> QED  BY <1>5, <3>1, <4>1, <4>2, Zenon DEF Joins
    <3>2. CASE d # t
      <4>1. UNCHANGED <<child_pid, creator, inc, listed, userland_pid>>
        BY <1>2, Zenon DEF data
      <4>2. /\ proc_pc'[d] = proc_pc[d] /\ userland_pid[d] # w
            /\ arg'[d] = arg[d] /\ joined'[d] = joined[d]
        BY <1>3, <1>5, <3>2, Zenon
      <4>3. /\ child_pid[d] # NO_PID => child_pid[d] - 1 \in family[userland_pid[d]]
            /\ proc_pc[d] \in Joins => inc[arg[d]] = joined[d] /\ parent_pid[arg[d]] = userland_pid[d]
            /\ proc_pc[d] = "exit_loop" => arg[d] = NO_PID \/ arg[d] \in listed[userland_pid[d]]
            /\ proc_pc[d] = "load" /\ creator[d] # NO_TID =>
                  parent_pid[userland_pid[d]] = userland_pid[creator[d]]
        BY <1>10, Zenon DEF IInv, KinInv
      <4>4. child_pid[d] # NO_PID => family'[userland_pid[d]] = family[userland_pid[d]]
        <5>1. child_pid[d] # NO_PID => userland_pid[d] \in Procs
          BY DEF IInv, BaseInv, ProcessTypeOK, ThreadInv, InTable
        <5> QED  BY <1>5, <4>2, <5>1, ZenonT(40)
      <4>5. proc_pc[d] \in Joins => parent_pid'[arg[d]] = parent_pid[arg[d]]
        <5>1. proc_pc[d] \in Joins => arg[d] \in Procs
          BY Zenon DEF IInv, BaseInv, ProcessTypeOK, ThreadInv
        <5> QED  BY <1>5, <2>2, <4>2, <4>3, <5>1, Zenon
      <4>6. proc_pc[d] = "load" => parent_pid'[userland_pid[d]] = parent_pid[userland_pid[d]]
        <5>1. proc_pc[d] = "load" => userland_pid[d] \in Procs /\ tid[userland_pid[d]] = d
          BY InUse, Zenon DEF InTable
        <5>2. d # NO_TID
          BY Zenon DEF ProcessAssumption
        <5> QED  BY <1>2, <1>5, <5>1, <5>2, Zenon
      <4> QED  BY <4>1, <4>2, <4>3, <4>4, <4>5, <4>6, Zenon
    <3> QED  BY <3>1, <3>2, Zenon
  <2> QED  BY <2>1, <2>3, <2>4, Zenon DEF KinInv
<1>11. intact' = intact
  BY <1>2, Zenon
<1> QED  BY <1>4, <1>6, <1>7, <1>9, <1>10, <1>11, Zenon DEF IInv, BaseInv

\* The start of a process that takes entry p.
Takes(c, p, par) ==
    /\ proc_pc[c] = "start_table" /\ Free(p) /\ par = ParentOf(c)
    /\ TakeEntry(c, p)
    /\ proc_pc' = [proc_pc EXCEPT ![c] = "load"]
    /\ starts' = starts + 1
    /\ inc' = [inc EXCEPT ![p] = starts + 1]
    /\ family' = [q \in Procs |-> IF q = par THEN family[q] \cup {p}
                                  ELSE IF q = p THEN {} ELSE family[q]]
    /\ listed' = [q \in Procs |-> IF q = par THEN listed[q] \cup {p}
                                  ELSE IF q = p THEN {} ELSE listed[q]]
    /\ intact' = (intact /\ \A q \in Procs : p \notin listed[q])
    /\ UNCHANGED <<joined, locks, arg, data>>

\* What the step does, field by field.
Taken(c, p, par) ==
    /\ tid[p] = NO_TID /\ parent_pid[p] = NO_PID /\ proc_pc[c] = "start_table" /\ userland_pid[c] = NO_PID
    /\ par # p /\ NO_PID \notin Procs /\ NO_TID \notin Tids
    /\ IF creator[c] = NO_TID THEN par = NO_PID
       ELSE /\ par \in Procs /\ creator[c] \in Tids /\ userland_pid[creator[c]] = par
            /\ tid[par] = creator[c] /\ proc_pc[creator[c]] \in Execs /\ creator[c] # c
    /\ \A d \in Tids : d # c => userland_pid[d] # p
    /\ \A u \in Procs : tid[u] # c
    /\ tid'[p] = c /\ userland_pid'[c] = p /\ proc_pc'[c] = "load" /\ parent_pid'[p] = par
    /\ inc'[p] = starts + 1 /\ starts' = starts + 1
    /\ \A d \in Tids : d # c => userland_pid'[d] = userland_pid[d] /\ proc_pc'[d] = proc_pc[d]
    /\ \A u \in Procs : u # p => /\ tid'[u] = tid[u] /\ parent_pid'[u] = parent_pid[u]
                                 /\ inc'[u] = inc[u] /\ next'[u] = next[u]
                                 /\ u # par => last_child_pid'[u] = last_child_pid[u]
    /\ last_child_pid'[p] = NO_PID
    /\ par # NO_PID => last_child_pid'[par] = p /\ next'[p] = last_child_pid[par]
    /\ family'[p] = {} /\ listed'[p] = {} /\ family[p] = {} /\ listed[p] = {}
    /\ par # NO_PID => family'[par] = family[par] \cup {p} /\ listed'[par] = listed[par] \cup {p}
    /\ \A u \in Procs : u # p /\ u # par => family'[u] = family[u] /\ listed'[u] = listed[u]
    /\ intact' => intact /\ \A q \in Procs : p \notin listed[q]
    /\ UNCHANGED <<joined, arg, ready, child_pid, creator>>

LEMMA TakenOf ==
    ASSUME ProcessAssumption, IInv, NEW c \in Tids, NEW p \in Procs, NEW par, Takes(c, p, par)
    PROVE  Taken(c, p, par) /\ ProcessTypeOK'
<1>1. /\ tid[p] = NO_TID /\ parent_pid[p] = NO_PID /\ proc_pc[c] = "start_table" /\ userland_pid[c] = NO_PID
      /\ NO_PID \notin Procs /\ NO_TID \notin Tids
  <2>1. NO_PID \notin Procs /\ NO_TID \notin Tids
    BY DEF Procs, NO_PID, ProcessAssumption
  <2> QED  BY <2>1, Zenon DEF Takes, Free, IInv, BaseInv, ThreadInv, InTable, Execs, Joins
<1>2. IF creator[c] = NO_TID THEN par = NO_PID
      ELSE /\ par \in Procs /\ creator[c] \in Tids /\ userland_pid[creator[c]] = par
           /\ tid[par] = creator[c] /\ proc_pc[creator[c]] \in Execs /\ creator[c] # c
  <2>1. CASE creator[c] = NO_TID
    BY <2>1, Zenon DEF Takes, ParentOf
  <2>2. CASE creator[c] # NO_TID
    <3>1. creator[c] \in Tids /\ proc_pc[creator[c]] \in Execs
      BY <2>2, Zenon DEF IInv, BaseInv, ProcessTypeOK, CreatorInv
    <3>2. par = userland_pid[creator[c]]
      BY <2>2, Zenon DEF Takes, ParentOf
    <3>3. par \in Procs /\ tid[par] = creator[c]
      BY <3>1, <3>2, InUse, Zenon DEF InTable
    <3> QED  BY <1>1, <2>2, <3>1, <3>2, <3>3, Zenon DEF Execs
  <2> QED  BY <2>1, <2>2, Zenon
<1>3. par # p
  BY <1>1, <1>2, Zenon
<1>4. (par = NO_PID \/ par \in Procs) /\ (par \in Procs => par # NO_PID)
  BY <1>1, <1>2, Zenon
<1>5. \A d \in Tids : d # c => userland_pid[d] # p
  BY <1>1, <1>4 DEF IInv, BaseInv, ThreadInv
<1>6. \A u \in Procs : tid[u] # c
  BY <1>1, <1>4, Zenon DEF IInv, BaseInv, EntryInv
<1>7. /\ tid' = [tid EXCEPT ![p] = c] /\ parent_pid' = [parent_pid EXCEPT ![p] = par]
      /\ retval' = [retval EXCEPT ![p] = NO_RETVAL] /\ userland_pid' = [userland_pid EXCEPT ![c] = p]
      /\ proc_pc' = [proc_pc EXCEPT ![c] = "load"] /\ starts' = starts + 1 /\ inc' = [inc EXCEPT ![p] = starts + 1]
      /\ UNCHANGED <<joined, locks, arg, data>>
  BY Zenon DEF Takes, TakeEntry
<1>8. IF par = NO_PID
      THEN /\ next' = [next EXCEPT ![p] = NO_PID]
           /\ last_child_pid' = [last_child_pid EXCEPT ![p] = NO_PID]
      ELSE /\ next' = [next EXCEPT ![p] = last_child_pid[par]]
           /\ last_child_pid' = [last_child_pid EXCEPT ![p] = NO_PID, ![par] = p]
  BY Zenon DEF Takes, TakeEntry
<1>9. /\ family' = [q \in Procs |-> IF q = par THEN family[q] \cup {p}
                                    ELSE IF q = p THEN {} ELSE family[q]]
      /\ listed' = [q \in Procs |-> IF q = par THEN listed[q] \cup {p}
                                    ELSE IF q = p THEN {} ELSE listed[q]]
      /\ intact' = (intact /\ \A q \in Procs : p \notin listed[q])
  BY Zenon DEF Takes
<1>10. /\ tid'[p] = c /\ userland_pid'[c] = p /\ proc_pc'[c] = "load" /\ parent_pid'[p] = par
       /\ inc'[p] = starts + 1
       /\ \A d \in Tids : d # c => userland_pid'[d] = userland_pid[d] /\ proc_pc'[d] = proc_pc[d]
       /\ \A u \in Procs : u # p => tid'[u] = tid[u] /\ parent_pid'[u] = parent_pid[u] /\ inc'[u] = inc[u]
  BY <1>7, Zenon DEF IInv, BaseInv, ProcessTypeOK
<1>11. /\ \A u \in Procs : u # p => /\ next'[u] = next[u]
                                    /\ u # par => last_child_pid'[u] = last_child_pid[u]
       /\ last_child_pid'[p] = NO_PID
       /\ par # NO_PID => last_child_pid'[par] = p /\ next'[p] = last_child_pid[par]
  BY <1>3, <1>4, <1>8 DEF IInv, BaseInv, ProcessTypeOK
<1>12. family[p] = {} /\ listed[p] = {}
  BY <1>1, Zenon DEF IInv, BaseInv, FamilyInv
<1>13. /\ family'[p] = {} /\ listed'[p] = {}
       /\ par # NO_PID => family'[par] = family[par] \cup {p} /\ listed'[par] = listed[par] \cup {p}
       /\ \A u \in Procs : u # p /\ u # par => family'[u] = family[u] /\ listed'[u] = listed[u]
  BY <1>3, <1>4, <1>9, Zenon
<1>14. intact' => intact /\ \A q \in Procs : p \notin listed[q]
  BY <1>9, Zenon
<1>15. UNCHANGED <<joined, arg, ready, child_pid, creator>>
  BY <1>7, Zenon DEF data
<1>16. Taken(c, p, par)
  BY <1>1, <1>2, <1>3, <1>5, <1>6, <1>7, <1>10, <1>11, <1>12, <1>13, <1>14, <1>15, Zenon DEF Taken
<1>17. ProcessTypeOK'
  <2>1. NO_RETVAL \in Int /\ starts + 1 \in Nat
    BY DEF NO_RETVAL, IInv, BaseInv, ProcessTypeOK
  <2>2. family' \in [Procs -> SUBSET Procs] /\ listed' \in [Procs -> SUBSET Procs]
    BY <1>9 DEF IInv, BaseInv, ProcessTypeOK
  <2>3. intact' \in BOOLEAN
    BY <1>9, Zenon
  <2>4. /\ next' \in [Procs -> Procs \cup {NO_PID}] /\ last_child_pid' \in [Procs -> Procs \cup {NO_PID}]
        /\ par \in Procs \cup {NO_PID}
    <3>1. /\ next \in [Procs -> Procs \cup {NO_PID}]
          /\ last_child_pid \in [Procs -> Procs \cup {NO_PID}]
      BY Zenon DEF IInv, BaseInv, ProcessTypeOK
    <3>2. CASE par = NO_PID
      BY <1>8, <3>1, <3>2, Zenon
    <3>3. CASE par \in Procs
      <4>1. last_child_pid[par] \in Procs \cup {NO_PID}
        BY <3>1, <3>3, Zenon
      <4>2. /\ next' = [next EXCEPT ![p] = last_child_pid[par]]
            /\ last_child_pid' = [last_child_pid EXCEPT ![p] = NO_PID, ![par] = p]
        BY <1>4, <1>8, <3>3, Zenon
      <4> QED  BY <3>1, <3>3, <4>1, <4>2, Zenon
    <3> QED  BY <1>4, <3>2, <3>3, Zenon
  <2> QED
    BY <1>7, <2>1, <2>2, <2>3, <2>4, Zenon DEF IInv, BaseInv, ProcessTypeOK, locks, data, Pcs
<1> QED  BY <1>16, <1>17, Zenon

LEMMA TakeFamily ==
    ASSUME ProcessAssumption, IInv, NEW c \in Tids, NEW p \in Procs, NEW par, Taken(c, p, par)
    PROVE  (ThreadInv /\ EntryInv /\ CreatorInv /\ FamilyInv)'
<1>1. ThreadInv'
  <2> SUFFICES ASSUME NEW d \in Tids
      PROVE (/\ userland_pid[d] # NO_PID <=> proc_pc[d] \in InTable
             /\ userland_pid[d] # NO_PID => tid[userland_pid[d]] = d
             /\ ready[d] => proc_pc[d] \in Execs
             /\ child_pid[d] # NO_PID => ready[d]
             /\ proc_pc[d] \in Joins => arg[d] # NO_PID)'
    BY Zenon DEF ThreadInv
  <2>1. CASE d = c
    <3>1. ~ready[c] /\ child_pid[c] = NO_PID
      BY Zenon DEF IInv, BaseInv, ThreadInv, Taken, Execs
    <3>2. /\ userland_pid'[c] = p /\ p # NO_PID /\ proc_pc'[c] = "load" /\ tid'[p] = c
          /\ ready' = ready /\ child_pid' = child_pid
      BY Zenon DEF Taken
    <3> QED  BY <2>1, <3>1, <3>2, Zenon DEF InTable, Joins
  <2>2. CASE d # c
    <3>1. userland_pid[d] # NO_PID => userland_pid[d] \in Procs /\ userland_pid[d] # p
      BY <2>2, Zenon DEF IInv, BaseInv, ProcessTypeOK, Taken
    <3>2. /\ userland_pid'[d] = userland_pid[d] /\ proc_pc'[d] = proc_pc[d]
          /\ ready' = ready /\ child_pid' = child_pid /\ arg' = arg
          /\ \A u \in Procs : u # p => tid'[u] = tid[u]
      BY <2>2, Zenon DEF Taken
    <3> QED  BY <3>1, <3>2, ZenonT(40) DEF IInv, BaseInv, ThreadInv
  <2> QED  BY <2>1, <2>2, Zenon
<1>2. EntryInv'
  <2>1. \A u \in Procs : tid[u] \in Tids \cup {NO_TID}
    BY Zenon DEF IInv, BaseInv, ProcessTypeOK
  <2>2. /\ tid'[p] = c /\ userland_pid'[c] = p
        /\ \A u \in Procs : u # p => tid'[u] = tid[u] /\ tid[u] # c
        /\ \A d \in Tids : d # c => userland_pid'[d] = userland_pid[d]
    BY Zenon DEF Taken
  <2>3. ASSUME NEW u \in Procs, tid'[u] # NO_TID PROVE userland_pid'[tid'[u]] = u
    <3>1. CASE u = p
      BY <2>2, <3>1, Zenon
    <3>2. CASE u # p
      BY <2>1, <2>2, <2>3, <3>2, Zenon DEF IInv, BaseInv, EntryInv
    <3> QED  BY <3>1, <3>2, Zenon
  <2> QED  BY <2>3, Zenon DEF EntryInv
<1>3. CreatorInv'
  <2>1. \A d \in Tids : (proc_pc'[d] \in Starting <=> proc_pc[d] \in Starting)
                           /\ (proc_pc'[d] \in {"nonready", "start"} => proc_pc[d] \in {"nonready", "start"})
    BY Zenon DEF Taken, Starting
  <2>2. \A d \in Tids : creator[d] # NO_TID => proc_pc'[creator[d]] = proc_pc[creator[d]]
    <3>1. \A d \in Tids : creator[d] # NO_TID => creator[d] \in Tids /\ creator[d] # c
      <4>1. proc_pc[c] = "start_table"
        BY Zenon DEF Taken
      <4> QED  BY <4>1, Zenon DEF IInv, BaseInv, ProcessTypeOK, CreatorInv, Execs
    <3> QED  BY <3>1, Zenon DEF Taken
  <2>3. creator' = creator /\ ready' = ready
    BY Zenon DEF Taken
  <2> QED  BY <2>1, <2>2, <2>3, Zenon DEF IInv, BaseInv, CreatorInv
<1>4. FamilyInv'
  <2>1. starts \in Nat /\ \A u \in Procs : inc[u] \in Nat /\ inc[u] <= starts
    BY Zenon DEF IInv, BaseInv, ProcessTypeOK, FamilyInv
  <2>2. ASSUME NEW u \in Procs
        PROVE (/\ family[u] \subseteq listed[u]
               /\ tid[u] = NO_TID => listed[u] = {}
               /\ tid[u] # NO_TID => (proc_pc[tid[u]] = "load" => listed[u] = {})
               /\ inc[u] <= starts)'
    <3>1. CASE u = p
      <4>1. /\ family'[p] = {} /\ listed'[p] = {} /\ inc'[p] = starts'
        BY Zenon DEF Taken
      <4>2. starts' <= starts'
        <5>1. starts' = starts + 1
          BY Zenon DEF Taken
        <5> QED  BY <2>1, <5>1
      <4> QED  BY <3>1, <4>1, <4>2, Zenon
    <3>2. CASE u # p /\ u = par
      <4>1. creator[c] # NO_TID
        BY <3>2, Zenon DEF Taken
      <4>2. tid'[par] = creator[c] /\ proc_pc'[creator[c]] = proc_pc[creator[c]]
        BY <3>2, <4>1, ZenonT(40) DEF Taken
      <4>3. proc_pc'[tid'[par]] # "load" /\ tid'[par] # NO_TID
        BY <4>1, <4>2, Zenon DEF Taken, Execs
      <4>4. family[par] \subseteq listed[par]
        BY <3>2, Zenon DEF IInv, BaseInv, FamilyInv
      <4>5. family'[par] \subseteq listed'[par]
        BY <3>2, <4>4, Zenon DEF Taken
      <4>6. inc'[u] = inc[u] /\ starts' = starts + 1
        BY <3>2, Zenon DEF Taken
      <4>7. inc'[u] <= starts'
        BY <2>1, <4>6
      <4> QED  BY <3>2, <4>3, <4>5, <4>7, Zenon
    <3>3. CASE u # p /\ u # par
      <4>1. tid'[u] = tid[u] /\ family'[u] = family[u] /\ listed'[u] = listed[u] /\ inc'[u] = inc[u]
        BY <3>3, Zenon DEF Taken
      <4>2. tid[u] # NO_TID => proc_pc'[tid[u]] = proc_pc[tid[u]]
        <5>1. tid[u] \in Tids \cup {NO_TID} /\ tid[u] # c
          BY Zenon DEF Taken, IInv, BaseInv, ProcessTypeOK
        <5> QED  BY <5>1, Zenon DEF Taken
      <4>3. starts' = starts + 1
        BY Zenon DEF Taken
      <4>4. inc'[u] <= starts'
        BY <2>1, <4>1, <4>3
      <4> QED  BY <4>1, <4>2, <4>4, ZenonT(40) DEF IInv, BaseInv, FamilyInv
    <3> QED  BY <3>1, <3>2, <3>3, Zenon
  <2>3. ASSUME NEW u \in Procs, NEW q \in Procs, q \in listed'[u] PROVE 0 < inc'[q]
    <3>1. CASE q = p
      <4>1. inc'[p] = starts + 1
        BY Zenon DEF Taken
      <4> QED  BY <2>1, <3>1, <4>1
    <3>2. CASE q # p
      <4>1. q \in listed[u]
        <5>1. CASE u = par
          <6>1. listed'[u] = listed[u] \cup {p}
            BY <5>1, Zenon DEF Taken
          <6> QED  BY <2>3, <3>2, <6>1, Zenon
        <5>2. CASE u # par
          BY <2>3, <5>2, Zenon DEF Taken
        <5> QED  BY <5>1, <5>2, Zenon
      <4> QED  BY <3>2, <4>1, Zenon DEF Taken, IInv, BaseInv, FamilyInv
    <3> QED  BY <3>1, <3>2, Zenon
  <2>4. ASSUME NEW u \in Procs, NEW q \in Procs, 0 < inc'[u], inc'[u] = inc'[q] PROVE u = q
    <3>1. inc'[p] = starts + 1 /\ \A x \in Procs : x # p => inc'[x] = inc[x]
      BY Zenon DEF Taken
    <3>2. CASE u # p /\ q # p
      BY <2>4, <3>1, <3>2, Zenon DEF IInv, BaseInv, FamilyInv
    <3>3. CASE u = p \/ q = p
      BY <2>1, <2>4, <3>1, <3>3
    <3> QED  BY <3>2, <3>3, Zenon
  <2> QED  BY <2>2, <2>3, <2>4, Zenon DEF FamilyInv
<1> QED  BY <1>1, <1>2, <1>3, <1>4, Zenon

LEMMA TakeLists ==
    ASSUME ProcessAssumption, IInv, NEW c \in Tids, NEW p \in Procs, NEW par, Taken(c, p, par),
           intact'
    PROVE  ListInv'
<1>1. intact /\ \A q \in Procs : p \notin listed[q]
  BY Zenon DEF Taken
<1>2. starts \in Nat /\ \A u \in Procs : inc[u] \in Nat /\ inc[u] <= starts
  BY Zenon DEF IInv, BaseInv, ProcessTypeOK, FamilyInv
<1>3. \A u \in Procs : listed[u] \subseteq Procs
  BY Zenon DEF IInv, BaseInv, ProcessTypeOK
<1>4. /\ inc'[p] = starts + 1 /\ \A q \in Procs : q # p => inc'[q] = inc[q] /\ next'[q] = next[q]
      /\ NO_PID \notin Procs
  BY Zenon DEF Taken
<1>5. /\ \A q, u \in Procs : q # p => (q \in listed'[u] <=> q \in listed[u] /\ u # p)
      /\ \A u \in Procs : p \in listed'[u] <=> u = par
      /\ \A u \in Procs : listed'[u] \subseteq Procs
  <2>1. \A u \in Procs : /\ u = par => listed'[u] = listed[u] \cup {p}
                         /\ u # p /\ u # par => listed'[u] = listed[u]
                         /\ u = p => listed'[u] = {} /\ u # par
    BY ZenonT(40) DEF Taken
  <2>2. ASSUME NEW u \in Procs
        PROVE  /\ \A q \in Procs : q # p => (q \in listed'[u] <=> q \in listed[u] /\ u # p)
               /\ p \in listed'[u] <=> u = par
               /\ listed'[u] \subseteq Procs
    <3>1. CASE u = par
      <4>1. listed'[u] = listed[u] \cup {p} /\ u # p /\ listed[u] \subseteq Procs
        BY <1>3, <2>1, <3>1, Zenon
      <4>2. listed'[u] \subseteq Procs
        BY <4>1, Zenon
      <4>3. \A q : q \in listed'[u] <=> q \in listed[u] \/ q = p
        BY <4>1, Zenon
      <4> QED  BY <3>1, <4>1, <4>2, <4>3, Zenon
    <3>2. CASE u = p
      <4>1. listed'[u] = {} /\ u # par
        BY <2>1, <3>2, Zenon
      <4> QED  BY <3>2, <4>1, Zenon
    <3>3. CASE u # p /\ u # par
      <4>1. listed'[u] = listed[u] /\ p \notin listed[u] /\ listed[u] \subseteq Procs
        BY <1>1, <1>3, <2>1, <3>3, Zenon
      <4> QED  BY <3>3, <4>1, Zenon
    <3> QED  BY <3>1, <3>2, <3>3, Zenon
  <2> QED  BY <2>2, Zenon
<1>6. ASSUME NEW u \in Procs, NEW q \in Procs, NEW s \in Procs, q \in listed'[u], q \in listed'[s]
      PROVE  u = s
  BY <1>1, <1>5, <1>6 DEF IInv, ListInv
<1>7. ASSUME NEW u \in Procs, tid'[u] # NO_TID
      PROVE (/\ last_child_pid[u] = NO_PID => listed[u] = {}
             /\ last_child_pid[u] # NO_PID =>
                 /\ last_child_pid[u] \in listed[u]
                 /\ \A s \in listed[u] : inc[s] <= inc[last_child_pid[u]])'
  <2>1. CASE u = p
    BY <2>1, Zenon DEF Taken
  <2>2. CASE u = par
    <3>1. last_child_pid'[u] = p
      BY <1>4, <2>2, Zenon DEF Taken
    <3> QED  BY <1>2, <1>4, <1>5, <2>2, <3>1
  <2>3. CASE u # p /\ u # par
    <3>1. /\ last_child_pid'[u] = last_child_pid[u] /\ listed'[u] = listed[u] /\ tid'[u] = tid[u]
      BY <2>3, Zenon DEF Taken
    <3>2. /\ last_child_pid[u] = NO_PID => listed[u] = {}
          /\ last_child_pid[u] # NO_PID =>
              /\ last_child_pid[u] \in listed[u]
              /\ \A s \in listed[u] : inc[s] <= inc[last_child_pid[u]]
      BY <1>1, <1>7, <3>1, Zenon DEF IInv, ListInv
    <3> QED  BY <1>1, <1>3, <1>4, <3>1, <3>2, Zenon
  <2> QED  BY <2>1, <2>2, <2>3, Zenon
<1>8. ASSUME NEW u \in Procs, NEW q \in Procs, q \in listed'[u]
      PROVE (/\ next[q] = NO_PID => \A s \in listed[u] : inc[q] <= inc[s]
             /\ next[q] # NO_PID =>
                 /\ next[q] \in listed[u] /\ inc[next[q]] < inc[q]
                 /\ \A s \in listed[u] : inc[s] < inc[q] => inc[s] <= inc[next[q]])'
  <2>1. CASE q = p
    <3>1. u = par /\ next'[p] = last_child_pid[par] /\ tid[par] # NO_TID
      <4>1. u = par
        BY <1>5, <1>8, <2>1, Zenon
      <4>2. par # NO_PID /\ creator[c] # NO_TID
        BY <1>4, <4>1, Zenon DEF Taken
      <4> QED  BY <4>1, <4>2, Zenon DEF Taken
    <3>2. /\ last_child_pid[u] = NO_PID => listed[u] = {}
          /\ last_child_pid[u] # NO_PID =>
              /\ last_child_pid[u] \in listed[u]
              /\ \A s \in listed[u] : inc[s] <= inc[last_child_pid[u]]
      BY <1>1, <3>1, Zenon DEF IInv, ListInv
    <3>3. listed'[u] = listed[u] \cup {p} /\ p \notin listed[u]
      BY <1>1, <1>4, <3>1, Zenon DEF Taken
    <3>4. \A s \in listed[u] : s \in Procs /\ s # p /\ inc'[s] = inc[s]
      BY <1>3, <1>4, <3>3, Zenon
    <3>5. next'[q] = NO_PID => \A s \in listed'[u] : inc'[q] <= inc'[s]
      <4>1. inc'[p] <= inc'[p]
        BY <1>2, <1>4
      <4> QED  BY <2>1, <3>1, <3>2, <3>3, <4>1, Zenon
    <3>6. ASSUME next'[q] # NO_PID
          PROVE  next'[q] \in listed'[u] /\ inc'[next'[q]] < inc'[q]
      <4>1. next'[q] \in listed[u] /\ next'[q] \in listed'[u]
        BY <2>1, <3>1, <3>2, <3>3, <3>6, Zenon
      <4>2. inc'[next'[q]] = inc[next'[q]] /\ next'[q] \in Procs
        BY <3>4, <4>1, Zenon
      <4>3. inc[next'[q]] < starts + 1
        BY <1>2, <4>2
      <4> QED  BY <1>4, <2>1, <4>1, <4>2, <4>3, Zenon
    <3>7. ASSUME next'[q] # NO_PID, NEW s \in listed'[u], inc'[s] < inc'[q]
          PROVE  inc'[s] <= inc'[next'[q]]
      <4>1. s # p
        <5>1. ~(inc'[p] < inc'[p])
          BY <1>2, <1>4
        <5> QED  BY <2>1, <3>7, <5>1, Zenon
      <4> QED  BY <2>1, <3>1, <3>2, <3>3, <3>4, <3>7, <4>1, Zenon
    <3> QED  BY <3>5, <3>6, <3>7, Zenon
  <2>2. CASE q # p
    <3>1. q \in listed[u] /\ u # p /\ inc'[q] = inc[q] /\ next'[q] = next[q]
      BY <1>4, <1>5, <1>8, <2>2, Zenon
    <3>2. /\ next[q] = NO_PID => \A s \in listed[u] : inc[q] <= inc[s]
          /\ next[q] # NO_PID =>
              /\ next[q] \in listed[u] /\ inc[next[q]] < inc[q]
              /\ \A s \in listed[u] : inc[s] < inc[q] => inc[s] <= inc[next[q]]
      BY <1>1, <3>1, Zenon DEF IInv, ListInv
    <3>3. \A s \in listed'[u] : s \in Procs /\ (s # p => s \in listed[u] /\ inc'[s] = inc[s])
      BY <1>4, <1>5, Zenon
    <3>4. next[q] # NO_PID => next[q] \in listed'[u] /\ inc'[next[q]] = inc[next[q]]
      <4>1. ASSUME next[q] # NO_PID PROVE next[q] \in Procs /\ next[q] # p /\ next[q] \in listed[u]
        BY <1>1, <1>3, <3>2, <4>1, Zenon
      <4> QED  BY <1>4, <1>5, <3>1, <4>1, Zenon
    <3>5. inc[q] < starts + 1 /\ ~(starts + 1 < inc[q])
      <4>1. starts \in Nat /\ inc[q] \in Nat /\ inc[q] <= starts
        BY <1>2, ZenonT(40)
      <4> QED  BY <4>1
    <3>6. next[q] = NO_PID => \A s \in listed'[u] : inc'[q] <= inc'[s]
      BY <1>2, <1>4, <3>1, <3>2, <3>3
    <3>7. next[q] # NO_PID => \A s \in listed'[u] : inc'[s] < inc'[q] => inc'[s] <= inc'[next[q]]
      BY <1>4, <3>1, <3>2, <3>3, <3>4, <3>5, Zenon
    <3> QED  BY <3>1, <3>2, <3>4, <3>6, <3>7, Zenon
  <2> QED  BY <2>1, <2>2, Zenon
<1> QED  BY <1>6, <1>7, <1>8, Zenon DEF ListInv

LEMMA TakeKin ==
    ASSUME ProcessAssumption, IInv, NEW c \in Tids, NEW p \in Procs, NEW par, Taken(c, p, par),
           intact'
    PROVE  KinInv'
<1>1. intact /\ \A q \in Procs : p \notin listed[q] /\ p \notin family[q]
  BY Zenon DEF Taken, IInv, BaseInv, FamilyInv
<1>2. ASSUME NEW u \in Procs, NEW q \in Procs
      PROVE  (parent_pid[q] = u <=> q \in family[u] /\ Due(u, q))'
  <2>1. parent_pid[q] = u <=> q \in family[u] /\ Due(u, q)
    BY <1>1, Zenon DEF IInv, KinInv
  <2>2. CASE q = p
    <3>1. parent_pid'[p] = par /\ (p \in family'[u] <=> u = par)
      <4>1. CASE u = par
        <5>1. family'[u] = family[u] \cup {p}
          BY <4>1, Zenon DEF Taken
        <5> QED  BY <4>1, <5>1, Zenon DEF Taken
      <4>2. CASE u # par
        BY <1>1, <4>2, Zenon DEF Taken
      <4> QED  BY <4>1, <4>2, Zenon
    <3>2. u = par => Due(u, p)'
      <4>1. ASSUME u = par PROVE proc_pc'[tid'[u]] # "exit_loop"
        <5>1. creator[c] # NO_TID
          BY <4>1, Zenon DEF Taken
        <5>2. tid'[u] = creator[c] /\ proc_pc'[creator[c]] = proc_pc[creator[c]]
          BY <4>1, <5>1, Zenon DEF Taken
        <5> QED  BY <5>1, <5>2, ZenonT(40) DEF Taken, Execs
      <4> QED  BY <4>1, Zenon DEF Due
    <3> QED  BY <2>2, <3>1, <3>2, Zenon
  <2>3. CASE q # p /\ u = p
    BY <2>1, <2>3, Zenon DEF Taken
  <2>4. CASE q # p /\ u # p
    <3>1. parent_pid'[q] = parent_pid[q] /\ (q \in family'[u] <=> q \in family[u]) /\ inc'[q] = inc[q]
      <4>1. CASE u = par
        <5>1. family'[u] = family[u] \cup {p}
          BY <4>1, Zenon DEF Taken
        <5> QED  BY <2>4, <5>1, Zenon DEF Taken
      <4>2. CASE u # par
        BY <2>4, <4>2, Zenon DEF Taken
      <4> QED  BY <4>1, <4>2, Zenon
    <3>2. tid'[u] = tid[u] /\ arg' = arg /\ (tid[u] # NO_TID => proc_pc'[tid[u]] = proc_pc[tid[u]])
      <4>1. tid[u] \in Tids \cup {NO_TID} /\ tid[u] # c
        BY Zenon DEF Taken, IInv, BaseInv, ProcessTypeOK
      <4> QED  BY <2>4, <4>1, Zenon DEF Taken
    <3>3. ASSUME tid[u] # NO_TID, proc_pc[tid[u]] = "exit_loop", arg[tid[u]] # NO_PID
          PROVE  inc'[arg[tid[u]]] = inc[arg[tid[u]]]
      <4>1. tid[u] \in Tids /\ userland_pid[tid[u]] = u /\ arg[tid[u]] \in Procs
        BY <3>3, Zenon DEF IInv, BaseInv, ProcessTypeOK, EntryInv
      <4>2. arg[tid[u]] # p
        <5>1. arg[tid[u]] \in listed[u]
          BY <1>1, <3>3, <4>1, Zenon DEF IInv, KinInv
        <5> QED  BY <1>1, <5>1, Zenon
      <4> QED  BY <4>1, <4>2, Zenon DEF Taken
    <3>4. Due(u, q)' <=> Due(u, q)
      BY <3>1, <3>2, <3>3, Zenon DEF Due
    <3> QED  BY <2>1, <3>1, <3>4, Zenon
  <2> QED  BY <2>2, <2>3, <2>4, Zenon
<1>3. ASSUME NEW d \in Tids
      PROVE (/\ child_pid[d] # NO_PID => child_pid[d] - 1 \in family[userland_pid[d]]
             /\ proc_pc[d] \in Joins => inc[arg[d]] = joined[d] /\ parent_pid[arg[d]] = userland_pid[d]
             /\ proc_pc[d] = "exit_loop" => arg[d] = NO_PID \/ arg[d] \in listed[userland_pid[d]]
             /\ proc_pc[d] = "load" /\ creator[d] # NO_TID =>
                   parent_pid[userland_pid[d]] = userland_pid[creator[d]])'
  <2>1. UNCHANGED <<joined, arg, ready, child_pid, creator>>
    BY Zenon DEF Taken
  <2>2. CASE d = c
    <3>1. child_pid[c] = NO_PID
      BY Zenon DEF IInv, BaseInv, ThreadInv, Taken, Execs
    <3>2. creator[c] # NO_TID => parent_pid'[p] = userland_pid'[creator[c]]
      BY Zenon DEF Taken
    <3>3. proc_pc'[c] = "load" /\ userland_pid'[c] = p
      BY Zenon DEF Taken
    <3> QED  BY <2>1, <2>2, <3>1, <3>2, <3>3, Zenon DEF Joins
  <2>3. CASE d # c
    <3>1. proc_pc'[d] = proc_pc[d] /\ userland_pid'[d] = userland_pid[d] /\ userland_pid[d] # p
      BY <2>3, Zenon DEF Taken
    <3>2. proc_pc[d] \in InTable => /\ userland_pid[d] \in Procs
                              /\ family[userland_pid[d]] \subseteq family'[userland_pid[d]]
                              /\ listed[userland_pid[d]] \subseteq listed'[userland_pid[d]]
                              /\ parent_pid'[userland_pid[d]] = parent_pid[userland_pid[d]]
      <4>1. proc_pc[d] \in InTable => userland_pid[d] \in Procs
        BY Zenon DEF IInv, BaseInv, ProcessTypeOK, ThreadInv
      <4>2. \A u \in Procs : u # p => /\ family[u] \subseteq family'[u] /\ listed[u] \subseteq listed'[u]
                                      /\ parent_pid'[u] = parent_pid[u]
        <5> SUFFICES ASSUME NEW u \in Procs, u # p
            PROVE /\ family[u] \subseteq family'[u] /\ listed[u] \subseteq listed'[u]
                  /\ parent_pid'[u] = parent_pid[u]
          BY Zenon
        <5>1. CASE u = par
          <6>1. /\ family'[u] = family[u] \cup {p} /\ listed'[u] = listed[u] \cup {p}
                /\ parent_pid'[u] = parent_pid[u]
            BY <5>1, Zenon DEF Taken
          <6> QED  BY <6>1, Zenon
        <5>2. CASE u # par
          <6>1. family'[u] = family[u] /\ listed'[u] = listed[u] /\ parent_pid'[u] = parent_pid[u]
            BY <5>2, Zenon DEF Taken
          <6> QED  BY <6>1, Zenon
        <5> QED  BY <5>1, <5>2, Zenon
      <4> QED  BY <3>1, <4>1, <4>2, Zenon
    <3>3. /\ child_pid[d] # NO_PID => proc_pc[d] \in InTable
          /\ proc_pc[d] \in Joins \cup {"exit_loop", "load"} => proc_pc[d] \in InTable
      BY Zenon DEF IInv, BaseInv, ThreadInv, InTable
    <3>4. /\ child_pid[d] # NO_PID => child_pid[d] - 1 \in family[userland_pid[d]]
          /\ proc_pc[d] \in Joins => inc[arg[d]] = joined[d] /\ parent_pid[arg[d]] = userland_pid[d]
          /\ proc_pc[d] = "exit_loop" => arg[d] = NO_PID \/ arg[d] \in listed[userland_pid[d]]
          /\ proc_pc[d] = "load" /\ creator[d] # NO_TID =>
                parent_pid[userland_pid[d]] = userland_pid[creator[d]]
      BY <1>1, Zenon DEF IInv, KinInv
    <3>5. ASSUME proc_pc[d] \in Joins
          PROVE  inc'[arg[d]] = inc[arg[d]] /\ parent_pid'[arg[d]] = parent_pid[arg[d]]
      <4>1. arg[d] \in Procs
        BY <3>5, Zenon DEF IInv, BaseInv, ProcessTypeOK, ThreadInv
      <4>2. parent_pid[p] \notin Procs
        BY Zenon DEF Taken
      <4>3. arg[d] # p
        BY <3>2, <3>3, <3>4, <3>5, <4>2, Zenon
      <4> QED  BY <4>1, <4>3, Zenon DEF Taken
    <3>6. creator[d] # NO_TID => userland_pid'[creator[d]] = userland_pid[creator[d]]
      <4>1. proc_pc[c] = "start_table"
        BY Zenon DEF Taken
      <4>2. creator[d] # NO_TID => creator[d] \in Tids /\ creator[d] # c
        BY <4>1, Zenon DEF IInv, BaseInv, ProcessTypeOK, CreatorInv, Execs
      <4> QED  BY <4>2, Zenon DEF Taken
    <3> QED  BY <2>1, <3>1, <3>2, <3>3, <3>4, <3>5, <3>6, Zenon
  <2> QED  BY <2>2, <2>3, Zenon
<1> QED  BY <1>2, <1>3, Zenon DEF KinInv

LEMMA process_start_table_Inv ==
    ASSUME ProcessAssumption, IInv, NEW c \in Tids, process_start_table(c)
    PROVE  IInv'
<1>1. CASE ~\E p \in Procs : Free(p)
  <2>1. /\ proc_pc[c] = "start_table" /\ Move(c, "start_fail")
        /\ UNCHANGED <<entry, userland_pid, ghost, locks, arg, data>>
    BY <1>1, Zenon DEF process_start_table, FirstFree
  <2> QED  BY <2>1, process_start_full_Inv, Zenon
<1>2. CASE \E p \in Procs : Free(p)
  <2>1. PICK p \in Procs : Takes(c, p, ParentOf(c))
    BY <1>2, Zenon DEF process_start_table, FirstFree, Takes, Move
  <2>2. PICK par : par = ParentOf(c)
    BY Zenon
  <2>3. Taken(c, p, par) /\ ProcessTypeOK'
    BY <2>1, <2>2, TakenOf, Zenon
  <2> QED  BY <2>3, TakeFamily, TakeLists, TakeKin, Zenon DEF IInv, BaseInv
<1> QED  BY <1>1, <1>2, Zenon
-----------------------------------------------------------------------------
LEMMA NextInv == ASSUME ProcessAssumption, IInv, [ProcessNext]_proc_vars PROVE IInv'
<1>1. CASE UNCHANGED proc_vars
  <2> USE <1>1 DEF proc_vars, entry, locks, data, ghost
  <2>1. ProcessTypeOK'
    BY Zenon DEF IInv, BaseInv, ProcessTypeOK
  <2>2. (ThreadInv /\ EntryInv /\ CreatorInv)'
    BY Zenon DEF IInv, BaseInv, ThreadInv, EntryInv, CreatorInv
  <2>3. Quiet
    BY Zenon DEF Quiet, IInv, BaseInv, ThreadInv
  <2> QED  BY <2>1, <2>2, <2>3, QuietStep, Zenon
<1>2. ASSUME NEW t \in Tids, Locking(t) PROVE IInv'
  BY <1>2, execp_run_Inv, execp_woken_Inv, process_start_Inv, process_start_table_Inv,
     exit_table_Inv, join_lock_Inv, Zenon DEF Locking
<1>3. ASSUME NEW t \in Tids, GoOn(t) PROVE IInv'
  <2>1. ASSUME join_test(t) PROVE IInv'
    BY <2>1, join_wait_Inv, join_end_Inv, Zenon
  <2> QED
    BY <1>3, <2>1, execp_test_Inv, process_start_done_Inv, restore_process_state_Inv,
       restore_process_state_end_Inv, exit_orphan_Inv, exit_end_Inv, Zenon DEF GoOn
<1>4. ASSUME NEW t \in Tids, syscall_handle_execp(t) \/ syscall_handle_exit(t) PROVE IInv'
  BY <1>4, syscall_handle_execp_Inv, syscall_handle_exit_Inv, Zenon
<1>5. ASSUME NEW t \in Tids, NEW p \in Procs, syscall_handle_join(t, p) PROVE IInv'
  BY <1>5, syscall_handle_join_Inv, Zenon
<1> QED  BY <1>1, <1>2, <1>3, <1>4, <1>5, Zenon DEF ProcessNext

LEMMA TableInvariant == ASSUME ProcessAssumption PROVE ProcessSpec => []IInv
<1>1. ProcessInit => IInv
  BY InitInv, Zenon
<1>2. IInv /\ [ProcessNext]_proc_vars => IInv'
  BY NextInv, Zenon
<1> QED  BY <1>1, <1>2, PTL DEF ProcessSpec

\* However processes start, fail to start, exit and are joined, in any number and
\* on any number of threads, a thread and its entry of process_table agree, and a
\* child being started uses only the create data of a parent that still waits in
\* execp.
THEOREM EntriesStayOwned == ASSUME ProcessAssumption PROVE ProcessSpec => []EntriesOwned
<1>1. IInv => EntriesOwned
  <2> SUFFICES ASSUME IInv PROVE EntriesOwned
    BY Zenon
  <2>1. ASSUME NEW c \in Tids, creator[c] # NO_TID
        PROVE  /\ proc_pc[creator[c]] \in Execs /\ userland_pid[creator[c]] # NO_PID /\ ~ready[creator[c]]
    <3>1. creator[c] \in Tids /\ proc_pc[creator[c]] \in Execs /\ ~ready[creator[c]]
      BY <2>1, Zenon DEF IInv, BaseInv, ProcessTypeOK, CreatorInv
    <3> QED  BY <3>1, Zenon DEF IInv, BaseInv, ThreadInv, InTable
  <2> QED  BY <2>1, Zenon DEF IInv, BaseInv, ThreadInv, EntryInv, Execs, EntriesOwned
<1> QED  BY <1>1, TableInvariant, PTL

\* As long as no entry is cleared or handed out in the middle of a list of children,
\* the parent_pid fields are the families of the processes: a join waits for, and
\* takes the value of, the child it was called for.
THEOREM PidsStayChildren == ASSUME ProcessAssumption PROVE ProcessSpec => []PidsNameChildren
<1>1. IInv => PidsNameChildren
  BY Zenon DEF IInv, KinInv, Due, Joins, PidsNameChildren
<1> QED  BY <1>1, TableInvariant, PTL

=============================================================================
