---------------------------- MODULE Memory_proofs ----------------------------
(***************************************************************************)
(* The TLB agrees with the page tables, for any number of processes, pages *)
(* and entries.                                                            *)
(***************************************************************************)
EXTENDS Memory, SequenceTheorems, FiniteSetTheorems, WellFoundedInduction, TLAPS

\* The page tables are well formed: every valid page has an entry for its pair.
TablesInv ==
    /\ DOMAIN map = Procs /\ DOMAIN pairs = Procs
    /\ \A p \in Procs : \A v \in DOMAIN map[p] :
        /\ Pair(v) \in pairs[p]
        /\ map[p][v] = [page |-> map[p][v].page, dirty |-> map[p][v].dirty]

\* What an entry of the TLB says of a page in its pair is what the page table says,
\* unless an update of the table has missed the TLB.
Agrees(e) ==
    /\ e.asid \in Procs
    /\ e = [asid |-> e.asid, pair |-> e.pair, map |-> e.map]
    /\ e.asid \notin stale => \A v \in DOMAIN e.map :
        /\ Pair(v) = e.pair
        /\ v \in DOMAIN map[e.asid]
        /\ e.map[v].page = map[e.asid][v].page
        /\ e.map[v].dirty => map[e.asid][v].dirty

IInv == TablesInv /\ \A e \in tlb : Agrees(e)
-----------------------------------------------------------------------------
LEMMA InitInv == Init => IInv
  BY DEF Init, IInv, TablesInv, Agrees, Empty

\* process_start and memlimit map pages that were not mapped.
LEMMA AddStep ==
    ASSUME IInv, NEW p \in Procs, NEW now, NEW n, AddPages(p, now, n),
           UNCHANGED <<tlb, stale>>
    PROVE  IInv'
<1> DEFINE done == {i \in 1..n : vm_map(p, now, i)}
           new == {now + i : i \in done}
<1>1. /\ map' = [map EXCEPT ![p] = [v \in DOMAIN @ \cup new |->
                    IF v \in DOMAIN @ THEN @[v]
                    ELSE [page |-> pagepool_get_phys_page(v - now), dirty |-> TRUE]]]
      /\ pairs' = [pairs EXCEPT ![p] = @ \cup {Pair(now + i) : i \in done}]
  BY Zenon DEF AddPages
<1>2. /\ DOMAIN map' = Procs /\ DOMAIN pairs' = Procs
      /\ \A q \in Procs : q # p => map'[q] = map[q] /\ pairs'[q] = pairs[q]
      /\ map'[p] = [v \in DOMAIN map[p] \cup new |->
                       IF v \in DOMAIN map[p] THEN map[p][v]
                       ELSE [page |-> pagepool_get_phys_page(v - now), dirty |-> TRUE]]
      /\ pairs'[p] = pairs[p] \cup {Pair(now + i) : i \in done}
  BY <1>1, Zenon DEF IInv, TablesInv
<1>3. /\ DOMAIN map'[p] = DOMAIN map[p] \cup new
      /\ \A v \in DOMAIN map[p] : map'[p][v] = map[p][v]
      /\ \A v \in new : Pair(v) \in pairs'[p]
  BY <1>2
<1>4. ASSUME NEW v \in new, v \notin DOMAIN map[p]
      PROVE  map'[p][v] = [page |-> map'[p][v].page, dirty |-> map'[p][v].dirty]
  <2>1. PICK page : map'[p][v] = [page |-> page, dirty |-> TRUE]
    BY <1>2, <1>4, Zenon
  <2> QED  BY <2>1, Zenon
<1>5. TablesInv'
  <2>1. ASSUME NEW q \in Procs, NEW v \in DOMAIN map'[q]
        PROVE  /\ Pair(v) \in pairs'[q]
               /\ map'[q][v] = [page |-> map'[q][v].page, dirty |-> map'[q][v].dirty]
    <3>1. CASE q # p
      BY <1>2, <3>1 DEF IInv, TablesInv
    <3>2. CASE q = p /\ v \in DOMAIN map[p]
      BY <1>2, <1>3, <3>2 DEF IInv, TablesInv
    <3>3. CASE q = p /\ v \in new /\ v \notin DOMAIN map[p]
      BY <1>3, <1>4, <3>3, Zenon
    <3> QED  BY <1>3, <3>1, <3>2, <3>3, Zenon
  <2> QED  BY <1>2, <2>1, Zenon DEF TablesInv
<1>6. ASSUME NEW e \in tlb PROVE Agrees(e)'
  BY <1>2, <1>3 DEF IInv, Agrees
<1> QED  BY <1>5, <1>6, Zenon DEF IInv

\* A process whose update missed a translation is noted, and stays so.
LEMMA MissesStep ==
    ASSUME NEW p, NEW E, Misses(p, E)
    PROVE  /\ stale \subseteq stale'
           /\ \A q \in stale' : q = p \/ q \in stale
           /\ \A e \in E : DOMAIN e.map # {} => p \in stale'
  BY Zenon DEF Misses

\* The page table of p is given up: a start that failed, or exit.
LEMMA ClearStep ==
    ASSUME IInv, NEW p \in Procs, map' = [map EXCEPT ![p] = Empty],
           pairs' = [pairs EXCEPT ![p] = {}], stale \subseteq stale'
    PROVE  /\ TablesInv'
           /\ \A e \in tlb : e.asid # p => Agrees(e)'
           /\ \A e \in tlb : e.asid \in stale' \/ DOMAIN e.map = {} => Agrees(e)'
<1>1. /\ DOMAIN map' = Procs /\ DOMAIN pairs' = Procs
      /\ \A q \in Procs : q # p => map'[q] = map[q] /\ pairs'[q] = pairs[q]
      /\ DOMAIN map'[p] = {}
  BY Zenon DEF IInv, TablesInv, Empty
<1>2. TablesInv' /\ \A e \in tlb : e.asid # p => Agrees(e)'
  BY <1>1 DEF IInv, TablesInv, Agrees
<1>3. \A e \in tlb : e.asid \in stale' \/ DOMAIN e.map = {} => Agrees(e)'
  BY Zenon DEF IInv, Agrees
<1> QED  BY <1>2, <1>3, Zenon

LEMMA RestoreStep ==
    ASSUME IInv, NEW p \in Procs, NEW unmapped, restore_process_state(p, unmapped)
    PROVE  IInv'
<1>1. /\ map' = [map EXCEPT ![p] = Empty] /\ pairs' = [pairs EXCEPT ![p] = {}]
      /\ tlb' = tlb /\ Misses(p, {e \in tlb : e.asid = p})
  BY Zenon DEF restore_process_state
<1>2. stale \subseteq stale' /\ \A e \in tlb : e.asid = p /\ DOMAIN e.map # {} => p \in stale'
  BY <1>1, MissesStep, Zenon
<1>3. TablesInv' /\ \A e \in tlb : Agrees(e)'
  BY <1>1, <1>2, ClearStep, Zenon
<1> QED  BY <1>1, <1>3, Zenon DEF IInv

\* exit replaces every entry that could still name a page of p, or notes that it
\* did not.
LEMMA ExitStep ==
    ASSUME IInv, NEW p \in Procs, syscall_handle_exit(p)
    PROVE  IInv'
<1>1. PICK H \in Probed(p, pairs[p]) :
        /\ tlb' = {IF e \in H THEN [e EXCEPT !.map = Empty] ELSE e : e \in tlb}
        /\ Misses(p, Cached(p, pairs[p]) \ H)
  BY Zenon DEF syscall_handle_exit
<1>2. /\ stale \subseteq stale'
      /\ \A e \in Cached(p, pairs[p]) \ H : DOMAIN e.map # {} => p \in stale'
  BY <1>1, MissesStep, Zenon
<1>3. /\ TablesInv' /\ \A e \in tlb : e.asid # p => Agrees(e)'
      /\ \A e \in tlb : e.asid \in stale' \/ DOMAIN e.map = {} => Agrees(e)'
  BY <1>2, ClearStep, Zenon DEF syscall_handle_exit
<1>4. ASSUME NEW e \in tlb PROVE Agrees([e EXCEPT !.map = Empty])'
  BY <1>4 DEF IInv, Agrees, Empty
<1>5. ASSUME NEW e \in tlb, e \notin H PROVE Agrees(e)'
  <2>1. CASE e.asid # p \/ e.asid \in stale'
    BY <1>3, <2>1, Zenon
  <2>2. CASE e.asid = p /\ e.asid \notin stale' /\ e.pair \in pairs[p]
    BY <1>2, <1>3, <1>5, <2>2, Zenon DEF Cached
  <2>3. CASE e.asid = p /\ e.asid \notin stale' /\ e.pair \notin pairs[p]
    <3>1. DOMAIN e.map = {}
      BY <1>2, <2>3 DEF IInv, Agrees, TablesInv
    <3> QED  BY <1>3, <3>1, Zenon
  <2> QED  BY <2>1, <2>2, <2>3, Zenon
<1> QED  BY <1>1, <1>3, <1>4, <1>5, Zenon DEF IInv

\* The pages of segment ro become read-only in both places.
LEMMA UserlandStep ==
    ASSUME IInv, NEW p \in Procs, thread_goto_userland(p)
    PROVE  IInv'
<1>1. /\ DOMAIN map' = Procs /\ pairs' = pairs
      /\ \A q \in Procs : q # p => map'[q] = map[q]
      /\ map'[p] = [v \in DOMAIN map[p] |->
                       IF v \in ro[p] THEN [map[p][v] EXCEPT !.dirty = FALSE] ELSE map[p][v]]
  BY Zenon DEF thread_goto_userland, IInv, TablesInv
<1>2. ASSUME NEW v \in DOMAIN map[p]
      PROVE  /\ v \in DOMAIN map'[p]
             /\ map'[p][v] = [page |-> map'[p][v].page, dirty |-> map'[p][v].dirty]
             /\ map'[p][v].page = map[p][v].page
             /\ v \notin ro[p] => map'[p][v] = map[p][v]
  <2>1. map[p][v] = [page |-> map[p][v].page, dirty |-> map[p][v].dirty]
    BY Zenon DEF IInv, TablesInv
  <2>2. CASE v \in ro[p]
    <3>1. map'[p][v] = [map[p][v] EXCEPT !.dirty = FALSE]
      BY <1>1, <2>2, Zenon
    <3>2. map'[p][v] = [page |-> map[p][v].page, dirty |-> FALSE]
      BY <2>1, <3>1, Zenon
    <3> QED  BY <1>1, <2>2, <3>2, Zenon
  <2>3. CASE v \notin ro[p]
    BY <1>1, <2>1, <2>3, Zenon
  <2> QED  BY <2>2, <2>3, Zenon
<1>3. DOMAIN map'[p] = DOMAIN map[p]
  BY <1>1, Zenon
<1>4. TablesInv'
  BY <1>1, <1>2, <1>3 DEF IInv, TablesInv
<1>5. PICK H \in Probed(p, {Pair(v) : v \in ro[p]}) :
        /\ tlb' = {IF e \in H THEN Entry(p, e.pair)' ELSE e : e \in tlb}
        /\ Misses(p, Cached(p, {Pair(v) : v \in ro[p]}) \ H)
  BY Zenon DEF thread_goto_userland
<1>6. /\ stale \subseteq stale'
      /\ \A e \in Cached(p, {Pair(v) : v \in ro[p]}) \ H : DOMAIN e.map # {} => p \in stale'
  BY <1>5, MissesStep, Zenon
<1>7. ASSUME NEW e \in tlb PROVE Agrees(Entry(p, e.pair))'
  BY <1>3, Zenon DEF Agrees, Entry
<1>8. ASSUME NEW e \in tlb, e \notin H PROVE Agrees(e)'
  <2>1. CASE e.asid # p
    BY <1>1, <1>6, <2>1 DEF IInv, Agrees
  <2>2. CASE e.asid \in stale' \/ DOMAIN e.map = {}
    BY <2>2, Zenon DEF IInv, Agrees
  <2>3. CASE e.asid = p /\ e.asid \notin stale' /\ DOMAIN e.map # {}
    <3>1. \A v \in ro[p] : Pair(v) # e.pair
      BY <1>6, <1>8, <2>3, Zenon DEF Cached
    <3> QED  BY <1>2, <1>6, <2>3, <3>1, Zenon DEF IInv, Agrees
  <2> QED  BY <2>1, <2>2, <2>3, Zenon
<1>9. ASSUME NEW f \in tlb' PROVE Agrees(f)'
  <2>1. PICK e \in tlb : f = IF e \in H THEN Entry(p, e.pair)' ELSE e
    BY <1>5, Zenon
  <2> QED  BY <1>7, <1>8, <2>1, Zenon
<1> QED  BY <1>4, <1>9, Zenon DEF IInv

\* try_to_fill writes what the page table says, or the process exits.
LEMMA ExceptionStep ==
    ASSUME IInv, NEW p \in Procs, NEW v, NEW store, tlb_exception(p, v, store)
    PROVE  IInv'
<1>1. CASE syscall_handle_exit(p)
  BY <1>1, ExitStep, Zenon
<1>2. CASE ~syscall_handle_exit(p)
  <2>1. /\ UNCHANGED <<pairs, map, stale>>
        /\ \E old : tlb' = (tlb \ old) \cup {Entry(p, Pair(v))}
    BY <1>2, Zenon DEF tlb_exception
  <2>2. Agrees(Entry(p, Pair(v)))
    BY Zenon DEF Agrees, Entry
  <2> QED  BY <2>1, <2>2 DEF IInv, TablesInv, Agrees
<1> QED  BY <1>1, <1>2, Zenon

\* memlimit shrinks a heap: no entry keeps a page that is unmapped, or p is noted.
LEMMA ShrinkStep ==
    ASSUME IInv, NEW p \in Procs, NEW to, memlimit_shrink(p, to)
    PROVE  IInv'
<1> DEFINE gone == {v \in to + 1 .. heap[p] + offset : Unmaps(p, v)}
<1>1. /\ map' = [map EXCEPT ![p] = [v \in DOMAIN @ \ gone |-> @[v]]] /\ pairs' = pairs
      /\ tlb' = tlb
      /\ Misses(p, {e \in tlb : e.asid = p /\ DOMAIN e.map \cap gone # {}})
  BY Zenon DEF memlimit_shrink
<1>2. /\ DOMAIN map' = Procs
      /\ \A q \in Procs : q # p => map'[q] = map[q]
      /\ DOMAIN map'[p] = DOMAIN map[p] \ gone
      /\ \A v \in DOMAIN map[p] \ gone : map'[p][v] = map[p][v]
  BY <1>1, Zenon DEF IInv, TablesInv
<1>3. TablesInv'
  BY <1>1, <1>2 DEF IInv, TablesInv
<1> HIDE DEF gone
<1>4. /\ stale \subseteq stale'
      /\ \A e \in tlb : e.asid = p /\ DOMAIN e.map \cap gone # {} => p \in stale'
  <2>1. PICK E : E = {e \in tlb : e.asid = p /\ DOMAIN e.map \cap gone # {}}
    BY Zenon
  <2>2. \A e \in tlb : e.asid = p /\ DOMAIN e.map \cap gone # {} => e \in E /\ DOMAIN e.map # {}
    BY <2>1
  <2> QED  BY <1>1, <2>1, <2>2, MissesStep, Zenon
<1>5. ASSUME NEW e \in tlb PROVE Agrees(e)'
  <2>1. CASE e.asid # p
    BY <1>2, <1>4, <2>1 DEF IInv, Agrees
  <2>2. CASE e.asid \in stale'
    BY <2>2, Zenon DEF IInv, Agrees
  <2>3. CASE e.asid = p /\ e.asid \notin stale'
    <3>1. \A v \in DOMAIN e.map : v \notin gone
      BY <1>4, <2>3
    <3> QED  BY <1>2, <1>4, <2>3, <3>1 DEF IInv, Agrees
  <2> QED  BY <2>1, <2>2, <2>3, Zenon
<1> QED  BY <1>1, <1>3, <1>5, Zenon DEF IInv
-----------------------------------------------------------------------------
LEMMA NextInv == ASSUME IInv, [Next]_vars PROVE IInv'
<1>1. CASE UNCHANGED vars
  BY <1>1 DEF vars, IInv, TablesInv, Agrees
<1>2. ASSUME NEW p \in Procs, NEW im, process_start(p, im) PROVE IInv'
  BY <1>2 DEF process_start, IInv, TablesInv, Agrees
<1>3. ASSUME NEW p \in Procs, process_start_map(p) PROVE IInv'
  BY <1>3, AddStep, Zenon DEF process_start_map
<1>4. ASSUME NEW p \in Procs, process_start_full(p) \/ process_start_fails(p) PROVE IInv'
  BY <1>4, RestoreStep, Zenon DEF process_start_full, process_start_fails
<1>5. ASSUME NEW p \in Procs, NEW v, memlimit_grow(p, v) PROVE IInv'
  BY <1>5, AddStep, Zenon DEF memlimit_grow
<1>6. ASSUME NEW p \in Procs, exit(p) PROVE IInv'
  BY <1>6, ExitStep, Zenon DEF exit
<1> QED
  BY <1>1, <1>2, <1>3, <1>4, <1>5, <1>6, UserlandStep, ExceptionStep, ShrinkStep, Zenon DEF Next

\* A translation that the TLB holds is one of the page table of its process, of
\* a process that runs: vm_map, exit, process_start and the TLB exceptions keep
\* the two in step for any number of processes, pages and TLB entries, but for the
\* processes for which an update has missed the TLB.
THEOREM TlbInStep == Spec => []TlbAgrees
<1>1. IInv => TlbAgrees
  BY Zenon DEF IInv, Agrees, TlbAgrees
<1> QED  BY <1>1, InitInv, NextInv, PTL DEF Spec
-----------------------------------------------------------------------------
(* Who owns the pages of the pool.                                         *)

\* The uses that page tables t with the entries m make of pages: those of an address
\* and, at 0, of the table itself.
Places == Procs \X (0..STACK)
Used(m, t, u) == IF u[2] = 0 THEN t[u[1]] # NULL ELSE u[2] \in DOMAIN m[u[1]]
Page(m, t, u) == IF u[2] = 0 THEN t[u[1]] ELSE m[u[1]][u[2]].page

\* Each use has a page of its own, and together they have those of S.
Owned(m, t, S) ==
    /\ \A u \in Places : Used(m, t, u) => Page(m, t, u) \in S
    /\ \A u, w \in Places :
          Used(m, t, u) /\ Used(m, t, w) /\ Page(m, t, u) = Page(m, t, w) => u = w
    /\ \A x \in S : \E u \in Places : Used(m, t, u) /\ Page(m, t, u) = x

\* A process that is being started has pages to map, at addresses it may have.
StartInv ==
    /\ heap \in [Procs -> 0..STACK]
    /\ DOMAIN todo = Procs
    /\ \A p \in Procs : pc[p] = "map" => todo[p] \in Seq(Addresses) /\ todo[p] # <<>>

OwnInv ==
    /\ \A p \in Procs : DOMAIN map[p] \subseteq Addresses
    /\ \A p \in Procs : pc[p] = "none" <=> table[p] = NULL
    /\ Owned(map, table, reserved \ lost)

PageInv == TypeOK /\ IsFiniteSet(tlb) /\ StartInv /\ (~wild => OwnInv)

-----------------------------------------------------------------------------
LEMMA Smallest ==
    ASSUME NEW T, T \subseteq Nat, T # {}
    PROVE  \E x \in T : \A y \in T : x <= y
<1> DEFINE R == OpToRel(<, Nat)
<1>1. IsWellFoundedOn(R, Nat)
  BY NatLessThanWellFounded, Zenon
<1>2. \A x, y \in Nat : y < x => <<y, x>> \in R
  BY Zenon DEF OpToRel
<1> HIDE DEF R
<1>3. PICK x \in T : \A y \in T : ~(<<y, x>> \in R)
  BY <1>1, WFMin, Zenon
<1>4. ASSUME NEW y \in T PROVE x <= y
  <2>1. x \in Nat /\ y \in Nat /\ ~(y < x)
    BY <1>2, <1>3, Zenon
  <2> QED  BY <2>1
<1> QED  BY <1>4, Zenon

\* A bounded set of page numbers has an i-th page as long as it has i pages.
BoundedBy(F, n) == F \subseteq Nat /\ \A x \in F : x <= n
Upto(F, k) == {x \in F : x <= k}

LEMMA UptoFinite ==
    ASSUME NEW F, NEW n \in Nat, BoundedBy(F, n), NEW k
    PROVE  IsFiniteSet(Upto(F, k)) /\ Cardinality(Upto(F, k)) \in Nat
<1>1. IsFiniteSet(F)
  BY FS_BoundedSetOfNaturals, Zenon DEF BoundedBy
<1>2. Upto(F, k) \in SUBSET F
  BY Zenon DEF Upto
<1> QED  BY <1>1, <1>2, FS_Subset, FS_CardinalityType, Zenon

LEMMA UptoStep ==
    ASSUME NEW F, NEW n \in Nat, BoundedBy(F, n), NEW k \in Nat
    PROVE  /\ k \notin F => Upto(F, k) = Upto(F, k - 1)
           /\ k \in F => Cardinality(Upto(F, k)) = Cardinality(Upto(F, k - 1)) + 1
<1>1. \A x \in F : x \in Nat
  BY Zenon DEF BoundedBy
<1>2. ASSUME NEW x \in F PROVE x <= k <=> (x <= k - 1 \/ x = k)
  <2>1. x \in Nat
    BY <1>1, Zenon
  <2> HIDE DEF BoundedBy
  <2> QED  BY <2>1
<1>3. ~(k <= k - 1)
  OBVIOUS
<1>4. k \notin F => Upto(F, k) = Upto(F, k - 1)
  BY <1>2, Zenon DEF Upto
<1>5. ASSUME k \in F PROVE Upto(F, k) = Upto(F, k - 1) \cup {k} /\ k \notin Upto(F, k - 1)
  BY <1>2, <1>3, <1>5, Zenon DEF Upto
<1> QED  BY <1>4, <1>5, UptoFinite, FS_AddElement, Zenon

LEMMA Ranked ==
    ASSUME NEW F, NEW n \in Nat, BoundedBy(F, n),
           NEW i \in Nat, 0 < i, i <= Cardinality(F)
    PROVE  \E page \in F : Cardinality(Upto(F, page)) = i
<1> DEFINE T == {k \in Nat : i <= Cardinality(Upto(F, k))}
<1>1. n \in T
  <2>1. Upto(F, n) = F
    BY Zenon DEF BoundedBy, Upto
  <2> QED  BY <2>1, Zenon
<1>2. T \subseteq Nat /\ \A k \in Nat : k \in T <=> i <= Cardinality(Upto(F, k))
  BY Zenon
<1> HIDE DEF T
<1>3. PICK k \in T : \A m \in T : k <= m
  BY <1>1, <1>2, Smallest, Zenon
<1>4. k \in Nat /\ i <= Cardinality(Upto(F, k))
  BY <1>2, <1>3, Zenon
<1>5. Cardinality(Upto(F, k - 1)) \in Nat /\ Cardinality(Upto(F, k - 1)) < i
  <2>1. CASE k = 0
    <3>1. \A x \in Nat : ~(x <= k - 1)
      BY <2>1
    <3>2. Upto(F, k - 1) = {}
      BY <3>1, Zenon DEF Upto, BoundedBy
    <3> QED  BY <3>2, FS_EmptySet
  <2>2. CASE k # 0
    <3>1. k - 1 \in Nat /\ ~(k <= k - 1)
      BY <1>4, <2>2
    <3>2. ~(i <= Cardinality(Upto(F, k - 1)))
      BY <1>2, <1>3, <3>1, Zenon
    <3>3. Cardinality(Upto(F, k - 1)) \in Nat
      BY UptoFinite, Zenon
    <3> QED  BY <3>2, <3>3
  <2> QED  BY <2>1, <2>2, Zenon
<1>6. k \in F /\ Cardinality(Upto(F, k)) = Cardinality(Upto(F, k - 1)) + 1
  BY <1>4, <1>5, UptoStep
<1>7. Cardinality(Upto(F, k)) = i
  BY <1>4, <1>5, <1>6
<1> QED  BY <1>6, <1>7, Zenon

\* pagepool_get_phys_page takes a free page, and each call another one.
LEMMA FreePage ==
    ASSUME MemoryAssumption, NEW n \in Nat, n <= Cardinality(FreePages)
    PROVE  /\ \A i \in 1..n : pagepool_get_phys_page(i) \in FreePages
           /\ \A i, j \in 1..n :
                 pagepool_get_phys_page(i) = pagepool_get_phys_page(j) => i = j
<1> DEFINE Rank(page) == Cardinality(Upto(FreePages, page))
<1>1. PICK m \in Nat : BoundedBy(FreePages, m)
  BY Zenon DEF MemoryAssumption, FreePages, BoundedBy
<1>2. ASSUME NEW i \in 1..n PROVE \E page \in FreePages : Rank(page) = i
  <2>1. Cardinality(FreePages) \in Nat
    BY <1>1, FS_BoundedSetOfNaturals, FS_CardinalityType, Zenon DEF BoundedBy
  <2>2. i \in Nat /\ 0 < i /\ i <= Cardinality(FreePages)
    BY <2>1
  <2> QED  BY <1>1, <2>2, Ranked, Zenon
<1>3. ASSUME NEW i \in 1..n
      PROVE  pagepool_get_phys_page(i) \in FreePages /\ Rank(pagepool_get_phys_page(i)) = i
  <2>1. pagepool_get_phys_page(i) = CHOOSE page \in FreePages : Rank(page) = i
    BY Zenon DEF pagepool_get_phys_page, Upto
  <2> HIDE DEF Rank
  <2> QED  BY <1>2, <2>1, Zenon
<1> QED  BY <1>3, Zenon

\* Uses of pages that nobody has are added, or uses end and their pages are given
\* back.
LEMMA OwnedMore ==
    ASSUME NEW m, NEW t, NEW S, Owned(m, t, S), NEW m1, NEW t1, NEW N,
           \A u \in Places : Used(m, t, u) =>
              Used(m1, t1, u) /\ Page(m1, t1, u) = Page(m, t, u),
           \A u \in Places : Used(m1, t1, u) /\ ~Used(m, t, u) =>
              Page(m1, t1, u) \in N /\ Page(m1, t1, u) \notin S,
           \A u, w \in Places :
              (/\ Used(m1, t1, u) /\ ~Used(m, t, u) /\ Used(m1, t1, w) /\ ~Used(m, t, w)
               /\ Page(m1, t1, u) = Page(m1, t1, w)) => u = w,
           \A x \in N : \E u \in Places : Used(m1, t1, u) /\ Page(m1, t1, u) = x
    PROVE  Owned(m1, t1, S \cup N)
  BY DEF Owned

LEMMA OwnedLess ==
    ASSUME NEW m, NEW t, NEW S, Owned(m, t, S), NEW m1, NEW t1, NEW N,
           \A u \in Places : Used(m1, t1, u) =>
              Used(m, t, u) /\ Page(m1, t1, u) = Page(m, t, u),
           \A u \in Places : Used(m, t, u) =>
              (Page(m, t, u) \in N <=> ~Used(m1, t1, u))
    PROVE  Owned(m1, t1, S \ N)
  BY DEF Owned

\* process_start takes a page for the table of a process that has none.
LEMMA OwnTable ==
    ASSUME MemoryAssumption, NEW m, NEW t, NEW S, Owned(m, t, S),
           NEW p \in Procs, t[p] = NULL, NEW x, x \notin S, x # NULL,
           NEW t1, t1 = [t EXCEPT ![p] = x], DOMAIN t = Procs
    PROVE  Owned(m, t1, S \cup {x})
<1>1. /\ <<p, 0>> \in Places /\ <<p, 0>>[1] = p /\ <<p, 0>>[2] = 0
      /\ \A u \in Places : u = <<u[1], u[2]>> /\ u[1] \in Procs
  BY DEF MemoryAssumption, Places
<1>2. \A q \in Procs : t1[q] = IF q = p THEN x ELSE t[q]
  BY Zenon
<1>3. ASSUME NEW u \in Places PROVE Used(m, t, u) => Used(m, t1, u) /\ Page(m, t1, u) = Page(m, t, u)
  BY <1>1, <1>2, Zenon DEF Used, Page
<1>4. ASSUME NEW u \in Places, Used(m, t1, u), ~Used(m, t, u)
      PROVE  u = <<p, 0>> /\ Page(m, t1, u) = x
  BY <1>1, <1>2, <1>4, Zenon DEF Used, Page
<1>5. Used(m, t1, <<p, 0>>) /\ Page(m, t1, <<p, 0>>) = x
  BY <1>1, <1>2, Zenon DEF Used, Page
<1>6. \A u \in Places : Used(m, t1, u) /\ ~Used(m, t, u) =>
         Page(m, t1, u) \in {x} /\ Page(m, t1, u) \notin S
  BY <1>4, Zenon
<1>7. ASSUME NEW u \in Places, NEW w \in Places,
             Used(m, t1, u), ~Used(m, t, u), Used(m, t1, w), ~Used(m, t, w)
      PROVE  u = w
  BY <1>4, <1>7, Zenon
<1>8. \A y \in {x} : \E u \in Places : Used(m, t1, u) /\ Page(m, t1, u) = y
  BY <1>1, <1>5, Zenon
<1>9. \A u, w \in Places :
         (/\ Used(m, t1, u) /\ ~Used(m, t, u) /\ Used(m, t1, w) /\ ~Used(m, t, w)
          /\ Page(m, t1, u) = Page(m, t1, w)) => u = w
  BY <1>7, Zenon
<1> QED  BY <1>3, <1>6, <1>8, <1>9, OwnedMore, Zenon

\* The uses by p of the addresses in D, and of its table if it loses that, end.
Ends(m, t, p, D) == {m[p][v].page : v \in D \cap DOMAIN m[p]} \cup (IF 0 \in D THEN {t[p]} ELSE {})

LEMMA OwnEnds ==
    ASSUME MemoryAssumption, NEW m, NEW t, NEW S, Owned(m, t, S),
           NEW p \in Procs, DOMAIN m[p] \subseteq Addresses,
           NEW D, 0 \in D => t[p] # NULL, NEW m1, NEW t1,
           \A q \in Procs \ {p} : m1[q] = m[q] /\ t1[q] = t[q],
           DOMAIN m1[p] = DOMAIN m[p] \ D,
           \A v \in DOMAIN m1[p] : m1[p][v].page = m[p][v].page,
           t1[p] = IF 0 \in D THEN NULL ELSE t[p]
    PROVE  Owned(m1, t1, S \ Ends(m, t, p, D))
<1>1. \A u \in Places : u = <<u[1], u[2]>> /\ u[1] \in Procs /\ u[2] \in 0..STACK
  BY DEF Places
<1>2. \A v \in DOMAIN m[p] : v # 0 /\ <<p, v>> \in Places /\ <<p, v>>[1] = p /\ <<p, v>>[2] = v
  BY DEF MemoryAssumption, Places, Addresses
<1>3. <<p, 0>> \in Places /\ <<p, 0>>[1] = p /\ <<p, 0>>[2] = 0
  BY DEF MemoryAssumption, Places
<1>4. ASSUME NEW u \in Places
      PROVE  Used(m1, t1, u) <=> Used(m, t, u) /\ ~(u[1] = p /\ u[2] \in D)
  BY <1>1, Zenon DEF Used
<1>5. ASSUME NEW u \in Places, Used(m1, t1, u)
      PROVE  Page(m1, t1, u) = Page(m, t, u)
  BY <1>1, <1>5, Zenon DEF Used, Page
<1>6. ASSUME NEW u \in Places, Used(m, t, u), u[1] = p, u[2] \in D
      PROVE  Page(m, t, u) \in Ends(m, t, p, D)
  BY <1>6, Zenon DEF Used, Page, Ends
<1>7. ASSUME NEW u \in Places, Used(m, t, u), Page(m, t, u) \in Ends(m, t, p, D)
      PROVE  u[1] = p /\ u[2] \in D
  <2>1. PICK w \in Places : w[1] = p /\ w[2] \in D /\ Used(m, t, w) /\ Page(m, t, w) = Page(m, t, u)
    <3>1. CASE 0 \in D /\ Page(m, t, u) = t[p]
      BY <1>3, <3>1, Zenon DEF Used, Page
    <3>2. ASSUME NEW v \in D \cap DOMAIN m[p], Page(m, t, u) = m[p][v].page
          PROVE  \E w \in Places : w[1] = p /\ w[2] \in D /\ Used(m, t, w) /\ Page(m, t, w) = Page(m, t, u)
      BY <1>2, <3>2, Zenon DEF Used, Page
    <3> QED  BY <1>7, <3>1, <3>2, Zenon DEF Ends
  <2>2. u = w
    BY <1>7, <2>1, Zenon DEF Owned
  <2> QED  BY <2>1, <2>2, Zenon
<1> QED  BY <1>4, <1>5, <1>6, <1>7, OwnedLess, Zenon

\* The same uses of the same pages.
LEMMA OwnSame ==
    ASSUME NEW m, NEW t, NEW S, Owned(m, t, S), NEW m1,
           \A q \in Procs : /\ DOMAIN m1[q] = DOMAIN m[q]
                            /\ \A v \in DOMAIN m[q] : m1[q][v].page = m[q][v].page
    PROVE  Owned(m1, t, S)
<1>1. \A u \in Places : u[1] \in Procs
  BY Zenon DEF Places
<1>2. ASSUME NEW u \in Places
      PROVE  /\ Used(m1, t, u) <=> Used(m, t, u)
             /\ Used(m, t, u) => Page(m1, t, u) = Page(m, t, u)
  BY <1>1, Zenon DEF Used, Page
<1> QED  BY <1>2, Zenon DEF Owned

\* The addresses now + i for i in D, which p did not use, get the pages g[i].
Adds(m, m1, p, now, D, g) ==
    /\ \A i \in D : now + i \notin DOMAIN m[p]
    /\ \A i, j \in D : g[i] = g[j] => i = j
    /\ \A q \in Procs \ {p} : m1[q] = m[q]
    /\ DOMAIN m1[p] = DOMAIN m[p] \cup {now + i : i \in D}
    /\ \A v \in DOMAIN m[p] : m1[p][v] = m[p][v]
    /\ \A i \in D : m1[p][now + i].page = g[i]

\* What OwnAdds asks: the pages added are nobody's, and below the stack.
AddsTo(m, m1, t, S, p, now, n, D, g, G) ==
    /\ Adds(m, m1, p, now, D, g) /\ Owned(m, t, S)
    /\ p \in Procs /\ now \in Nat /\ n \in Nat /\ now + n <= STACK
    /\ D \in SUBSET (1..n) /\ G = {g[i] : i \in D} /\ \A i \in D : g[i] \notin S

LEMMA OwnAdds ==
    ASSUME MemoryAssumption, NEW m, NEW m1, NEW t, NEW S, NEW p, NEW now, NEW n, NEW D, NEW g,
           NEW G, AddsTo(m, m1, t, S, p, now, n, D, g, G)
    PROVE  Owned(m1, t, S \cup G)
<1>0. /\ Adds(m, m1, p, now, D, g) /\ Owned(m, t, S)
      /\ p \in Procs /\ now \in Nat /\ n \in Nat /\ now + n <= STACK
      /\ D \in SUBSET (1..n) /\ G = {g[i] : i \in D} /\ \A i \in D : g[i] \notin S
  BY Zenon DEF AddsTo
<1>1. \A u \in Places : u = <<u[1], u[2]>> /\ u[1] \in Procs
  BY DEF Places
<1>2. ASSUME NEW i \in D
      PROVE  /\ now + i # 0 /\ <<p, now + i>> \in Places
             /\ <<p, now + i>>[1] = p /\ <<p, now + i>>[2] = now + i
  BY <1>0 DEF MemoryAssumption, Places
<1>3. ASSUME NEW u \in Places
      PROVE  Used(m, t, u) => Used(m1, t, u) /\ Page(m1, t, u) = Page(m, t, u)
  BY <1>0, <1>1, Zenon DEF Used, Page, Adds
<1>4. ASSUME NEW u \in Places, Used(m1, t, u), ~Used(m, t, u)
      PROVE  \E i \in D : u = <<p, now + i>> /\ Page(m1, t, u) = g[i]
  BY <1>0, <1>1, <1>4 DEF Used, Page, Adds
<1>5. ASSUME NEW i \in D
      PROVE  Used(m1, t, <<p, now + i>>) /\ Page(m1, t, <<p, now + i>>) = g[i]
  BY <1>0, <1>2, Zenon DEF Used, Page, Adds
<1>6. \A u \in Places : Used(m1, t, u) /\ ~Used(m, t, u) =>
         Page(m1, t, u) \in {g[i] : i \in D} /\ Page(m1, t, u) \notin S
  BY <1>0, <1>4, Zenon
<1>7. ASSUME NEW u \in Places, NEW w \in Places,
             Used(m1, t, u), ~Used(m, t, u), Used(m1, t, w), ~Used(m, t, w),
             Page(m1, t, u) = Page(m1, t, w)
      PROVE  u = w
  <2>1. PICK i \in D : u = <<p, now + i>> /\ Page(m1, t, u) = g[i]
    BY <1>4, <1>7, Zenon
  <2>2. PICK j \in D : w = <<p, now + j>> /\ Page(m1, t, w) = g[j]
    BY <1>4, <1>7, Zenon
  <2> QED  BY <1>0, <1>7, <2>1, <2>2, Zenon DEF Adds
<1>8. \A y \in {g[i] : i \in D} : \E u \in Places : Used(m1, t, u) /\ Page(m1, t, u) = y
  <2>1. ASSUME NEW i \in D PROVE \E u \in Places : Used(m1, t, u) /\ Page(m1, t, u) = g[i]
    BY <1>2, <1>5, Zenon
  <2> SUFFICES ASSUME NEW y \in {g[i] : i \in D}
               PROVE  \E u \in Places : Used(m1, t, u) /\ Page(m1, t, u) = y
    BY Zenon
  <2>2. PICK i \in D : y = g[i]
    BY Zenon
  <2> QED  BY <2>1, <2>2, Zenon
<1>9. \A u, w \in Places :
         (/\ Used(m1, t, u) /\ ~Used(m, t, u) /\ Used(m1, t, w) /\ ~Used(m, t, w)
          /\ Page(m1, t, u) = Page(m1, t, w)) => u = w
  BY <1>7, Zenon
<1> QED  BY <1>0, <1>3, <1>6, <1>8, <1>9, OwnedMore, Zenon

-----------------------------------------------------------------------------
LEMMA InitPages == MemoryAssumption /\ Init => PageInv
<1> SUFFICES ASSUME MemoryAssumption, Init PROVE PageInv
  BY Zenon
<1>1. TypeOK /\ IsFiniteSet(tlb)
  BY FS_EmptySet DEF Init, TypeOK, MemoryAssumption
<1>2. StartInv
  BY DEF Init, StartInv, MemoryAssumption
<1>3. \A p \in Procs : DOMAIN map[p] = {} /\ table[p] = NULL /\ pc[p] = "none"
  BY Zenon DEF Init, Empty
<1>4. Owned(map, table, reserved \ lost)
  BY <1>3, Zenon DEF Init, Owned, Used, Places
<1> QED  BY <1>1, <1>2, <1>3, <1>4, Zenon DEF PageInv, OwnInv

\* A page table's pages are in use, and not lost.
LEMMA PagesUsed ==
    ASSUME MemoryAssumption, NEW m, NEW t, NEW S, Owned(m, t, S), NEW p \in Procs,
           DOMAIN m[p] \subseteq Addresses
    PROVE  /\ \A v \in DOMAIN m[p] : m[p][v].page \in S
           /\ t[p] # NULL => t[p] \in S
<1>1. <<p, 0>> \in Places /\ <<p, 0>>[1] = p /\ <<p, 0>>[2] = 0
  BY DEF MemoryAssumption, Places
<1>2. \A v \in DOMAIN m[p] : v # 0 /\ <<p, v>> \in Places /\ <<p, v>>[1] = p /\ <<p, v>>[2] = v
  BY DEF MemoryAssumption, Places, Addresses
<1> QED  BY <1>1, <1>2, Zenon DEF Owned, Used, Page

LEMMA StartPages ==
    ASSUME MemoryAssumption, IInv, PageInv, NEW p \in Procs, NEW im \in Images, process_start(p, im)
    PROVE  PageInv'
<1>0. ~wild /\ pc[p] = "none" /\ OwnInv /\ TypeOK /\ table[p] = NULL /\ UNCHANGED <<wild, lost, map>>
  BY Zenon DEF process_start, PageInv, OwnInv
<1>1. PICK x : x = pagepool_get_phys_page(1)
  BY Zenon
<1>2. x \in FreePages
  <2>1. PICK m \in Nat : BoundedBy(FreePages, m)
    BY Zenon DEF MemoryAssumption, FreePages, BoundedBy
  <2>2. IsFiniteSet(FreePages) /\ FreePages # {}
    BY <2>1, FS_BoundedSetOfNaturals, Zenon DEF BoundedBy, process_start
  <2>3. Cardinality(FreePages) \in Nat /\ Cardinality(FreePages) # 0
    BY <2>2, FS_EmptySet, FS_CardinalityType, Zenon
  <2>4. 1 <= Cardinality(FreePages) /\ 1 \in 1..1
    BY <2>3
  <2> QED  BY <1>1, <2>4, FreePage, Zenon
<1>3. x \in Pages /\ x \notin reserved /\ x # NULL
  BY <1>2, Zenon DEF FreePages, MemoryAssumption
<1>4. /\ reserved' = reserved \cup {x} /\ table' = [table EXCEPT ![p] = x]
      /\ pc' = [pc EXCEPT ![p] = "map"]
  BY <1>1, Zenon DEF process_start, Goto
<1>5. TypeOK' /\ IsFiniteSet(tlb)'
  BY <1>3, <1>4 DEF process_start, TypeOK, PageInv
<1>6. StartInv'
  <2>1. PICK f, g : /\ f = [i \in 1..im.ro_pages |-> im.ro + i - 1]
                    /\ g = [i \in 1..im.rw_pages + 1 |-> im.rw + i - 1]
    BY Zenon
  <2>2. f \in Seq(Addresses)
    <3>1. im.ro_pages \in Nat /\ \A i \in 1..im.ro_pages : im.ro + i - 1 \in 1..STACK
      BY DEF MemoryAssumption
    <3>2. f \in [1..im.ro_pages -> Addresses]
      BY <2>1, <3>1, Zenon DEF Addresses
    <3> QED  BY <3>1, <3>2
  <2>3. g \in Seq(Addresses)
    <3>1. im.rw_pages + 1 \in Nat /\ \A i \in 1..im.rw_pages + 1 : im.rw + i - 1 \in 1..STACK
      BY DEF MemoryAssumption
    <3>2. g \in [1..im.rw_pages + 1 -> Addresses]
      BY <2>1, <3>1, Zenon DEF Addresses
    <3>3. \A n \in Nat : [1..n -> Addresses] \subseteq Seq(Addresses)
      OBVIOUS
    <3> QED  BY <3>1, <3>2, <3>3, Zenon
  <2>4. <<STACK>> \in Seq(Addresses)
    BY DEF MemoryAssumption, Addresses
  <2>5. <<STACK>> \o f \o g \in Seq(Addresses) /\ <<STACK>> \o f \o g # <<>>
    BY <2>2, <2>3, <2>4
  <2>6. todo' = [todo EXCEPT ![p] = <<STACK>> \o f \o g] /\ UNCHANGED heap
    BY <2>1, Zenon DEF process_start
  <2>7. \A q \in Procs : pc'[q] = "map" /\ q # p => pc[q] = "map"
    BY <1>0, <1>4, Zenon DEF TypeOK
  <2> QED  BY <2>5, <2>6, <2>7, Zenon DEF StartInv, PageInv
<1>7. Owned(map, table', (reserved \ lost) \cup {x})
  BY <1>0, <1>3, <1>4, OwnTable, Zenon DEF OwnInv, TypeOK
<1>8. reserved' \ lost' = (reserved \ lost) \cup {x}
  BY <1>0, <1>3, <1>4, Zenon DEF TypeOK
<1>9. \A q \in Procs : pc'[q] = "none" <=> table'[q] = NULL
  BY <1>0, <1>3, <1>4, Zenon DEF OwnInv, TypeOK
<1> QED  BY <1>0, <1>5, <1>6, <1>7, <1>8, <1>9, Zenon DEF PageInv, OwnInv

LEMMA AddOwned ==
    ASSUME MemoryAssumption, TablesInv, TypeOK, OwnInv, NEW p \in Procs, NEW now \in Nat,
           NEW n \in Nat, now + n <= STACK, n <= Cardinality(FreePages), AddPages(p, now, n)
    PROVE  /\ reserved' \subseteq Pages /\ lost' \subseteq reserved'
           /\ \A q \in Procs : DOMAIN map'[q] \subseteq Addresses
           /\ Owned(map', table, reserved' \ lost')
<1>1. PICK g, D : /\ g = [i \in 1..n |-> pagepool_get_phys_page(i)]
                  /\ D = {i \in 1..n : vm_map(p, now, i)}
  BY Zenon
<1>2. /\ \A i \in 1..n : g[i] = pagepool_get_phys_page(i) /\ g[i] \in Pages /\ g[i] \notin reserved
      /\ \A i, j \in 1..n : g[i] = g[j] => i = j
  <2>1. /\ \A i \in 1..n : pagepool_get_phys_page(i) \in FreePages
        /\ \A i, j \in 1..n : pagepool_get_phys_page(i) = pagepool_get_phys_page(j) => i = j
    BY FreePage, Zenon
  <2>2. \A i \in 1..n : g[i] = pagepool_get_phys_page(i)
    BY <1>1, Zenon
  <2> QED  BY <2>1, <2>2, Zenon DEF FreePages
<1>3. D \in SUBSET (1..n) /\ \A i \in D : now + i \notin DOMAIN map[p]
  BY <1>1, Zenon DEF vm_map
<1>4. /\ reserved' = reserved \cup {g[i] : i \in 1..n}
      /\ lost' = lost \cup {g[i] : i \in (1..n) \ D}
  BY <1>1, <1>2 DEF AddPages
<1>5. /\ map' = [map EXCEPT ![p] = [v \in DOMAIN map[p] \cup {now + i : i \in D} |->
                     IF v \in DOMAIN map[p] THEN map[p][v]
                     ELSE [page |-> pagepool_get_phys_page(v - now), dirty |-> TRUE]]]
      /\ DOMAIN map = Procs
  BY <1>1, Zenon DEF AddPages, TablesInv
<1>6. PICK m, m1, t, S, f : /\ m = map /\ m1 = map' /\ t = table /\ S = reserved \ lost
                            /\ f = [v \in DOMAIN m[p] \cup {now + i : i \in D} |->
                                      IF v \in DOMAIN m[p] THEN m[p][v]
                                      ELSE [page |-> pagepool_get_phys_page(v - now), dirty |-> TRUE]]
  BY Zenon
<1>7. m1[p] = f /\ \A q \in Procs \ {p} : m1[q] = m[q]
  BY <1>5, <1>6, Zenon
<1>8. ASSUME NEW i \in D
      PROVE  now + i \in Addresses /\ now + i - now = i /\ i \in 1..n
  <2>1. i \in 1..n
    BY <1>3, Zenon
  <2> QED  BY <2>1 DEF Addresses, MemoryAssumption
<1>9. /\ DOMAIN m1[p] = DOMAIN m[p] \cup {now + i : i \in D}
      /\ \A v \in DOMAIN m[p] : m1[p][v] = m[p][v]
  BY <1>6, <1>7, Zenon
<1>10. ASSUME NEW i \in D PROVE m1[p][now + i].page = g[i]
  <2>1. PICK v : v = now + i
    BY Zenon
  <2>2. v \in DOMAIN m[p] \cup {now + j : j \in D} /\ v \notin DOMAIN m[p] /\ v - now = i
    <3>1. v - now = i
      BY <1>8, <2>1
    <3>2. v \notin DOMAIN m[p]
      BY <1>3, <1>6, <2>1, Zenon
    <3>3. v \in {now + j : j \in D}
      BY <2>1, Zenon
    <3> QED  BY <3>1, <3>2, <3>3, Zenon
  <2>3. f[v] = [page |-> pagepool_get_phys_page(v - now), dirty |-> TRUE]
    BY <1>6, <2>2, Zenon
  <2>4. f[v].page = g[i]
    BY <1>2, <1>8, <2>2, <2>3
  <2> QED  BY <1>7, <2>1, <2>4, Zenon
<1>11. /\ \A i \in D : g[i] \notin S /\ now + i \notin DOMAIN m[p]
       /\ \A i, j \in D : g[i] = g[j] => i = j
  BY <1>2, <1>3, <1>6, <1>8, Zenon
<1>12. Owned(m, t, S)
  BY <1>6, Zenon DEF OwnInv
<1>13. Owned(m1, t, S \cup {g[i] : i \in D})
  <2>1. Adds(m, m1, p, now, D, g)
    BY <1>7, <1>9, <1>10, <1>11, Zenon DEF Adds
  <2>2. \A i \in D : g[i] \notin S
    BY <1>11, Zenon
  <2>3. D \in SUBSET (1..n)
    BY <1>3, Zenon
  <2>4. PICK G : G = {g[i] : i \in D}
    BY Zenon
  <2>5. AddsTo(m, m1, t, S, p, now, n, D, g, G)
    BY <1>12, <2>1, <2>2, <2>3, <2>4, Zenon DEF AddsTo
  <2> QED  BY <2>4, <2>5, OwnAdds, Zenon
<1>14. reserved' \ lost' = S \cup {g[i] : i \in D}
  <2>0. lost \subseteq reserved
    BY Zenon DEF TypeOK
  <2>1. \A x \in {g[i] : i \in D} : x \in reserved' \ lost'
    <3>1. ASSUME NEW i \in D PROVE g[i] \in reserved'
      BY <1>3, <1>4, Zenon
    <3>2. ASSUME NEW i \in D PROVE g[i] \notin lost'
      BY <1>2, <1>3, <1>4, <2>0, Zenon
    <3> QED  BY <3>1, <3>2, Zenon
  <2>2. \A x \in S : x \in reserved' \ lost'
    BY <1>2, <1>4, <1>6
  <2>3. \A x \in reserved' \ lost' : x \in S \cup {g[i] : i \in D}
    BY <1>4, <1>6, Zenon
  <2> QED  BY <2>1, <2>2, <2>3, Zenon
<1>15. reserved' \subseteq Pages /\ lost' \subseteq reserved'
  BY <1>2, <1>4 DEF TypeOK
<1>16. ASSUME NEW q \in Procs, NEW v \in DOMAIN map'[q] PROVE v \in Addresses
  <2>1. CASE q = p
    BY <1>6, <1>8, <1>9, <2>1 DEF OwnInv
  <2>2. CASE q # p
    BY <1>6, <1>7, <2>2, Zenon DEF OwnInv
  <2> QED  BY <2>1, <2>2, Zenon
<1> QED  BY <1>6, <1>13, <1>14, <1>15, <1>16, Zenon

LEMMA EnoughPages ==
    ASSUME MemoryAssumption, FreePages # {}
    PROVE  1 <= Cardinality(FreePages)
<1>1. PICK m \in Nat : BoundedBy(FreePages, m)
  BY Zenon DEF MemoryAssumption, FreePages, BoundedBy
<1>2. IsFiniteSet(FreePages)
  BY <1>1, FS_BoundedSetOfNaturals, Zenon DEF BoundedBy
<1>3. Cardinality(FreePages) \in Nat /\ Cardinality(FreePages) # 0
  BY <1>2, FS_EmptySet, FS_CardinalityType, ZenonT(40)
<1> QED  BY <1>3

LEMMA MapPages ==
    ASSUME MemoryAssumption, IInv, PageInv, NEW p \in Procs, process_start_map(p)
    PROVE  PageInv'
<1>0. /\ ~wild /\ pc[p] = "map" /\ OwnInv /\ TypeOK /\ UNCHANGED <<wild, table, tlb, offset, stale>>
      /\ StartInv /\ IsFiniteSet(tlb)
  BY Zenon DEF process_start_map, PageInv
<1>1. PICK q : q = todo[p]
  BY Zenon
<1>2. q \in Seq(Addresses) /\ q # <<>>
  BY <1>0, <1>1, Zenon DEF StartInv
<1>3. /\ Head(q) \in Addresses /\ Tail(q) \in Seq(Addresses) /\ Len(q) \in Nat
      /\ Len(q) # 1 => Tail(q) # <<>>
      /\ Len(q) = 2 => q[2] \in Addresses
  <2>1. Len(q) \in Nat /\ Len(q) # 0
    BY <1>2
  <2>2. Head(q) \in Addresses /\ Tail(q) \in Seq(Addresses) /\ Len(Tail(q)) = Len(q) - 1
    BY <1>2, HeadTailProperties, Zenon
  <2>3. Len(q) # 1 => Len(Tail(q)) # 0
    BY <2>1, <2>2
  <2>4. Len(<<>>) = 0
    BY Zenon
  <2>5. Len(q) # 1 => Tail(q) # <<>>
    BY <2>3, <2>4, Zenon
  <2>6. Len(q) = 2 => q[2] \in Addresses
    <3>1. \A i \in 1..Len(q) : q[i] \in Addresses
      BY <1>2, ElementOfSeq, Zenon
    <3>2. 2 \in 1..2
      OBVIOUS
    <3> QED  BY <3>1, <3>2, Zenon
  <2> QED  BY <2>1, <2>2, <2>5, <2>6, Zenon
<1>4. PICK now : now = Head(q) - 1
  BY Zenon
<1>5. now \in Nat /\ 1 \in Nat /\ now + 1 <= STACK
  BY <1>3, <1>4 DEF Addresses, MemoryAssumption
<1>6. /\ AddPages(p, now, 1) /\ 1 <= Cardinality(FreePages)
      /\ heap' = [heap EXCEPT ![p] = IF Len(q) = 2 THEN q[2] ELSE @]
      /\ todo' = [todo EXCEPT ![p] = Tail(q)]
      /\ pc' = [pc EXCEPT ![p] = IF Len(q) = 1 THEN "load" ELSE "map"]
  BY <1>1, <1>4, EnoughPages, Zenon DEF process_start_map, Goto
<1>7. /\ reserved' \subseteq Pages /\ lost' \subseteq reserved'
      /\ \A r \in Procs : DOMAIN map'[r] \subseteq Addresses
      /\ Owned(map', table, reserved' \ lost')
  BY <1>0, <1>5, <1>6, AddOwned, Zenon DEF IInv
<1>8. TypeOK' /\ IsFiniteSet(tlb)'
  BY <1>0, <1>6, <1>7, Zenon DEF TypeOK
<1>9. StartInv'
  <2>0. Addresses \subseteq 0..STACK
    BY DEF Addresses, MemoryAssumption
  <2>1. heap' \in [Procs -> 0..STACK]
    <3>1. CASE Len(q) = 2
      <4>1. q[2] \in 0..STACK
        BY <1>3, <2>0, <3>1, Zenon
      <4>2. heap' = [heap EXCEPT ![p] = q[2]]
        BY <1>6, <3>1, Zenon
      <4> QED  BY <1>0, <4>1, <4>2, Zenon DEF StartInv
    <3>2. CASE Len(q) # 2
      <4>1. heap' = [heap EXCEPT ![p] = heap[p]]
        BY <1>6, <3>2, Zenon
      <4> QED  BY <1>0, <4>1, Zenon DEF StartInv
    <3> QED  BY <3>1, <3>2, Zenon
  <2> QED  BY <1>0, <1>3, <1>6, <2>1, Zenon DEF StartInv, TypeOK
<1>10. \A r \in Procs : pc'[r] = "none" <=> table'[r] = NULL
  BY <1>0, <1>6, Zenon DEF OwnInv, TypeOK
<1> QED  BY <1>0, <1>7, <1>8, <1>9, <1>10 DEF PageInv, OwnInv

LEMMA GrowPages ==
    ASSUME MemoryAssumption, IInv, PageInv, NEW p \in Procs, NEW to \in Addresses, memlimit_grow(p, to)
    PROVE  PageInv'
<1>0. /\ ~wild /\ OwnInv /\ TypeOK /\ StartInv /\ IsFiniteSet(tlb)
      /\ UNCHANGED <<wild, table, tlb, stale, heap, pc, todo>>
  BY Zenon DEF memlimit_grow, PageInv
<1>1. PICK now, n : now = heap[p] + offset /\ n = to - now
  BY Zenon
<1>2. heap[p] \in Nat /\ offset \in Nat /\ to \in 1..STACK /\ STACK \in Nat
  BY <1>0 DEF StartInv, TypeOK, Addresses, MemoryAssumption
<1>3. to > now /\ n <= Cardinality(FreePages) /\ AddPages(p, now, n) /\ offset' = to - heap[p]
  BY <1>1, Zenon DEF memlimit_grow
<1>4. now \in Nat /\ n \in Nat /\ now + n <= STACK /\ offset' \in 0..STACK
  BY <1>1, <1>2, <1>3
<1>5. /\ reserved' \subseteq Pages /\ lost' \subseteq reserved'
      /\ \A r \in Procs : DOMAIN map'[r] \subseteq Addresses
      /\ Owned(map', table, reserved' \ lost')
  BY <1>0, <1>3, <1>4, AddOwned, Zenon DEF IInv
<1>6. TypeOK' /\ IsFiniteSet(tlb)' /\ StartInv'
  BY <1>0, <1>4, <1>5, Zenon DEF TypeOK, StartInv
<1> QED  BY <1>0, <1>5, <1>6, Zenon DEF PageInv, OwnInv

\* A start that failed and an exit give back the pages of p and its table.
LEMMA ClearOwned ==
    ASSUME MemoryAssumption, TablesInv, TypeOK, OwnInv, NEW p \in Procs, table[p] # NULL,
           NEW F \in SUBSET FreePages,
           map' = [map EXCEPT ![p] = Empty], table' = [table EXCEPT ![p] = NULL],
           reserved' = (reserved \cup F) \ (FrameOf(p) \cup {table[p]}),
           lost' = lost \cup F
    PROVE  /\ reserved' \subseteq Pages /\ lost' \subseteq reserved'
           /\ \A q \in Procs : DOMAIN map'[q] \subseteq Addresses
           /\ Owned(map', table', reserved' \ lost')
<1>1. PICK m, m1, t, t1, S, D : /\ m = map /\ m1 = map' /\ t = table /\ t1 = table'
                                /\ S = reserved \ lost /\ D = DOMAIN m[p] \cup {0}
  BY Zenon
<1>2. /\ Owned(m, t, S) /\ DOMAIN m = Procs /\ DOMAIN t = Procs
      /\ m1 = [m EXCEPT ![p] = Empty] /\ t1 = [t EXCEPT ![p] = NULL]
      /\ \A q \in Procs : DOMAIN m[q] \subseteq Addresses
  BY <1>1, Zenon DEF OwnInv, TablesInv, TypeOK
<1>3. /\ \A q \in Procs \ {p} : m1[q] = m[q] /\ t1[q] = t[q]
      /\ DOMAIN m1[p] = {} /\ t1[p] = NULL
  BY <1>2, Zenon DEF Empty
<1>4. 0 \in D /\ DOMAIN m[p] \ D = {} /\ D \cap DOMAIN m[p] = DOMAIN m[p]
  BY <1>1, Zenon
<1>5. Owned(m1, t1, S \ Ends(m, t, p, D))
  <2>1. DOMAIN m1[p] = DOMAIN m[p] \ D /\ \A v \in DOMAIN m1[p] : m1[p][v].page = m[p][v].page
    BY <1>3, <1>4, Zenon
  <2>2. t1[p] = (IF 0 \in D THEN NULL ELSE t[p]) /\ t[p] # NULL
    BY <1>1, <1>3, <1>4, Zenon
  <2> QED  BY <1>2, <1>3, <2>1, <2>2, OwnEnds, Zenon
<1>6. Ends(m, t, p, D) = FrameOf(p) \cup {table[p]}
  BY <1>1, <1>4, Zenon DEF Ends, FrameOf
<1>7. FrameOf(p) \cup {table[p]} \subseteq S
  <2>1. /\ \A v \in DOMAIN m[p] : m[p][v].page \in S
        /\ t[p] # NULL => t[p] \in S
    BY <1>2, PagesUsed, Zenon
  <2> QED  BY <1>1, <2>1, Zenon DEF FrameOf
<1>8. reserved' \ lost' = S \ Ends(m, t, p, D)
  BY <1>1, <1>6, <1>7 DEF FreePages
<1>9. reserved' \subseteq Pages /\ lost' \subseteq reserved'
  BY <1>1, <1>7, Zenon DEF FreePages, TypeOK
<1>10. \A q \in Procs : DOMAIN map'[q] \subseteq Addresses
  BY <1>1, <1>2, <1>3
<1> QED  BY <1>1, <1>5, <1>8, <1>9, <1>10, Zenon

LEMMA RestorePages ==
    ASSUME MemoryAssumption, IInv, PageInv, NEW p \in Procs, NEW F \in SUBSET FreePages,
           ~wild, pc[p] # "none", restore_process_state(p, F)
    PROVE  PageInv'
<1>0. OwnInv /\ TypeOK /\ StartInv /\ IsFiniteSet(tlb) /\ table[p] # NULL
  BY Zenon DEF PageInv, OwnInv
<1>1. /\ map' = [map EXCEPT ![p] = Empty] /\ table' = [table EXCEPT ![p] = NULL]
      /\ reserved' = (reserved \cup F) \ (FrameOf(p) \cup {table[p]})
      /\ lost' = lost \cup F /\ pc' = [pc EXCEPT ![p] = "none"]
      /\ heap' = [heap EXCEPT ![p] = 0] /\ todo' = [todo EXCEPT ![p] = <<>>]
      /\ UNCHANGED <<offset, tlb>> /\ Misses(p, {e \in tlb : e.asid = p})
  BY Zenon DEF restore_process_state, Goto
<1>2. /\ reserved' \subseteq Pages /\ lost' \subseteq reserved'
      /\ \A q \in Procs : DOMAIN map'[q] \subseteq Addresses
      /\ Owned(map', table', reserved' \ lost')
  BY <1>0, <1>1, ClearOwned, Zenon DEF IInv
<1>3. IsFiniteSet(tlb') /\ Cardinality(tlb') <= TLB_SIZE /\ stale' \subseteq Procs
  BY <1>0, <1>1, MissesStep, Zenon DEF TypeOK
<1>4. TypeOK'
  BY <1>0, <1>1, <1>2, <1>3 DEF TypeOK
<1>5. StartInv'
  BY <1>0, <1>1 DEF StartInv, TypeOK, MemoryAssumption
<1>6. \A q \in Procs : pc'[q] = "none" <=> table'[q] = NULL
  BY <1>0, <1>1, Zenon DEF OwnInv, TypeOK
<1> QED  BY <1>2, <1>3, <1>4, <1>5, <1>6, Zenon DEF PageInv, OwnInv

\* The image of the TLB under a change of its entries has no more entries.
LEMMA ImageOfTlb ==
    ASSUME NEW T, IsFiniteSet(T), NEW f, DOMAIN f = T, NEW R, R = {f[e] : e \in T}, NEW n \in Nat,
           Cardinality(T) <= n
    PROVE  IsFiniteSet(R) /\ Cardinality(R) <= n
<1>1. PICK g : g = [e \in T |-> f[e]]
  BY Zenon
<1>2. g \in Surjection(T, R)
  BY <1>1, Zenon DEF Surjection
<1>3. IsFiniteSet(R) /\ Cardinality(R) <= Cardinality(T)
  BY <1>2, FS_Surjection, Zenon
<1>4. Cardinality(R) \in Nat /\ Cardinality(T) \in Nat
  BY <1>3, FS_CardinalityType, Zenon
<1> QED  BY <1>3, <1>4

LEMMA ExitPages ==
    ASSUME MemoryAssumption, IInv, PageInv, NEW p \in Procs, ~wild, pc[p] # "none",
           syscall_handle_exit(p)
    PROVE  PageInv'
<1>0. OwnInv /\ TypeOK /\ StartInv /\ IsFiniteSet(tlb) /\ table[p] # NULL
  BY Zenon DEF PageInv, OwnInv
<1>1. /\ map' = [map EXCEPT ![p] = Empty] /\ table' = [table EXCEPT ![p] = NULL]
      /\ reserved' = reserved \ (FrameOf(p) \cup {table[p]})
      /\ pc' = [pc EXCEPT ![p] = "none"]
      /\ UNCHANGED <<heap, todo, offset, lost>>
      /\ \E H, E : /\ tlb' = {IF e \in H THEN [e EXCEPT !.map = Empty] ELSE e : e \in tlb}
                   /\ Misses(p, E)
  BY Zenon DEF syscall_handle_exit, Goto
<1>2. /\ reserved' \subseteq Pages /\ lost' \subseteq reserved'
      /\ \A q \in Procs : DOMAIN map'[q] \subseteq Addresses
      /\ Owned(map', table', reserved' \ lost')
  <2>1. PICK F : F = {}
    BY Zenon
  <2>2. /\ F \in SUBSET FreePages /\ lost' = lost \cup F
        /\ reserved' = (reserved \cup F) \ (FrameOf(p) \cup {table[p]})
    BY <1>1, <2>1, Zenon
  <2> QED  BY <1>0, <1>1, <2>2, ClearOwned, Zenon DEF IInv
<1>3. IsFiniteSet(tlb') /\ Cardinality(tlb') <= TLB_SIZE
  <2>0. PICK H : tlb' = {IF e \in H THEN [e EXCEPT !.map = Empty] ELSE e : e \in tlb}
    BY <1>1, Zenon
  <2>1. PICK T, f, R :
          /\ T = tlb /\ R = tlb'
          /\ f = [e \in tlb |-> IF e \in H THEN [e EXCEPT !.map = Empty] ELSE e]
    BY Zenon
  <2>2. DOMAIN f = T /\ R = {f[e] : e \in T}
    BY <2>0, <2>1, Zenon
  <2>3. IsFiniteSet(T) /\ Cardinality(T) <= TLB_SIZE /\ TLB_SIZE \in Nat
    BY <1>0, <2>1, Zenon DEF TypeOK, MemoryAssumption
  <2>4. IsFiniteSet(R) /\ Cardinality(R) <= TLB_SIZE
    BY <2>2, <2>3, ImageOfTlb
  <2> QED  BY <2>1, <2>4, Zenon
<1>4. TypeOK'
  <2>1. stale' \subseteq Procs
    BY <1>0, <1>1, MissesStep, Zenon DEF TypeOK
  <2> QED  BY <1>0, <1>1, <1>2, <1>3, <2>1, Zenon DEF TypeOK
<1>5. StartInv'
  BY <1>0, <1>1, Zenon DEF StartInv, TypeOK
<1>6. \A q \in Procs : pc'[q] = "none" <=> table'[q] = NULL
  BY <1>0, <1>1, Zenon DEF OwnInv, TypeOK
<1> QED  BY <1>2, <1>3, <1>4, <1>5, <1>6, Zenon DEF PageInv, OwnInv

LEMMA UserlandPages ==
    ASSUME MemoryAssumption, IInv, PageInv, NEW p \in Procs, thread_goto_userland(p)
    PROVE  PageInv'
<1>0. ~wild /\ OwnInv /\ TypeOK /\ StartInv /\ IsFiniteSet(tlb) /\ pc[p] = "load" /\ DOMAIN map = Procs
  BY Zenon DEF PageInv, thread_goto_userland, IInv, TablesInv
<1>1. /\ map' = [map EXCEPT ![p] = [v \in DOMAIN map[p] |->
                   IF v \in ro[p] THEN [map[p][v] EXCEPT !.dirty = FALSE] ELSE map[p][v]]]
      /\ \E H, E : /\ tlb' = {IF e \in H THEN Entry(p, e.pair)' ELSE e : e \in tlb}
                   /\ Misses(p, E)
      /\ pc' = [pc EXCEPT ![p] = "user"]
      /\ UNCHANGED <<reserved, table, heap, offset, todo, lost, wild>>
  BY Zenon DEF thread_goto_userland, Goto
<1>2. IsFiniteSet(tlb') /\ Cardinality(tlb') <= TLB_SIZE
  <2>0. PICK H : tlb' = {IF e \in H THEN Entry(p, e.pair)' ELSE e : e \in tlb}
    BY <1>1, Zenon
  <2>1. PICK T, f, R :
          /\ T = tlb /\ R = tlb'
          /\ f = [e \in tlb |-> IF e \in H THEN Entry(p, e.pair)' ELSE e]
    BY Zenon
  <2>2. DOMAIN f = T /\ R = {f[e] : e \in T}
    BY <2>0, <2>1, Zenon
  <2>3. IsFiniteSet(T) /\ Cardinality(T) <= TLB_SIZE /\ TLB_SIZE \in Nat
    BY <1>0, <2>1, Zenon DEF TypeOK, MemoryAssumption
  <2>4. IsFiniteSet(R) /\ Cardinality(R) <= TLB_SIZE
    BY <2>2, <2>3, ImageOfTlb
  <2> QED  BY <2>1, <2>4, Zenon
<1>3. TypeOK' /\ StartInv'
  <2>1. stale' \subseteq Procs
    BY <1>0, <1>1, MissesStep, Zenon DEF TypeOK
  <2> QED  BY <1>0, <1>1, <1>2, <2>1, Zenon DEF TypeOK, StartInv
<1>4. ASSUME NEW q \in Procs
      PROVE  /\ DOMAIN map'[q] = DOMAIN map[q]
             /\ \A v \in DOMAIN map[q] : map'[q][v].page = map[q][v].page
  <2>1. CASE q # p
    BY <1>0, <1>1, <2>1, Zenon
  <2>2. CASE q = p
    <3>1. map'[p] = [v \in DOMAIN map[p] |->
                       IF v \in ro[p] THEN [map[p][v] EXCEPT !.dirty = FALSE] ELSE map[p][v]]
      BY <1>0, <1>1, Zenon
    <3>2. ASSUME NEW v \in DOMAIN map[p] PROVE map'[p][v].page = map[p][v].page
      <4>1. map[p][v] = [page |-> map[p][v].page, dirty |-> map[p][v].dirty]
        BY ZenonT(40) DEF IInv, TablesInv
      <4>2. CASE v \in ro[p]
        <5>1. map'[p][v] = [map[p][v] EXCEPT !.dirty = FALSE]
          BY <3>1, <4>2, Zenon
        <5>2. map'[p][v] = [page |-> map[p][v].page, dirty |-> FALSE]
          BY <4>1, <5>1, Zenon
        <5> QED  BY <5>2
      <4>3. CASE v \notin ro[p]
        BY <3>1, <4>3, Zenon
      <4> QED  BY <4>2, <4>3, Zenon
    <3> QED  BY <2>2, <3>1, <3>2, Zenon
  <2> QED  BY <2>1, <2>2, Zenon
<1>5. Owned(map', table', reserved' \ lost')
  <2>1. PICK m, m1, t, S : m = map /\ m1 = map' /\ t = table /\ S = reserved \ lost
    BY Zenon
  <2>2. Owned(m, t, S)
    BY <1>0, <2>1, Zenon DEF OwnInv
  <2>3. \A q \in Procs : /\ DOMAIN m1[q] = DOMAIN m[q]
                         /\ \A v \in DOMAIN m[q] : m1[q][v].page = m[q][v].page
    BY <1>4, <2>1, Zenon
  <2>4. Owned(m1, t, S)
    BY <2>2, <2>3, OwnSame, Zenon
  <2> QED  BY <1>1, <2>1, <2>4, Zenon
<1>6. \A q \in Procs : pc'[q] = "none" <=> table'[q] = NULL
  BY <1>0, <1>1, Zenon DEF OwnInv, TypeOK
<1> QED  BY <1>0, <1>2, <1>3, <1>4, <1>5, <1>6, Zenon DEF PageInv, OwnInv

LEMMA ExceptionPages ==
    ASSUME MemoryAssumption, IInv, PageInv, NEW p \in Procs, NEW v, NEW store,
           tlb_exception(p, v, store)
    PROVE  PageInv'
<1>0. OwnInv /\ TypeOK /\ StartInv /\ IsFiniteSet(tlb) /\ ~wild /\ pc[p] # "none"
  BY Zenon DEF PageInv, OwnInv, tlb_exception
<1>1. CASE syscall_handle_exit(p)
  BY <1>0, <1>1, ExitPages, Zenon
<1>2. CASE ~syscall_handle_exit(p)
  <2>1. /\ UNCHANGED <<reserved, table, map, heap, offset, pc, todo, lost, wild, stale>>
        /\ \E old : /\ Cardinality(tlb \ old) < TLB_SIZE
                    /\ tlb' = (tlb \ old) \cup {Entry(p, Pair(v))}
    BY <1>2, Zenon DEF tlb_exception
  <2>2. IsFiniteSet(tlb') /\ Cardinality(tlb') <= TLB_SIZE
    <3>1. ASSUME NEW old, Cardinality(tlb \ old) < TLB_SIZE,
                 tlb' = (tlb \ old) \cup {Entry(p, Pair(v))}
          PROVE  IsFiniteSet(tlb') /\ Cardinality(tlb') <= TLB_SIZE
      <4>1. PICK K, e : K = tlb \ old /\ e = Entry(p, Pair(v))
        BY Zenon
      <4>2. IsFiniteSet(K) /\ Cardinality(K) \in Nat
        BY <1>0, <4>1, FS_Difference, FS_CardinalityType, Zenon
      <4>3. /\ IsFiniteSet(K \cup {e})
            /\ Cardinality(K \cup {e}) = Cardinality(K) \/ Cardinality(K \cup {e}) = Cardinality(K) + 1
        BY <4>2, FS_AddElement, Zenon
      <4>4. TLB_SIZE \in Nat /\ Cardinality(K) < TLB_SIZE
        BY <3>1, <4>1, Zenon DEF MemoryAssumption
      <4>5. Cardinality(K \cup {e}) <= TLB_SIZE
        BY <4>2, <4>3, <4>4
      <4> QED  BY <3>1, <4>1, <4>3, <4>5, Zenon
    <3> QED  BY <2>1, <3>1, Zenon
  <2>3. TypeOK' /\ StartInv'
    BY <1>0, <2>1, <2>2, ZenonT(40) DEF TypeOK, StartInv
  <2> QED  BY <1>0, <2>1, <2>2, <2>3, Zenon DEF PageInv, OwnInv
<1> QED  BY <1>1, <1>2, Zenon

LEMMA ShrinkPages ==
    ASSUME MemoryAssumption, IInv, PageInv, NEW p \in Procs, NEW to \in Addresses, memlimit_shrink(p, to)
    PROVE  PageInv'
<1>0. /\ OwnInv /\ TypeOK /\ StartInv /\ IsFiniteSet(tlb) /\ DOMAIN map = Procs
      /\ UNCHANGED <<table, heap, pc, todo, lost>>
  BY Zenon DEF PageInv, memlimit_shrink, IInv, TablesInv
<1>1. PICK m, m1, t, S, now, D :
        /\ m = map /\ m1 = map' /\ t = table /\ S = reserved \ lost
        /\ now = heap[p] + offset /\ D = {v \in to + 1 .. now : v \in DOMAIN m[p]}
  BY Zenon
<1>2. /\ m1 = [m EXCEPT ![p] = [v \in DOMAIN m[p] \ D |-> m[p][v]]]
      /\ reserved' = reserved \ {m[p][v].page : v \in D}
      /\ offset' = to - heap[p] /\ to >= heap[p] /\ to < now
  BY <1>1, Zenon DEF memlimit_shrink, Unmaps
<1>3. heap[p] \in Nat /\ offset \in 0..STACK /\ to \in 1..STACK /\ STACK \in Nat
  BY <1>0 DEF StartInv, TypeOK, Addresses, MemoryAssumption
<1>4. offset' \in 0..STACK
  BY <1>2, <1>3
<1>5. 0 \notin D /\ D \subseteq DOMAIN m[p]
  <2>1. \A v \in to + 1 .. now : v # 0
    BY <1>3
  <2> QED  BY <1>1, <2>1, Zenon
<1>6. /\ \A q \in Procs \ {p} : m1[q] = m[q]
      /\ DOMAIN m1[p] = DOMAIN m[p] \ D
      /\ \A v \in DOMAIN m1[p] : m1[p][v] = m[p][v]
  BY <1>0, <1>1, <1>2
<1>7. Owned(m, t, S) /\ \A q \in Procs : DOMAIN m[q] \subseteq Addresses
  BY <1>0, <1>1, Zenon DEF OwnInv
<1>8. Owned(m1, t, S \ Ends(m, t, p, D))
  <2>1. \A v \in DOMAIN m1[p] : m1[p][v].page = m[p][v].page
    BY <1>6, Zenon
  <2>2. t[p] = (IF 0 \in D THEN NULL ELSE t[p])
    BY <1>5, Zenon
  <2> QED  BY <1>5, <1>6, <1>7, <2>1, <2>2, OwnEnds, Zenon
<1>9. Ends(m, t, p, D) = {m[p][v].page : v \in D}
  BY <1>5, Zenon DEF Ends
<1>10. {m[p][v].page : v \in D} \subseteq S
  <2>1. \A v \in DOMAIN m[p] : m[p][v].page \in S
    BY <1>7, PagesUsed, ZenonT(40)
  <2> QED  BY <1>5, <2>1, Zenon
<1>11. /\ reserved' \ lost' = S \ Ends(m, t, p, D)
       /\ reserved' \subseteq Pages /\ lost' \subseteq reserved'
  BY <1>0, <1>1, <1>2, <1>9, <1>10 DEF TypeOK
<1>12. \A q \in Procs : DOMAIN map'[q] \subseteq Addresses
  BY <1>1, <1>6, <1>7, Zenon
<1>13. IsFiniteSet(tlb') /\ Cardinality(tlb') <= TLB_SIZE /\ stale' \subseteq Procs
  <2>1. tlb' = tlb /\ \E E : Misses(p, E)
    BY Zenon DEF memlimit_shrink
  <2> QED  BY <1>0, <2>1, MissesStep, Zenon DEF TypeOK
<1>14. TypeOK' /\ StartInv'
  BY <1>0, <1>4, <1>11, <1>13 DEF TypeOK, StartInv
<1> QED  BY <1>0, <1>1, <1>8, <1>11, <1>12, <1>13, <1>14, ZenonT(40) DEF PageInv, OwnInv

LEMMA NextPages == ASSUME MemoryAssumption, IInv, PageInv, [Next]_vars PROVE PageInv'
<1>1. CASE UNCHANGED vars
  BY <1>1, Zenon DEF vars, PageInv, TypeOK, StartInv, OwnInv
<1>2. ASSUME NEW p \in Procs, process_start_full(p) PROVE PageInv'
  <2>1. ~wild /\ pc[p] # "none"
    BY <1>2, Zenon DEF process_start_full
  <2>2. CASE FreePages = {}
    <3>1. PICK F : F = {}
      BY Zenon
    <3>2. F \in SUBSET FreePages /\ restore_process_state(p, F)
      BY <1>2, <2>2, <3>1 DEF process_start_full
    <3> QED  BY <2>1, <3>2, RestorePages, Zenon
  <2>3. CASE FreePages # {}
    <3>1. PICK F : F = {pagepool_get_phys_page(1)}
      BY Zenon
    <3>2. 1 <= Cardinality(FreePages) /\ 1 \in Nat /\ 1 \in 1..1
      BY <2>3, EnoughPages
    <3>3. pagepool_get_phys_page(1) \in FreePages
      BY <3>2, FreePage, Zenon
    <3>4. F \in SUBSET FreePages /\ restore_process_state(p, F)
      BY <1>2, <2>3, <3>1, <3>3 DEF process_start_full
    <3> QED  BY <2>1, <3>4, RestorePages, Zenon
  <2> QED  BY <2>2, <2>3, Zenon
<1>3. ASSUME NEW p \in Procs, process_start_fails(p) PROVE PageInv'
  <2>1. PICK F : F = {}
    BY Zenon
  <2>2. F \in SUBSET FreePages /\ restore_process_state(p, F) /\ ~wild /\ pc[p] # "none"
    BY <1>3, <2>1, Zenon DEF process_start_fails
  <2> QED  BY <2>2, RestorePages
<1>4. ASSUME NEW p \in Procs, exit(p) PROVE PageInv'
  BY <1>4, ExitPages, Zenon DEF exit
<1> QED
  BY <1>1, <1>2, <1>3, <1>4, StartPages, MapPages, UserlandPages, ExceptionPages, GrowPages,
     ShrinkPages DEF Next

\* The pool's account is right for any number of processes, images and pages: a
\* page in use is the page table of one process, or mapped by one page of one
\* address space, or was lost when vm_map failed, and exit and a start that fails
\* give back all that the process had.  (Until an invalid half of an entry is
\* freed.)
THEOREM PagesStayOwned ==
    ASSUME MemoryAssumption
    PROVE  Spec => []PagesOwned
<1>1. ASSUME IInv, PageInv PROVE PagesOwned
  <2>1. TypeOK
    BY <1>1, Zenon DEF PageInv
  <2>2. ASSUME ~wild
        PROVE  /\ reserved = lost \cup UNION {FrameOf(p) \cup ({table[p]} \ {NULL}) : p \in Procs}
               /\ Cardinality(reserved) = Cardinality(lost) + Cardinality(Uses)
               /\ \A p \in Procs : pc[p] = "none" <=> table[p] = NULL
    <3>1. OwnInv
      BY <1>1, <2>2, Zenon DEF PageInv
    <3>2. PICK m, t, S, U : m = map /\ t = table /\ S = reserved \ lost /\ U = Uses
      BY Zenon
    <3>3. Owned(m, t, S) /\ U = {u \in Places : Used(m, t, u)}
      BY <3>1, <3>2, Zenon DEF OwnInv, Uses, Places, Used
    <3>4. Cardinality(S) = Cardinality(U)
      <4>1. PICK f : f = [u \in U |-> Page(m, t, u)]
        BY Zenon
      <4>2. f \in Bijection(U, S)
        <5>1. \A u \in U : u \in Places /\ Used(m, t, u) /\ f[u] = Page(m, t, u)
          BY <3>3, <4>1, Zenon
        <5>2. \A u \in U : f[u] \in S
          BY <3>3, <5>1, Zenon DEF Owned
        <5>3. f \in [U -> S]
          BY <4>1, <5>1, <5>2, Zenon
        <5>4. \A u, w \in U : f[u] = f[w] => u = w
          BY <3>3, <5>1, Zenon DEF Owned
        <5>5. \A x \in S : \E u \in U : f[u] = x
          BY <3>3, <5>1, Zenon DEF Owned
        <5> QED  BY <5>3, <5>4, <5>5, Zenon DEF Bijection, Injection, Surjection, IsInjective
      <4>3. IsFiniteSet(S)
        <5>1. PICK n \in Nat : BoundedBy(S, n)
          BY <2>1, <3>2, Zenon DEF MemoryAssumption, TypeOK, BoundedBy
        <5> QED  BY <5>1, FS_BoundedSetOfNaturals, Zenon DEF BoundedBy
      <4>4. IsFiniteSet(U)
        BY <4>2, <4>3, FS_Injection, Zenon DEF Bijection
      <4> QED  BY <4>2, <4>4, FS_Bijection, Zenon DEF ExistsBijection
    <3>5. Cardinality(reserved) = Cardinality(lost) + Cardinality(S)
      <4>1. PICK n \in Nat : BoundedBy(reserved, n)
        BY <2>1, Zenon DEF MemoryAssumption, TypeOK, BoundedBy
      <4>2. IsFiniteSet(reserved)
        BY <4>1, FS_BoundedSetOfNaturals, Zenon DEF BoundedBy
      <4>3. lost \in SUBSET reserved /\ reserved \cap lost = lost
        BY <2>1, Zenon DEF TypeOK
      <4>4. IsFiniteSet(lost)
        BY <4>2, <4>3, FS_Subset, Zenon
      <4>5. Cardinality(S) = Cardinality(reserved) - Cardinality(lost)
        BY <3>2, <4>2, <4>3, FS_Difference
      <4> QED  BY <4>2, <4>4, <4>5, FS_CardinalityType
    <3>6. \A p \in Procs : FrameOf(p) \cup ({table[p]} \ {NULL}) \subseteq S
      <4>1. ASSUME NEW p \in Procs PROVE FrameOf(p) \cup ({table[p]} \ {NULL}) \subseteq S
        <5>1. /\ \A v \in DOMAIN m[p] : m[p][v].page \in S
              /\ t[p] # NULL => t[p] \in S
          BY <3>1, <3>2, <3>3, PagesUsed DEF OwnInv
        <5> QED  BY <3>2, <5>1, Zenon DEF FrameOf
      <4> QED  BY <4>1, Zenon
    <3>7. ASSUME NEW x \in S
          PROVE  \E p \in Procs : x \in FrameOf(p) \cup ({table[p]} \ {NULL})
      <4>1. PICK u \in Places : Used(m, t, u) /\ Page(m, t, u) = x
        BY <3>3, Zenon DEF Owned
      <4>2. u[1] \in Procs
        BY Zenon DEF Places
      <4>3. x \in FrameOf(u[1]) \cup ({table[u[1]]} \ {NULL})
        BY <3>2, <4>1, Zenon DEF Used, Page, FrameOf
      <4> QED  BY <4>2, <4>3, Zenon
    <3>8. reserved = lost \cup S
      BY <2>1, <3>2, Zenon DEF TypeOK
    <3>9. reserved = lost \cup UNION {FrameOf(p) \cup ({table[p]} \ {NULL}) : p \in Procs}
      BY <3>6, <3>7, <3>8
    <3> QED  BY <3>1, <3>2, <3>4, <3>5, <3>9 DEF OwnInv
  <2> QED  BY <2>1, <2>2, Zenon DEF PagesOwned
<1>2. Init => IInv /\ PageInv
  BY InitInv, InitPages, Zenon
<1>3. IInv /\ PageInv /\ [Next]_vars => (IInv /\ PageInv)'
  BY NextInv, NextPages, Zenon
<1>4. IInv /\ PageInv => PagesOwned
  BY <1>1, Zenon
<1> QED  BY <1>2, <1>3, <1>4, PTL DEF Spec

=============================================================================
