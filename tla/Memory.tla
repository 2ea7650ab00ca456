------------------------------- MODULE Memory -------------------------------
(***************************************************************************)
(* Physical pages, page tables and the TLB: vm/pagepool.c, vm/vm.c,        *)
(* vm/tlb.c, the parts of proc/process.c that build and take down the      *)
(* memory of a process, and the system calls memlimit and exit of          *)
(* proc/syscall_handler_proc.c.                                            *)
(*                                                                         *)
(* Addresses are page numbers.  An entry of a page table maps a pair of    *)
(* pages; pairs holds the pairs that have an entry and map the pages that  *)
(* are valid.  A process is known by its thread, whose number is the       *)
(* address space identifier (ASID), and keeps its process table entry.     *)
(* The frame number in the invalid half of an entry is whatever the memory *)
(* of the table held before: what the kernel does once it has freed such a *)
(* page (wild) is left open.                                               *)
(***************************************************************************)
EXTENDS Integers, Sequences, FiniteSets

CONSTANTS
    Procs,
    Pages, NULL,         \* pages of the pool (numbers), no page
    Images,              \* executables: where ro and rw begin, and their sizes
    STACK,               \* the page of the stack
    PAGETABLE_ENTRIES,
    TLB_SIZE,
    MaxStarts            \* bound: processes started

\* The pages of the pool are numbered up to a last one, and an image and its heap
\* have addresses from 1 up to the stack.
MemoryAssumption ==
    /\ Pages \subseteq Nat /\ \E n \in Pages \cup {0} : \A page \in Pages : page <= n
    /\ NULL \notin Pages
    /\ STACK \in Nat \ {0} /\ TLB_SIZE \in Nat
    /\ \A im \in Images :
        /\ im.ro \in Nat \ {0} /\ im.ro_pages \in Nat /\ im.ro + im.ro_pages <= STACK + 1
        /\ im.rw \in Nat \ {0} /\ im.rw_pages \in Nat /\ im.rw + im.rw_pages <= STACK

VARIABLES
    reserved,            \* pagepool_free_pages
    table,               \* the page of each page table
    pairs, map,          \* its entries
    tlb,
    heap,                \* heap_vaddr, kept in the process table entry
    offset,              \* static in syscall_handle_memlimit, for all processes
    pc, todo, ro,        \* process_start: the pages still to map, those of segment ro
    starts,
    lost,                \* history: pages that vm_map did not take
    wild,                \* history: an invalid half of an entry was freed
    stale                \* history: processes whose TLB entries were left behind

vars == <<reserved, table, pairs, map, tlb, heap, offset, pc, todo, ro, starts, lost, wild,
          stale>>

Addresses == 1..STACK
Empty == [v \in {} |-> 0]
Pair(v) == v \div 2
Goto(p, to) == pc' = [pc EXCEPT ![p] = to]

FreePages == Pages \ reserved
\* pagepool_get_phys_page takes the first free page; the i-th call takes this one.
pagepool_get_phys_page(i) ==
    CHOOSE page \in FreePages : Cardinality({x \in FreePages : x <= page}) = i
FrameOf(p) == {map[p][v].page : v \in DOMAIN map[p]}
-----------------------------------------------------------------------------
\* vm_map maps v, the i-th of the pages that begin after now, unless it is
\* mapped already or needs an entry and the table is full.
vm_map(p, now, i) ==
    /\ now + i \notin DOMAIN map[p]
    /\ \/ Pair(now + i) \in pairs[p]
       \/ Cardinality(pairs[p] \cup {Pair(now + j) : j \in 1..i}) <= PAGETABLE_ENTRIES

\* vm_unmap frees the page of v if there is an entry for its pair, valid or not.
Unmaps(p, v) == v \in DOMAIN map[p]
UnmapsWild(p, v) == v \notin DOMAIN map[p] /\ Pair(v) \in pairs[p]

\* n pages are taken from the pool and mapped after now; a page is lost if vm_map
\* fails.
AddPages(p, now, n) ==
    LET done == {i \in 1..n : vm_map(p, now, i)}
    IN  /\ reserved' = reserved \cup {pagepool_get_phys_page(i) : i \in 1..n}
        /\ map' = [map EXCEPT ![p] = [v \in DOMAIN @ \cup {now + i : i \in done} |->
                         IF v \in DOMAIN @ THEN @[v]
                         ELSE [page |-> pagepool_get_phys_page(v - now), dirty |-> TRUE]]]
        /\ pairs' = [pairs EXCEPT ![p] = @ \cup {Pair(now + i) : i \in done}]
        /\ lost' = lost \cup {pagepool_get_phys_page(i) : i \in (1..n) \ done}

Entry(p, pr) ==
    [asid |-> p, pair |-> pr,
     map |-> [v \in {w \in DOMAIN map[p] : Pair(w) = pr} |-> map[p][v]]]

\* The TLB entries of p for the pairs S; two may be for the same pair.
Cached(p, S) == {e \in tlb : e.asid = p /\ e.pair \in S}
Matches(p, v) == Cached(p, {Pair(v)})

\* What tlb_replace_entry_if_exists finds, called for each of the pairs S: one entry
\* of each pair that has any.
Probed(p, S) ==
    {H \in SUBSET Cached(p, S) :
        /\ \A e \in Cached(p, S) : \E h \in H : h.pair = e.pair
        /\ \A h, k \in H : h.pair = k.pair => h = k}

\* An update of p's page table does not reach the entries E of the TLB.
Misses(p, E) ==
    stale' = IF \E e \in E : DOMAIN e.map # {} THEN stale \cup {p} ELSE stale
-----------------------------------------------------------------------------
\* Faulty: the page of the table is kept.
restore_bug(p, unmapped) ==
    /\ wild' = (heap[p] # 0 /\ UnmapsWild(p, heap[p]))
    /\ reserved' = (reserved \cup unmapped) \ FrameOf(p)
    /\ lost' = lost \cup unmapped
    /\ table' = [table EXCEPT ![p] = NULL]
    /\ pairs' = [pairs EXCEPT ![p] = {}]
    /\ map' = [map EXCEPT ![p] = Empty]
    /\ heap' = [heap EXCEPT ![p] = 0]
    /\ todo' = [todo EXCEPT ![p] = <<>>] /\ ro' = [ro EXCEPT ![p] = {}]
    /\ UNCHANGED <<tlb, stale, offset, starts>>
    /\ Goto(p, "none")

\* restore_process_state: a start that failed.  The heap is unmapped, whatever
\* heap_vaddr holds (unless 0), then all pages and the table are freed; the TLB is not
\* looked at.
restore_process_state(p, unmapped) ==
    /\ wild' = (heap[p] # 0 /\ UnmapsWild(p, heap[p]))
    /\ reserved' = (reserved \cup unmapped) \ (FrameOf(p) \cup {table[p]})
    /\ lost' = lost \cup unmapped
    /\ table' = [table EXCEPT ![p] = NULL]
    /\ pairs' = [pairs EXCEPT ![p] = {}]
    /\ map' = [map EXCEPT ![p] = Empty]
    /\ heap' = [heap EXCEPT ![p] = 0]
    /\ todo' = [todo EXCEPT ![p] = <<>>] /\ ro' = [ro EXCEPT ![p] = {}]
    /\ Misses(p, {e \in tlb : e.asid = p})
    /\ Goto(p, "none")
    /\ UNCHANGED <<tlb, offset, starts>>

\* process_start: the page table, ...  Bound: MaxStarts.
process_start(p, im) ==
    /\ ~wild /\ pc[p] = "none" /\ FreePages # {}
    /\ starts < MaxStarts /\ starts' = starts + 1
    /\ reserved' = reserved \cup {pagepool_get_phys_page(1)}
    /\ table' = [table EXCEPT ![p] = pagepool_get_phys_page(1)]
    /\ ro' = [ro EXCEPT ![p] = {im.ro + i - 1 : i \in 1..im.ro_pages}]
    /\ todo' = [todo EXCEPT ![p] =
         <<STACK>> \o [i \in 1..im.ro_pages |-> im.ro + i - 1]
                   \o [i \in 1..im.rw_pages + 1 |-> im.rw + i - 1]]
    /\ Goto(p, "map")
    /\ UNCHANGED <<pairs, map, tlb, heap, offset, lost, wild, stale>>

\* ... then page by page the stack, the segments and the heap, which follows the
\* last of them; heap_vaddr is set before the heap's page is allocated, ...
process_start_map(p) ==
    LET v == Head(todo[p])
    IN  /\ ~wild /\ pc[p] = "map"
        /\ FreePages # {} /\ vm_map(p, v - 1, 1)
        /\ AddPages(p, v - 1, 1)
        /\ heap' = [heap EXCEPT ![p] = IF Len(todo[p]) = 2 THEN todo[p][2] ELSE @]
        /\ todo' = [todo EXCEPT ![p] = Tail(@)]
        /\ Goto(p, IF Len(todo[p]) = 1 THEN "load" ELSE "map")
        /\ UNCHANGED <<table, tlb, offset, ro, starts, wild, stale>>

\* ... unless there is no page, or vm_map fails, ...
process_start_full(p) ==
    /\ ~wild /\ pc[p] = "map"
    /\ IF FreePages = {} THEN restore_process_state(p, {})
       ELSE /\ ~vm_map(p, Head(todo[p]) - 1, 1)
            /\ restore_process_state(p, {pagepool_get_phys_page(1)})

\* ... or the file cannot be opened, before the first page, or read, after the last.
process_start_fails(p) ==
    /\ ~wild
    /\ \/ pc[p] = "load"
       \/ pc[p] = "map" /\ Head(todo[p]) = STACK
    /\ restore_process_state(p, {})

\* The segments are loaded: the pages of ro become read-only, in the page table
\* and (tlb_replace_entry_if_exists) in the TLB.
thread_goto_userland(p) ==
    /\ ~wild /\ pc[p] = "load"
    /\ map' = [map EXCEPT ![p] = [v \in DOMAIN @ |->
                 IF v \in ro[p] THEN [@[v] EXCEPT !.dirty = FALSE] ELSE @[v]]]
    /\ LET changed == {Pair(v) : v \in ro[p]}
       IN  \E H \in Probed(p, changed) :
             /\ tlb' = {IF e \in H THEN Entry(p, e.pair)' ELSE e : e \in tlb}
             /\ Misses(p, Cached(p, changed) \ H)
    /\ Goto(p, "user")
    /\ UNCHANGED <<reserved, table, pairs, heap, offset, ro, todo, starts, lost, wild>>
-----------------------------------------------------------------------------
\* Faulty: the TLB entries of the process stay.
exit_bug(p) ==
    /\ wild' = UnmapsWild(p, heap[p])
    /\ reserved' = reserved \ (FrameOf(p) \cup {table[p]})
    /\ UNCHANGED tlb
    /\ table' = [table EXCEPT ![p] = NULL]
    /\ pairs' = [pairs EXCEPT ![p] = {}]
    /\ map' = [map EXCEPT ![p] = Empty]
    /\ ro' = [ro EXCEPT ![p] = {}]
    /\ Goto(p, "none")
    /\ UNCHANGED <<heap, offset, todo, starts, lost, stale>>

\* syscall_handle_exit: the heap, all pages and the table are freed, and the
\* TLB entries of its pairs replaced by invalid ones.  heap_vaddr is not reset.
syscall_handle_exit(p) ==
    /\ wild' = UnmapsWild(p, heap[p])
    /\ reserved' = reserved \ (FrameOf(p) \cup {table[p]})
    /\ \E H \in Probed(p, pairs[p]) :
         /\ tlb' = {IF e \in H THEN [e EXCEPT !.map = Empty] ELSE e : e \in tlb}
         /\ Misses(p, Cached(p, pairs[p]) \ H)
    /\ table' = [table EXCEPT ![p] = NULL]
    /\ pairs' = [pairs EXCEPT ![p] = {}]
    /\ map' = [map EXCEPT ![p] = Empty]
    /\ ro' = [ro EXCEPT ![p] = {}]
    /\ Goto(p, "none")
    /\ UNCHANGED <<heap, offset, todo, starts, lost>>

exit(p) == ~wild /\ pc[p] = "user" /\ syscall_handle_exit(p)

\* A load or store at v that the TLB does not serve: no entry is found, an invalid
\* one, or a store finds a read-only page.  Of two entries for a pair either is found.
Raises(p, v, store, found) ==
    /\ found \subseteq Matches(p, v) /\ Cardinality(found) <= 1
    /\ found = {} => Matches(p, v) = {}
    /\ \A e \in found : v \in DOMAIN e.map => store /\ ~e.map[v].dirty

\* try_to_fill: the page table's entry is written over any entry of the TLB, even
\* if there is one for the pair; if it does not allow the access, or the entry
\* found was read-only, the process is killed.
tlb_exception(p, v, store) ==
    \E found \in SUBSET Matches(p, v) :
        LET modified == \E e \in found : v \in DOMAIN e.map
            fills == ~modified /\ v \in DOMAIN map[p] /\ (store => map[p][v].dirty)
        IN  /\ ~wild /\ Raises(p, v, store, found)
            /\ \/ pc[p] = "user"
               \/ pc[p] = "load" /\ store /\ v \in DOMAIN map[p] \ {heap[p]}
            /\ IF ~fills THEN syscall_handle_exit(p)
               ELSE /\ \E old \in {{}} \cup {{e} : e \in tlb} :
                         /\ Cardinality(tlb \ old) < TLB_SIZE
                         /\ tlb' = (tlb \ old) \cup {Entry(p, Pair(v))}
                    /\ UNCHANGED <<reserved, table, pairs, map, heap, offset, pc, ro, todo,
                                   starts, lost, wild, stale>>
-----------------------------------------------------------------------------
\* can_be_mapped, for n pages from start.
can_be_mapped(p, n, start) ==
    /\ n <= PAGETABLE_ENTRIES - Cardinality(pairs[p])
    /\ \A j \in 0..n - 1 : start + j \notin DOMAIN map[p]

\* syscall_handle_memlimit, to grow the heap: refused if can_be_mapped, asked from
\* the page of the present heap end, says yes.
memlimit_grow(p, new) ==
    LET now == heap[p] + offset
    IN  /\ ~wild /\ pc[p] = "user" /\ new > now /\ new < STACK
        /\ new - now <= Cardinality(FreePages)
        /\ ~can_be_mapped(p, new - now, now)
        /\ AddPages(p, now, new - now)
        /\ offset' = new - heap[p]
        /\ UNCHANGED <<table, tlb, heap, pc, ro, todo, starts, wild, stale>>

\* To shrink it: the pages above the new end are unmapped, not flushed.
memlimit_shrink(p, new) ==
    LET now == heap[p] + offset
        gone == {v \in new + 1 .. now : Unmaps(p, v)}
    IN  /\ ~wild /\ pc[p] = "user" /\ new < now /\ new >= heap[p]
        /\ wild' = \E v \in new + 1 .. now : UnmapsWild(p, v)
        /\ reserved' = reserved \ {map[p][v].page : v \in gone}
        /\ map' = [map EXCEPT ![p] = [v \in DOMAIN @ \ gone |-> @[v]]]
        /\ offset' = new - heap[p]
        /\ Misses(p, {e \in tlb : e.asid = p /\ DOMAIN e.map \cap gone # {}})
        /\ UNCHANGED <<tlb, table, pairs, heap, pc, ro, todo, starts, lost>>
-----------------------------------------------------------------------------
\* vm_init: all pages of the pool are free.
Init ==
    /\ reserved = {} /\ tlb = {} /\ offset = 0
    /\ table = [p \in Procs |-> NULL]
    /\ pairs = [p \in Procs |-> {}]
    /\ map = [p \in Procs |-> Empty]
    /\ heap = [p \in Procs |-> 0]
    /\ pc = [p \in Procs |-> "none"]
    /\ ro = [p \in Procs |-> {}]
    /\ todo = [p \in Procs |-> <<>>] /\ starts = 0
    /\ lost = {} /\ wild = FALSE /\ stale = {}

Next ==
    \E p \in Procs :
        \/ \E im \in Images : process_start(p, im)
        \/ process_start_map(p) \/ process_start_full(p) \/ process_start_fails(p)
        \/ thread_goto_userland(p)
        \/ exit(p)
        \/ \E v \in Addresses : \/ \E store \in BOOLEAN : tlb_exception(p, v, store)
                                \/ memlimit_grow(p, v)
                                \/ memlimit_shrink(p, v)

Spec == Init /\ [][Next]_vars
-----------------------------------------------------------------------------
TypeOK ==
    /\ reserved \subseteq Pages /\ lost \subseteq reserved
    /\ table \in [Procs -> Pages \cup {NULL}]
    /\ pc \in [Procs -> {"none", "map", "load", "user"}]
    /\ stale \subseteq Procs
    /\ offset \in 0..STACK
    /\ Cardinality(tlb) <= TLB_SIZE

Uses == {u \in Procs \X (0..STACK) :
            IF u[2] = 0 THEN table[u[1]] # NULL ELSE u[2] \in DOMAIN map[u[1]]}

\* Every page in use belongs to one process, as its page table or as one page of
\* its address space, or was lost when vm_map failed; none is freed while it is
\* mapped, and none is kept when its process is gone, however starts that fail,
\* memlimit and exit of several processes meet.  This is so until an invalid
\* half of a page table entry is freed.
PagesOwned ==
    /\ TypeOK
    /\ ~wild =>
         /\ reserved = lost \cup UNION {FrameOf(p) \cup ({table[p]} \ {NULL}) : p \in Procs}
         /\ Cardinality(reserved) = Cardinality(lost) + Cardinality(Uses)
         /\ \A p \in Procs : pc[p] = "none" <=> table[p] = NULL

\* What the TLB translates for a process is what its page table says, with write
\* access only where the page table gives it, and nothing is left of a process
\* that has exited.  The exceptions are the processes for which an update of the
\* page table did not reach the TLB: a start that fails after its pages have been
\* touched, a heap that shrinks, and an exit or a segment made read-only while the
\* TLB has two entries for a pair.
TlbAgrees ==
    ~wild => \A e \in tlb : e.asid \notin stale => \A v \in DOMAIN e.map :
        /\ v \in DOMAIN map[e.asid]
        /\ e.map[v].page = map[e.asid][v].page
        /\ e.map[v].dirty => map[e.asid][v].dirty

\* roadmap.tex on memlimit: "If heap_end is NULL, the current heap end is
\* returned", the end being "the last addressable byte".
HeapEndMapped ==
    \A p \in Procs : pc[p] = "user" => heap[p] + offset \in DOMAIN map[p]
=============================================================================
