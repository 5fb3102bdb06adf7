-------------------------------- MODULE Heap --------------------------------
(***************************************************************************)
(* The kernel heap, mm/heap.c: one list of slabs per object size for small *)
(* requests, pages mapped one by one at ever higher virtual addresses for  *)
(* large ones.  pmm.c is the set of the pages it has left, of which        *)
(* pmm_alloc takes the lowest (Pmm); vmm.c is the last two levels of the   *)
(* page tables, the only ones that are missing in the heap's range.        *)
(*                                                                         *)
(* An object on a free list holds the link to the next one where an        *)
(* allocated object has its magic number, and no link looks like one: the  *)
(* magic of a slab object is right exactly when it is on no free list.     *)
(***************************************************************************)
EXTENDS Naturals, Sequences, SequencesExt, FiniteSetsExt

CONSTANTS
  PAGE_SIZE,
  ALLOC_HEADER,   \* sizeof(struct alloc_header)
  SLAB_HEADER,    \* sizeof(struct slab_header)
  SlabSizes,      \* SLAB_32 ... SLAB_1024
  PT_SPAN,        \* pages that one page table maps
  PhysPages,      \* the most pages pmm.c has when heap_init is called
  VPages,         \* pages of the heap's virtual range (bounds the model)
  Sizes           \* the sizes of the requests

ASSUME SlabsAssumption ==
  /\ SlabSizes \in Seq(Nat \ {0}) /\ SlabSizes # <<>>
  /\ \A i \in 1..Len(SlabSizes) : SLAB_HEADER + SlabSizes[i] =< PAGE_SIZE
  /\ \A i, j \in 1..Len(SlabSizes) : i < j => SlabSizes[i] < SlabSizes[j]
ASSUME HeapSizesAssumption ==
  /\ PAGE_SIZE \in Nat \ {0} /\ ALLOC_HEADER \in Nat \ {0} /\ SLAB_HEADER \in Nat
  /\ PT_SPAN \in Nat \ {0} /\ PhysPages \in Nat /\ VPages \in Nat
  /\ Sizes \subseteq Nat

VARIABLES
  phase,              \* "boot" before heap_init, "up" after it, "halted" by a fault
  avail,              \* the pages pmm_alloc can still hand out
  caches,             \* per cache, the slabs from first_slab along next_slab
  free_list,          \* per slab, its free objects, first to last
  kernel_heap_vaddr,  \* static uintptr_t kernel_heap_vaddr, in pages from its start
  mapped,             \* the frame that a page of the range is mapped to, 0 if none
  tables,             \* the page tables that exist, by the part of the range they map
  held,               \* the size of each block its caller holds, 0 for the others
  call                \* the last call: its size and its result

vars == <<phase, avail, caches, free_list, kernel_heap_vaddr, mapped, tables, held, call>>
pageVars == <<kernel_heap_vaddr, mapped, tables>>
slabVars == <<caches, free_list>>

NULL == [kind |-> "null", page |-> 0, obj |-> 0]
SlabObject(page, obj) == [kind |-> "slab", page |-> page, obj |-> obj]
PageBlock(vpage) == [kind |-> "page", page |-> vpage, obj |-> 0]

Caches == 1..Len(SlabSizes)
Objects == 1..((PAGE_SIZE - SLAB_HEADER) \div SlabSizes[1])
Pointers == {SlabObject(p, k) : p \in 1..PhysPages, k \in Objects}
              \cup {PageBlock(v) : v \in 0 .. (VPages - 1)}

TypeOK ==
  /\ phase \in {"boot", "up", "halted"}
  /\ avail \in SUBSET (1..PhysPages)
  /\ caches \in [Caches -> Seq(1..PhysPages)]
  /\ free_list \in [1..PhysPages -> Seq(Objects)]
  /\ kernel_heap_vaddr \in 0..VPages
  /\ mapped \in [0 .. (VPages - 1) -> 0..PhysPages]
  /\ tables \in SUBSET (0..VPages)
  /\ held \in [Pointers -> {0} \cup Sizes]
  /\ call \in [size : {0} \cup Sizes, ret : Pointers \cup {NULL}]

NoCall == [size |-> 0, ret |-> NULL]

Init ==
  /\ phase = "boot"
  /\ \E n \in 0..PhysPages : avail = 1..n
  /\ caches = [i \in Caches |-> <<>>]
  /\ free_list = [p \in 1..PhysPages |-> <<>>]
  /\ kernel_heap_vaddr = 0
  /\ mapped = [v \in 0 .. (VPages - 1) |-> 0]
  /\ tables = {}
  /\ held = [ptr \in Pointers |-> 0]
  /\ call = NoCall

-----------------------------------------------------------------------------
(***************************************************************************)
(* Slabs: create_slab, heap_init, kmalloc of a small block.                *)
(***************************************************************************)

\* The free list that create_slab threads through a new page.
FreshSlab(i) == [k \in 1..((PAGE_SIZE - SLAB_HEADER) \div SlabSizes[i]) |-> k]

\* Each cache gets a slab as long as there are pages; the others stay empty.  The
\* pages are contiguous here, so the i-th pmm_alloc returns page(i).
heap_init ==
  LET page(i) == i + Min(avail) - 1
      served == {i \in Caches : avail # {} /\ page(i) \in avail}
  IN  /\ phase = "boot"
      /\ phase' = "up"
      /\ caches' = [i \in Caches |-> IF i \in served THEN <<page(i)>> ELSE <<>>]
      /\ free_list' = [p \in 1..PhysPages |->
                         IF \E i \in served : page(i) = p
                         THEN FreshSlab(CHOOSE i \in served : page(i) = p)
                         ELSE <<>>]
      /\ avail' = avail \ {page(i) : i \in served}
      /\ UNCHANGED <<pageVars, held, call>>

SLAB_MAX == SlabSizes[Len(SlabSizes)]

\* Mutant of CachesFor: the header is not counted.
CachesForBareSize(size) == {i \in Caches : size =< SlabSizes[i]}

\* The caches whose objects are large enough; kmalloc takes the first.
CachesFor(size) == {i \in Caches : size + ALLOC_HEADER =< SlabSizes[i]}

\* The slabs of cache i that have a free object; kmalloc takes the first.
SlabsWithSpace(i) == {s \in 1..Len(caches[i]) : free_list[caches[i][s]] # <<>>}

Returns(size, ptr) ==
  /\ call' = [size |-> size, ret |-> ptr]
  /\ held' = IF ptr = NULL THEN held ELSE [held EXCEPT ![ptr] = size]

\* kmalloc(0), and a size that fits an object only without its header.
KmallocRefuses(size) ==
  /\ phase = "up"
  /\ size = 0 \/ (size =< SLAB_MAX /\ CachesFor(size) = {})
  /\ Returns(size, NULL)
  /\ UNCHANGED <<phase, avail, slabVars, pageVars>>

\* Mutant of KmallocSlab: the object is not unlinked.
KmallocSlabKeepsLink(size) ==
  /\ phase = "up"
  /\ size # 0 /\ size =< SLAB_MAX /\ CachesFor(size) # {}
  /\ LET i == Min(CachesFor(size))
         slab == caches[i][Min(SlabsWithSpace(i))]
     IN  /\ SlabsWithSpace(i) # {}
         /\ Returns(size, SlabObject(slab, Head(free_list[slab])))
         /\ UNCHANGED <<phase, avail, slabVars, pageVars>>

\* A slab of the cache has a free object.
KmallocSlab(size) ==
  /\ phase = "up"
  /\ size # 0 /\ size =< SLAB_MAX /\ CachesFor(size) # {}
  /\ LET i == Min(CachesFor(size))
         slab == caches[i][Min(SlabsWithSpace(i))]
     IN  /\ SlabsWithSpace(i) # {}
         /\ Returns(size, SlabObject(slab, Head(free_list[slab])))
         /\ free_list' = [free_list EXCEPT ![slab] = Tail(@)]
         /\ UNCHANGED <<phase, avail, caches, pageVars>>

\* Mutant of KmallocNewSlab: a full cache is not extended.
KmallocNewSlabRefused(size) ==
  /\ phase = "up"
  /\ size # 0 /\ size =< SLAB_MAX /\ CachesFor(size) # {}
  /\ SlabsWithSpace(Min(CachesFor(size))) = {}
  /\ Returns(size, NULL)
  /\ UNCHANGED <<phase, avail, slabVars, pageVars>>

\* Every slab is full: a new one is linked behind the last, if there is a last
\* one and pmm_alloc has a page.
KmallocNewSlab(size) ==
  /\ phase = "up"
  /\ size # 0 /\ size =< SLAB_MAX /\ CachesFor(size) # {}
  /\ LET i == Min(CachesFor(size))
         slab == Min(avail)
     IN  /\ SlabsWithSpace(i) = {}
         /\ \/ /\ caches[i] # <<>> /\ avail # {}
               /\ avail' = avail \ {slab}
               /\ caches' = [caches EXCEPT ![i] = Append(@, slab)]
               /\ free_list' = [free_list EXCEPT ![slab] = Tail(FreshSlab(i))]
               /\ Returns(size, SlabObject(slab, Head(FreshSlab(i))))
            \/ /\ caches[i] = <<>> \/ avail = {}
               /\ Returns(size, NULL)
               /\ UNCHANGED <<avail, slabVars>>
         /\ UNCHANGED <<phase, pageVars>>

-----------------------------------------------------------------------------
(***************************************************************************)
(* kmalloc of a large block.                                               *)
(***************************************************************************)

PagesCount(size) == (size + ALLOC_HEADER + PAGE_SIZE - 1) \div PAGE_SIZE

\* One iteration of the loop: pmm_alloc, then vmm_map, which may need a page for
\* a page table and returns without mapping anything when there is none.
MapOne(r, v) ==
  LET phys == Min(r.avail)
      rest == r.avail \ {phys}
      table == v \div PT_SPAN
  IN  CASE r.null \/ r.avail = {} -> [r EXCEPT !.null = TRUE]
        [] ~r.null /\ r.avail # {} /\ table \in r.tables ->
             [r EXCEPT !.avail = rest, !.mapped[v] = phys]
        [] ~r.null /\ r.avail # {} /\ table \notin r.tables /\ rest # {} ->
             [r EXCEPT !.avail = rest \ {Min(rest)}, !.mapped[v] = phys,
                       !.tables = @ \cup {table}]
        [] OTHER -> [r EXCEPT !.avail = rest]

\* The loop: turn[i] is what i iterations leave.
MapPages(n) ==
  LET turn[i \in 0..n] ==
        IF i = 0 THEN [null |-> FALSE, avail |-> avail, mapped |-> mapped, tables |-> tables]
        ELSE MapOne(turn[i - 1], kernel_heap_vaddr + i - 1)
  IN  turn[n]

\* The addresses are used up before the pages are there, and a failure half-way
\* leaves the pages so far mapped.  The header is written at the end: if its
\* page is not mapped the write faults and the CPU stops.
KmallocPages(size) ==
  LET n == PagesCount(size)
      r == MapPages(n)
  IN  /\ phase = "up"
      /\ size > SLAB_MAX
      /\ kernel_heap_vaddr + n =< VPages
      /\ kernel_heap_vaddr' = kernel_heap_vaddr + n
      /\ avail' = r.avail /\ mapped' = r.mapped /\ tables' = r.tables
      /\ \/ /\ r.null
            /\ Returns(size, NULL)
            /\ UNCHANGED phase
         \/ /\ ~r.null /\ r.mapped[kernel_heap_vaddr] # 0
            /\ Returns(size, PageBlock(kernel_heap_vaddr))
            /\ UNCHANGED phase
         \/ /\ ~r.null /\ r.mapped[kernel_heap_vaddr] = 0
            /\ phase' = "halted"
            /\ UNCHANGED <<held, call>>
      /\ UNCHANGED slabVars

kmalloc(size) ==
  \/ KmallocRefuses(size)
  \/ KmallocSlab(size)
  \/ KmallocNewSlab(size)
  \/ KmallocPages(size)

-----------------------------------------------------------------------------
(***************************************************************************)
(* kfree.                                                                  *)
(***************************************************************************)

Released(ptr) ==
  /\ held' = [held EXCEPT ![ptr] = 0]
  /\ call' = NoCall

KfreeSlab(ptr) ==
  /\ phase = "up"
  /\ held[ptr] # 0 /\ ptr.kind = "slab"
  /\ free_list' = [free_list EXCEPT ![ptr.page] = <<ptr.obj>> \o @]
  /\ Released(ptr)
  /\ UNCHANGED <<phase, avail, caches, pageVars>>

Block(ptr) == ptr.page .. (ptr.page + PagesCount(held[ptr]) - 1)

\* Mutant of KfreePages: the pages stay mapped.
KfreePagesStillMapped(ptr) ==
  /\ phase = "up"
  /\ held[ptr] # 0 /\ ptr.kind = "page"
  /\ avail' = avail \cup ({mapped[v] : v \in Block(ptr)} \ {0})
  /\ Released(ptr)
  /\ UNCHANGED <<phase, slabVars, pageVars>>

\* The page tables and the addresses stay used.
KfreePages(ptr) ==
  /\ phase = "up"
  /\ held[ptr] # 0 /\ ptr.kind = "page"
  /\ mapped' = [v \in DOMAIN mapped |-> IF v \in Block(ptr) THEN 0 ELSE mapped[v]]
  /\ avail' = avail \cup ({mapped[v] : v \in Block(ptr)} \ {0})
  /\ Released(ptr)
  /\ UNCHANGED <<phase, slabVars, kernel_heap_vaddr, tables>>

\* A second kfree of an object that is still free finds a link where the magic
\* was and only logs.
KfreeDetected(ptr) ==
  /\ phase = "up"
  /\ ptr.kind = "slab" /\ ptr.obj \in ToSet(free_list[ptr.page])
  /\ call' = NoCall
  /\ UNCHANGED <<phase, avail, slabVars, pageVars, held>>

\* A second kfree of a large block reads the header through an unmapped page.
KfreeFaults(ptr) ==
  /\ phase = "up"
  /\ ptr.kind = "page" /\ ptr.page < kernel_heap_vaddr /\ mapped[ptr.page] = 0
  /\ phase' = "halted"
  /\ UNCHANGED <<avail, slabVars, pageVars, held, call>>

kfree(ptr) ==
  \/ KfreeSlab(ptr)
  \/ KfreePages(ptr)
  \/ KfreeDetected(ptr)
  \/ KfreeFaults(ptr)

Next ==
  \/ heap_init
  \/ \E size \in {0} \cup Sizes : kmalloc(size)
  \/ \E ptr \in Pointers : kfree(ptr)

Spec == Init /\ [][Next]_vars

-----------------------------------------------------------------------------
(***************************************************************************)
(* Properties.                                                             *)
(***************************************************************************)

Slabs == UNION {ToSet(caches[i]) : i \in Caches}
Frames == {mapped[v] : v \in DOMAIN mapped} \ {0}
HeldBlocks == {ptr \in Pointers : held[ptr] # 0 /\ ptr.kind = "page"}

\* A physical page has one use: it is free in pmm.c, or one slab of one cache,
\* or mapped at one address of the heap, whatever was allocated, freed or given
\* up half-way (heap.c:87-91, 149-156).
OnePageOneUse ==
  /\ TypeOK
  /\ avail \cap Slabs = {} /\ avail \cap Frames = {} /\ Slabs \cap Frames = {}
  /\ \A v, w \in DOMAIN mapped : mapped[v] = mapped[w] /\ mapped[v] # 0 => v = w
  /\ \A i, j \in Caches : IsInjective(caches[i])
       /\ (i # j => ToSet(caches[i]) \cap ToSet(caches[j]) = {})

\* Every object of a slab is free or held, never both, and linked at most once:
\* kmalloc never returns an object somebody holds, and none is lost.
ObjectsAccounted ==
  \A i \in Caches : \A p \in ToSet(caches[i]) :
    /\ IsInjective(free_list[p])
    /\ \A k \in 1..((PAGE_SIZE - SLAB_HEADER) \div SlabSizes[i]) :
         k \in ToSet(free_list[p]) <=> held[SlabObject(p, k)] = 0

\* A block is as large as its caller asked for: a slab object lies in its page
\* and holds header and data; a large block overlaps no other and is mapped,
\* except its last page if that page is the first of a page table for which
\* there was no memory (vmm_map reports nothing, vmm.c:50).
BlocksUsable ==
  /\ \A i \in Caches : \A p \in ToSet(caches[i]), k \in Objects :
       held[SlabObject(p, k)] # 0 =>
         /\ SLAB_HEADER + k * SlabSizes[i] =< PAGE_SIZE
         /\ held[SlabObject(p, k)] + ALLOC_HEADER =< SlabSizes[i]
  /\ \A b \in HeldBlocks :
       /\ held[b] + ALLOC_HEADER =< PAGE_SIZE * PagesCount(held[b])
       /\ \A d \in HeldBlocks : b # d => Block(b) \cap Block(d) = {}
       /\ \A v \in Block(b) :
            mapped[v] = 0 => v > b.page /\ v = Max(Block(b)) /\ v % PT_SPAN = 0

\* kmalloc returns NULL only for size 0, for a size whose header no longer fits
\* the largest object, or when pmm.c has no page left: a cache that heap_init
\* could not serve is no further reason.
NullMeansExhausted ==
  phase = "up" /\ call.size # 0 /\ call.ret = NULL =>
    \/ avail = {}
    \/ call.size =< SLAB_MAX /\ call.size + ALLOC_HEADER > SLAB_MAX
=============================================================================
