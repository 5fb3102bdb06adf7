-------------------------------- MODULE Pmm --------------------------------
(***************************************************************************)
(* The physical memory manager, mm/pmm.c: one bit per page, 1 for a page   *)
(* that may not be handed out, in a bitmap that lives in the memory it     *)
(* describes.                                                              *)
(*                                                                         *)
(* Addresses are page numbers: Limine aligns usable entries to pages, so   *)
(* the divisions by PAGE_SIZE in the code are exact.  Only the size of the *)
(* bitmap is in bytes.  The bitmap is the set of the pages whose bit is 1. *)
(***************************************************************************)
EXTENDS Integers, Sequences, FiniteSets, FiniteSetsExt

CONSTANTS
  PAGE_SIZE,   \* bytes of a page
  MemMaps      \* the memory maps the bootloader may report

ASSUME PageSizeAssumption == PAGE_SIZE \in Nat \ {0}

VARIABLES
  memmap,       \* memmap_request.response
  phase,        \* "boot" before pmm_init, "up" after it, "halted" by a fault
  placed,       \* bitmap # NULL
  bitmap,       \* the pages whose bit is set
  total_pages,  \* static size_t total_pages
  bitmap_size,  \* static size_t bitmap_size, in bytes
  free_pages,   \* static size_t free_pages
  held,         \* the pages that were handed out and not freed
  ret           \* the last result of pmm_alloc, as a page number

vars == <<memmap, phase, placed, bitmap, total_pages, bitmap_size, free_pages, held, ret>>

-----------------------------------------------------------------------------
(***************************************************************************)
(* pmm_init.                                                               *)
(***************************************************************************)

Entry == [usable : BOOLEAN, base : Nat, length : Nat]

UsableEntries(m) == {i \in 1..Len(m) : m[i].usable}

EntryPages(e) == e.base .. (e.base + e.length - 1)

UsablePages(m) == UNION {EntryPages(m[i]) : i \in UsableEntries(m)}

\* highest / PAGE_SIZE
TotalPages(m) == Max({0} \cup {m[i].base + m[i].length : i \in UsableEntries(m)})

BitmapSize(m) == (TotalPages(m) + 7) \div 8

\* The usable entries the bitmap fits into; the first of them is taken.
Fitting(m) == {i \in UsableEntries(m) : m[i].length * PAGE_SIZE >= BitmapSize(m)}

BitmapBase(m) == m[Min(Fitting(m))].base

BitmapPages(m) ==
  BitmapBase(m) .. (BitmapBase(m) + ((BitmapSize(m) + PAGE_SIZE - 1) \div PAGE_SIZE) - 1)

\* The iterations of the loop that clears bits: it counts a page each time.
ClearingSteps(m) ==
  {step \in UsableEntries(m) \X UsablePages(m) : step[2] \in EntryPages(m[step[1]])}

\* What pmm_init relies on the bootloader for (external): a list of entries
\* whose usable ones do not overlap, and page 0, if it is usable at all, ends up
\* below the bitmap.
ASSUME MemMapAssumption ==
  \A m \in MemMaps :
    /\ m \in Seq(Entry)
    /\ \A i, j \in UsableEntries(m) : i # j => EntryPages(m[i]) \cap EntryPages(m[j]) = {}
    /\ 0 \in UsablePages(m) /\ Fitting(m) # {} => 0 \in BitmapPages(m)

Init ==
  /\ memmap \in MemMaps
  /\ phase = "boot"
  /\ placed = FALSE
  /\ bitmap = {}
  /\ total_pages = 0 /\ bitmap_size = 0 /\ free_pages = 0
  /\ held = {}
  /\ ret = 0

\* Mutant of PmmInit: the number of pages to reserve is rounded down.
PmmInitRoundsDown ==
  LET reserved == BitmapBase(memmap) .. (BitmapBase(memmap) + (BitmapSize(memmap) \div PAGE_SIZE) - 1)
  IN
  /\ phase = "boot"
  /\ Fitting(memmap) # {}
  /\ phase' = "up"
  /\ placed' = TRUE
  /\ total_pages' = TotalPages(memmap)
  /\ bitmap_size' = BitmapSize(memmap)
  /\ bitmap' = ((0 .. (8 * BitmapSize(memmap) - 1)) \ UsablePages(memmap)) \cup reserved
  /\ free_pages' = Cardinality(ClearingSteps(memmap)) - Cardinality(reserved)
  /\ UNCHANGED <<memmap, held, ret>>

PmmInit ==
  /\ phase = "boot"
  /\ Fitting(memmap) # {}
  /\ phase' = "up"
  /\ placed' = TRUE
  /\ total_pages' = TotalPages(memmap)
  /\ bitmap_size' = BitmapSize(memmap)
  /\ bitmap' = ((0 .. (8 * BitmapSize(memmap) - 1)) \ UsablePages(memmap)) \cup BitmapPages(memmap)
  /\ free_pages' = Cardinality(ClearingSteps(memmap)) - Cardinality(BitmapPages(memmap))
  /\ UNCHANGED <<memmap, held, ret>>

\* No entry can take the bitmap: an error is logged and the boot goes on.
PmmInitFails ==
  /\ phase = "boot"
  /\ Fitting(memmap) = {}
  /\ phase' = "up"
  /\ total_pages' = TotalPages(memmap)
  /\ bitmap_size' = BitmapSize(memmap)
  /\ UNCHANGED <<memmap, placed, bitmap, free_pages, held, ret>>

-----------------------------------------------------------------------------
(***************************************************************************)
(* pmm_alloc and pmm_free.                                                 *)
(***************************************************************************)

\* The pages whose bit the search of pmm_alloc finds clear.
ClearPages == IF placed THEN {p \in 0 .. (total_pages - 1) : p \notin bitmap} ELSE {}

\* Mutant of PmmAlloc: the bit is not set.
PmmAllocKeepsBit ==
  /\ phase = "up" /\ ClearPages # {}
  /\ UNCHANGED bitmap
  /\ free_pages' = free_pages - 1
  /\ held' = held \cup {Min(ClearPages)}
  /\ ret' = Min(ClearPages)
  /\ UNCHANGED <<memmap, phase, placed, total_pages, bitmap_size>>

PmmAlloc ==
  /\ phase = "up" /\ ClearPages # {}
  /\ bitmap' = bitmap \cup {Min(ClearPages)}
  /\ free_pages' = free_pages - 1
  /\ held' = held \cup {Min(ClearPages)}
  /\ ret' = Min(ClearPages)
  /\ UNCHANGED <<memmap, phase, placed, total_pages, bitmap_size>>

\* Every bit is set, or there are no pages at all.
PmmAllocFails ==
  /\ phase = "up" /\ ClearPages = {}
  /\ placed \/ total_pages = 0
  /\ ret' = 0
  /\ UNCHANGED <<memmap, phase, placed, bitmap, total_pages, bitmap_size, free_pages, held>>

\* After a failed pmm_init the search reads the bitmap through NULL: the page
\* fault stops the CPU in isr_handler.
PmmAllocFaults ==
  /\ phase = "up"
  /\ ~placed /\ total_pages > 0
  /\ phase' = "halted"
  /\ UNCHANGED <<memmap, placed, bitmap, total_pages, bitmap_size, free_pages, held, ret>>

\* Mutant of PmmFree: the bit is not tested.
PmmFreeUntested(page) ==
  /\ phase = "up"
  /\ page \in held \cup ClearPages
  /\ bitmap' = bitmap \ {page}
  /\ free_pages' = free_pages + 1
  /\ held' = held \ {page}
  /\ UNCHANGED <<memmap, phase, placed, total_pages, bitmap_size, ret>>

\* Callers free a page they hold; a page that is free already is left alone.
PmmFree(page) ==
  /\ phase = "up"
  /\ page \in held \cup ClearPages
  /\ bitmap' = bitmap \ {page}
  /\ free_pages' = IF page \in bitmap THEN free_pages + 1 ELSE free_pages
  /\ held' = held \ {page}
  /\ UNCHANGED <<memmap, phase, placed, total_pages, bitmap_size, ret>>

Next ==
  \/ PmmInit
  \/ PmmInitFails
  \/ PmmAlloc
  \/ PmmAllocFails
  \/ PmmAllocFaults
  \/ \E page \in 0 .. (total_pages - 1) : PmmFree(page)

Spec == Init /\ [][Next]_vars

-----------------------------------------------------------------------------
(***************************************************************************)
(* Properties.                                                             *)
(***************************************************************************)

TypeOK ==
  /\ memmap \in MemMaps
  /\ phase \in {"boot", "up", "halted"}
  /\ placed \in BOOLEAN
  /\ bitmap \in SUBSET Nat
  /\ total_pages \in Nat /\ bitmap_size \in Nat /\ free_pages \in Nat
  /\ held \in SUBSET Nat
  /\ ret \in Nat

\* free_pages, kept by hand in four places, is the number of clear bits: each
\* usable page is counted once, the bitmap's own pages are counted off, and a
\* second pmm_free of a page is not counted.
FreePagesExact == free_pages = Cardinality(ClearPages)

\* Every usable page is free, or handed out, or below the bitmap, and never two
\* of these: no page is handed out twice, lost, or handed out though reserved.
PagesAccounted ==
  placed =>
    /\ ClearPages \cap held = {}
    /\ ClearPages \cup held = UsablePages(memmap) \ BitmapPages(memmap)

\* The bitmap is in usable memory, long enough for every page pmm_alloc may
\* test, and no page that one of its bytes lies in is ever handed out.
BitmapKeepsItsPages ==
  placed =>
    /\ total_pages =< 8 * bitmap_size
    /\ \A byte \in 0 .. (bitmap_size - 1) :
         LET page == BitmapBase(memmap) + (byte \div PAGE_SIZE)
         IN  page \in UsablePages(memmap) \ (ClearPages \cup held)

\* What the loops of pmm_init left behind; with the properties it is inductive.
Initialised ==
  /\ placed =>
       /\ phase = "up"
       /\ Fitting(memmap) # {}
       /\ total_pages = TotalPages(memmap)
       /\ bitmap_size = BitmapSize(memmap)
  /\ ~placed => held = {} /\ free_pages = 0

Inv == TypeOK /\ FreePagesExact /\ PagesAccounted /\ Initialised

Promise == INSTANCE PageAllocator WITH avail <- ClearPages

\* pmm_alloc hands out a page that nobody holds and returns 0 only when memory
\* is exhausted: pmm.c implements the abstract allocator its callers rely on.
ImplementsPageAllocator == Promise!Spec
=============================================================================
