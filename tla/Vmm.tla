-------------------------------- MODULE Vmm --------------------------------
(***************************************************************************)
(* The virtual memory manager, mm/vmm.c: four-level page tables in frames  *)
(* that pmm.c hands out, and the TLB of the one CPU.                       *)
(*                                                                         *)
(* A virtual page is its four indices, PML4 first; a frame is its number,  *)
(* the frames of the tables apart from the physical pages that callers     *)
(* map.  The PRESENT bit of an entry is to # 0.                            *)
(***************************************************************************)
EXTENDS Naturals, Sequences, FiniteSets, FiniteSetsExt

CONSTANTS
  Indices,       \* of a table, 0..511
  KernelIndices, \* of a PML4, those of the upper half, 256..511
  Virts,         \* the virtual pages that are mapped and unmapped
  Phys,          \* the physical pages they are mapped to
  MaxFrames,     \* bound on the frames pmm.c has left for tables
  MaxPagemaps    \* bound on the calls of vmm_new_pagemap that get a frame

ASSUME VmmAssumption ==
  /\ Indices \subseteq Nat /\ KernelIndices \subseteq Indices /\ KernelIndices # {}
  /\ Virts \subseteq [1..4 -> Indices]
  /\ MaxFrames \in Nat /\ MaxPagemaps \in Nat /\ Phys \cap (0 .. (MaxFrames + 2)) = {}

\* The tables the bootloader leaves (external): a PML4 and, below every index of
\* KernelIndices the kernel itself is linked at, a PDPT.
BOOT == 1
BOOT_PDPT == 2
Frames == 0 .. (MaxFrames + 2)

VARIABLES
  avail,     \* the frames pmm_alloc can still hand out
  entries,   \* per frame, the entries it holds if it is a table
  pagemaps,  \* the PML4s vmm_new_pagemap has returned, and the bootloader's
  cr3,       \* the PML4 the CPU uses
  tlb        \* per virtual page, the translation the CPU has cached

vars == <<avail, entries, pagemaps, cr3, tlb>>

None == [to |-> 0, user |-> FALSE]
Entries == [to : Frames \cup Phys, user : BOOLEAN]
EmptyTable == [i \in Indices |-> None]

TypeOK ==
  /\ avail \in SUBSET Frames
  /\ entries \in [Frames -> [Indices -> Entries]]
  /\ pagemaps \in SUBSET Frames /\ cr3 \in pagemaps
  /\ tlb \in [Virts -> Entries]

Init ==
  /\ \E n \in 0..MaxFrames : avail = 3 .. (n + 2)
  /\ entries = [f \in Frames |->
       IF f # BOOT THEN EmptyTable
       ELSE [i \in Indices |-> IF i = Min(KernelIndices)
                               THEN [to |-> BOOT_PDPT, user |-> FALSE] ELSE None]]
  /\ pagemaps = {BOOT} /\ cr3 = BOOT
  /\ tlb = [v \in Virts |-> None]

-----------------------------------------------------------------------------
(***************************************************************************)
(* Walking the tables.                                                     *)
(***************************************************************************)

\* The table that entry virt[level] of the table above points to, 0 if that
\* entry or one above it is not present; level 1 is the PML4 itself.
TableAt(pm, virt, level) ==
  LET pdpt == entries[pm][virt[1]].to
      pd   == IF pdpt = 0 THEN 0 ELSE entries[pdpt][virt[2]].to
      pt   == IF pd = 0 THEN 0 ELSE entries[pd][virt[3]].to
  IN  CASE level = 1 -> pm [] level = 2 -> pdpt [] level = 3 -> pd [] level = 4 -> pt

\* vmm_get_phys, with the flags: what the walk ends at.
Translation(pm, virt) ==
  LET pt == TableAt(pm, virt, 4)
  IN  IF pt = 0 THEN None ELSE entries[pt][virt[4]]

-----------------------------------------------------------------------------
(***************************************************************************)
(* vmm_map, vmm_unmap, vmm_new_pagemap, vmm_switch.                        *)
(***************************************************************************)

\* Mutant of GetOrCreate: the PRESENT bit is not tested.
AlwaysCreate(r, virt, level, user) ==
  IF r.table = 0 /\ level > 1 THEN r
  ELSE IF r.avail # {}
       THEN [avail |-> r.avail \ {Min(r.avail)},
             entries |-> [r.entries EXCEPT ![Min(r.avail)] = EmptyTable,
                            ![r.table][virt[level]] = [to |-> Min(r.avail), user |-> user]],
             table |-> Min(r.avail)]
       ELSE [r EXCEPT !.table = 0]

\* get_or_create: the next table, made and cleared if it is missing; table 0 is
\* the NULL it returns when pmm_alloc has nothing (and vmm_map returns with).
GetOrCreate(r, virt, level, user) ==
  IF r.table = 0 /\ level > 1 THEN r
  ELSE IF r.entries[r.table][virt[level]].to # 0
       THEN [r EXCEPT !.table = r.entries[r.table][virt[level]].to]
       ELSE IF r.avail # {}
            THEN [avail |-> r.avail \ {Min(r.avail)},
                  entries |-> [r.entries EXCEPT ![Min(r.avail)] = EmptyTable,
                                 ![r.table][virt[level]] = [to |-> Min(r.avail), user |-> user]],
                  table |-> Min(r.avail)]
            ELSE [r EXCEPT !.table = 0]

\* The three tables below pm on the way to virt.
Tables(pm, virt, user) ==
  LET pml4 == [avail |-> avail, entries |-> entries, table |-> pm]
      pdpt == GetOrCreate(pml4, virt, 1, user)
      pd   == GetOrCreate(pdpt, virt, 2, user)
  IN  GetOrCreate(pd, virt, 3, user)

\* A failure leaves the tables made so far and says nothing; nothing is flushed
\* from the TLB.
vmm_map(pm, virt, phys, user) ==
  LET r == Tables(pm, virt, user)
  IN  /\ pm \in pagemaps
      /\ avail' = r.avail
      /\ entries' = IF r.table = 0 THEN r.entries
                    ELSE [r.entries EXCEPT ![r.table][virt[4]] = [to |-> phys, user |-> user]]
      /\ UNCHANGED <<pagemaps, cr3, tlb>>

\* Mutant of vmm_unmap: no invlpg.
VmmUnmapKeepsTlb(pm, virt) ==
  LET table == TableAt(pm, virt, 4)
  IN  /\ pm \in pagemaps
      /\ table # 0
      /\ entries' = [entries EXCEPT ![table][virt[4]] = None]
      /\ UNCHANGED <<avail, pagemaps, cr3, tlb>>

\* invlpg drops the page from the TLB whatever pagemap it was unmapped from; a
\* missing table is an early return.
vmm_unmap(pm, virt) ==
  LET table == TableAt(pm, virt, 4)
  IN  /\ pm \in pagemaps
      /\ table # 0
      /\ entries' = [entries EXCEPT ![table][virt[4]] = None]
      /\ tlb' = [tlb EXCEPT ![virt] = None]
      /\ UNCHANGED <<avail, pagemaps, cr3>>

\* Mutant of CopiedHalf: the copy begins one entry late.
CopiedHalfButFirst ==
  [i \in Indices |-> IF i \in KernelIndices \ {Min(KernelIndices)} THEN entries[cr3][i] ELSE None]

\* The upper half of the current PML4, and nothing in the lower.
CopiedHalf == [i \in Indices |-> IF i \in KernelIndices THEN entries[cr3][i] ELSE None]

\* Mutant of vmm_new_pagemap: all of the current PML4 is copied.
VmmNewPagemapCopiesAll ==
  /\ avail # {} /\ Cardinality(pagemaps) =< MaxPagemaps
  /\ avail' = avail \ {Min(avail)}
  /\ entries' = [entries EXCEPT ![Min(avail)] = entries[cr3]]
  /\ pagemaps' = pagemaps \cup {Min(avail)}
  /\ UNCHANGED <<cr3, tlb>>

vmm_new_pagemap ==
  /\ avail # {} /\ Cardinality(pagemaps) =< MaxPagemaps
  /\ avail' = avail \ {Min(avail)}
  /\ entries' = [entries EXCEPT ![Min(avail)] = CopiedHalf]
  /\ pagemaps' = pagemaps \cup {Min(avail)}
  /\ UNCHANGED <<cr3, tlb>>

\* Without a frame the 0 of pmm_alloc is not tested: the new PML4 is written
\* over frame 0, which every such call returns.
NewPagemapAtZero ==
  /\ avail = {}
  /\ entries' = [entries EXCEPT ![0] = CopiedHalf]
  /\ pagemaps' = pagemaps \cup {0}
  /\ UNCHANGED <<avail, cr3, tlb>>

\* The load of cr3 flushes the TLB; vmm_init does it with the current pagemap.
vmm_switch(pm) ==
  /\ pm \in pagemaps
  /\ cr3' = pm
  /\ tlb' = [v \in Virts |-> None]
  /\ UNCHANGED <<avail, entries, pagemaps>>

\* The CPU uses a mapped page and keeps its translation (external).
CpuAccess(virt) ==
  /\ Translation(cr3, virt) # None
  /\ tlb[virt] = None
  /\ tlb' = [tlb EXCEPT ![virt] = Translation(cr3, virt)]
  /\ UNCHANGED <<avail, entries, pagemaps, cr3>>

\* What the callers map (heap.c:90, lapic.c:24, ioapic.c:51): a page that is not
\* mapped yet, or again what is mapped there; VMM_USER in the lower half only.
CallerMaps(pm, virt) ==
  LET user == virt[1] \notin KernelIndices
  IN  \E phys \in Phys :
        /\ Translation(pm, virt) \in {None, [to |-> phys, user |-> user]}
        /\ vmm_map(pm, virt, phys, user)

Next ==
  \/ \E pm \in pagemaps, virt \in Virts :
       \/ CallerMaps(pm, virt)
       \/ vmm_unmap(pm, virt)
  \/ vmm_new_pagemap
  \/ NewPagemapAtZero
  \/ \E pm \in pagemaps : vmm_switch(pm)
  \/ \E virt \in Virts : CpuAccess(virt)

Spec == Init /\ [][Next]_vars

-----------------------------------------------------------------------------
(***************************************************************************)
(* Properties.                                                             *)
(***************************************************************************)

\* Two walks meet in a table only where they should: at the same level, after
\* the same indices, in one pagemap or in the kernel's half; a table is no free
\* frame and no PML4.  Else one vmm_map could overwrite another's entries.
TablesDistinct ==
  /\ TypeOK
  /\ \A pm, qm \in pagemaps, v, w \in Virts, l, m \in 2..4 :
       LET table == TableAt(pm, v, l)
       IN  table # 0 =>
             /\ table \notin avail \cup pagemaps
             /\ table = TableAt(qm, w, m) =>
                  /\ l = m /\ SubSeq(v, 1, l - 1) = SubSeq(w, 1, l - 1)
                  /\ pm = qm \/ v[1] \in KernelIndices

\* What the kernel maps below a PML4 entry that the bootloader made (its heap and
\* its devices) is mapped alike in every pagemap, whenever and through whichever
\* pagemap it was mapped.
KernelHalfShared ==
  \A pm \in pagemaps, v \in Virts :
    v[1] = Min(KernelIndices) => Translation(pm, v) = Translation(BOOT, v)

\* The CPU never uses a translation that has been changed: vmm_unmap flushes what
\* it takes away and, as it is called, vmm_map only adds.  (Frame 0, the pagemap
\* there was no memory for, can be overwritten while the CPU uses it.)
TlbCoherent ==
  \A v \in Virts : cr3 # 0 /\ tlb[v] # None => tlb[v] = Translation(cr3, v)

Promise == INSTANCE AddressSpaces WITH
  KernelVirts <- {v \in Virts : v[1] \in KernelIndices}, Unmapped <- None, Fallback <- 0,
  space <- [pm \in pagemaps |-> [v \in Virts |-> Translation(pm, v)]],
  current <- cr3

\* The tables behave like one function per pagemap: vmm_map and vmm_unmap change
\* the page they are given and no other, even when they run out of memory
\* half-way, and a new pagemap begins with the kernel's half alone.
ImplementsAddressSpaces == Promise!Spec
=============================================================================
