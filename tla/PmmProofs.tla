------------------------------ MODULE PmmProofs ------------------------------
(***************************************************************************)
(* TLAPS proofs about Pmm, for every page size and every memory map that   *)
(* keeps the bootloader's promises.                                        *)
(***************************************************************************)
EXTENDS Pmm, Lemmas, FiniteSetTheorems, FunctionTheorems

-----------------------------------------------------------------------------
(***************************************************************************)
(* What pmm_init computes from the memory map.                             *)
(***************************************************************************)

\* The entries of a memory map have a base and a length.
LEMMA EntryTypes ==
  ASSUME NEW m \in MemMaps
  PROVE  /\ Len(m) \in Nat
         /\ \A i \in 1..Len(m) : m[i].base \in Nat /\ m[i].length \in Nat
<1>1. m \in Seq(Entry)
  BY MemMapAssumption
<1>2. Len(m) \in Nat /\ \A i \in 1..Len(m) : m[i] \in Entry
  BY <1>1
<1> QED BY <1>2 DEF Entry

\* total_pages lies above every usable page.
LEMMA TotalFacts ==
  ASSUME NEW m \in MemMaps
  PROVE  /\ TotalPages(m) \in Nat
         /\ UsablePages(m) \subseteq 0 .. (TotalPages(m) - 1)
<1> DEFINE f == [i \in 1..Len(m) |-> m[i].base + m[i].length]
           S == {0} \cup {m[i].base + m[i].length : i \in UsableEntries(m)}
<1>1. Len(m) \in Nat /\ f \in [1..Len(m) -> Nat]
  BY EntryTypes
<1>2. PICK b \in Nat : \A i \in 1..Len(m) : f[i] =< b
  <2> HIDE DEF f
  <2> QED BY <1>1, UpperBound
<1>3. S \in SUBSET Nat /\ S # {}
  BY EntryTypes DEF UsableEntries
<1>4. \A y \in S : y =< b
  BY <1>2 DEF UsableEntries
<1>5. Max(S) \in S /\ \A y \in S : y =< Max(S)
  <2> HIDE DEF S
  <2> QED BY <1>3, <1>4, GreatestElement
<1>6. TotalPages(m) = Max(S)
  BY DEF TotalPages
<1>7. TotalPages(m) \in Nat
  <2> HIDE DEF S
  <2> QED BY <1>3, <1>5, <1>6
<1>8. \A i \in UsableEntries(m) : m[i].base + m[i].length =< TotalPages(m)
  BY <1>5, <1>6
<1> HIDE DEF S, f
<1>9. ASSUME NEW i \in UsableEntries(m), NEW p \in EntryPages(m[i])
      PROVE  p \in 0 .. (TotalPages(m) - 1)
  BY <1>7, <1>8, <1>9, EntryTypes DEF UsableEntries, EntryPages
<1> QED BY <1>7, <1>9 DEF UsablePages

\* The bitmap has a bit for every page below total_pages.
LEMMA BitmapSizeFacts ==
  ASSUME NEW m \in MemMaps
  PROVE  BitmapSize(m) \in Nat /\ TotalPages(m) =< 8 * BitmapSize(m)
BY TotalFacts DEF BitmapSize

\* The number of pages of n bytes, rounded up as the code does.
LEMMA RoundUp ==
  ASSUME NEW n \in Nat, NEW k \in Nat, n =< k * PAGE_SIZE
  PROVE  /\ (n + PAGE_SIZE - 1) \div PAGE_SIZE \in Nat
         /\ (n + PAGE_SIZE - 1) \div PAGE_SIZE =< k
         /\ \A byte \in 0 .. (n - 1) :
              byte \div PAGE_SIZE \in 0 .. ((n + PAGE_SIZE - 1) \div PAGE_SIZE - 1)
<1> DEFINE a == n + PAGE_SIZE - 1
           q == a \div PAGE_SIZE
<1>0. PAGE_SIZE \in Nat /\ PAGE_SIZE > 0 /\ a \in Nat
  BY PageSizeAssumption
<1> HIDE DEF a
<1>1. q \in Nat /\ q * PAGE_SIZE =< a /\ a < (q + 1) * PAGE_SIZE
  BY <1>0, Z3
<1>2. q =< k
  <2>1. SUFFICES ASSUME q >= k + 1 PROVE FALSE
    BY <1>1
  <2>2. q * PAGE_SIZE >= (k + 1) * PAGE_SIZE
    BY <2>1, <1>0, <1>1, Z3
  <2>3. (k + 1) * PAGE_SIZE = k * PAGE_SIZE + PAGE_SIZE
    BY <1>0, Z3
  <2> QED BY <1>0, <1>1, <2>2, <2>3 DEF a
<1>3. ASSUME NEW byte \in 0 .. (n - 1)
      PROVE  byte \div PAGE_SIZE \in 0 .. (q - 1)
  <2> DEFINE r == byte \div PAGE_SIZE
  <2>1. r \in Nat /\ r * PAGE_SIZE =< byte
    BY <1>0, Z3
  <2>2. (q + 1) * PAGE_SIZE = q * PAGE_SIZE + PAGE_SIZE /\ q * PAGE_SIZE \in Nat
    BY <1>0, <1>1, Z3
  <2>3. byte + PAGE_SIZE =< a
    BY <1>0 DEF a
  <2>4. r * PAGE_SIZE < q * PAGE_SIZE
    BY <1>0, <1>1, <2>1, <2>2, <2>3
  <2>5. r < q
    BY <1>0, <1>1, <2>1, <2>4, Z3
  <2> QED BY <2>1, <2>5, <1>1
<1> QED BY <1>1, <1>2, <1>3 DEF a

\* The bitmap's pages are pages of one usable entry, and every byte of the
\* bitmap lies in one of them.
LEMMA BitmapFacts ==
  ASSUME NEW m \in MemMaps, Fitting(m) # {}
  PROVE  /\ BitmapBase(m) \in Nat
         /\ BitmapPages(m) \subseteq UsablePages(m)
         /\ \A byte \in 0 .. (BitmapSize(m) - 1) :
              BitmapBase(m) + (byte \div PAGE_SIZE) \in BitmapPages(m)
<1> DEFINE i == Min(Fitting(m))
           k == (BitmapSize(m) + PAGE_SIZE - 1) \div PAGE_SIZE
<1>1. i \in UsableEntries(m) /\ m[i].length * PAGE_SIZE >= BitmapSize(m)
  <2>1. Fitting(m) \in SUBSET Nat
    BY EntryTypes DEF Fitting, UsableEntries
  <2>2. i \in Fitting(m)
    BY <2>1, MinIsMember
  <2> QED BY <2>2 DEF Fitting
<1>2. m[i].base \in Nat /\ m[i].length \in Nat /\ BitmapBase(m) = m[i].base
  BY <1>1, EntryTypes DEF UsableEntries, BitmapBase
<1> HIDE DEF i
<1>3. BitmapSize(m) \in Nat /\ BitmapSize(m) =< m[i].length * PAGE_SIZE
  <2>1. m[i].length * PAGE_SIZE \in Nat
    BY <1>2, PageSizeAssumption, Z3
  <2> QED BY <1>1, <2>1, BitmapSizeFacts
<1>4. /\ k \in Nat /\ k =< m[i].length
      /\ \A byte \in 0 .. (BitmapSize(m) - 1) : byte \div PAGE_SIZE \in 0 .. (k - 1)
  BY <1>2, <1>3, RoundUp
<1>5. BitmapPages(m) = m[i].base .. (m[i].base + k - 1)
  BY <1>2 DEF BitmapPages
<1> HIDE DEF k
<1>6. BitmapPages(m) \subseteq EntryPages(m[i])
  BY <1>2, <1>4, <1>5 DEF EntryPages
<1>7. \A byte \in 0 .. (BitmapSize(m) - 1) : BitmapBase(m) + (byte \div PAGE_SIZE) \in BitmapPages(m)
  BY <1>2, <1>4, <1>5
<1> QED BY <1>1, <1>2, <1>6, <1>7 DEF UsablePages

\* The loop that clears bits counts every usable page exactly once, because
\* usable entries do not overlap.
LEMMA CountedOnce ==
  ASSUME NEW m \in MemMaps
  PROVE  /\ IsFiniteSet(UsablePages(m))
         /\ Cardinality(ClearingSteps(m)) = Cardinality(UsablePages(m))
<1> DEFINE U == UsablePages(m)
           C == ClearingSteps(m)
           entry(p) == CHOOSE i \in UsableEntries(m) : p \in EntryPages(m[i])
           g == [p \in U |-> <<entry(p), p>>]
<1>1. IsFiniteSet(U)
  <2>1. 0 \in Int /\ TotalPages(m) - 1 \in Int
    BY TotalFacts
  <2>2. IsFiniteSet(0 .. (TotalPages(m) - 1))
    BY <2>1, FS_Interval
  <2>3. U \in SUBSET (0 .. (TotalPages(m) - 1))
    BY TotalFacts
  <2> QED BY <2>2, <2>3, FS_Subset
<1>2. \A p \in U : entry(p) \in UsableEntries(m) /\ p \in EntryPages(m[entry(p)])
  BY DEF UsablePages
<1>3. \A p \in U, i \in UsableEntries(m) : p \in EntryPages(m[i]) => i = entry(p)
  BY <1>2, MemMapAssumption
<1> HIDE DEF entry
<1>4. g \in [U -> C]
  BY <1>2 DEF ClearingSteps
<1>5. \A p, r \in U : g[p] = g[r] => p = r
  OBVIOUS
<1>6. \A s \in C : \E p \in U : g[p] = s
  <2> TAKE s \in C
  <2>1. s = <<s[1], s[2]>> /\ s[1] \in UsableEntries(m) /\ s[2] \in U /\ s[2] \in EntryPages(m[s[1]])
    BY DEF ClearingSteps
  <2>2. g[s[2]] = s
    BY <2>1, <1>3
  <2> QED BY <2>1, <2>2
<1> HIDE DEF g, U, C
<1>7. g \in Bijection(U, C)
  BY <1>4, <1>5, <1>6 DEF Bijection, Injection, Surjection, IsInjective
<1>8. ExistsBijection(U, C)
  BY <1>7 DEF ExistsBijection
<1>9. Cardinality(C) = Cardinality(U)
  BY <1>1, <1>8, FS_Bijection
<1> QED BY <1>1, <1>9 DEF U, C

-----------------------------------------------------------------------------
(***************************************************************************)
(* The invariant.                                                          *)
(***************************************************************************)

\* There are finitely many clear pages, natural numbers below total_pages.
LEMMA ClearFinite ==
  ASSUME TypeOK
  PROVE  /\ IsFiniteSet(ClearPages)
         /\ ClearPages \subseteq 0 .. (total_pages - 1)
         /\ ClearPages \in SUBSET Nat
         /\ Cardinality(ClearPages) \in Nat
<1>1. ClearPages \subseteq 0 .. (total_pages - 1)
  BY DEF ClearPages
<1>2. IsFiniteSet(0 .. (total_pages - 1))
  <2>1. 0 \in Int /\ total_pages - 1 \in Int
    BY DEF TypeOK
  <2> QED BY <2>1, FS_Interval
<1>3. IsFiniteSet(ClearPages)
  BY <1>1, <1>2, FS_Subset
<1> QED BY <1>1, <1>3, FS_CardinalityType DEF TypeOK

\* pmm_init establishes the invariant from the zeroed statics.
LEMMA PmmInitKeepsInv ==
  ASSUME Inv, PmmInit
  PROVE  /\ Inv'
         /\ ClearPages' = UsablePages(memmap) \ BitmapPages(memmap)
         /\ ClearPages = {} /\ held = {} /\ held' = {}
<1> DEFINE U == UsablePages(memmap)
           B == BitmapPages(memmap)
<1> USE DEF Inv
<1>1. memmap \in MemMaps /\ memmap' = memmap /\ placed' = TRUE /\ Fitting(memmap) # {}
      /\ total_pages' = TotalPages(memmap) /\ bitmap_size' = BitmapSize(memmap)
      /\ phase = "boot" /\ phase' = "up" /\ held' = held /\ ret' = ret
  BY DEF PmmInit, TypeOK
<1>2. ~placed /\ held = {} /\ ClearPages = {}
  BY <1>1 DEF Initialised, ClearPages
<1>3. /\ U \subseteq 0 .. (TotalPages(memmap) - 1) /\ TotalPages(memmap) \in Nat
      /\ BitmapSize(memmap) \in Nat /\ TotalPages(memmap) =< 8 * BitmapSize(memmap)
      /\ B \subseteq U
  BY <1>1, TotalFacts, BitmapSizeFacts, BitmapFacts
<1>4. bitmap' = ((0 .. (8 * BitmapSize(memmap) - 1)) \ U) \cup B
  BY DEF PmmInit
<1>5. ClearPages' = {p \in 0 .. (TotalPages(memmap) - 1) : p \notin bitmap'}
  BY <1>1 DEF ClearPages
<1> HIDE DEF U, B
<1>6. ClearPages' = U \ B
  <2>1. \A p \in 0 .. (TotalPages(memmap) - 1) : p \in 0 .. (8 * BitmapSize(memmap) - 1)
    BY <1>3
  <2>2. \A p \in 0 .. (TotalPages(memmap) - 1) : p \notin bitmap' <=> p \in U \ B
    BY <1>4, <2>1
  <2> QED BY <1>3, <1>5, <2>2, Zenon
<1>7. IsFiniteSet(U) /\ Cardinality(ClearingSteps(memmap)) = Cardinality(U)
  BY <1>1, CountedOnce DEF U
<1>8. free_pages' = Cardinality(U) - Cardinality(B)
  BY <1>7 DEF PmmInit, B
<1>9. Cardinality(U \ B) = Cardinality(U) - Cardinality(B) /\ Cardinality(U \ B) \in Nat
  <2>1. U \cap B = B
    BY <1>3, Zenon
  <2>2. IsFiniteSet(U \ B) /\ Cardinality(U \ B) = Cardinality(U) - Cardinality(U \cap B)
    BY <1>7, FS_Difference
  <2> QED BY <2>1, <2>2, FS_CardinalityType
<1>10. bitmap' \in SUBSET Nat
  <2>1. \A p \in U : p \in Nat
    BY <1>3
  <2>2. \A p \in B : p \in Nat
    BY <1>3, <2>1, Zenon
  <2>3. \A p \in 0 .. (8 * BitmapSize(memmap) - 1) : p \in Nat
    BY <1>3
  <2> QED BY <1>4, <2>2, <2>3
<1>11. TypeOK' /\ FreePagesExact'
  BY <1>1, <1>3, <1>6, <1>8, <1>9, <1>10 DEF TypeOK, FreePagesExact
<1>12. PagesAccounted' /\ Initialised'
  BY <1>1, <1>2, <1>6 DEF PagesAccounted, Initialised, U, B
<1> QED BY <1>1, <1>2, <1>6, <1>11, <1>12 DEF U, B

\* pmm_alloc takes exactly one clear page.
LEMMA AllocFacts ==
  ASSUME Inv, PmmAlloc
  PROVE  /\ Inv'
         /\ Min(ClearPages) \in ClearPages
         /\ ClearPages' = ClearPages \ {Min(ClearPages)}
<1> DEFINE p == Min(ClearPages)
<1> USE DEF Inv
<1>1. p \in ClearPages /\ p \in Nat
  BY ClearFinite, MinIsMember DEF PmmAlloc
<1>2. /\ bitmap' = bitmap \cup {p} /\ held' = held \cup {p}
      /\ free_pages' = free_pages - 1 /\ ret' = p
      /\ UNCHANGED <<memmap, phase, placed, total_pages, bitmap_size>>
  BY DEF PmmAlloc
<1> HIDE DEF p
<1>3. placed
  BY <1>1 DEF ClearPages
<1>4. ClearPages' = ClearPages \ {p}
  BY <1>2, <1>3 DEF ClearPages
<1>5. Cardinality(ClearPages \ {p}) = Cardinality(ClearPages) - 1
      /\ Cardinality(ClearPages \ {p}) \in Nat
  BY <1>1, ClearFinite, FS_RemoveElement, FS_CardinalityType
<1>6. TypeOK' /\ FreePagesExact'
  BY <1>1, <1>2, <1>4, <1>5 DEF TypeOK, FreePagesExact
<1>7. PagesAccounted'
  BY <1>1, <1>2, <1>3, <1>4 DEF PagesAccounted
<1>8. Initialised'
  BY <1>2, <1>3 DEF Initialised
<1> QED BY <1>1, <1>4, <1>6, <1>7, <1>8 DEF p

\* pmm_free gives back a held page and ignores one that is free.
LEMMA FreeFacts ==
  ASSUME Inv, NEW page \in 0 .. (total_pages - 1), PmmFree(page)
  PROVE  /\ Inv'
         /\ ClearPages' = ClearPages \cup {page}
<1> USE DEF Inv
<1>1. /\ page \in held \cup ClearPages
      /\ bitmap' = bitmap \ {page} /\ held' = held \ {page}
      /\ free_pages' = IF page \in bitmap THEN free_pages + 1 ELSE free_pages
      /\ UNCHANGED <<memmap, phase, placed, total_pages, bitmap_size, ret>>
  BY DEF PmmFree
<1>2. placed /\ page \in Nat
  BY <1>1 DEF Initialised, ClearPages, TypeOK
<1>3. ClearPages' = ClearPages \cup {page}
  BY <1>1, <1>2 DEF ClearPages
<1>4. page \in bitmap <=> page \notin ClearPages
  BY <1>2 DEF ClearPages
<1>5. /\ Cardinality(ClearPages \cup {page}) =
           IF page \in ClearPages THEN Cardinality(ClearPages) ELSE Cardinality(ClearPages) + 1
      /\ Cardinality(ClearPages) \in Nat
  BY ClearFinite, FS_AddElement
<1>6. TypeOK' /\ FreePagesExact'
  BY <1>1, <1>3, <1>4, <1>5 DEF TypeOK, FreePagesExact
<1>7. PagesAccounted'
  BY <1>1, <1>2, <1>3 DEF PagesAccounted
<1>8. Initialised'
  BY <1>1, <1>2 DEF Initialised
<1> QED BY <1>3, <1>6, <1>7, <1>8

\* The zeroed statics satisfy the invariant.
LEMMA StartsInInv == Init => Inv
<1> SUFFICES ASSUME Init PROVE Inv
  OBVIOUS
<1>1. ~placed /\ ClearPages = {} /\ free_pages = 0 /\ held = {}
  BY DEF Init, ClearPages
<1>2. TypeOK
  BY DEF Init, TypeOK
<1>3. FreePagesExact
  BY <1>1, FS_EmptySet DEF FreePagesExact
<1> QED BY <1>1, <1>2, <1>3 DEF Inv, PagesAccounted, Initialised

\* The steps that neither hand out nor take back a page change none of them.
LEMMA OtherStepsKeepInv ==
  ASSUME Inv, PmmInitFails \/ PmmAllocFails \/ PmmAllocFaults \/ UNCHANGED vars
  PROVE  Inv' /\ ClearPages' = ClearPages
<1> USE DEF Inv
<1>1. UNCHANGED <<memmap, placed, bitmap, free_pages, held>>
  BY DEF PmmInitFails, PmmAllocFails, PmmAllocFaults, vars
<1>2. CASE PmmInitFails
  <2>1. ~placed
    BY <1>2 DEF PmmInitFails, Initialised
  <2>2. TotalPages(memmap) \in Nat /\ BitmapSize(memmap) \in Nat
    BY TotalFacts, BitmapSizeFacts DEF TypeOK
  <2>3. ClearPages' = ClearPages
    BY <1>1, <2>1 DEF ClearPages
  <2> QED BY <1>1, <1>2, <2>1, <2>2, <2>3
          DEF PmmInitFails, TypeOK, FreePagesExact, PagesAccounted, Initialised
<1>3. CASE ~PmmInitFails
  <2>1. UNCHANGED <<total_pages, bitmap_size>> /\ ret' \in Nat /\ phase' \in {"boot", "up", "halted"}
        /\ (placed => phase' = phase)
    BY <1>3 DEF PmmAllocFails, PmmAllocFaults, vars, TypeOK
  <2>2. ClearPages' = ClearPages
    BY <1>1, <2>1 DEF ClearPages
  <2> QED BY <1>1, <2>1, <2>2 DEF TypeOK, FreePagesExact, PagesAccounted, Initialised
<1> QED BY <1>2, <1>3

\* Every step keeps the invariant.
LEMMA StepKeepsInv == Inv /\ [Next]_vars => Inv'
BY PmmInitKeepsInv, AllocFacts, FreeFacts, OtherStepsKeepInv DEF Next

\* The invariant holds in every reachable state.
THEOREM PmmInvHolds == Spec => []Inv
<1> QED BY StartsInInv, StepKeepsInv, PTL DEF Spec

\* free_pages is exact: pmm_init, pmm_alloc and pmm_free together count every
\* clear bit once, for every memory map.
THEOREM FreeCountIsExact == Spec => []FreePagesExact
<1>1. Inv => FreePagesExact
  BY DEF Inv
<1> QED BY <1>1, PmmInvHolds, PTL

\* No usable page is ever lost, handed out twice or both free and in use.
THEOREM PagesAreAccounted == Spec => []PagesAccounted
<1>1. Inv => PagesAccounted
  BY DEF Inv
<1> QED BY <1>1, PmmInvHolds, PTL

\* The bitmap covers all pages, lies in usable memory and is never handed out.
THEOREM BitmapIsSafe == Spec => []BitmapKeepsItsPages
<1>1. Inv => BitmapKeepsItsPages
  <2> SUFFICES ASSUME Inv, placed PROVE BitmapKeepsItsPages
    BY DEF BitmapKeepsItsPages
  <2> USE DEF Inv
  <2>1. memmap \in MemMaps /\ Fitting(memmap) # {}
        /\ total_pages = TotalPages(memmap) /\ bitmap_size = BitmapSize(memmap)
    BY DEF TypeOK, Initialised
  <2>2. total_pages =< 8 * bitmap_size
    BY <2>1, BitmapSizeFacts
  <2>3. ASSUME NEW byte \in 0 .. (bitmap_size - 1)
        PROVE  BitmapBase(memmap) + (byte \div PAGE_SIZE)
                 \in UsablePages(memmap) \ (ClearPages \cup held)
    <3>1. BitmapBase(memmap) + (byte \div PAGE_SIZE) \in BitmapPages(memmap)
      BY <2>1, <2>3, BitmapFacts
    <3>2. BitmapPages(memmap) \subseteq UsablePages(memmap)
      BY <2>1, BitmapFacts
    <3> QED BY <3>1, <3>2 DEF PagesAccounted
  <2> QED BY <2>2, <2>3 DEF BitmapKeepsItsPages
<1> QED BY <1>1, PmmInvHolds, PTL

\* pmm.c implements the allocator of PageAllocator: pmm_init maps to Populate,
\* a successful pmm_alloc to Alloc, a failed one to AllocFails, a pmm_free of a
\* held page to Free, and everything else to a stuttering step.
THEOREM Refinement == Spec => ImplementsPageAllocator
<1>1. Init => Promise!Init
  BY DEF Init, Promise!Init, ClearPages
<1>2. Inv /\ [Next]_vars => [Promise!Next]_(Promise!allocVars)
  <2> SUFFICES ASSUME Inv, [Next]_vars
               PROVE  [Promise!Next]_(Promise!allocVars)
    OBVIOUS
  <2> USE DEF Promise!Next, Promise!allocVars
  <2>1. CASE PmmInit
    <3>1. ClearPages' = UsablePages(memmap) \ BitmapPages(memmap) /\ ClearPages = {}
          /\ held = {} /\ held' = held
      BY <2>1, PmmInitKeepsInv
    <3>2. memmap \in MemMaps /\ Fitting(memmap) # {} /\ ret' = ret
      BY <2>1 DEF PmmInit, Inv, TypeOK
    <3>3. UsablePages(memmap) \subseteq Nat
      <4>1. UsablePages(memmap) \subseteq 0 .. (TotalPages(memmap) - 1)
        BY <3>2, TotalFacts
      <4> QED BY <4>1
    <3>4. 0 \in UsablePages(memmap) => 0 \in BitmapPages(memmap)
      BY <3>2, MemMapAssumption
    <3>5. ClearPages' \in SUBSET (Nat \ {0})
      BY <3>1, <3>3, <3>4
    <3> QED BY <3>1, <3>2, <3>5 DEF Promise!Populate
  <2>2. CASE PmmAlloc
    <3>1. Min(ClearPages) \in ClearPages /\ ClearPages' = ClearPages \ {Min(ClearPages)}
      BY <2>2, AllocFacts
    <3> QED BY <2>2, <3>1 DEF PmmAlloc, Promise!Alloc
  <2>3. CASE PmmAllocFails
    BY <2>3, OtherStepsKeepInv DEF PmmAllocFails, Promise!AllocFails
  <2>4. CASE \E page \in 0 .. (total_pages - 1) : PmmFree(page)
    <3>1. PICK page \in 0 .. (total_pages - 1) : PmmFree(page)
      BY <2>4
    <3>2. ClearPages' = ClearPages \cup {page}
      BY <3>1, FreeFacts
    <3>3. page \in held \cup ClearPages /\ held' = held \ {page} /\ ret' = ret
      BY <3>1 DEF PmmFree
    <3>4. CASE page \in held
      BY <3>2, <3>3, <3>4 DEF Promise!Free
    <3>5. CASE page \notin held
      BY <3>2, <3>3, <3>5
    <3> QED BY <3>4, <3>5
  <2>5. CASE PmmInitFails \/ PmmAllocFaults \/ UNCHANGED vars
    BY <2>5, OtherStepsKeepInv DEF PmmInitFails, PmmAllocFaults, vars
  <2> QED BY <2>1, <2>2, <2>3, <2>4, <2>5 DEF Next
<1> QED BY <1>1, <1>2, PmmInvHolds, PTL DEF Spec, ImplementsPageAllocator, Promise!Spec
=============================================================================
