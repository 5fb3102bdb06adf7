----------------------------- MODULE HeapProofs -----------------------------
(***************************************************************************)
(* TLAPS proofs about Heap, for every number of pages, every list of slab  *)
(* sizes and every set of requests.                                        *)
(***************************************************************************)
EXTENDS Heap, Lemmas

-----------------------------------------------------------------------------
(***************************************************************************)
(* The inductive invariant.                                                *)
(***************************************************************************)

\* The objects of a slab of cache i.
ObjectsOf(i) == 1..((PAGE_SIZE - SLAB_HEADER) \div SlabSizes[i])

VPage == 0 .. (VPages - 1)

\* heap_init finds the pages it assumes, and nothing has happened before it.
BeforeInit ==
  phase = "boot" =>
    /\ \E n \in 0..PhysPages : avail = 1..n
    /\ caches = [i \in Caches |-> <<>>]
    /\ mapped = [v \in VPage |-> 0]
    /\ held = [ptr \in Pointers |-> 0]
    /\ call = NoCall

\* The uses of a page, place by place.
SlabsApart ==
  \A i, j \in Caches : \A x \in 1..Len(caches[i]), y \in 1..Len(caches[j]) :
    caches[i][x] = caches[j][y] => i = j /\ x = y

SlabsTaken ==
  \A i \in Caches : \A x \in 1..Len(caches[i]) :
    caches[i][x] \notin avail /\ \A v \in VPage : mapped[v] # caches[i][x]

FramesTaken ==
  /\ \A v \in VPage : mapped[v] \notin avail
  /\ \A v, w \in VPage : mapped[v] = mapped[w] /\ mapped[v] # 0 => v = w

\* The free list of a slab has the objects of its cache that nobody holds, each
\* once, and an object that is held is of a cache with objects large enough.
FreeLists ==
  \A i \in Caches : \A x \in 1..Len(caches[i]) :
    LET p == caches[i][x] IN
    /\ IsInjective(free_list[p])
    /\ ToSet(free_list[p]) = {k \in ObjectsOf(i) : held[SlabObject(p, k)] = 0}

HeldObjects ==
  \A p \in 1..PhysPages, k \in Objects :
    held[SlabObject(p, k)] # 0 =>
      \E i \in Caches :
        /\ \E x \in 1..Len(caches[i]) : caches[i][x] = p
        /\ k \in ObjectsOf(i)
        /\ held[SlabObject(p, k)] + ALLOC_HEADER =< SlabSizes[i]

\* Nothing is mapped above kernel_heap_vaddr, nor without a page table.
BelowTop ==
  /\ \A v \in VPage : mapped[v] # 0 => v < kernel_heap_vaddr /\ v \div PT_SPAN \in tables
  /\ \A b \in HeldBlocks : b.page + PagesCount(held[b]) =< kernel_heap_vaddr

\* The pages of the blocks that are held.
BlocksApart ==
  \A b, d \in HeldBlocks : b # d => Block(b) \cap Block(d) = {}

BlocksMapped ==
  \A b \in HeldBlocks : \A v \in Block(b) :
    mapped[v] = 0 => v > b.page /\ v = b.page + PagesCount(held[b]) - 1 /\ v % PT_SPAN = 0

\* A cache that heap_init could not serve had no page, nobody gets one afterwards.
NoneLeft ==
  phase # "boot" /\ (\E i \in Caches : caches[i] = <<>>) =>
    avail = {} /\ mapped = [v \in VPage |-> 0]

Inv ==
  /\ TypeOK /\ BeforeInit
  /\ SlabsApart /\ SlabsTaken /\ FramesTaken
  /\ FreeLists /\ HeldObjects
  /\ BelowTop /\ BlocksApart /\ BlocksMapped
  /\ NoneLeft /\ NullMeansExhausted

-----------------------------------------------------------------------------
(***************************************************************************)
(* Sizes and counts.                                                       *)
(***************************************************************************)

\* What the assumptions say of sizes and caches.
LEMMA SizeFacts ==
  /\ PAGE_SIZE \in Nat /\ PAGE_SIZE > 0 /\ ALLOC_HEADER \in Nat /\ ALLOC_HEADER > 0
  /\ SLAB_HEADER \in Nat /\ PT_SPAN \in Nat /\ PT_SPAN > 0 /\ PhysPages \in Nat /\ VPages \in Nat
  /\ Len(SlabSizes) \in Nat /\ Len(SlabSizes) >= 1 /\ 1 \in Caches /\ Len(SlabSizes) \in Caches
  /\ \A i \in Caches : /\ i \in Nat /\ i >= 1
                       /\ SlabSizes[i] \in Nat /\ SlabSizes[i] > 0
                       /\ SLAB_HEADER + SlabSizes[i] =< PAGE_SIZE
                       /\ SlabSizes[1] =< SlabSizes[i] /\ SlabSizes[i] =< SLAB_MAX
<1>1. SlabSizes \in Seq(Nat \ {0}) /\ SlabSizes # <<>>
  BY SlabsAssumption
<1>2. Len(SlabSizes) \in Nat /\ Len(SlabSizes) >= 1 /\ 1 \in Caches /\ Len(SlabSizes) \in Caches
  BY <1>1 DEF Caches
<1>3. ASSUME NEW i \in Caches
      PROVE  /\ i \in Nat /\ i >= 1 /\ SlabSizes[i] \in Nat /\ SlabSizes[i] > 0
             /\ SLAB_HEADER + SlabSizes[i] =< PAGE_SIZE
  <2>1. i \in 1..Len(SlabSizes)
    BY DEF Caches
  <2>2. SlabSizes[i] \in Nat \ {0}
    BY <1>1, <2>1
  <2> QED BY <1>2, <2>1, <2>2, SlabsAssumption
<1>4. ASSUME NEW i \in Caches
      PROVE  SlabSizes[1] =< SlabSizes[i] /\ SlabSizes[i] =< SLAB_MAX
  <2>1. \A j, k \in 1..Len(SlabSizes) : j < k => SlabSizes[j] < SlabSizes[k]
    BY SlabsAssumption
  <2>2. /\ i = 1 \/ SlabSizes[1] < SlabSizes[i]
        /\ i = Len(SlabSizes) \/ SlabSizes[i] < SlabSizes[Len(SlabSizes)]
    BY <1>2, <1>3, <2>1 DEF Caches
  <2>3. SlabSizes[1] \in Nat /\ SlabSizes[i] \in Nat /\ SlabSizes[Len(SlabSizes)] \in Nat
    BY <1>2, <1>3
  <2> QED BY <2>2, <2>3 DEF SLAB_MAX
<1> QED BY <1>2, <1>3, <1>4, HeapSizesAssumption

\* A quotient and its remainder.
LEMMA Quotient ==
  ASSUME NEW a \in Nat, NEW b \in Nat, b > 0
  PROVE  a \div b \in Nat /\ b * (a \div b) =< a /\ a < b * (a \div b) + b
BY Z3

\* Products grow with their factors.
LEMMA Products ==
  ASSUME NEW a \in Nat, NEW b \in Nat, NEW s \in Nat, a =< b
  PROVE  a * s \in Nat /\ b * s \in Nat /\ a * s =< b * s
BY Z3

\* A quotient at least x: the divisor goes x times into the dividend.
LEMMA QuotientAtLeast ==
  ASSUME NEW a \in Nat, NEW b \in Nat, b > 0, NEW x \in Nat, x * b =< a
  PROVE  x =< a \div b
<1> DEFINE q == a \div b
<1>1. q \in Nat /\ a < b * q + b
  BY Quotient
<1> HIDE DEF q
<1>2. SUFFICES ASSUME q + 1 =< x PROVE FALSE
  <2>1. q < x => q + 1 =< x
    BY <1>1
  <2>2. x =< q \/ q < x
    BY <1>1
  <2> QED BY <1>2, <2>1, <2>2 DEF q
<1>3. (q + 1) * b =< x * b /\ (q + 1) * b \in Nat /\ x * b \in Nat
  <2>1. q + 1 \in Nat
    BY <1>1
  <2> QED BY <1>2, <2>1, Products
<1>4. (q + 1) * b = b * q + b
  BY <1>1, Z3
<1>5. b * q \in Nat
  BY <1>1, Z3
<1> QED BY <1>1, <1>3, <1>4, <1>5

\* The objects of a slab lie in its page, there is one at least, and the first cache
\* has the most.
LEMMA ObjectFacts ==
  ASSUME NEW i \in Caches
  PROVE  /\ ObjectsOf(i) \subseteq Objects /\ 1 \in ObjectsOf(i)
         /\ (PAGE_SIZE - SLAB_HEADER) \div SlabSizes[i] \in Nat
         /\ \A k \in ObjectsOf(i) : SLAB_HEADER + k * SlabSizes[i] =< PAGE_SIZE
<1> DEFINE a == PAGE_SIZE - SLAB_HEADER
           s == SlabSizes[i]
           n == a \div s
           s1 == SlabSizes[1]
           m == a \div s1
<1>1. a \in Nat /\ s \in Nat /\ s > 0 /\ s =< a /\ s1 \in Nat /\ s1 > 0 /\ s1 =< s
  BY SizeFacts
<1>2. ObjectsOf(i) = 1..n /\ Objects = 1..m
  BY DEF ObjectsOf, Objects
<1> HIDE DEF a, s, s1
<1>3. n \in Nat /\ s * n =< a /\ m \in Nat
  BY <1>1, Quotient
<1>4. 1 =< n
  <2>1. 1 * s = s
    BY <1>1
  <2> QED BY <1>1, <2>1, QuotientAtLeast
<1>5. n =< m
  <2>1. n * s1 =< a
    <3> HIDE DEF n
    <3>1. s1 * n =< s * n /\ s1 * n \in Nat /\ s * n \in Nat
      BY <1>1, <1>3, Products
    <3>2. n * s1 = s1 * n
      BY <1>1, <1>3, Z3
    <3> QED BY <1>1, <1>3, <3>1, <3>2
  <2> HIDE DEF n
  <2> QED BY <1>1, <1>3, <2>1, QuotientAtLeast
<1>6. ASSUME NEW k \in 1..n
      PROVE  SLAB_HEADER + k * s =< PAGE_SIZE
  <2> HIDE DEF n
  <2>1. k * s =< n * s /\ k * s \in Nat /\ n * s \in Nat
    BY <1>1, <1>3, Products
  <2>2. n * s = s * n
    BY <1>1, <1>3, Z3
  <2>3. k * s =< a
    BY <1>1, <1>3, <2>1, <2>2
  <2> DEFINE ks == k * s
  <2>4. ks \in Nat /\ ks =< a
    BY <2>1, <2>3
  <2> HIDE DEF ks
  <2>5. SLAB_HEADER + ks =< PAGE_SIZE
    BY <2>4, SizeFacts DEF a
  <2> QED BY <2>5 DEF ks
<1>7. n = (PAGE_SIZE - SLAB_HEADER) \div SlabSizes[i]
  BY DEF a, s
<1> HIDE DEF n, m
<1> QED BY <1>2, <1>3, <1>4, <1>5, <1>6, <1>7 DEF s

\* The pages of a large block hold its header and its data.
LEMMA PageFacts ==
  ASSUME NEW size \in Nat
  PROVE  /\ PagesCount(size) \in Nat /\ PagesCount(size) >= 1
         /\ size + ALLOC_HEADER =< PAGE_SIZE * PagesCount(size)
<1> DEFINE a == size + ALLOC_HEADER + PAGE_SIZE - 1
           n == PagesCount(size)
<1>1. a \in Nat /\ PAGE_SIZE \in Nat /\ PAGE_SIZE > 0 /\ a >= PAGE_SIZE /\ n = a \div PAGE_SIZE
  BY SizeFacts DEF PagesCount
<1>2. n \in Nat /\ a < PAGE_SIZE * n + PAGE_SIZE
  <2> HIDE DEF a, n
  <2> QED BY <1>1, Quotient
<1> HIDE DEF n
<1>3. 1 =< n
  <2> HIDE DEF a
  <2>1. 1 * PAGE_SIZE = PAGE_SIZE
    BY <1>1
  <2> QED BY <1>1, <2>1, QuotientAtLeast
<1> DEFINE t == PAGE_SIZE * n
<1>4. t \in Nat
  BY <1>1, <1>2, Z3
<1> HIDE DEF t
<1>5. a < t + PAGE_SIZE
  BY <1>2 DEF t
<1>6. size + ALLOC_HEADER =< t
  BY <1>4, <1>5, SizeFacts
<1> QED BY <1>2, <1>3, <1>6 DEF t, n

\* Two neighbouring pages have the same page table unless the upper one is the first
\* of its own.
LEMMA SameTable ==
  ASSUME NEW v \in Nat
  PROVE  /\ v \div PT_SPAN \in Nat /\ v \div PT_SPAN =< v
         /\ (v >= 1 /\ v % PT_SPAN # 0) => v \div PT_SPAN = (v - 1) \div PT_SPAN
<1> DEFINE S == PT_SPAN
<1>0. S \in Nat /\ S > 0
  BY SizeFacts
<1> HIDE DEF S
<1>1. v \div S \in Nat /\ v % S \in 0 .. (S - 1) /\ v = S * (v \div S) + (v % S)
  BY <1>0, Z3
<1>2. v \div S =< v
  <2> DEFINE q == v \div S
  <2>1. q \in Nat /\ S * q =< v
    BY <1>0, Quotient
  <2> HIDE DEF q
  <2>2. 1 * q =< S * q /\ S * q \in Nat
    BY <1>0, <2>1, Products
  <2>3. q =< v
    BY <2>1, <2>2
  <2> QED BY <2>3 DEF q
<1>3. ASSUME v >= 1, v % S # 0
      PROVE  v \div S = (v - 1) \div S
  <2> DEFINE q == v \div S
             r == v % S
             x == (v - 1) \div S
             y == (v - 1) % S
  <2>1. v - 1 \in Nat
    BY <1>3
  <2>2. x \in Nat /\ y \in 0 .. (S - 1) /\ v - 1 = S * x + y
    BY <1>0, <2>1, Z3
  <2>3. q \in Nat /\ r \in 1 .. (S - 1) /\ v = S * q + r
    BY <1>0, <1>1, <1>3
  <2> HIDE DEF q, r, x, y
  <2>4. S * q + (r - 1) = S * x + y /\ r - 1 \in 0 .. (S - 1)
    <3> DEFINE sq == S * q
               sx == S * x
    <3>1. sq \in Nat /\ sx \in Nat
      BY <1>0, <2>2, <2>3, Z3
    <3>2. v - 1 = sx + y /\ v = sq + r
      BY <2>2, <2>3
    <3> HIDE DEF sq, sx
    <3>3. sq + (r - 1) = sx + y /\ r - 1 \in 0 .. (S - 1)
      BY <1>0, <2>2, <2>3, <3>1, <3>2
    <3> QED BY <3>3 DEF sq, sx
  <2>5. q = x
    <3>1. ASSUME NEW e \in Nat, NEW f \in Nat, e + 1 =< f, NEW g \in 0 .. (S - 1), NEW h \in 0 .. (S - 1),
                 S * e + g = S * f + h
          PROVE  FALSE
      <4>1. e + 1 \in Nat
        OBVIOUS
      <4>2. (e + 1) * S =< f * S /\ (e + 1) * S \in Nat /\ f * S \in Nat
        BY <1>0, <3>1, <4>1, Products
      <4>3. (e + 1) * S = S * e + S /\ f * S = S * f /\ S * e \in Nat /\ S * f \in Nat
        BY <1>0, Z3
      <4> QED BY <1>0, <3>1, <4>2, <4>3
    <3>2. ~(q + 1 =< x)
      BY <2>2, <2>3, <2>4, <3>1
    <3>3. ~(x + 1 =< q)
      BY <2>2, <2>3, <2>4, <3>1
    <3> QED BY <2>2, <2>3, <3>2, <3>3
  <2> QED BY <2>5 DEF q, x
<1> QED BY <1>1, <1>2, <1>3 DEF S

-----------------------------------------------------------------------------
(***************************************************************************)
(* Free lists.                                                             *)
(***************************************************************************)

\* kmalloc unlinks the first object of a list.
LEMMA TakeFirst ==
  ASSUME NEW S, NEW q \in Seq(S), q # <<>>, IsInjective(q)
  PROVE  /\ Head(q) \in ToSet(q) /\ Head(q) \in S
         /\ Tail(q) \in Seq(S) /\ IsInjective(Tail(q)) /\ ToSet(Tail(q)) = ToSet(q) \ {Head(q)}
<1>1. /\ Len(q) \in Nat /\ Len(q) >= 1 /\ DOMAIN q = 1..Len(q) /\ Head(q) = q[1] /\ q[1] \in S
      /\ Tail(q) \in Seq(S) /\ DOMAIN Tail(q) = 1 .. (Len(q) - 1)
      /\ \A k \in 1 .. (Len(q) - 1) : Tail(q)[k] = q[k + 1]
  OBVIOUS
<1>2. \A k, l \in 1..Len(q) : q[k] = q[l] => k = l
  BY <1>1 DEF IsInjective
<1>3. IsInjective(Tail(q))
  <2> SUFFICES ASSUME NEW k \in 1 .. (Len(q) - 1), NEW l \in 1 .. (Len(q) - 1), Tail(q)[k] = Tail(q)[l]
               PROVE  k = l
    BY <1>1 DEF IsInjective
  <2>1. k + 1 \in 1..Len(q) /\ l + 1 \in 1..Len(q) /\ q[k + 1] = q[l + 1]
    BY <1>1
  <2>2. k + 1 = l + 1
    BY <1>2, <2>1
  <2> QED BY <1>1, <2>2
<1>4. ToSet(Tail(q)) \subseteq ToSet(q) \ {Head(q)}
  <2> SUFFICES ASSUME NEW k \in 1 .. (Len(q) - 1) PROVE Tail(q)[k] \in ToSet(q) \ {Head(q)}
    BY <1>1 DEF ToSet
  <2>1. k + 1 \in 1..Len(q) /\ 1 \in 1..Len(q) /\ k + 1 # 1 /\ Tail(q)[k] = q[k + 1]
    BY <1>1
  <2> QED BY <1>1, <1>2, <2>1 DEF ToSet
<1>5. ToSet(q) \ {Head(q)} \subseteq ToSet(Tail(q))
  <2> SUFFICES ASSUME NEW k \in 1..Len(q), q[k] # q[1] PROVE q[k] \in ToSet(Tail(q))
    BY <1>1 DEF ToSet
  <2>1. k - 1 \in 1 .. (Len(q) - 1) /\ (k - 1) + 1 = k
    BY <1>1
  <2>2. Tail(q)[k - 1] = q[k]
    BY <1>1, <2>1
  <2> QED BY <1>1, <2>1, <2>2 DEF ToSet
<1>6. Head(q) \in ToSet(q)
  BY <1>1 DEF ToSet
<1>7. ToSet(Tail(q)) = ToSet(q) \ {Head(q)}
  BY <1>4, <1>5
<1> QED BY <1>1, <1>3, <1>6, <1>7

\* The list that create_slab makes.
LEMMA FreshFacts ==
  ASSUME NEW i \in Caches
  PROVE  /\ FreshSlab(i) \in Seq(Objects) /\ FreshSlab(i) # <<>> /\ Head(FreshSlab(i)) = 1
         /\ IsInjective(FreshSlab(i)) /\ ToSet(FreshSlab(i)) = ObjectsOf(i)
<1> DEFINE n == (PAGE_SIZE - SLAB_HEADER) \div SlabSizes[i]
           q == FreshSlab(i)
<1>1. n \in Nat /\ 1..n \subseteq Objects /\ 1 \in 1..n /\ ObjectsOf(i) = 1..n /\ q = [k \in 1..n |-> k]
  BY ObjectFacts DEF ObjectsOf, FreshSlab
<1> HIDE DEF n, q
<1>2. q \in Seq(Objects) /\ Len(q) = n /\ \A k \in 1..n : q[k] = k
  BY <1>1
<1>3. q # <<>> /\ Head(q) = 1 /\ DOMAIN q = 1..n
  BY <1>1, <1>2
<1>4. IsInjective(q) /\ ToSet(q) = ObjectsOf(i)
  BY <1>1, <1>2, <1>3 DEF IsInjective, ToSet
<1> QED BY <1>2, <1>3, <1>4 DEF q
-----------------------------------------------------------------------------
(***************************************************************************)
(* The loop of kmalloc that maps the pages of a large block.               *)
(***************************************************************************)

Turns == [null : BOOLEAN, avail : SUBSET (1..PhysPages),
          mapped : [VPage -> 0..PhysPages], tables : SUBSET (0..VPages)]

FirstTurn == [null |-> FALSE, avail |-> avail, mapped |-> mapped, tables |-> tables]

\* g is what the loop leaves after 0, 1, ... k iterations.
IsLoop(g, k) ==
  g = [i \in 0..k |-> IF i = 0 THEN FirstTurn ELSE MapOne(g[i - 1], kernel_heap_vaddr + i - 1)]

\* The loop can be run for any number of iterations.
LEMMA LoopExists ==
  ASSUME NEW n \in Nat
  PROVE  \E g : IsLoop(g, n)
<1> DEFINE bad == {k \in Nat : ~ \E g : IsLoop(g, k)}
           m == Min(bad)
<1> SUFFICES ASSUME n \in bad PROVE FALSE
  OBVIOUS
<1>1. m \in bad /\ \A k \in bad : m =< k
  BY MinIsMember
<1>2. m \in Nat /\ ~ \E g : IsLoop(g, m)
  BY <1>1
<1>3. \A k \in Nat : k < m => \E g : IsLoop(g, k)
  BY <1>1, <1>2
<1> HIDE DEF bad, m
<1>4. CASE m = 0
  <2> DEFINE h == [i \in 0..0 |-> FirstTurn]
  <2>1. h = [i \in 0..0 |-> IF i = 0 THEN FirstTurn ELSE MapOne(h[i - 1], kernel_heap_vaddr + i - 1)]
    OBVIOUS
  <2> HIDE DEF h
  <2>2. IsLoop(h, 0)
    BY <2>1 DEF IsLoop
  <2> QED BY <1>2, <1>4, <2>2
<1>5. CASE m # 0
  <2>1. m - 1 \in Nat /\ m - 1 < m
    BY <1>2, <1>5
  <2>2. PICK g : IsLoop(g, m - 1)
    BY <1>3, <2>1
  <2> DEFINE h == [i \in 0..m |-> IF i = m THEN MapOne(g[m - 1], kernel_heap_vaddr + m - 1) ELSE g[i]]
  <2>3. /\ DOMAIN h = 0..m /\ h[m] = MapOne(g[m - 1], kernel_heap_vaddr + m - 1)
        /\ \A i \in 0 .. (m - 1) : h[i] = g[i]
        /\ h = [i \in 0..m |-> h[i]]
    BY <1>2
  <2>4. \A i \in 0 .. (m - 1) : g[i] = IF i = 0 THEN FirstTurn ELSE MapOne(g[i - 1], kernel_heap_vaddr + i - 1)
    <3> DEFINE e(i) == IF i = 0 THEN FirstTurn ELSE MapOne(g[i - 1], kernel_heap_vaddr + i - 1)
    <3>1. g = [i \in 0 .. (m - 1) |-> e(i)]
      BY <2>2 DEF IsLoop
    <3> HIDE DEF e
    <3>2. \A i \in 0 .. (m - 1) : g[i] = e(i)
      BY <3>1
    <3> QED BY <3>2 DEF e
  <2> HIDE DEF h
  <2>5. ASSUME NEW i \in 0..m
        PROVE  h[i] = IF i = 0 THEN FirstTurn ELSE MapOne(h[i - 1], kernel_heap_vaddr + i - 1)
    <3>1. CASE i = m
      <4>1. m - 1 \in 0 .. (m - 1)
        BY <1>2, <2>1
      <4>2. h[i] = MapOne(h[i - 1], kernel_heap_vaddr + i - 1)
        BY <2>3, <3>1, <4>1
      <4> QED BY <1>5, <3>1, <4>2
    <3>2. CASE i # m /\ i = 0
      <4>1. i \in 0 .. (m - 1)
        BY <1>2, <2>1, <3>2
      <4> QED BY <2>3, <2>4, <3>2, <4>1
    <3>3. CASE i # m /\ i # 0
      <4>1. i \in 0 .. (m - 1) /\ i - 1 \in 0 .. (m - 1)
        BY <1>2, <2>1, <3>3
      <4>2. h[i] = g[i] /\ h[i - 1] = g[i - 1]
        BY <2>3, <4>1
      <4>3. g[i] = MapOne(g[i - 1], kernel_heap_vaddr + i - 1)
        BY <2>4, <3>3, <4>1
      <4> QED BY <3>3, <4>2, <4>3
    <3> QED BY <3>1, <3>2, <3>3
  <2>6. IsLoop(h, m)
    <3> DEFINE e(i) == IF i = 0 THEN FirstTurn ELSE MapOne(h[i - 1], kernel_heap_vaddr + i - 1)
    <3>1. \A i \in 0..m : h[i] = e(i)
      BY <2>5
    <3> HIDE DEF e
    <3>2. h = [i \in 0..m |-> e(i)]
      BY <2>3, <3>1
    <3> QED BY <3>2 DEF e, IsLoop
  <2> QED BY <1>2, <2>6
<1> QED BY <1>4, <1>5

\* MapPages is the last of these.
LEMMA LoopOf ==
  ASSUME NEW n \in Nat
  PROVE  \E g : IsLoop(g, n) /\ MapPages(n) = g[n]
<1> DEFINE g == CHOOSE f : IsLoop(f, n)
<1>1. IsLoop(g, n)
  BY LoopExists
<1>2. MapPages(n) = g[n]
  BY Zenon DEF MapPages, IsLoop, FirstTurn
<1> QED BY <1>1, <1>2

\* One iteration: it gives up, maps a page, maps a page through a new table, or
\* loses the page because there is none for the table.
Iteration(r, q, v) ==
  \/ /\ r.null \/ r.avail = {}
     /\ q.null /\ q.avail = r.avail /\ q.mapped = r.mapped /\ q.tables = r.tables
  \/ /\ ~r.null /\ ~q.null
     /\ \E phys \in r.avail :
          \/ /\ v \div PT_SPAN \in r.tables
             /\ q.avail = r.avail \ {phys}
             /\ q.mapped = [r.mapped EXCEPT ![v] = phys] /\ q.tables = r.tables
          \/ /\ \E t \in r.avail : q.avail = r.avail \ {phys, t}
             /\ q.mapped = [r.mapped EXCEPT ![v] = phys]
             /\ q.tables = r.tables \cup {v \div PT_SPAN}
          \/ /\ v \div PT_SPAN \notin r.tables
             /\ q.avail = {} /\ q.mapped = r.mapped /\ q.tables = r.tables

\* MapOne is such an iteration.
LEMMA OneIteration ==
  ASSUME NEW r \in Turns, NEW v \in VPage
  PROVE  MapOne(r, v) \in Turns /\ Iteration(r, MapOne(r, v), v)
<1> DEFINE q == MapOne(r, v)
           phys == Min(r.avail)
           rest == r.avail \ {phys}
           table == v \div PT_SPAN
<1>0. /\ r.null \in BOOLEAN /\ r.avail \in SUBSET (1..PhysPages)
      /\ r.mapped \in [VPage -> 0..PhysPages] /\ r.tables \in SUBSET (0..VPages)
      /\ r = [null |-> r.null, avail |-> r.avail, mapped |-> r.mapped, tables |-> r.tables]
  BY DEF Turns
<1>1. table \in 0..VPages
  <2>1. v \in Nat /\ v < VPages /\ VPages \in Nat
    BY SizeFacts DEF VPage
  <2>2. table \in Nat /\ table =< v
    BY <2>1, SameTable
  <2> HIDE DEF table
  <2> QED BY <2>1, <2>2
<1>2. CASE r.null \/ r.avail = {}
  <2>1. q = [r EXCEPT !.null = TRUE]
    BY <1>2 DEF MapOne
  <2>2. q = [null |-> TRUE, avail |-> r.avail, mapped |-> r.mapped, tables |-> r.tables]
    BY <1>0, <2>1
  <2> HIDE DEF q
  <2>3. q \in Turns
    BY <1>0, <2>2 DEF Turns
  <2>4. q.null /\ q.avail = r.avail /\ q.mapped = r.mapped /\ q.tables = r.tables
    BY <2>2
  <2> QED BY <1>2, <2>3, <2>4 DEF q, Iteration
<1>3. CASE ~(r.null \/ r.avail = {})
  <2>0. r.null = FALSE
    BY <1>0, <1>3
  <2>1. phys \in r.avail
    <3>1. r.avail \in SUBSET Nat /\ r.avail # {}
      BY <1>0, <1>3
    <3> QED BY <3>1, MinIsMember
  <2>2. phys \in 0..PhysPages /\ rest \in SUBSET (1..PhysPages)
    BY <1>0, <2>1
  <2>3. CASE table \in r.tables
    <3>1. q = [r EXCEPT !.avail = rest, !.mapped[v] = phys]
      BY <1>3, <2>3 DEF MapOne
    <3> HIDE DEF phys
    <3>2. q = [null |-> FALSE, avail |-> rest, mapped |-> [r.mapped EXCEPT ![v] = phys], tables |-> r.tables]
      BY <1>0, <2>0, <3>1
    <3> HIDE DEF q, table
    <3>3. q \in Turns
      BY <1>0, <2>2, <3>2 DEF Turns
    <3>4. ~q.null /\ q.avail = rest /\ q.mapped = [r.mapped EXCEPT ![v] = phys] /\ q.tables = r.tables
      BY <3>2
    <3>5. Iteration(r, q, v)
      BY <1>3, <2>1, <2>3, <3>4 DEF Iteration, table
    <3> QED BY <3>3, <3>5 DEF q
  <2>4. CASE table \notin r.tables /\ rest # {}
    <3> DEFINE t == Min(rest)
    <3>0. t \in rest
      <4>1. rest \in SUBSET Nat /\ rest # {}
        BY <2>2, <2>4
      <4> QED BY <4>1, MinIsMember
    <3>1. q = [r EXCEPT !.avail = rest \ {t}, !.mapped[v] = phys, !.tables = @ \cup {table}]
      BY <1>3, <2>4 DEF MapOne
    <3> HIDE DEF phys, t
    <3>2. q = [null |-> FALSE, avail |-> rest \ {t}, mapped |-> [r.mapped EXCEPT ![v] = phys],
               tables |-> r.tables \cup {table}]
      BY <1>0, <2>0, <3>1
    <3> HIDE DEF q, table
    <3>3. q \in Turns
      <4>1. rest \ {t} \in SUBSET (1..PhysPages) /\ r.tables \cup {table} \in SUBSET (0..VPages)
        BY <1>0, <1>1, <2>2
      <4>2. [r.mapped EXCEPT ![v] = phys] \in [VPage -> 0..PhysPages]
        BY <1>0, <2>2
      <4> QED BY <3>2, <4>1, <4>2 DEF Turns
    <3>4. /\ ~q.null /\ q.avail = r.avail \ {phys, t} /\ q.mapped = [r.mapped EXCEPT ![v] = phys]
          /\ q.tables = r.tables \cup {table}
      BY <3>2
    <3>5. Iteration(r, q, v)
      BY <1>3, <2>1, <2>4, <3>0, <3>4 DEF Iteration, table
    <3> QED BY <3>3, <3>5 DEF q
  <2>5. CASE table \notin r.tables /\ rest = {}
    <3>1. q = [r EXCEPT !.avail = rest]
      BY <1>3, <2>5 DEF MapOne
    <3> HIDE DEF phys
    <3>2. q = [null |-> FALSE, avail |-> {}, mapped |-> r.mapped, tables |-> r.tables]
      BY <1>0, <2>0, <2>5, <3>1
    <3> HIDE DEF q, table
    <3>3. q \in Turns
      BY <1>0, <3>2 DEF Turns
    <3>4. ~q.null /\ q.avail = {} /\ q.mapped = r.mapped /\ q.tables = r.tables
      BY <3>2
    <3>5. Iteration(r, q, v)
      BY <1>3, <2>1, <2>5, <3>4 DEF Iteration, table
    <3> QED BY <3>3, <3>5 DEF q
  <2> QED BY <2>3, <2>4, <2>5
<1> QED BY <1>2, <1>3

\* What i iterations from kernel_heap_vaddr on leave: below it everything is as it
\* was, from the i-th page on nothing is mapped, the pages between have frames of
\* their own, and unless the loop gave up only the last of them may lack one.
AfterTurns(r, i) ==
  /\ r \in Turns
  /\ r.avail \subseteq avail /\ tables \subseteq r.tables
  /\ \A v \in VPage : v < kernel_heap_vaddr => r.mapped[v] = mapped[v]
  /\ \A v \in VPage : v >= kernel_heap_vaddr + i => r.mapped[v] = 0
  /\ \A v \in VPage : v >= kernel_heap_vaddr /\ r.mapped[v] # 0 => r.mapped[v] \in avail \ r.avail
  /\ \A v, w \in VPage : v >= kernel_heap_vaddr /\ w >= kernel_heap_vaddr /\ r.mapped[v] # 0
                           /\ r.mapped[v] = r.mapped[w] => v = w
  /\ \A v \in VPage : r.mapped[v] # 0 => v \div PT_SPAN \in r.tables
  /\ r.null => r.avail = {}
  /\ ~r.null => \A v \in kernel_heap_vaddr .. (kernel_heap_vaddr + i - 1) :
                  r.mapped[v] = 0 => /\ v = kernel_heap_vaddr + i - 1 /\ r.avail = {}
                                     /\ v \div PT_SPAN \notin r.tables

\* Before the first iteration.
LEMMA FirstAfterTurns ==
  ASSUME TypeOK, BelowTop
  PROVE  AfterTurns(FirstTurn, 0)
<1> DEFINE r == FirstTurn
<1>1. r \in Turns
  BY DEF TypeOK, Turns, FirstTurn, VPage
<1>2. r.avail = avail /\ r.mapped = mapped /\ r.tables = tables /\ ~r.null
  BY DEF FirstTurn
<1> HIDE DEF r
<1>3. kernel_heap_vaddr \in Nat
  BY SizeFacts DEF TypeOK
<1>4. \A v \in VPage : v >= kernel_heap_vaddr => mapped[v] = 0
  BY <1>3, SizeFacts DEF BelowTop, VPage
<1>5. \A v \in VPage : mapped[v] # 0 => v \div PT_SPAN \in tables
  BY DEF BelowTop
<1>6. AfterTurns(r, 0)
  BY <1>1, <1>2, <1>3, <1>4, <1>5 DEF AfterTurns, VPage
<1> QED BY <1>6 DEF r

\* One more iteration.
LEMMA NextAfterTurns ==
  ASSUME TypeOK, NEW i \in Nat, kernel_heap_vaddr + i < VPages, NEW r, AfterTurns(r, i)
  PROVE  AfterTurns(MapOne(r, kernel_heap_vaddr + i), i + 1)
<1> DEFINE k == kernel_heap_vaddr
           u == k + i
           q == MapOne(r, u)
           table(v) == v \div PT_SPAN
<1>1. k \in Nat /\ VPages \in Nat /\ u \in VPage /\ u \in Nat
  BY SizeFacts DEF TypeOK, VPage
<1>2. r \in Turns /\ r.avail \in SUBSET (1..PhysPages) /\ r.mapped \in [VPage -> 0..PhysPages]
  BY DEF AfterTurns, Turns
<1>3. q \in Turns /\ Iteration(r, q, u)
  BY <1>1, <1>2, OneIteration
<1>4. /\ r.avail \subseteq avail /\ tables \subseteq r.tables
      /\ \A v \in VPage : v < k => r.mapped[v] = mapped[v]
      /\ \A v \in VPage : v >= k + i => r.mapped[v] = 0
      /\ \A v \in VPage : v >= k /\ r.mapped[v] # 0 => r.mapped[v] \in avail \ r.avail
      /\ \A v, w \in VPage : v >= k /\ w >= k /\ r.mapped[v] # 0 /\ r.mapped[v] = r.mapped[w] => v = w
      /\ \A v \in VPage : r.mapped[v] # 0 => table(v) \in r.tables
      /\ r.null => r.avail = {}
      /\ ~r.null => \A v \in k .. (k + i - 1) :
                      r.mapped[v] = 0 => v = k + i - 1 /\ r.avail = {} /\ table(v) \notin r.tables
  BY DEF AfterTurns
<1> SUFFICES ASSUME TRUE
             PROVE  /\ q.avail \subseteq avail /\ tables \subseteq q.tables
                    /\ \A v \in VPage : v < k => q.mapped[v] = mapped[v]
                    /\ \A v \in VPage : v >= k + (i + 1) => q.mapped[v] = 0
                    /\ \A v \in VPage : v >= k /\ q.mapped[v] # 0 => q.mapped[v] \in avail \ q.avail
                    /\ \A v, w \in VPage : v >= k /\ w >= k /\ q.mapped[v] # 0 /\ q.mapped[v] = q.mapped[w] => v = w
                    /\ \A v \in VPage : q.mapped[v] # 0 => table(v) \in q.tables
                    /\ q.null => q.avail = {}
                    /\ ~q.null => \A v \in k .. (k + (i + 1) - 1) :
                         q.mapped[v] = 0 => v = k + (i + 1) - 1 /\ q.avail = {} /\ table(v) \notin q.tables
  BY <1>3 DEF AfterTurns
<1>5. VPage \subseteq Nat
  BY DEF VPage
<1>u. u = k + i
  OBVIOUS
<1>t. Iteration(r, q, u) =>
        \/ /\ r.null \/ r.avail = {}
           /\ q.null /\ q.avail = r.avail /\ q.mapped = r.mapped /\ q.tables = r.tables
        \/ /\ ~r.null /\ ~q.null
           /\ \E phys \in r.avail :
                \/ /\ table(u) \in r.tables
                   /\ q.avail = r.avail \ {phys}
                   /\ q.mapped = [r.mapped EXCEPT ![u] = phys] /\ q.tables = r.tables
                \/ /\ \E t \in r.avail : q.avail = r.avail \ {phys, t}
                   /\ q.mapped = [r.mapped EXCEPT ![u] = phys]
                   /\ q.tables = r.tables \cup {table(u)}
                \/ /\ table(u) \notin r.tables
                   /\ q.avail = {} /\ q.mapped = r.mapped /\ q.tables = r.tables
  BY Zenon DEF Iteration
<1> HIDE DEF k, u, q, table
<1>v. \A v \in VPage : v >= k + (i + 1) => v >= k + i
  BY <1>1, <1>5
<1>6. CASE q.null
  <2>1. /\ q.avail = r.avail /\ q.mapped = r.mapped /\ q.tables = r.tables /\ r.avail = {}
    BY <1>3, <1>4, <1>6, <1>t
  <2> QED BY <1>4, <1>6, <1>v, <2>1
<1>7. CASE ~q.null
  <2>1. ~r.null
    BY <1>3, <1>7, <1>t
  <2>2. PICK phys \in r.avail :
             \/ /\ table(u) \in r.tables
                /\ q.avail = r.avail \ {phys}
                /\ q.mapped = [r.mapped EXCEPT ![u] = phys] /\ q.tables = r.tables
             \/ /\ \E t \in r.avail : q.avail = r.avail \ {phys, t}
                /\ q.mapped = [r.mapped EXCEPT ![u] = phys]
                /\ q.tables = r.tables \cup {table(u)}
             \/ /\ table(u) \notin r.tables
                /\ q.avail = {} /\ q.mapped = r.mapped /\ q.tables = r.tables
    BY <1>3, <1>7, <1>t, Zenon
  <2>3. phys # 0 /\ phys \in avail /\ r.mapped[u] = 0
    BY <1>1, <1>2, <1>4, <1>u
  \* There was a page, so every earlier page is mapped.
  <2>4. \A v \in k .. (k + i - 1) : r.mapped[v] # 0
    BY <1>4, <2>1
  <2>5. \A v \in k .. (k + (i + 1) - 1) : v = u \/ v \in k .. (k + i - 1)
    BY <1>1, <1>u
  <2>6. CASE q.mapped = r.mapped
    <3>1. table(u) \notin r.tables /\ q.avail = {} /\ q.tables = r.tables
      <4>1. [r.mapped EXCEPT ![u] = phys][u] = phys
        BY <1>1, <1>2
      <4> QED BY <2>2, <2>3, <2>6, <4>1
    <3>3. \A v \in k .. (k + (i + 1) - 1) :
             q.mapped[v] = 0 => v = k + (i + 1) - 1 /\ q.avail = {} /\ table(v) \notin q.tables
      BY <1>1, <1>u, <2>4, <2>5, <2>6, <3>1
    <3> QED BY <1>4, <1>7, <2>6, <1>v, <3>1, <3>3
  <2>7. CASE q.mapped # r.mapped
    <3>1. /\ q.mapped = [r.mapped EXCEPT ![u] = phys]
          /\ q.avail \subseteq r.avail \ {phys}
          /\ r.tables \subseteq q.tables /\ table(u) \in q.tables
      BY <2>2, <2>7
    <3>2. q.mapped[u] = phys /\ \A v \in VPage : v # u => q.mapped[v] = r.mapped[v]
      BY <1>1, <1>2, <3>1
    <3>3. \A v \in VPage : v < k => v # u
      BY <1>1, <1>5, <1>u
    <3>4. \A v \in VPage : v >= k + (i + 1) => v # u /\ v >= k + i
      BY <1>1, <1>5, <1>u
    <3>5. \A v \in VPage : v >= k /\ v # u /\ q.mapped[v] # 0 => q.mapped[v] \in avail \ r.avail
      BY <1>4, <3>2
    <3>6. \A v \in VPage : v >= k /\ q.mapped[v] # 0 => q.mapped[v] \in avail \ q.avail
      BY <2>3, <3>1, <3>2, <3>5
    <3>7. ASSUME NEW v \in VPage, NEW w \in VPage, v >= k, w >= k, q.mapped[v] # 0, q.mapped[v] = q.mapped[w]
          PROVE  v = w
      <4>1. v # u => q.mapped[v] # phys
        BY <3>5, <3>7
      <4>2. w # u => q.mapped[w] # phys
        BY <3>5, <3>7
      <4>3. CASE v = u \/ w = u
        BY <3>2, <3>7, <4>1, <4>2, <4>3
      <4>4. CASE v # u /\ w # u
        BY <1>4, <3>2, <3>7, <4>4
      <4> QED BY <4>3, <4>4
    <3>8. \A v \in VPage : q.mapped[v] # 0 => table(v) \in q.tables
      BY <1>4, <3>1, <3>2
    <3>9. \A v \in k .. (k + (i + 1) - 1) : q.mapped[v] # 0
      <4>1. \A v \in k .. (k + i - 1) : v \in VPage /\ v # u
        BY <1>1, <1>u DEF VPage
      <4> QED BY <2>3, <2>4, <2>5, <3>2, <4>1
    <3>10. \A v \in VPage : v < k => q.mapped[v] = mapped[v]
      BY <1>4, <3>2, <3>3
    <3>11. \A v \in VPage : v >= k + (i + 1) => q.mapped[v] = 0
      BY <1>4, <3>2, <3>4
    <3> QED BY <1>4, <1>7, <3>1, <3>6, <3>7, <3>8, <3>9, <3>10, <3>11
  <2> QED BY <2>6, <2>7
<1> QED BY <1>6, <1>7

\* What the whole loop leaves.
LEMMA LoopDone ==
  ASSUME TypeOK, BelowTop, NEW n \in Nat, kernel_heap_vaddr + n =< VPages
  PROVE  AfterTurns(MapPages(n), n)
<1> DEFINE k == kernel_heap_vaddr
<1>0. k \in Nat /\ VPages \in Nat
  BY SizeFacts DEF TypeOK
<1>1. PICK g : IsLoop(g, n) /\ MapPages(n) = g[n]
  BY LoopOf
<1>2. \A i \in 0..n : g[i] = IF i = 0 THEN FirstTurn ELSE MapOne(g[i - 1], k + i - 1)
  <2> DEFINE e(i) == IF i = 0 THEN FirstTurn ELSE MapOne(g[i - 1], kernel_heap_vaddr + i - 1)
  <2>1. g = [i \in 0..n |-> e(i)]
    BY <1>1 DEF IsLoop
  <2> HIDE DEF e
  <2>2. \A i \in 0..n : g[i] = e(i)
    BY <2>1
  <2> QED BY <2>2 DEF e
<1> DEFINE bad == {i \in 0..n : ~AfterTurns(g[i], i)}
           m == Min(bad)
<1> SUFFICES ASSUME n \in bad PROVE FALSE
  BY <1>1
<1>3. bad \in SUBSET Nat
  OBVIOUS
<1>4. m \in bad /\ \A i \in bad : m =< i
  BY <1>3, MinIsMember
<1>5. m \in 0..n /\ ~AfterTurns(g[m], m) /\ \A i \in 0..n : i < m => AfterTurns(g[i], i)
  BY <1>4
<1> HIDE DEF bad, m
<1>6. CASE m = 0
  BY <1>2, <1>5, <1>6, FirstAfterTurns
<1>7. CASE m # 0
  <2>1. m - 1 \in 0..n /\ m - 1 < m /\ m - 1 \in Nat /\ k + (m - 1) < VPages /\ (m - 1) + 1 = m
        /\ k + m - 1 = k + (m - 1)
    BY <1>0, <1>5, <1>7
  <2>2. AfterTurns(g[m - 1], m - 1)
    BY <1>5, <2>1
  <2>3. AfterTurns(MapOne(g[m - 1], k + (m - 1)), (m - 1) + 1)
    BY <2>1, <2>2, NextAfterTurns
  <2>4. g[m] = MapOne(g[m - 1], k + (m - 1))
    BY <1>2, <1>5, <1>7, <2>1
  <2> QED BY <1>5, <2>1, <2>3, <2>4
<1> QED BY <1>6, <1>7

-----------------------------------------------------------------------------
(***************************************************************************)
(* Blocks and what leaves them alone.                                      *)
(***************************************************************************)

\* A pointer is an object of a slab or a large block.
LEMMA PointerFacts ==
  /\ \A p \in 1..PhysPages, k \in Objects :
       /\ SlabObject(p, k) \in Pointers /\ SlabObject(p, k) # NULL
       /\ SlabObject(p, k).kind = "slab" /\ SlabObject(p, k).page = p /\ SlabObject(p, k).obj = k
  /\ \A v \in VPage :
       /\ PageBlock(v) \in Pointers /\ PageBlock(v) # NULL
       /\ PageBlock(v).kind = "page" /\ PageBlock(v).page = v
  /\ \A ptr \in Pointers :
       \/ /\ ptr.kind = "slab" /\ ptr.page \in 1..PhysPages /\ ptr.obj \in Objects
          /\ ptr = SlabObject(ptr.page, ptr.obj)
       \/ ptr.kind = "page" /\ ptr.page \in VPage /\ ptr = PageBlock(ptr.page)
<1>1. \A p \in 1..PhysPages, k \in Objects :
         /\ SlabObject(p, k) \in Pointers /\ SlabObject(p, k) # NULL
         /\ SlabObject(p, k).kind = "slab" /\ SlabObject(p, k).page = p /\ SlabObject(p, k).obj = k
  BY DEF Pointers, SlabObject, NULL
<1>2. \A v \in VPage :
         /\ PageBlock(v) \in Pointers /\ PageBlock(v) # NULL
         /\ PageBlock(v).kind = "page" /\ PageBlock(v).page = v
  BY DEF Pointers, PageBlock, NULL, VPage
<1>3. ASSUME NEW ptr \in Pointers
      PROVE  \/ /\ ptr.kind = "slab" /\ ptr.page \in 1..PhysPages /\ ptr.obj \in Objects
                /\ ptr = SlabObject(ptr.page, ptr.obj)
             \/ ptr.kind = "page" /\ ptr.page \in VPage /\ ptr = PageBlock(ptr.page)
  <2>1. CASE \E p \in 1..PhysPages, k \in Objects : ptr = SlabObject(p, k)
    BY <1>1, <2>1
  <2>2. CASE \E v \in VPage : ptr = PageBlock(v)
    BY <1>2, <2>2
  <2> QED BY <2>1, <2>2 DEF Pointers, VPage
<1> QED BY <1>1, <1>2, <1>3

SlabSide == SlabsApart /\ FreeLists /\ HeldObjects
PageSide == BelowTop /\ BlocksApart /\ BlocksMapped

\* Where a held block lies.
LEMMA BlockFacts ==
  ASSUME TypeOK, NEW b \in HeldBlocks
  PROVE  /\ b \in Pointers /\ b.kind = "page" /\ b.page \in VPage /\ b.page \in Nat
         /\ held[b] # 0 /\ held[b] \in Nat
         /\ PagesCount(held[b]) \in Nat /\ PagesCount(held[b]) >= 1
<1>1. b \in Pointers /\ b.kind = "page" /\ held[b] # 0
  BY DEF HeldBlocks
<1>2. b.page \in VPage
  BY <1>1, PointerFacts
<1>3. b.page \in Nat
  BY <1>2 DEF VPage
<1>4. held[b] \in Nat
  BY <1>1, HeapSizesAssumption DEF TypeOK
<1> QED BY <1>1, <1>2, <1>3, <1>4, PageFacts

\* A call about small blocks leaves the large ones alone.
LEMMA PageSideKept ==
  ASSUME PageSide, UNCHANGED pageVars,
         \A v \in VPage : held'[PageBlock(v)] = held[PageBlock(v)]
  PROVE  PageSide'
<1>1. \A ptr \in Pointers : ptr.kind = "page" => held'[ptr] = held[ptr]
  BY PointerFacts
<1>2. HeldBlocks' = HeldBlocks /\ \A b \in HeldBlocks : held'[b] = held[b] /\ Block(b)' = Block(b)
  BY <1>1 DEF HeldBlocks, Block
<1>3. mapped' = mapped /\ tables' = tables /\ kernel_heap_vaddr' = kernel_heap_vaddr
  BY DEF pageVars
<1>4. BelowTop'
  BY <1>2, <1>3 DEF PageSide, BelowTop
<1>5. BlocksApart'
  BY <1>2 DEF PageSide, BlocksApart
<1>6. BlocksMapped'
  BY <1>2, <1>3 DEF PageSide, BlocksMapped
<1> QED BY <1>4, <1>5, <1>6 DEF PageSide

\* A cache is a list of pages.
LEMMA CacheFacts ==
  ASSUME TypeOK, NEW i \in Caches
  PROVE  /\ caches[i] \in Seq(1..PhysPages) /\ Len(caches[i]) \in Nat
         /\ \A x \in 1..Len(caches[i]) : caches[i][x] \in 1..PhysPages
<1>1. caches[i] \in Seq(1..PhysPages)
  BY DEF TypeOK
<1>2. ASSUME NEW S, NEW q \in Seq(S)
      PROVE  Len(q) \in Nat /\ \A x \in 1..Len(q) : q[x] \in S
  OBVIOUS
<1> QED BY <1>1, <1>2, Zenon

\* A call about large blocks leaves the slabs alone.
LEMMA SlabSideKept ==
  ASSUME TypeOK, SlabSide, UNCHANGED slabVars,
         \A p \in 1..PhysPages, k \in Objects : held'[SlabObject(p, k)] = held[SlabObject(p, k)]
  PROVE  SlabSide'
<1>1. caches' = caches /\ free_list' = free_list
  BY DEF slabVars
<1>2. SlabsApart'
  BY <1>1 DEF SlabSide, SlabsApart
<1>3. FreeLists'
  <2> SUFFICES ASSUME NEW i \in Caches, NEW x \in 1..Len(caches[i])
               PROVE  /\ IsInjective(free_list[caches[i][x]])
                      /\ ToSet(free_list[caches[i][x]]) = {k \in ObjectsOf(i) : held'[SlabObject(caches[i][x], k)] = 0}
    BY <1>1 DEF FreeLists
  <2>1. caches[i][x] \in 1..PhysPages
    BY CacheFacts
  <2>2. \A k \in ObjectsOf(i) : held'[SlabObject(caches[i][x], k)] = held[SlabObject(caches[i][x], k)]
    BY <2>1, ObjectFacts
  <2> HIDE DEF TypeOK
  <2> QED BY <2>2 DEF SlabSide, FreeLists
<1>4. HeldObjects'
  BY <1>1 DEF SlabSide, HeldObjects
<1> QED BY <1>2, <1>3, <1>4 DEF SlabSide

-----------------------------------------------------------------------------
(***************************************************************************)
(* heap_init.                                                              *)
(***************************************************************************)

\* Cache i is served from page i if there is one.
LEMMA Served ==
  ASSUME Inv, heap_init
  PROVE  /\ caches' = [i \in Caches |-> IF i \in avail THEN <<i>> ELSE <<>>]
         /\ free_list' = [p \in 1..PhysPages |-> IF p \in Caches /\ p \in avail THEN FreshSlab(p) ELSE <<>>]
         /\ avail' = avail \ Caches
<1> DEFINE page(i) == i + Min(avail) - 1
           served == {i \in Caches : avail # {} /\ page(i) \in avail}
<1>1. PICK n \in 0..PhysPages : avail = 1..n
  BY DEF Inv, BeforeInit, heap_init
<1>2. avail # {} => Min(avail) = 1
  <2> SUFFICES ASSUME avail # {} PROVE Min(avail) = 1
    OBVIOUS
  <2>1. avail \in SUBSET Nat /\ 1 \in avail
    BY <1>1
  <2>2. Min(avail) \in avail /\ Min(avail) =< 1
    BY <2>1, MinIsMember
  <2> HIDE DEF Min
  <2> QED BY <1>1, <2>2
<1>3. avail # {} => \A i \in Caches : page(i) = i
  <2>1. \A i \in Caches : i \in Nat
    BY SizeFacts
  <2> HIDE DEF Min
  <2> QED BY <1>2, <2>1
<1>4. served = {i \in Caches : i \in avail}
  BY <1>3
<1>5. caches' = [i \in Caches |-> IF i \in served THEN <<page(i)>> ELSE <<>>]
  BY DEF heap_init
<1>6. free_list' = [p \in 1..PhysPages |-> IF \E i \in served : page(i) = p
                                           THEN FreshSlab(CHOOSE i \in served : page(i) = p) ELSE <<>>]
  BY DEF heap_init
<1>7. avail' = avail \ {page(i) : i \in served}
  BY DEF heap_init
<1>8. \A i \in served : page(i) = i
  BY <1>3, <1>4
<1> HIDE DEF page, served
<1>9. caches' = [i \in Caches |-> IF i \in avail THEN <<i>> ELSE <<>>]
  BY <1>4, <1>5, <1>8
<1>10. avail' = avail \ Caches
  BY <1>4, <1>7, <1>8
<1>11. ASSUME NEW p \in 1..PhysPages
       PROVE  (IF \E i \in served : page(i) = p THEN FreshSlab(CHOOSE i \in served : page(i) = p) ELSE <<>>)
              = (IF p \in Caches /\ p \in avail THEN FreshSlab(p) ELSE <<>>)
  <2>1. CASE p \in served
    <3>1. (CHOOSE i \in served : page(i) = p) = p
      BY <1>8, <2>1
    <3> QED BY <1>4, <1>8, <2>1, <3>1
  <2>2. CASE p \notin served
    BY <1>4, <1>8, <2>2
  <2> QED BY <2>1, <2>2
<1>12. free_list' = [p \in 1..PhysPages |-> IF p \in Caches /\ p \in avail THEN FreshSlab(p) ELSE <<>>]
  BY <1>6, <1>11
<1> QED BY <1>9, <1>10, <1>12

\* heap_init keeps the invariant.
LEMMA InitStep ==
  ASSUME Inv, heap_init
  PROVE  Inv'
<1>0. TypeOK
  BY DEF Inv
<1>1. /\ caches' = [i \in Caches |-> IF i \in avail THEN <<i>> ELSE <<>>]
      /\ free_list' = [p \in 1..PhysPages |-> IF p \in Caches /\ p \in avail THEN FreshSlab(p) ELSE <<>>]
      /\ avail' = avail \ Caches
  BY Served
<1>2. /\ phase = "boot" /\ phase' = "up" /\ held' = held /\ call' = call /\ mapped' = mapped
      /\ kernel_heap_vaddr' = kernel_heap_vaddr /\ tables' = tables
  BY DEF heap_init, pageVars
<1>3. /\ mapped = [v \in VPage |-> 0] /\ held = [ptr \in Pointers |-> 0] /\ call = NoCall
      /\ \E n \in 0..PhysPages : avail = 1..n
  BY <1>2 DEF Inv, BeforeInit
<1>4. avail \in SUBSET (1..PhysPages)
  BY <1>0 DEF TypeOK
<1>5. \A i \in Caches : /\ i \in avail => Len(caches'[i]) = 1 /\ caches'[i][1] = i /\ i \in 1..PhysPages
                        /\ i \notin avail => Len(caches'[i]) = 0
  BY <1>1, <1>4
<1>6. TypeOK'
  <2>1. caches' \in [Caches -> Seq(1..PhysPages)]
    <3>1. \A i \in Caches : (IF i \in avail THEN <<i>> ELSE <<>>) \in Seq(1..PhysPages)
      <4>1. ASSUME NEW S, NEW e \in S
            PROVE  <<e>> \in Seq(S) /\ <<>> \in Seq(S)
        OBVIOUS
      <4>2. <<>> \in Seq(1..PhysPages)
        OBVIOUS
      <4> QED BY <1>4, <4>1, <4>2
    <3> QED BY <1>1, <3>1
  <2>2. free_list' \in [1..PhysPages -> Seq(Objects)]
    <3>1. \A p \in 1..PhysPages : (IF p \in Caches /\ p \in avail THEN FreshSlab(p) ELSE <<>>) \in Seq(Objects)
      BY FreshFacts
    <3> QED BY <1>1, <3>1
  <2>3. avail' \in SUBSET (1..PhysPages)
    BY <1>1, <1>4
  <2>4. phase' \in {"boot", "up", "halted"}
    BY <1>2
  <2> QED BY <1>0, <1>2, <2>1, <2>2, <2>3, <2>4 DEF TypeOK
<1>7. SlabsApart' /\ SlabsTaken'
  <2>1. SlabsApart'
    BY <1>5 DEF SlabsApart
  <2>2. SlabsTaken'
    <3> SUFFICES ASSUME NEW i \in Caches, NEW x \in 1..Len(caches'[i])
                 PROVE  caches'[i][x] \notin avail' /\ \A v \in VPage : mapped'[v] # caches'[i][x]
      BY DEF SlabsTaken
    <3>1. i \in avail /\ x = 1 /\ caches'[i][x] = i
      BY <1>5
    <3>2. i # 0
      BY SizeFacts
    <3> QED BY <1>1, <1>2, <1>3, <3>1, <3>2
  <2> QED BY <2>1, <2>2
<1>8. FramesTaken'
  <2>1. \A v \in VPage : mapped'[v] = 0
    BY <1>2, <1>3
  <2>2. 0 \notin avail'
    BY <1>1, <1>4
  <2> QED BY <2>1, <2>2 DEF FramesTaken
<1>9. FreeLists'
  <2> SUFFICES ASSUME NEW i \in Caches, NEW x \in 1..Len(caches'[i])
               PROVE  /\ IsInjective(free_list'[caches'[i][x]])
                      /\ ToSet(free_list'[caches'[i][x]])
                           = {k \in ObjectsOf(i) : held'[SlabObject(caches'[i][x], k)] = 0}
    BY DEF FreeLists
  <2>1. i \in avail /\ x = 1 /\ caches'[i][x] = i /\ i \in 1..PhysPages
    BY <1>5
  <2>2. free_list'[i] = FreshSlab(i)
    BY <1>1, <2>1
  <2>3. \A k \in ObjectsOf(i) : held'[SlabObject(i, k)] = 0
    BY <1>2, <1>3, <2>1, ObjectFacts, PointerFacts
  <2> QED BY <2>1, <2>2, <2>3, FreshFacts
<1>10. HeldObjects'
  BY <1>2, <1>3, PointerFacts DEF HeldObjects
<1>11. PageSide'
  <2>1. PageSide
    BY DEF Inv, PageSide
  <2> QED BY <1>2, <2>1, PageSideKept DEF pageVars
<1>12. NoneLeft'
  <2> SUFFICES ASSUME NEW i \in Caches, caches'[i] = <<>>
               PROVE  avail' = {} /\ mapped' = [v \in VPage |-> 0]
    BY DEF NoneLeft
  <2>1. i \notin avail
    BY <1>1
  <2>2. PICK n \in 0..PhysPages : avail = 1..n
    BY <1>3
  <2>3. i \in Nat /\ i >= 1 /\ i > n /\ i =< Len(SlabSizes) /\ Len(SlabSizes) \in Nat
    BY <2>1, <2>2, SizeFacts DEF Caches
  <2>4. 1..n \subseteq Caches
    BY <2>3 DEF Caches
  <2> QED BY <1>1, <1>2, <1>3, <2>2, <2>4
<1>13. BeforeInit' /\ NullMeansExhausted'
  BY <1>2, <1>3 DEF BeforeInit, NullMeansExhausted, NoCall
<1> QED BY <1>6, <1>7, <1>8, <1>9, <1>10, <1>11, <1>12, <1>13 DEF Inv, PageSide

-----------------------------------------------------------------------------
(***************************************************************************)
(* kmalloc of a small block.                                               *)
(***************************************************************************)

\* The calls that change nothing but what they report.
LEMMA NothingStep ==
  ASSUME Inv, phase = "up", UNCHANGED <<phase, avail, slabVars, pageVars, held>>, TypeOK', NullMeansExhausted'
  PROVE  Inv'
<1>1. /\ phase' = "up" /\ avail' = avail /\ caches' = caches /\ free_list' = free_list
      /\ mapped' = mapped /\ held' = held /\ pageVars' = pageVars /\ slabVars' = slabVars
  BY DEF slabVars, pageVars
<1>2. PageSide'
  <2>1. PageSide
    BY DEF Inv, PageSide
  <2> QED BY <1>1, <2>1, PageSideKept
<1>3. SlabSide'
  <2>1. SlabSide /\ TypeOK
    BY DEF Inv, SlabSide
  <2> QED BY <1>1, <2>1, SlabSideKept
<1>4. SlabsTaken' /\ FramesTaken'
  BY <1>1 DEF Inv, SlabsTaken, FramesTaken
<1>5. BeforeInit'
  BY <1>1 DEF BeforeInit
<1>6. NoneLeft'
  BY <1>1 DEF Inv, NoneLeft
<1> QED BY <1>2, <1>3, <1>4, <1>5, <1>6 DEF Inv, PageSide, SlabSide

\* So does a refused request.
LEMMA RefusesStep ==
  ASSUME Inv, NEW size \in {0} \cup Sizes, KmallocRefuses(size)
  PROVE  Inv'
<1>1. /\ phase = "up" /\ phase' = phase /\ avail' = avail /\ held' = held
      /\ UNCHANGED slabVars /\ UNCHANGED pageVars
      /\ call' = [size |-> size, ret |-> NULL]
      /\ size = 0 \/ (size =< SLAB_MAX /\ CachesFor(size) = {})
  BY DEF KmallocRefuses, Returns
<1>2. TypeOK'
  <2>1. call' \in [size : {0} \cup Sizes, ret : Pointers \cup {NULL}]
    BY <1>1
  <2>2. caches' = caches /\ free_list' = free_list /\ kernel_heap_vaddr' = kernel_heap_vaddr
        /\ mapped' = mapped /\ tables' = tables
    BY <1>1 DEF slabVars, pageVars
  <2> QED BY <1>1, <2>1, <2>2 DEF Inv, TypeOK
<1>3. NullMeansExhausted'
  <2> SUFFICES ASSUME size # 0
               PROVE  size =< SLAB_MAX /\ size + ALLOC_HEADER > SLAB_MAX
    BY <1>1 DEF NullMeansExhausted
  <2>1. size =< SLAB_MAX /\ CachesFor(size) = {}
    BY <1>1
  <2>2. ~(size + ALLOC_HEADER =< SLAB_MAX)
    BY <2>1, SizeFacts DEF CachesFor, SLAB_MAX
  <2>3. size \in Nat /\ SLAB_MAX \in Nat
    BY SizeFacts, HeapSizesAssumption DEF SLAB_MAX
  <2> QED BY <2>1, <2>2, <2>3, SizeFacts
<1> QED BY <1>1, <1>2, <1>3, NothingStep

\* An object of a slab that is taken off the free list or put back on it.
LEMMA ObjectStep ==
  ASSUME Inv, phase = "up", UNCHANGED <<phase, avail, caches, pageVars>>,
         NEW i \in Caches, NEW x \in 1..Len(caches[i]), NEW k \in ObjectsOf(i),
         NEW size \in {0} \cup Sizes, size # 0 => size + ALLOC_HEADER =< SlabSizes[i],
         NEW q \in Seq(Objects), IsInjective(q),
         size # 0 => ToSet(q) = ToSet(free_list[caches[i][x]]) \ {k},
         size = 0 => ToSet(q) = ToSet(free_list[caches[i][x]]) \cup {k},
         free_list' = [free_list EXCEPT ![caches[i][x]] = q],
         held' = [held EXCEPT ![SlabObject(caches[i][x], k)] = size],
         call' \in [size : {0} \cup Sizes, ret : Pointers \cup {NULL}], NullMeansExhausted'
  PROVE  Inv'
<1> DEFINE p == caches[i][x]
           o == SlabObject(p, k)
<1>0. TypeOK /\ SlabsApart /\ FreeLists /\ HeldObjects
  BY DEF Inv
<1>1. /\ phase' = "up" /\ avail' = avail /\ caches' = caches
      /\ mapped' = mapped /\ tables' = tables /\ kernel_heap_vaddr' = kernel_heap_vaddr
      /\ pageVars' = pageVars
  BY DEF pageVars
<1>2. p \in 1..PhysPages /\ k \in Objects /\ o \in Pointers
  <2>1. p \in 1..PhysPages
    BY <1>0, CacheFacts
  <2>2. k \in Objects
    BY ObjectFacts
  <2> QED BY <2>1, <2>2, PointerFacts
<1>3. /\ held \in [Pointers -> {0} \cup Sizes] /\ free_list \in [1..PhysPages -> Seq(Objects)]
      /\ \A y \in 1..PhysPages, l \in Objects : SlabObject(y, l) = o => y = p /\ l = k
      /\ \A v \in VPage : PageBlock(v) # o
  <2>1. \A y \in 1..PhysPages, l \in Objects : SlabObject(y, l).page = y /\ SlabObject(y, l).obj = l
    BY PointerFacts
  <2>2. \A v \in VPage : PageBlock(v).kind = "page" /\ o.kind = "slab"
    BY <1>2, PointerFacts
  <2>3. o.page = p /\ o.obj = k
    BY <1>2, PointerFacts
  <2> HIDE DEF o
  <2>4. \A y \in 1..PhysPages, l \in Objects : SlabObject(y, l) = o => y = p /\ l = k
    BY <2>1, <2>3
  <2>5. \A v \in VPage : PageBlock(v) # o
    BY <2>2
  <2>6. held \in [Pointers -> {0} \cup Sizes] /\ free_list \in [1..PhysPages -> Seq(Objects)]
    BY <1>0 DEF TypeOK
  <2> QED BY <2>4, <2>5, <2>6
<1>4. /\ held'[o] = size /\ \A ptr \in Pointers : ptr # o => held'[ptr] = held[ptr]
      /\ free_list'[p] = q /\ \A y \in 1..PhysPages : y # p => free_list'[y] = free_list[y]
  BY <1>2, <1>3
<1>5. TypeOK'
  <2>1. held' \in [Pointers -> {0} \cup Sizes]
    BY <1>3
  <2>2. free_list' \in [1..PhysPages -> Seq(Objects)]
    BY <1>3
  <2> QED BY <1>0, <1>1, <2>1, <2>2 DEF TypeOK
<1>6. PageSide'
  <2>1. PageSide
    BY DEF Inv, PageSide
  <2>2. \A v \in VPage : held'[PageBlock(v)] = held[PageBlock(v)]
    BY <1>3, <1>4, PointerFacts
  <2> QED BY <1>1, <2>1, <2>2, PageSideKept
<1>7. SlabsApart'
  BY <1>0, <1>1 DEF SlabsApart
<1>8. FreeLists'
  <2> SUFFICES ASSUME NEW j \in Caches, NEW y \in 1..Len(caches'[j])
               PROVE  /\ IsInjective(free_list'[caches'[j][y]])
                      /\ ToSet(free_list'[caches'[j][y]])
                           = {l \in ObjectsOf(j) : held'[SlabObject(caches'[j][y], l)] = 0}
    BY DEF FreeLists
  <2> DEFINE s == caches[j][y]
  <2>0. y \in 1..Len(caches[j]) /\ caches'[j][y] = s
    BY <1>1
  <2>1. /\ IsInjective(free_list[s])
        /\ ToSet(free_list[s]) = {l \in ObjectsOf(j) : held[SlabObject(s, l)] = 0}
    BY <1>0, <2>0 DEF FreeLists
  <2>2. s \in 1..PhysPages /\ \A l \in ObjectsOf(j) : l \in Objects /\ SlabObject(s, l) \in Pointers
    <3>1. s \in 1..PhysPages
      BY <1>0, <2>0, CacheFacts
    <3> QED BY <3>1, ObjectFacts, PointerFacts
  <2>3. CASE s = p
    <3>1. j = i
      BY <1>0, <2>0, <2>3 DEF SlabsApart
    <3> HIDE DEF s, p, o
    <3>2. \A l \in ObjectsOf(i) : held'[SlabObject(p, l)] = IF l = k THEN size ELSE held[SlabObject(p, l)]
      <4>1. \A l \in ObjectsOf(i) : l # k => SlabObject(p, l) # o /\ SlabObject(p, l) \in Pointers
        BY <1>2, <1>3, <2>2, <2>3, <3>1
      <4> QED BY <1>4, <4>1 DEF o
    <3>3. ToSet(free_list[p]) = {l \in ObjectsOf(i) : held[SlabObject(p, l)] = 0}
      BY <2>1, <2>3, <3>1
    <3>4. ToSet(q) = {l \in ObjectsOf(i) : held'[SlabObject(p, l)] = 0}
      <4>1. CASE size = 0
        <5>1. ToSet(q) = ToSet(free_list[p]) \cup {k}
          BY <4>1 DEF p
        <5> QED BY <3>2, <3>3, <4>1, <5>1
      <4>2. CASE size # 0
        <5>1. ToSet(q) = ToSet(free_list[p]) \ {k}
          BY <4>2 DEF p
        <5> QED BY <3>2, <3>3, <4>2, <5>1
      <4> QED BY <4>1, <4>2
    <3>5. free_list'[s] = q
      BY <1>4, <2>3
    <3>6. /\ IsInjective(free_list'[s])
          /\ ToSet(free_list'[s]) = {l \in ObjectsOf(j) : held'[SlabObject(s, l)] = 0}
      BY <2>3, <3>1, <3>4, <3>5
    <3> QED BY <2>0, <3>6 DEF s
  <2>4. CASE s # p
    <3> HIDE DEF s, p, o
    <3>1. free_list'[s] = free_list[s] /\ \A l \in ObjectsOf(j) : held'[SlabObject(s, l)] = held[SlabObject(s, l)]
      <4>1. \A l \in ObjectsOf(j) : SlabObject(s, l) # o
        BY <1>3, <2>2, <2>4
      <4> QED BY <1>4, <2>2, <2>4, <4>1
    <3>2. /\ IsInjective(free_list'[s])
          /\ ToSet(free_list'[s]) = {l \in ObjectsOf(j) : held'[SlabObject(s, l)] = 0}
      BY <2>1, <3>1
    <3> QED BY <2>0, <3>2 DEF s
  <2> QED BY <2>3, <2>4
<1>9. HeldObjects'
  <2> SUFFICES ASSUME NEW y \in 1..PhysPages, NEW l \in Objects, held'[SlabObject(y, l)] # 0
               PROVE  \E j \in Caches : /\ \E z \in 1..Len(caches[j]) : caches[j][z] = y
                                        /\ l \in ObjectsOf(j)
                                        /\ held'[SlabObject(y, l)] + ALLOC_HEADER =< SlabSizes[j]
    BY <1>1 DEF HeldObjects
  <2>1. CASE SlabObject(y, l) = o
    <3>1. y = p /\ l = k /\ held'[SlabObject(y, l)] = size /\ size # 0
      BY <1>3, <1>4, <2>1
    <3> QED BY <3>1
  <2>2. CASE SlabObject(y, l) # o
    <3>1. held'[SlabObject(y, l)] = held[SlabObject(y, l)]
      BY <1>4, <2>2, PointerFacts
    <3> QED BY <1>0, <3>1 DEF HeldObjects
  <2> QED BY <2>1, <2>2
<1>10. SlabsTaken' /\ FramesTaken'
  BY <1>1 DEF Inv, SlabsTaken, FramesTaken
<1>11. BeforeInit' /\ NoneLeft'
  BY <1>1 DEF Inv, BeforeInit, NoneLeft
<1> QED BY <1>5, <1>6, <1>7, <1>8, <1>9, <1>10, <1>11 DEF Inv, PageSide

\* The cache a request goes to has objects large enough.
LEMMA CacheOf ==
  ASSUME NEW size, CachesFor(size) # {}
  PROVE  Min(CachesFor(size)) \in Caches /\ size + ALLOC_HEADER =< SlabSizes[Min(CachesFor(size))]
<1>1. CachesFor(size) \in SUBSET Nat
  BY SizeFacts DEF CachesFor
<1>2. Min(CachesFor(size)) \in CachesFor(size)
  BY <1>1, MinIsMember
<1> QED BY <1>2 DEF CachesFor

\* So does taking a free object of a slab.
LEMMA SlabStep ==
  ASSUME Inv, NEW size \in {0} \cup Sizes, KmallocSlab(size)
  PROVE  Inv'
<1> DEFINE i == Min(CachesFor(size))
           x == Min(SlabsWithSpace(i))
           p == caches[i][x]
           k == Head(free_list[p])
           q == Tail(free_list[p])
<1>1. /\ phase = "up" /\ size # 0 /\ CachesFor(size) # {} /\ SlabsWithSpace(i) # {}
      /\ Returns(size, SlabObject(p, k))
      /\ free_list' = [free_list EXCEPT ![p] = q]
      /\ UNCHANGED <<phase, avail, caches, pageVars>>
  BY DEF KmallocSlab
<1>2. i \in Caches /\ size + ALLOC_HEADER =< SlabSizes[i]
  BY <1>1, CacheOf
<1> HIDE DEF i
<1>0. TypeOK /\ FreeLists
  BY DEF Inv
<1>3. x \in 1..Len(caches[i]) /\ free_list[p] # <<>>
  <2>1. SlabsWithSpace(i) \in SUBSET Nat
    BY DEF SlabsWithSpace
  <2>2. x \in SlabsWithSpace(i)
    BY <1>1, <2>1, MinIsMember
  <2> QED BY <2>2 DEF SlabsWithSpace
<1> HIDE DEF x
<1>4. p \in 1..PhysPages /\ free_list[p] \in Seq(Objects)
  <2>1. p \in 1..PhysPages
    BY <1>0, <1>2, <1>3, CacheFacts
  <2> QED BY <1>0, <2>1 DEF TypeOK
<1>5. IsInjective(free_list[p]) /\ ToSet(free_list[p]) = {l \in ObjectsOf(i) : held[SlabObject(p, l)] = 0}
  BY <1>0, <1>2, <1>3 DEF FreeLists
<1>6. k \in ToSet(free_list[p]) /\ q \in Seq(Objects) /\ IsInjective(q) /\ ToSet(q) = ToSet(free_list[p]) \ {k}
  BY <1>3, <1>4, <1>5, TakeFirst
<1>7. k \in ObjectsOf(i)
  BY <1>5, <1>6
<1>8. SlabObject(p, k) \in Pointers /\ SlabObject(p, k) # NULL
  BY <1>2, <1>4, <1>7, ObjectFacts, PointerFacts
<1> HIDE DEF k, q
<1>9. call' = [size |-> size, ret |-> SlabObject(p, k)] /\ held' = [held EXCEPT ![SlabObject(p, k)] = size]
  BY <1>1, <1>8 DEF Returns
<1>10. call' \in [size : {0} \cup Sizes, ret : Pointers \cup {NULL}] /\ call'.ret # NULL
  BY <1>8, <1>9
<1>11. NullMeansExhausted'
  BY <1>10 DEF NullMeansExhausted
<1> QED BY <1>1, <1>2, <1>3, <1>6, <1>7, <1>9, <1>10, <1>11, ObjectStep

\* Every slab of the cache is full: a page of pmm.c becomes its last one.
LEMMA LinkedStep ==
  ASSUME Inv, phase = "up", UNCHANGED <<phase, pageVars>>,
         NEW size \in Sizes, size # 0, NEW i \in Caches, size + ALLOC_HEADER =< SlabSizes[i],
         NEW s \in avail, caches[i] # <<>>,
         avail' = avail \ {s},
         caches' = [caches EXCEPT ![i] = Append(@, s)],
         free_list' = [free_list EXCEPT ![s] = Tail(FreshSlab(i))],
         Returns(size, SlabObject(s, Head(FreshSlab(i))))
  PROVE  Inv'
<1> DEFINE n == Len(caches[i])
           q == Tail(FreshSlab(i))
           o == SlabObject(s, 1)
<1>0. TypeOK /\ SlabsApart /\ SlabsTaken /\ FramesTaken /\ FreeLists /\ HeldObjects /\ NoneLeft
  BY DEF Inv
<1>1. /\ phase' = "up" /\ mapped' = mapped /\ tables' = tables /\ kernel_heap_vaddr' = kernel_heap_vaddr
      /\ pageVars' = pageVars
  BY DEF pageVars
<1>2. /\ s \in 1..PhysPages /\ 1 \in Objects /\ 1 \in ObjectsOf(i) /\ o \in Pointers /\ o # NULL
      /\ Head(FreshSlab(i)) = 1
      /\ q \in Seq(Objects) /\ IsInjective(q) /\ ToSet(q) = ObjectsOf(i) \ {1}
  <2>1. s \in 1..PhysPages
    BY <1>0 DEF TypeOK
  <2>2. 1 \in ObjectsOf(i) /\ 1 \in Objects
    BY ObjectFacts
  <2>3. /\ FreshSlab(i) \in Seq(Objects) /\ FreshSlab(i) # <<>> /\ Head(FreshSlab(i)) = 1
        /\ IsInjective(FreshSlab(i)) /\ ToSet(FreshSlab(i)) = ObjectsOf(i)
    BY FreshFacts
  <2>4. q \in Seq(Objects) /\ IsInjective(q) /\ ToSet(q) = ObjectsOf(i) \ {1}
    BY <2>3, TakeFirst
  <2> QED BY <2>1, <2>2, <2>3, <2>4, PointerFacts
<1>3. call' = [size |-> size, ret |-> o] /\ held' = [held EXCEPT ![o] = size]
  BY <1>2 DEF Returns
<1>4. /\ held \in [Pointers -> {0} \cup Sizes] /\ free_list \in [1..PhysPages -> Seq(Objects)]
      /\ caches \in [Caches -> Seq(1..PhysPages)] /\ avail \in SUBSET (1..PhysPages)
  BY <1>0 DEF TypeOK
<1>5. /\ \A y \in 1..PhysPages, l \in Objects : SlabObject(y, l) = o => y = s /\ l = 1
      /\ \A v \in VPage : PageBlock(v) # o
  <2>1. \A y \in 1..PhysPages, l \in Objects : SlabObject(y, l).page = y /\ SlabObject(y, l).obj = l
    BY PointerFacts
  <2>2. \A v \in VPage : PageBlock(v).kind = "page" /\ o.kind = "slab"
    BY <1>2, PointerFacts
  <2>3. o.page = s /\ o.obj = 1
    BY <1>2, PointerFacts
  <2> HIDE DEF o
  <2> QED BY <2>1, <2>2, <2>3
<1> HIDE DEF o, q
\* The page was nobody's slab, so none of its objects is held.
<1>6. \A j \in Caches : \A y \in 1..Len(caches[j]) : caches[j][y] # s /\ caches[j][y] \in 1..PhysPages
  BY <1>0, CacheFacts DEF SlabsTaken
<1>7. \A l \in Objects : held[SlabObject(s, l)] = 0
  BY <1>0, <1>2, <1>6 DEF HeldObjects
<1>8. /\ held'[o] = size /\ \A ptr \in Pointers : ptr # o => held'[ptr] = held[ptr]
      /\ free_list'[s] = q /\ \A y \in 1..PhysPages : y # s => free_list'[y] = free_list[y]
  BY <1>2, <1>3, <1>4 DEF q
<1>9. /\ n \in Nat /\ caches'[i] \in Seq(1..PhysPages) /\ Len(caches'[i]) = n + 1 /\ caches'[i][n + 1] = s
      /\ \A y \in 1..n : caches'[i][y] = caches[i][y]
      /\ \A j \in Caches : j # i => caches'[j] = caches[j]
  <2> DEFINE a == caches[i]
             S == 1..PhysPages
  <2>1. a \in Seq(S) /\ s \in S
    BY <1>2, <1>4
  <2>2. caches'[i] = Append(a, s) /\ \A j \in Caches : j # i => caches'[j] = caches[j]
    BY <1>4
  <2> HIDE DEF a, S
  <2>3. /\ Len(a) \in Nat /\ Append(a, s) \in Seq(S) /\ Len(Append(a, s)) = Len(a) + 1
        /\ Append(a, s)[Len(a) + 1] = s /\ \A y \in 1..Len(a) : Append(a, s)[y] = a[y]
    BY <2>1
  <2>4. n = Len(a)
    BY DEF a
  <2> HIDE DEF n
  <2>5. /\ n \in Nat /\ caches'[i] \in Seq(S) /\ Len(caches'[i]) = n + 1 /\ caches'[i][n + 1] = s
        /\ \A y \in 1..n : caches'[i][y] = a[y]
    BY <2>2, <2>3, <2>4
  <2> QED BY <2>2, <2>5 DEF a, S
<1>10. \A j \in Caches : \A y \in 1..Len(caches'[j]) :
          \/ y \in 1..Len(caches[j]) /\ caches'[j][y] = caches[j][y]
          \/ j = i /\ y = n + 1 /\ caches'[j][y] = s
  <2> SUFFICES ASSUME NEW j \in Caches, NEW y \in 1..Len(caches'[j]) 
               PROVE  \/ y \in 1..Len(caches[j]) /\ caches'[j][y] = caches[j][y]
                      \/ j = i /\ y = n + 1 /\ caches'[j][y] = s
    OBVIOUS
  <2>1. CASE j = i
    <3> HIDE DEF n
    <3>1. y \in 1..n \/ y = n + 1
      BY <1>9, <2>1
    <3> QED BY <1>9, <2>1, <3>1 DEF n
  <2>2. CASE j # i
    BY <1>9, <2>2
  <2> QED BY <2>1, <2>2
<1>11. \A j \in Caches : \A y \in 1..Len(caches[j]) : y \in 1..Len(caches'[j]) /\ caches'[j][y] = caches[j][y]
  <2> SUFFICES ASSUME NEW j \in Caches, NEW y \in 1..Len(caches[j])
               PROVE  y \in 1..Len(caches'[j]) /\ caches'[j][y] = caches[j][y]
    OBVIOUS
  <2>1. CASE j = i
    <3>1. y \in 1..n
      BY <2>1
    <3> HIDE DEF n
    <3> QED BY <1>9, <2>1, <3>1
  <2>2. CASE j # i
    BY <1>9, <2>2
  <2> QED BY <2>1, <2>2
<1>12. n + 1 \in 1..Len(caches'[i])
  <2> HIDE DEF n
  <2> QED BY <1>9
<1>13. TypeOK'
  <2>1. held' \in [Pointers -> {0} \cup Sizes]
    BY <1>3, <1>4
  <2>2. free_list' \in [1..PhysPages -> Seq(Objects)]
    BY <1>2, <1>4 DEF q
  <2>3. caches' \in [Caches -> Seq(1..PhysPages)]
    <3>1. \A j \in Caches : caches'[j] \in Seq(1..PhysPages)
      BY <1>4, <1>9
    <3>2. caches' = [j \in Caches |-> caches'[j]]
      BY <1>4
    <3> QED BY <3>1, <3>2
  <2>4. call' \in [size : {0} \cup Sizes, ret : Pointers \cup {NULL}]
    BY <1>2, <1>3
  <2>5. avail' \in SUBSET (1..PhysPages) /\ phase' \in {"boot", "up", "halted"}
    BY <1>1, <1>4
  <2> QED BY <1>0, <1>1, <2>1, <2>2, <2>3, <2>4, <2>5 DEF TypeOK
<1>14. PageSide'
  <2>1. PageSide
    BY DEF Inv, PageSide
  <2>2. \A v \in VPage : held'[PageBlock(v)] = held[PageBlock(v)]
    BY <1>5, <1>8, PointerFacts
  <2> QED BY <1>1, <2>1, <2>2, PageSideKept
<1>15. SlabsApart'
  <2> SUFFICES ASSUME NEW j \in Caches, NEW l \in Caches, NEW y \in 1..Len(caches'[j]), NEW z \in 1..Len(caches'[l]),
                      caches'[j][y] = caches'[l][z]
               PROVE  j = l /\ y = z
    BY DEF SlabsApart
  <2> HIDE DEF n
  <2>1. \/ y \in 1..Len(caches[j]) /\ caches'[j][y] = caches[j][y]
        \/ j = i /\ y = n + 1 /\ caches'[j][y] = s
    BY <1>10
  <2>2. \/ z \in 1..Len(caches[l]) /\ caches'[l][z] = caches[l][z]
        \/ l = i /\ z = n + 1 /\ caches'[l][z] = s
    BY <1>10
  <2> QED BY <1>0, <1>6, <2>1, <2>2 DEF SlabsApart
<1>16. SlabsTaken'
  <2> SUFFICES ASSUME NEW j \in Caches, NEW y \in 1..Len(caches'[j])
               PROVE  caches'[j][y] \notin avail' /\ \A v \in VPage : mapped[v] # caches'[j][y]
    BY <1>1 DEF SlabsTaken
  <2>1. \A v \in VPage : mapped[v] # s
    BY <1>0 DEF FramesTaken
  <2>2. caches'[j][y] = s \/ (y \in 1..Len(caches[j]) /\ caches'[j][y] = caches[j][y])
    BY <1>10
  <2> QED BY <1>0, <2>1, <2>2 DEF SlabsTaken
<1>17. FramesTaken'
  BY <1>0, <1>1 DEF FramesTaken
<1>18. FreeLists'
  <2> SUFFICES ASSUME NEW j \in Caches, NEW y \in 1..Len(caches'[j])
               PROVE  /\ IsInjective(free_list'[caches'[j][y]])
                      /\ ToSet(free_list'[caches'[j][y]])
                           = {l \in ObjectsOf(j) : held'[SlabObject(caches'[j][y], l)] = 0}
    BY DEF FreeLists
  <2> DEFINE t == caches'[j][y]
  <2>1. CASE t = s
    <3>1. j = i
      BY <1>6, <1>10, <2>1
    <3>2. \A l \in ObjectsOf(i) : held'[SlabObject(s, l)] = IF l = 1 THEN size ELSE 0
      <4>1. \A l \in ObjectsOf(i) : l \in Objects /\ SlabObject(s, l) \in Pointers
        BY <1>2, ObjectFacts, PointerFacts
      <4>2. SlabObject(s, 1) = o
        BY DEF o
      <4> QED BY <1>2, <1>5, <1>7, <1>8, <4>1, <4>2
    <3>3. ToSet(q) = {l \in ObjectsOf(i) : held'[SlabObject(s, l)] = 0}
      BY <1>2, <3>2
    <3> HIDE DEF t
    <3>4. /\ IsInjective(free_list'[t])
          /\ ToSet(free_list'[t]) = {l \in ObjectsOf(j) : held'[SlabObject(t, l)] = 0}
      BY <1>2, <1>8, <2>1, <3>1, <3>3
    <3> QED BY <3>4 DEF t
  <2>2. CASE t # s
    <3>1. y \in 1..Len(caches[j]) /\ t = caches[j][y] /\ t \in 1..PhysPages
      BY <1>6, <1>10, <2>2
    <3>2. /\ IsInjective(free_list[t])
          /\ ToSet(free_list[t]) = {l \in ObjectsOf(j) : held[SlabObject(t, l)] = 0}
      BY <1>0, <3>1 DEF FreeLists
    <3> HIDE DEF t
    <3>3. free_list'[t] = free_list[t] /\ \A l \in ObjectsOf(j) : held'[SlabObject(t, l)] = held[SlabObject(t, l)]
      <4>1. \A l \in ObjectsOf(j) : SlabObject(t, l) # o /\ SlabObject(t, l) \in Pointers
        BY <1>5, <2>2, <3>1, ObjectFacts, PointerFacts
      <4> QED BY <1>8, <2>2, <3>1, <4>1
    <3>4. /\ IsInjective(free_list'[t])
          /\ ToSet(free_list'[t]) = {l \in ObjectsOf(j) : held'[SlabObject(t, l)] = 0}
      BY <3>2, <3>3
    <3> QED BY <3>4 DEF t
  <2> QED BY <2>1, <2>2
<1>19. HeldObjects'
  <2> SUFFICES ASSUME NEW y \in 1..PhysPages, NEW l \in Objects, held'[SlabObject(y, l)] # 0
               PROVE  \E j \in Caches : /\ \E z \in 1..Len(caches'[j]) : caches'[j][z] = y
                                        /\ l \in ObjectsOf(j)
                                        /\ held'[SlabObject(y, l)] + ALLOC_HEADER =< SlabSizes[j]
    BY DEF HeldObjects
  <2> HIDE DEF n
  <2>1. CASE SlabObject(y, l) = o
    <3>1. y = s /\ l = 1 /\ held'[SlabObject(y, l)] = size
      BY <1>5, <1>8, <2>1
    <3> QED BY <1>2, <1>9, <1>12, <3>1
  <2>2. CASE SlabObject(y, l) # o
    <3>1. held'[SlabObject(y, l)] = held[SlabObject(y, l)]
      BY <1>8, <2>2, PointerFacts
    <3>2. PICK j \in Caches : /\ \E z \in 1..Len(caches[j]) : caches[j][z] = y
                              /\ l \in ObjectsOf(j)
                              /\ held[SlabObject(y, l)] + ALLOC_HEADER =< SlabSizes[j]
      BY <1>0, <3>1 DEF HeldObjects
    <3>3. \E z \in 1..Len(caches'[j]) : caches'[j][z] = y
      BY <1>11, <3>2
    <3> QED BY <3>1, <3>2, <3>3
  <2> QED BY <2>1, <2>2
<1>20. NoneLeft'
  <2>1. \A j \in Caches : caches[j] # <<>>
    BY <1>0 DEF NoneLeft
  <2>2. ASSUME NEW j \in Caches, caches'[j] = <<>>
        PROVE  FALSE
    <3>1. CASE j = i
      <4> HIDE DEF n
      <4> QED BY <1>9, <2>2, <3>1
    <3>2. CASE j # i
      BY <1>9, <2>1, <2>2, <3>2
    <3> QED BY <3>1, <3>2
  <2> QED BY <2>2 DEF NoneLeft
<1>21. BeforeInit' /\ NullMeansExhausted'
  BY <1>1, <1>2, <1>3 DEF BeforeInit, NullMeansExhausted
<1> QED BY <1>13, <1>14, <1>15, <1>16, <1>17, <1>18, <1>19, <1>20, <1>21 DEF Inv, PageSide

\* So does a request that finds every slab of its cache full.
LEMMA NewSlabStep ==
  ASSUME Inv, NEW size \in {0} \cup Sizes, KmallocNewSlab(size)
  PROVE  Inv'
<1> DEFINE i == Min(CachesFor(size))
           s == Min(avail)
<1>1. /\ phase = "up" /\ size # 0 /\ CachesFor(size) # {} /\ UNCHANGED <<phase, pageVars>>
      /\ \/ /\ caches[i] # <<>> /\ avail # {}
            /\ avail' = avail \ {s}
            /\ caches' = [caches EXCEPT ![i] = Append(@, s)]
            /\ free_list' = [free_list EXCEPT ![s] = Tail(FreshSlab(i))]
            /\ Returns(size, SlabObject(s, Head(FreshSlab(i))))
         \/ /\ caches[i] = <<>> \/ avail = {}
            /\ Returns(size, NULL)
            /\ UNCHANGED <<avail, slabVars>>
  BY DEF KmallocNewSlab
<1>2. i \in Caches /\ size + ALLOC_HEADER =< SlabSizes[i]
  BY <1>1, CacheOf
<1>0. TypeOK /\ NoneLeft
  BY DEF Inv
<1> HIDE DEF i
<1>3. CASE /\ caches[i] # <<>> /\ avail # {}
           /\ avail' = avail \ {s}
           /\ caches' = [caches EXCEPT ![i] = Append(@, s)]
           /\ free_list' = [free_list EXCEPT ![s] = Tail(FreshSlab(i))]
           /\ Returns(size, SlabObject(s, Head(FreshSlab(i))))
  <2>1. s \in avail
    <3>1. avail \in SUBSET Nat
      BY <1>0 DEF TypeOK
    <3> QED BY <1>3, <3>1, MinIsMember
  <2> HIDE DEF s
  <2> QED BY <1>1, <1>2, <1>3, <2>1, LinkedStep
<1>4. CASE /\ caches[i] = <<>> \/ avail = {}
           /\ Returns(size, NULL)
           /\ UNCHANGED <<avail, slabVars>>
  <2>1. avail = {}
    BY <1>0, <1>1, <1>2, <1>4 DEF NoneLeft
  <2>2. call' = [size |-> size, ret |-> NULL] /\ held' = held /\ avail' = avail /\ UNCHANGED slabVars
    BY <1>4 DEF Returns
  <2>3. TypeOK'
    <3>1. call' \in [size : {0} \cup Sizes, ret : Pointers \cup {NULL}]
      BY <2>2
    <3>2. caches' = caches /\ free_list' = free_list /\ kernel_heap_vaddr' = kernel_heap_vaddr
          /\ mapped' = mapped /\ tables' = tables /\ phase' = phase
      BY <1>1, <2>2 DEF slabVars, pageVars
    <3> QED BY <1>0, <2>2, <3>1, <3>2 DEF TypeOK
  <2>4. NullMeansExhausted'
    BY <2>1, <2>2 DEF NullMeansExhausted
  <2> QED BY <1>1, <2>2, <2>3, <2>4, NothingStep
<1> QED BY <1>1, <1>3, <1>4

-----------------------------------------------------------------------------
(***************************************************************************)
(* kmalloc of a large block.                                               *)
(***************************************************************************)

\* The pages the loop took are used once.
LEMMA LoopShares ==
  ASSUME Inv, NEW n \in Nat, NEW r, AfterTurns(r, n), avail' = r.avail, mapped' = r.mapped,
         UNCHANGED slabVars, phase # "boot"
  PROVE  SlabsTaken' /\ FramesTaken' /\ NoneLeft'
<1> DEFINE k == kernel_heap_vaddr
<1>0. TypeOK /\ SlabsTaken /\ FramesTaken /\ NoneLeft
  BY DEF Inv
<1>1. /\ avail' \subseteq avail
      /\ \A v \in VPage : v < k => mapped'[v] = mapped[v]
      /\ \A v \in VPage : v >= k /\ mapped'[v] # 0 => mapped'[v] \in avail \ avail'
      /\ \A v, w \in VPage : v >= k /\ w >= k /\ mapped'[v] # 0 /\ mapped'[v] = mapped'[w] => v = w
      /\ mapped' \in [VPage -> 0..PhysPages]
  BY DEF AfterTurns, Turns
<1>2. caches' = caches
  BY DEF slabVars
<1>3. k \in Nat /\ 0 \notin avail /\ \A v \in VPage : v \in Nat /\ (v < k \/ v >= k)
  BY <1>0, SizeFacts DEF TypeOK, VPage
<1> HIDE DEF k
<1>4. SlabsTaken'
  <2> SUFFICES ASSUME NEW i \in Caches, NEW x \in 1..Len(caches[i])
               PROVE  caches[i][x] \notin avail' /\ \A v \in VPage : mapped'[v] # caches[i][x]
    BY <1>2 DEF SlabsTaken
  <2>1. caches[i][x] # 0
    <3>1. caches[i][x] \in 1..PhysPages
      BY <1>0, CacheFacts
    <3> QED BY <3>1
  <2>2. caches[i][x] \notin avail /\ \A v \in VPage : mapped[v] # caches[i][x]
    BY <1>0 DEF SlabsTaken
  <2> QED BY <1>1, <1>3, <2>1, <2>2
<1>5. \A v \in VPage : mapped'[v] \notin avail'
  BY <1>0, <1>1, <1>3 DEF FramesTaken
<1>6. ASSUME NEW v \in VPage, NEW w \in VPage, mapped'[v] = mapped'[w], mapped'[v] # 0
      PROVE  v = w
  <2>1. CASE v < k /\ w < k
    BY <1>0, <1>1, <1>6, <2>1 DEF FramesTaken
  <2>2. CASE v >= k /\ w >= k
    BY <1>1, <1>6, <2>2
  <2>3. CASE v < k /\ w >= k
    BY <1>0, <1>1, <1>6, <2>3 DEF FramesTaken
  <2>4. CASE v >= k /\ w < k
    BY <1>0, <1>1, <1>6, <2>4 DEF FramesTaken
  <2> QED BY <1>3, <2>1, <2>2, <2>3, <2>4
<1>7. NoneLeft'
  <2> SUFFICES ASSUME \E i \in Caches : caches[i] = <<>>
               PROVE  avail' = {} /\ mapped' = [v \in VPage |-> 0]
    BY <1>2 DEF NoneLeft
  <2>1. avail = {} /\ \A v \in VPage : mapped[v] = 0
    BY <1>0 DEF NoneLeft
  <2>2. \A v \in VPage : mapped'[v] = 0
    BY <1>1, <1>3, <2>1
  <2> QED BY <1>1, <2>1, <2>2
<1> QED BY <1>4, <1>5, <1>6, <1>7 DEF FramesTaken

\* The new block lies above the others, and they are as they were.
LEMMA LoopBlocks ==
  ASSUME Inv, NEW size \in Sizes, NEW r, AfterTurns(r, PagesCount(size)),
         kernel_heap_vaddr + PagesCount(size) =< VPages,
         kernel_heap_vaddr' = kernel_heap_vaddr + PagesCount(size),
         mapped' = r.mapped, tables' = r.tables,
         \/ held' = held
         \/ /\ ~r.null /\ r.mapped[kernel_heap_vaddr] # 0
            /\ held' = [held EXCEPT ![PageBlock(kernel_heap_vaddr)] = size]
  PROVE  PageSide'
<1> DEFINE k == kernel_heap_vaddr
           n == PagesCount(size)
           new == PageBlock(k)
<1>0. TypeOK /\ BelowTop /\ BlocksApart /\ BlocksMapped
  BY DEF Inv
<1>1. k \in Nat /\ n \in Nat /\ n >= 1 /\ k \in VPage
  <2>1. size \in Nat
    BY HeapSizesAssumption
  <2>2. n \in Nat /\ n >= 1
    BY <2>1, PageFacts
  <2> HIDE DEF n
  <2>3. k + n =< VPages
    BY DEF n
  <2> QED BY <1>0, <2>2, <2>3, SizeFacts DEF TypeOK, VPage
<1>2. /\ \A v \in VPage : v < k => mapped'[v] = mapped[v]
      /\ \A v \in VPage : v >= k + n => mapped'[v] = 0
      /\ \A v \in VPage : mapped'[v] # 0 => v \div PT_SPAN \in tables'
      /\ ~r.null => \A v \in k .. (k + n - 1) :
                      mapped'[v] = 0 => v = k + n - 1 /\ v \div PT_SPAN \notin tables'
  BY DEF AfterTurns
<1>3. new \in Pointers /\ new.kind = "page" /\ new.page = k
  BY <1>1, PointerFacts
<1>4. \A b \in HeldBlocks : /\ b \in Pointers /\ b.page \in Nat /\ PagesCount(held[b]) \in Nat
                            /\ PagesCount(held[b]) >= 1 /\ b.page + PagesCount(held[b]) =< k
  BY <1>0, BlockFacts DEF BelowTop
<1>5. \A b \in HeldBlocks : b # new
  <2> SUFFICES ASSUME NEW b \in HeldBlocks, b = new PROVE FALSE
    OBVIOUS
  <2>1. b.page = k
    BY <1>3
  <2> DEFINE c == PagesCount(held[b])
  <2>2. c \in Nat /\ c >= 1 /\ k + c =< k
    BY <1>4, <2>1
  <2> HIDE DEF c, k
  <2> QED BY <1>1, <2>2
\* The blocks after the call: those before it, and the new one.
<1>6. ASSUME NEW b \in HeldBlocks'
      PROVE  \/ b \in HeldBlocks /\ held'[b] = held[b]
             \/ b = new /\ held'[b] = size /\ ~r.null /\ mapped'[k] # 0
  <2>1. b \in Pointers /\ held'[b] # 0 /\ b.kind = "page"
    BY DEF HeldBlocks
  <2>2. CASE held' = held
    BY <2>1, <2>2 DEF HeldBlocks
  <2>3. CASE ~r.null /\ r.mapped[k] # 0 /\ held' = [held EXCEPT ![new] = size]
    <3>1. held \in [Pointers -> {0} \cup Sizes]
      BY <1>0 DEF TypeOK
    <3>2. held'[b] = IF b = new THEN size ELSE held[b]
      BY <1>3, <2>1, <2>3, <3>1
    <3> QED BY <2>1, <2>3, <3>2 DEF HeldBlocks
  <2> QED BY <2>2, <2>3
<1>7. ASSUME NEW b \in HeldBlocks', b \in HeldBlocks, held'[b] = held[b]
      PROVE  Block(b)' = Block(b) /\ \A v \in Block(b) : v \in VPage /\ v < k
  <2> DEFINE c == PagesCount(held[b])
             g == b.page
  <2>1. Block(b)' = Block(b) /\ Block(b) = g .. (g + c - 1)
    BY <1>7 DEF Block
  <2>2. g \in Nat /\ c \in Nat /\ g + c =< k
    BY <1>4, <1>7
  <2> HIDE DEF c, g, k
  <2>3. \A v \in g .. (g + c - 1) : v \in VPage /\ v < k
    BY <1>1, <2>2, SizeFacts DEF VPage
  <2> QED BY <2>1, <2>3
<1>9. BelowTop'
  <2>1. ASSUME NEW v \in VPage, mapped'[v] # 0
        PROVE  v < kernel_heap_vaddr' /\ v \div PT_SPAN \in tables'
    <3>1. v \in Nat /\ ~(v >= k + n) /\ v \div PT_SPAN \in tables'
      BY <1>2, <2>1 DEF VPage
    <3>2. kernel_heap_vaddr' = k + n
      OBVIOUS
    <3> HIDE DEF k, n
    <3> QED BY <1>1, <3>1, <3>2
  <2>2. ASSUME NEW b \in HeldBlocks'
        PROVE  b.page + PagesCount(held'[b]) =< kernel_heap_vaddr'
    <3>0. kernel_heap_vaddr' = k + n
      OBVIOUS
    <3>1. CASE b \in HeldBlocks /\ held'[b] = held[b]
      <4> DEFINE c == PagesCount(held[b])
                 g == b.page
      <4>1. g \in Nat /\ c \in Nat /\ g + c =< k
        BY <1>4, <3>1
      <4> HIDE DEF c, g, k, n
      <4>2. g + c =< kernel_heap_vaddr'
        BY <1>1, <3>0, <4>1
      <4> QED BY <3>1, <4>2 DEF c, g
    <3>2. CASE b = new /\ held'[b] = size
      <4>1. b.page = k /\ PagesCount(held'[b]) = n
        BY <1>3, <3>2
      <4> HIDE DEF k, n
      <4> QED BY <1>1, <3>0, <4>1
    <3> QED BY <1>6, <3>1, <3>2
  <2> QED BY <2>1, <2>2 DEF BelowTop
<1>10. ASSUME NEW b \in HeldBlocks', b = new, held'[b] = size
       PROVE  Block(b)' = k .. (k + n - 1)
  <2>1. Block(b)' = b.page .. (b.page + PagesCount(held'[b]) - 1)
    BY DEF Block
  <2>2. b.page = k /\ PagesCount(held'[b]) = n
    BY <1>3, <1>10
  <2> HIDE DEF k, n
  <2> QED BY <2>1, <2>2
<1>11. BlocksApart'
  <2> SUFFICES ASSUME NEW b \in HeldBlocks', NEW d \in HeldBlocks', b # d
               PROVE  Block(b)' \cap Block(d)' = {}
    BY DEF BlocksApart
  <2> DEFINE old(z) == z \in HeldBlocks /\ held'[z] = held[z]
             made(z) == z = new /\ held'[z] = size
  <2>0. (old(b) \/ made(b)) /\ (old(d) \/ made(d))
    BY <1>6
  <2>1. CASE old(b) /\ old(d)
    BY <1>0, <1>7, <2>1 DEF BlocksApart
  <2>2. \A v \in k .. (k + n - 1) : v \in Nat /\ ~(v < k)
    <3> HIDE DEF k, n
    <3> QED BY <1>1
  <2>3. CASE old(b) /\ made(d)
    <3>1. Block(d)' = k .. (k + n - 1) /\ \A v \in Block(b)' : v < k
      BY <1>7, <1>10, <2>3
    <3> HIDE DEF k, n
    <3> QED BY <2>2, <3>1
  <2>4. CASE made(b) /\ old(d)
    <3>1. Block(b)' = k .. (k + n - 1) /\ \A v \in Block(d)' : v < k
      BY <1>7, <1>10, <2>4
    <3> HIDE DEF k, n
    <3> QED BY <2>2, <3>1
  <2>5. ~(made(b) /\ made(d))
    OBVIOUS
  <2> HIDE DEF old, made
  <2> QED BY <2>0, <2>1, <2>3, <2>4, <2>5
<1>12. BlocksMapped'
  <2> SUFFICES ASSUME NEW b \in HeldBlocks', NEW v \in Block(b)', mapped'[v] = 0
               PROVE  v > b.page /\ v = b.page + PagesCount(held'[b]) - 1 /\ (v % PT_SPAN) = 0
    BY DEF BlocksMapped
  <2>1. CASE b \in HeldBlocks /\ held'[b] = held[b]
    <3>1. v \in Block(b) /\ v \in VPage /\ v < k
      BY <1>7, <2>1
    <3>2. mapped[v] = 0
      BY <1>2, <3>1
    <3> QED BY <1>0, <2>1, <3>1, <3>2 DEF BlocksMapped
  <2>2. CASE b = new /\ held'[b] = size /\ ~r.null /\ mapped'[k] # 0
    <3>1. v \in k .. (k + n - 1)
      BY <1>10, <2>2
    <3>2. v = k + n - 1 /\ v \div PT_SPAN \notin tables' /\ v # k
      BY <1>2, <2>2, <3>1
    <3>n. k + n =< VPages
      OBVIOUS
    <3>3. /\ v \in Nat /\ v > k /\ v >= 1 /\ v - 1 \in VPage /\ v - 1 \in k .. (k + n - 1)
          /\ v - 1 # k + n - 1
      <4> HIDE DEF k, n
      <4> QED BY <1>1, <3>1, <3>2, <3>n, SizeFacts DEF VPage
    <3>4. mapped'[v - 1] # 0
      BY <1>2, <2>2, <3>3
    <3>5. (v - 1) \div PT_SPAN \in tables'
      BY <1>2, <3>3, <3>4
    <3>6. (v % PT_SPAN) = 0
      BY <3>2, <3>3, <3>5, SameTable
    <3>7. b.page = k /\ PagesCount(held'[b]) = n
      BY <1>3, <2>2
    <3> HIDE DEF k, n
    <3> QED BY <3>2, <3>3, <3>6, <3>7
  <2> QED BY <1>6, <2>1, <2>2
<1> QED BY <1>9, <1>11, <1>12 DEF PageSide

\* So does a large request, whether it succeeds, gives up or faults.
LEMMA PagesStep ==
  ASSUME Inv, NEW size \in {0} \cup Sizes, KmallocPages(size)
  PROVE  Inv'
<1> DEFINE k == kernel_heap_vaddr
           n == PagesCount(size)
           r == MapPages(n)
           new == PageBlock(k)
<1>0. TypeOK /\ BelowTop /\ SlabSide
  BY DEF Inv, SlabSide
<1>1. /\ phase = "up" /\ size > SLAB_MAX /\ k + n =< VPages /\ kernel_heap_vaddr' = k + n
      /\ avail' = r.avail /\ mapped' = r.mapped /\ tables' = r.tables
      /\ UNCHANGED slabVars
  BY DEF KmallocPages
<1>2. \/ r.null /\ Returns(size, NULL) /\ UNCHANGED phase
      \/ ~r.null /\ r.mapped[k] # 0 /\ Returns(size, new) /\ UNCHANGED phase
      \/ ~r.null /\ phase' = "halted" /\ UNCHANGED <<held, call>>
  BY Zenon DEF KmallocPages
<1>3. size \in Nat /\ size # 0 /\ size \in Sizes /\ n \in Nat /\ n >= 1
  <2>1. SLAB_MAX \in Nat /\ SLAB_MAX > 0 /\ size \in Nat
    BY SizeFacts, HeapSizesAssumption DEF SLAB_MAX
  <2>2. size # 0
    BY <1>1, <2>1
  <2> QED BY <2>1, <2>2, PageFacts
<1>4. k \in Nat /\ k \in VPage /\ k + n \in 0..VPages
  <2> HIDE DEF n
  <2> QED BY <1>0, <1>1, <1>3, SizeFacts DEF TypeOK, VPage
<1>5. AfterTurns(r, n)
  BY <1>0, <1>1, <1>3, LoopDone
<1>6. new \in Pointers /\ new # NULL /\ \A p \in 1..PhysPages, l \in Objects : SlabObject(p, l) # new
  <2>1. new \in Pointers /\ new # NULL /\ new.kind = "page"
    BY <1>4, PointerFacts
  <2>2. \A p \in 1..PhysPages, l \in Objects : SlabObject(p, l).kind = "slab"
    BY PointerFacts
  <2> QED BY <2>1, <2>2
<1> HIDE DEF r, new, n, k
<1>7. /\ r.avail \in SUBSET (1..PhysPages) /\ r.mapped \in [VPage -> 0..PhysPages]
      /\ r.tables \in SUBSET (0..VPages) /\ (r.null => r.avail = {})
  BY <1>5 DEF AfterTurns, Turns
<1>8. /\ held' = held \/ (~r.null /\ r.mapped[k] # 0 /\ held' = [held EXCEPT ![new] = size])
      /\ call' \in [size : {0} \cup Sizes, ret : Pointers \cup {NULL}]
      /\ phase' \in {"up", "halted"}
      /\ phase' = "up" /\ call'.ret = NULL => r.null
  <2>1. CASE r.null /\ Returns(size, NULL) /\ UNCHANGED phase
    <3>1. held' = held /\ call' = [size |-> size, ret |-> NULL] /\ phase' = "up"
      BY <1>1, <2>1 DEF Returns
    <3> QED BY <2>1, <3>1
  <2>2. CASE ~r.null /\ r.mapped[k] # 0 /\ Returns(size, new) /\ UNCHANGED phase
    <3>1. held' = [held EXCEPT ![new] = size] /\ call' = [size |-> size, ret |-> new] /\ phase' = "up"
      BY <1>1, <1>6, <2>2 DEF Returns
    <3> QED BY <1>6, <2>2, <3>1
  <2>3. CASE ~r.null /\ phase' = "halted" /\ UNCHANGED <<held, call>>
    BY <1>0, <2>3 DEF TypeOK
  <2> QED BY <1>2, <2>1, <2>2, <2>3
<1>9. held \in [Pointers -> {0} \cup Sizes]
  BY <1>0 DEF TypeOK
<1>10. TypeOK'
  <2>1. held' \in [Pointers -> {0} \cup Sizes]
    BY <1>8, <1>9
  <2>2. mapped' \in [0 .. (VPages - 1) -> 0..PhysPages]
    BY <1>1, <1>7 DEF VPage
  <2>3. caches' = caches /\ free_list' = free_list
    BY <1>1 DEF slabVars
  <2>4. phase' \in {"boot", "up", "halted"}
    BY <1>8
  <2> QED BY <1>0, <1>1, <1>4, <1>7, <1>8, <2>1, <2>2, <2>3, <2>4 DEF TypeOK
<1>11. SlabSide'
  <2>1. \A p \in 1..PhysPages, l \in Objects : held'[SlabObject(p, l)] = held[SlabObject(p, l)]
    BY <1>6, <1>8, <1>9, PointerFacts
  <2> QED BY <1>0, <1>1, <2>1, SlabSideKept
<1>12. SlabsTaken' /\ FramesTaken' /\ NoneLeft'
  <2>1. phase # "boot"
    BY <1>1
  <2> QED BY <1>1, <1>3, <1>5, <2>1, LoopShares
<1>13. PageSide'
  BY <1>1, <1>3, <1>5, <1>8, LoopBlocks DEF k, n, new
<1>14. BeforeInit' /\ NullMeansExhausted'
  <2>1. phase' # "boot"
    BY <1>8
  <2>2. phase' = "up" /\ call'.ret = NULL => avail' = {}
    BY <1>1, <1>7, <1>8
  <2> QED BY <2>1, <2>2 DEF BeforeInit, NullMeansExhausted
<1> QED BY <1>10, <1>11, <1>12, <1>13, <1>14 DEF Inv, PageSide, SlabSide

-----------------------------------------------------------------------------
(***************************************************************************)
(* kfree.                                                                  *)
(***************************************************************************)

\* So does freeing an object.
LEMMA FreeSlabStep ==
  ASSUME Inv, NEW ptr \in Pointers, KfreeSlab(ptr)
  PROVE  Inv'
<1> DEFINE p == ptr.page
           k == ptr.obj
           q == <<k>> \o free_list[p]
<1>0. TypeOK /\ FreeLists /\ HeldObjects
  BY DEF Inv
<1>1. /\ phase = "up" /\ held[ptr] # 0 /\ ptr.kind = "slab"
      /\ free_list' = [free_list EXCEPT ![p] = q]
      /\ held' = [held EXCEPT ![ptr] = 0] /\ call' = NoCall
      /\ UNCHANGED <<phase, avail, caches, pageVars>>
  BY DEF KfreeSlab, Released
<1>2. p \in 1..PhysPages /\ k \in Objects /\ ptr = SlabObject(p, k)
  BY <1>1, PointerFacts
<1> HIDE DEF p, k
<1>3. held[SlabObject(p, k)] # 0
  BY <1>1, <1>2
<1>4. PICK i \in Caches : (\E x \in 1..Len(caches[i]) : caches[i][x] = p) /\ k \in ObjectsOf(i)
  BY <1>0, <1>2, <1>3 DEF HeldObjects
<1>5. PICK x \in 1..Len(caches[i]) : caches[i][x] = p
  BY <1>4
<1>6. IsInjective(free_list[p]) /\ ToSet(free_list[p]) = {l \in ObjectsOf(i) : held[SlabObject(p, l)] = 0}
  BY <1>0, <1>5 DEF FreeLists
<1>7. free_list[p] \in Seq(Objects) /\ k \notin ToSet(free_list[p])
  BY <1>0, <1>2, <1>3, <1>6 DEF TypeOK
<1>8. q \in Seq(Objects) /\ IsInjective(q) /\ ToSet(q) = ToSet(free_list[p]) \cup {k}
  BY <1>2, <1>6, <1>7, PushFront
<1> HIDE DEF q
<1>9. call' \in [size : {0} \cup Sizes, ret : Pointers \cup {NULL}] /\ NullMeansExhausted'
  BY <1>1 DEF NoCall, NullMeansExhausted
<1>10. /\ k \in ObjectsOf(i)
       /\ ToSet(q) = ToSet(free_list[caches[i][x]]) \cup {k}
       /\ free_list' = [free_list EXCEPT ![caches[i][x]] = q]
       /\ held' = [held EXCEPT ![SlabObject(caches[i][x], k)] = 0]
  BY <1>1, <1>2, <1>4, <1>5, <1>8
<1>11. 0 \in {0} \cup Sizes /\ q \in Seq(Objects) /\ IsInjective(q)
  BY <1>8
<1>12. phase = "up" /\ UNCHANGED <<phase, avail, caches, pageVars>>
  BY <1>1
<1> QED BY <1>9, <1>10, <1>11, <1>12, ObjectStep

\* So does freeing a large block.
LEMMA FreePagesStep ==
  ASSUME Inv, NEW ptr \in Pointers, KfreePages(ptr)
  PROVE  Inv'
<1> DEFINE B == Block(ptr)
<1>0. /\ TypeOK /\ SlabSide /\ SlabsTaken /\ FramesTaken /\ NoneLeft
      /\ BelowTop /\ BlocksApart /\ BlocksMapped
  BY DEF Inv, SlabSide
<1>1. /\ phase = "up" /\ phase' = "up" /\ held[ptr] # 0 /\ ptr.kind = "page"
      /\ mapped' = [v \in DOMAIN mapped |-> IF v \in B THEN 0 ELSE mapped[v]]
      /\ avail' = avail \cup ({mapped[v] : v \in B} \ {0})
      /\ held' = [held EXCEPT ![ptr] = 0] /\ call' = NoCall
      /\ UNCHANGED slabVars /\ kernel_heap_vaddr' = kernel_heap_vaddr /\ tables' = tables
  BY DEF KfreePages, Released
<1>2. ptr \in HeldBlocks
  BY <1>1 DEF HeldBlocks
<1>3. B \subseteq VPage
  <2> DEFINE c == PagesCount(held[ptr])
             g == ptr.page
  <2>1. g \in Nat /\ c \in Nat /\ c >= 1
    BY <1>0, <1>2, BlockFacts
  <2>2. g + c =< kernel_heap_vaddr /\ kernel_heap_vaddr \in Nat /\ kernel_heap_vaddr =< VPages
    BY <1>0, <1>2, SizeFacts DEF BelowTop, TypeOK
  <2>3. B = g .. (g + c - 1)
    BY DEF Block
  <2> HIDE DEF c, g, B
  <2> QED BY <2>1, <2>2, <2>3, SizeFacts DEF VPage
<1>4. /\ held \in [Pointers -> {0} \cup Sizes] /\ mapped \in [VPage -> 0..PhysPages]
      /\ avail \in SUBSET (1..PhysPages)
  BY <1>0 DEF TypeOK, VPage
<1> HIDE DEF B
<1>5. /\ \A v \in VPage : mapped'[v] = IF v \in B THEN 0 ELSE mapped[v]
      /\ mapped' \in [VPage -> 0..PhysPages]
  <2>1. mapped' = [v \in VPage |-> IF v \in B THEN 0 ELSE mapped[v]]
    BY <1>1, <1>4
  <2>2. 0 \in 0..PhysPages
    BY SizeFacts
  <2> QED BY <1>4, <2>1, <2>2
<1>6. /\ held' \in [Pointers -> {0} \cup Sizes] /\ held'[ptr] = 0
      /\ \A d \in Pointers : d # ptr => held'[d] = held[d]
  BY <1>1, <1>4
<1>7. \A y \in avail' : y \in avail \/ \E v \in B : y = mapped[v] /\ y # 0
  BY <1>1
<1>8. TypeOK'
  <2>1. avail' \in SUBSET (1..PhysPages)
    <3>1. \A v \in B : mapped[v] # 0 => mapped[v] \in 1..PhysPages
      <4>1. \A v \in B : mapped[v] \in 0..PhysPages
        BY <1>3, <1>4
      <4> QED BY <4>1, SizeFacts
    <3> QED BY <1>4, <1>7, <3>1
  <2>2. caches' = caches /\ free_list' = free_list
    BY <1>1 DEF slabVars
  <2>3. call' \in [size : {0} \cup Sizes, ret : Pointers \cup {NULL}]
    BY <1>1 DEF NoCall
  <2>4. mapped' \in [0 .. (VPages - 1) -> 0..PhysPages] /\ phase' \in {"boot", "up", "halted"}
    BY <1>1, <1>5 DEF VPage
  <2> QED BY <1>0, <1>1, <1>6, <2>1, <2>2, <2>3, <2>4 DEF TypeOK
<1>9. SlabSide'
  <2>1. \A p \in 1..PhysPages, l \in Objects : SlabObject(p, l) # ptr
    BY <1>1, PointerFacts
  <2>2. \A p \in 1..PhysPages, l \in Objects : held'[SlabObject(p, l)] = held[SlabObject(p, l)]
    BY <1>6, <2>1, PointerFacts
  <2> QED BY <1>0, <1>1, <2>2, SlabSideKept
<1>10. SlabsTaken'
  <2> SUFFICES ASSUME NEW i \in Caches, NEW x \in 1..Len(caches[i])
               PROVE  caches[i][x] \notin avail' /\ \A v \in VPage : mapped'[v] # caches[i][x]
    <3>1. caches' = caches
      BY <1>1, Zenon DEF slabVars
    <3> QED BY <3>1, Zenon DEF SlabsTaken
  <2>1. caches[i][x] # 0
    <3>1. caches[i][x] \in 1..PhysPages
      BY <1>0, CacheFacts
    <3> QED BY <3>1
  <2>2. caches[i][x] \notin avail /\ \A v \in VPage : mapped[v] # caches[i][x]
    BY <1>0 DEF SlabsTaken
  <2> QED BY <1>3, <1>5, <1>7, <2>1, <2>2
<1>11. FramesTaken'
  <2>0. 0 \notin avail'
    BY <1>4, <1>7
  <2>1. ASSUME NEW v \in VPage
        PROVE  mapped'[v] \notin avail'
    <3>1. CASE mapped'[v] = 0
      BY <2>0, <3>1
    <3>2. CASE mapped'[v] # 0
      <4>1. v \notin B /\ mapped'[v] = mapped[v] /\ mapped[v] \notin avail
        BY <1>0, <1>5, <3>2 DEF FramesTaken
      <4>2. \A w \in B : mapped[w] # mapped[v]
        BY <1>0, <1>3, <3>2, <4>1 DEF FramesTaken
      <4> QED BY <1>7, <4>1, <4>2
    <3> QED BY <3>1, <3>2
  <2>2. \A v, w \in VPage : mapped'[v] = mapped'[w] /\ mapped'[v] # 0 => v = w
    BY <1>0, <1>5 DEF FramesTaken
  <2> QED BY <2>1, <2>2 DEF FramesTaken
<1>12. NoneLeft'
  <2> SUFFICES ASSUME \E i \in Caches : caches[i] = <<>>
               PROVE  avail' = {} /\ mapped' = [v \in VPage |-> 0]
    BY <1>1 DEF NoneLeft, slabVars
  <2>1. avail = {} /\ \A v \in VPage : mapped[v] = 0
    BY <1>0, <1>1 DEF NoneLeft
  <2>2. avail' = {}
    BY <1>3, <1>7, <2>1
  <2>3. \A v \in VPage : mapped'[v] = 0
    BY <1>5, <2>1
  <2> QED BY <1>5, <2>2, <2>3
<1>13. ASSUME NEW b \in HeldBlocks'
       PROVE  b \in HeldBlocks /\ b # ptr /\ held'[b] = held[b] /\ Block(b)' = Block(b)
  <2>1. b \in Pointers /\ held'[b] # 0 /\ b.kind = "page"
    BY DEF HeldBlocks
  <2>2. b # ptr /\ held'[b] = held[b]
    BY <1>6, <2>1
  <2> QED BY <2>1, <2>2 DEF HeldBlocks, Block
<1>14. BelowTop'
  <2>1. \A v \in VPage : mapped'[v] # 0 => v < kernel_heap_vaddr' /\ v \div PT_SPAN \in tables'
    BY <1>0, <1>1, <1>5 DEF BelowTop
  <2>2. \A b \in HeldBlocks' : b.page + PagesCount(held'[b]) =< kernel_heap_vaddr'
    BY <1>0, <1>1, <1>13 DEF BelowTop
  <2> QED BY <2>1, <2>2 DEF BelowTop
<1>15. BlocksApart'
  BY <1>0, <1>13 DEF BlocksApart
<1>16. BlocksMapped'
  <2> SUFFICES ASSUME NEW b \in HeldBlocks', NEW v \in Block(b)', mapped'[v] = 0
               PROVE  v > b.page /\ v = b.page + PagesCount(held'[b]) - 1 /\ (v % PT_SPAN) = 0
    BY DEF BlocksMapped
  <2>1. b \in HeldBlocks /\ b # ptr /\ held'[b] = held[b] /\ v \in Block(b)
    BY <1>13
  <2>2. v \notin B
    BY <1>0, <1>2, <2>1 DEF BlocksApart, B
  <2>3. v \in VPage
    <3> DEFINE c == PagesCount(held[b])
               g == b.page
    <3>1. g \in Nat /\ c \in Nat /\ c >= 1
      BY <1>0, <2>1, BlockFacts
    <3>2. g + c =< kernel_heap_vaddr /\ kernel_heap_vaddr \in Nat /\ kernel_heap_vaddr =< VPages
      BY <1>0, <2>1, SizeFacts DEF BelowTop, TypeOK
    <3>3. v \in g .. (g + c - 1)
      BY <2>1 DEF Block
    <3> HIDE DEF c, g
    <3> QED BY <3>1, <3>2, <3>3, SizeFacts DEF VPage
  <2>4. mapped[v] = 0
    BY <1>5, <2>2, <2>3
  <2> QED BY <1>0, <2>1, <2>4 DEF BlocksMapped
<1>17. BeforeInit' /\ NullMeansExhausted'
  BY <1>1 DEF BeforeInit, NullMeansExhausted, NoCall
<1> QED BY <1>8, <1>9, <1>10, <1>11, <1>12, <1>14, <1>15, <1>16, <1>17 DEF Inv, SlabSide

\* A second kfree of the same pointer.
LEMMA FreeAgainStep ==
  ASSUME Inv, NEW ptr \in Pointers, KfreeDetected(ptr) \/ KfreeFaults(ptr)
  PROVE  Inv'
<1>1. CASE KfreeDetected(ptr)
  <2>1. phase = "up" /\ call' = NoCall /\ UNCHANGED <<phase, avail, slabVars, pageVars, held>>
    BY <1>1 DEF KfreeDetected
  <2>2. TypeOK'
    <3>1. call' \in [size : {0} \cup Sizes, ret : Pointers \cup {NULL}]
      BY <2>1 DEF NoCall
    <3> QED BY <2>1, <3>1 DEF Inv, TypeOK, slabVars, pageVars
  <2>3. NullMeansExhausted'
    BY <2>1 DEF NoCall, NullMeansExhausted
  <2> QED BY <2>1, <2>2, <2>3, NothingStep
<1>2. CASE KfreeFaults(ptr)
  <2>1. /\ phase = "up" /\ phase' = "halted" /\ avail' = avail /\ caches' = caches /\ free_list' = free_list
        /\ mapped' = mapped /\ held' = held /\ pageVars' = pageVars /\ slabVars' = slabVars /\ call' = call
        /\ tables' = tables /\ kernel_heap_vaddr' = kernel_heap_vaddr
    BY <1>2 DEF KfreeFaults, slabVars, pageVars
  <2>2. PageSide'
    <3>1. PageSide
      BY DEF Inv, PageSide
    <3> QED BY <2>1, <3>1, PageSideKept
  <2>3. SlabSide'
    <3>1. SlabSide /\ TypeOK
      BY DEF Inv, SlabSide
    <3> QED BY <2>1, <3>1, SlabSideKept
  <2>4. SlabsTaken' /\ FramesTaken'
    BY <2>1 DEF Inv, SlabsTaken, FramesTaken
  <2>5. BeforeInit' /\ NullMeansExhausted'
    BY <2>1 DEF BeforeInit, NullMeansExhausted
  <2>6. NoneLeft'
    BY <2>1 DEF Inv, NoneLeft
  <2>7. TypeOK'
    BY <2>1 DEF Inv, TypeOK
  <2> QED BY <2>2, <2>3, <2>4, <2>5, <2>6, <2>7 DEF Inv, PageSide, SlabSide
<1> QED BY <1>1, <1>2

-----------------------------------------------------------------------------
(***************************************************************************)
(* The theorems.                                                           *)
(***************************************************************************)

\* The invariant holds before heap_init.
LEMMA InitInv ==
  Init => Inv
<1> SUFFICES ASSUME Init PROVE Inv
  OBVIOUS
<1>1. PICK n \in 0..PhysPages : avail = 1..n
  BY DEF Init
<1>2. /\ phase = "boot" /\ kernel_heap_vaddr = 0 /\ tables = {} /\ call = NoCall
      /\ caches = [i \in Caches |-> <<>>] /\ free_list = [p \in 1..PhysPages |-> <<>>]
      /\ mapped = [v \in VPage |-> 0] /\ held = [ptr \in Pointers |-> 0]
  BY DEF Init, VPage
<1>3. \A i \in Caches : Len(caches[i]) = 0
  BY <1>2
<1>4. \A ptr \in Pointers : held[ptr] = 0
  BY <1>2
<1>5. \A v \in VPage : mapped[v] = 0
  BY <1>2
<1>6. TypeOK
  <2>1. avail \in SUBSET (1..PhysPages)
    BY <1>1, SizeFacts
  <2>2. caches \in [Caches -> Seq(1..PhysPages)] /\ free_list \in [1..PhysPages -> Seq(Objects)]
    <3>1. \A S : <<>> \in Seq(S)
      OBVIOUS
    <3> QED BY <1>2, <3>1
  <2>3. mapped \in [0 .. (VPages - 1) -> 0..PhysPages] /\ held \in [Pointers -> {0} \cup Sizes]
    BY <1>2, SizeFacts DEF VPage
  <2>4. kernel_heap_vaddr \in 0..VPages /\ tables \in SUBSET (0..VPages)
    BY <1>2, SizeFacts
  <2>5. call \in [size : {0} \cup Sizes, ret : Pointers \cup {NULL}]
    BY <1>2 DEF NoCall
  <2>6. phase \in {"boot", "up", "halted"}
    BY <1>2
  <2> QED BY <2>1, <2>2, <2>3, <2>4, <2>5, <2>6 DEF TypeOK
<1>7. BeforeInit
  BY <1>1, <1>2 DEF BeforeInit
<1>8. SlabsApart /\ SlabsTaken /\ FreeLists
  BY <1>3 DEF SlabsApart, SlabsTaken, FreeLists
<1>9. FramesTaken
  <2>1. 0 \notin avail
    BY <1>1
  <2> QED BY <1>5, <2>1 DEF FramesTaken
<1>10. HeldObjects
  BY <1>4, PointerFacts DEF HeldObjects
<1>11. BelowTop /\ BlocksApart /\ BlocksMapped
  <2>1. HeldBlocks = {}
    BY <1>4 DEF HeldBlocks
  <2> QED BY <1>5, <2>1 DEF BelowTop, BlocksApart, BlocksMapped
<1>12. NoneLeft /\ NullMeansExhausted
  BY <1>2 DEF NoneLeft, NullMeansExhausted
<1> QED BY <1>6, <1>7, <1>8, <1>9, <1>10, <1>11, <1>12 DEF Inv

\* Every step keeps the invariant.
LEMMA NextInv ==
  Inv /\ [Next]_vars => Inv'
<1> SUFFICES ASSUME Inv, [Next]_vars PROVE Inv'
  OBVIOUS
<1>1. CASE heap_init
  BY <1>1, InitStep
<1>2. CASE \E size \in {0} \cup Sizes : kmalloc(size)
  <2>1. PICK size \in {0} \cup Sizes : kmalloc(size)
    BY <1>2
  <2> QED BY <2>1, RefusesStep, SlabStep, NewSlabStep, PagesStep DEF kmalloc
<1>3. CASE \E ptr \in Pointers : kfree(ptr)
  <2>1. PICK ptr \in Pointers : kfree(ptr)
    BY <1>3
  <2> QED BY <2>1, FreeSlabStep, FreePagesStep, FreeAgainStep DEF kfree
<1>4. CASE UNCHANGED vars
  <2>1. /\ phase' = phase /\ avail' = avail /\ caches' = caches /\ free_list' = free_list
        /\ mapped' = mapped /\ held' = held /\ pageVars' = pageVars /\ slabVars' = slabVars /\ call' = call
        /\ tables' = tables /\ kernel_heap_vaddr' = kernel_heap_vaddr
    BY <1>4 DEF vars, slabVars, pageVars
  <2>2. PageSide'
    <3>1. PageSide
      BY DEF Inv, PageSide
    <3> QED BY <2>1, <3>1, PageSideKept
  <2>3. SlabSide'
    <3>1. SlabSide /\ TypeOK
      BY DEF Inv, SlabSide
    <3> QED BY <2>1, <3>1, SlabSideKept
  <2>4. SlabsTaken' /\ FramesTaken'
    BY <2>1 DEF Inv, SlabsTaken, FramesTaken
  <2>5. BeforeInit' /\ NullMeansExhausted'
    BY <2>1 DEF Inv, BeforeInit, NullMeansExhausted
  <2>6. NoneLeft'
    BY <2>1 DEF Inv, NoneLeft
  <2>7. TypeOK'
    BY <2>1 DEF Inv, TypeOK
  <2> QED BY <2>2, <2>3, <2>4, <2>5, <2>6, <2>7 DEF Inv, PageSide, SlabSide
<1> QED BY <1>1, <1>2, <1>3, <1>4 DEF Next

\* The invariant of the heap, kept by heap_init, kmalloc and kfree.
THEOREM HeapInvariant == Spec => []Inv
<1>1. Init => Inv
  BY InitInv
<1>2. Inv /\ [Next]_vars => Inv'
  BY NextInv
<1> QED BY <1>1, <1>2, PTL DEF Spec

\* A physical page is free, or a slab, or mapped once (heap.c:87-91, 149-156).
THEOREM PagesUsedOnce == Spec => []OnePageOneUse
<1>1. Inv => OnePageOneUse
  <2> SUFFICES ASSUME Inv PROVE OnePageOneUse
    OBVIOUS
  <2>0. TypeOK /\ SlabsApart /\ SlabsTaken /\ FramesTaken
    BY DEF Inv
  <2>1. DOMAIN mapped = VPage
    BY <2>0 DEF TypeOK, VPage
  <2>2. \A i \in Caches : DOMAIN caches[i] = 1..Len(caches[i])
    <3>1. \A S : \A q \in Seq(S) : DOMAIN q = 1..Len(q)
      OBVIOUS
    <3> QED BY <2>0, <3>1, CacheFacts
  <2>3. \A p \in Slabs : \E i \in Caches : \E x \in 1..Len(caches[i]) : caches[i][x] = p
    BY <2>2 DEF Slabs, ToSet
  <2>4. \A p \in Frames : \E v \in VPage : mapped[v] = p
    BY <2>1 DEF Frames
  <2>5. avail \cap Slabs = {} /\ avail \cap Frames = {} /\ Slabs \cap Frames = {}
    BY <2>0, <2>3, <2>4 DEF SlabsTaken, FramesTaken
  <2>6. \A v, w \in DOMAIN mapped : mapped[v] = mapped[w] /\ mapped[v] # 0 => v = w
    BY <2>0, <2>1 DEF FramesTaken
  <2>7. \A i, j \in Caches : /\ IsInjective(caches[i])
                             /\ i # j => ToSet(caches[i]) \cap ToSet(caches[j]) = {}
    <3> SUFFICES ASSUME NEW i \in Caches, NEW j \in Caches
                 PROVE  /\ IsInjective(caches[i])
                        /\ i # j => ToSet(caches[i]) \cap ToSet(caches[j]) = {}
      OBVIOUS
    <3>1. IsInjective(caches[i])
      BY <2>0, <2>2 DEF SlabsApart, IsInjective
    <3>2. i # j => ToSet(caches[i]) \cap ToSet(caches[j]) = {}
      BY <2>0, <2>2 DEF SlabsApart, ToSet
    <3> QED BY <3>1, <3>2
  <2> QED BY <2>0, <2>5, <2>6, <2>7 DEF OnePageOneUse
<1> QED BY <1>1, HeapInvariant, PTL

\* The free lists have the objects nobody holds, each once (heap.c:110-123, 138-143).
THEOREM ObjectsFreeOrHeld == Spec => []ObjectsAccounted
<1>1. Inv => ObjectsAccounted
  <2> SUFFICES ASSUME Inv, NEW i \in Caches, NEW p \in ToSet(caches[i])
               PROVE  /\ IsInjective(free_list[p])
                      /\ \A k \in ObjectsOf(i) : k \in ToSet(free_list[p]) <=> held[SlabObject(p, k)] = 0
    BY DEF ObjectsAccounted, ObjectsOf
  <2>0. TypeOK /\ FreeLists
    BY DEF Inv
  <2>1. PICK x \in 1..Len(caches[i]) : caches[i][x] = p
    <3>1. \A S : \A q \in Seq(S) : DOMAIN q = 1..Len(q)
      OBVIOUS
    <3> QED BY <2>0, <3>1, CacheFacts DEF ToSet
  <2>2. IsInjective(free_list[p]) /\ ToSet(free_list[p]) = {k \in ObjectsOf(i) : held[SlabObject(p, k)] = 0}
    BY <2>0, <2>1 DEF FreeLists
  <2> QED BY <2>2
<1> QED BY <1>1, HeapInvariant, PTL

\* A block has the bytes its caller asked for (heap.c:74-131, vmm.c:50).
THEOREM BlocksHoldTheirSize == Spec => []BlocksUsable
<1>1. Inv => BlocksUsable
  <2> SUFFICES ASSUME Inv PROVE BlocksUsable
    OBVIOUS
  <2>0. TypeOK /\ SlabsApart /\ HeldObjects /\ BlocksApart /\ BlocksMapped
    BY DEF Inv
  <2>1. ASSUME NEW i \in Caches, NEW p \in ToSet(caches[i]), NEW k \in Objects, held[SlabObject(p, k)] # 0
        PROVE  /\ SLAB_HEADER + k * SlabSizes[i] =< PAGE_SIZE
               /\ held[SlabObject(p, k)] + ALLOC_HEADER =< SlabSizes[i]
    <3>1. PICK x \in 1..Len(caches[i]) : caches[i][x] = p
      <4>1. \A S : \A q \in Seq(S) : DOMAIN q = 1..Len(q)
        OBVIOUS
      <4> QED BY <2>0, <4>1, CacheFacts DEF ToSet
    <3>2. p \in 1..PhysPages
      BY <2>0, <3>1, CacheFacts
    <3>3. PICK j \in Caches : /\ \E y \in 1..Len(caches[j]) : caches[j][y] = p
                              /\ k \in ObjectsOf(j)
                              /\ held[SlabObject(p, k)] + ALLOC_HEADER =< SlabSizes[j]
      BY <2>0, <2>1, <3>2 DEF HeldObjects
    <3>4. j = i
      BY <2>0, <3>1, <3>3 DEF SlabsApart
    <3> QED BY <3>3, <3>4, ObjectFacts
  <2>2. ASSUME NEW b \in HeldBlocks
        PROVE  /\ held[b] + ALLOC_HEADER =< PAGE_SIZE * PagesCount(held[b])
               /\ \A d \in HeldBlocks : b # d => Block(b) \cap Block(d) = {}
               /\ \A v \in Block(b) : mapped[v] = 0 => v > b.page /\ v = Max(Block(b)) /\ v % PT_SPAN = 0
    <3> DEFINE c == PagesCount(held[b])
               g == b.page
               top == g + c - 1
    <3>1. held[b] \in Nat /\ g \in Nat /\ c \in Nat /\ c >= 1
      BY <2>0, BlockFacts
    <3>2. held[b] + ALLOC_HEADER =< PAGE_SIZE * c
      BY <3>1, PageFacts
    <3>3. Block(b) = g..top
      BY DEF Block
    <3>4. Max(Block(b)) = top
      <4> DEFINE P == Block(b)
      <4> HIDE DEF c, g, P
      <4>1. top \in Nat /\ top >= g
        BY <3>1
      <4>2. P = g..top
        BY <3>3 DEF P
      <4> HIDE DEF top
      <4>3. P \in SUBSET Nat /\ P # {} /\ top \in P /\ \A y \in P : y =< top
        BY <3>1, <4>1, <4>2
      <4>4. Max(P) \in P /\ \A y \in P : y =< Max(P)
        BY <4>1, <4>3, GreatestElement
      <4>5. Max(P) =< top /\ top =< Max(P) /\ Max(P) \in Nat
        BY <4>3, <4>4
      <4>6. Max(P) = top
        BY <4>1, <4>5
      <4> QED BY <4>6 DEF P
    <3>5. \A v \in Block(b) : mapped[v] = 0 => v > b.page /\ v = top /\ v % PT_SPAN = 0
      BY <2>0 DEF BlocksMapped
    <3> HIDE DEF top
    <3> QED BY <2>0, <3>2, <3>4, <3>5 DEF BlocksApart
  <2> QED BY <2>1, <2>2 DEF BlocksUsable
<1> QED BY <1>1, HeapInvariant, PTL

\* kmalloc refuses a proper request only without a page left (heap.c:74-131).
THEOREM RefusedWhenExhausted == Spec => []NullMeansExhausted
<1>1. Inv => NullMeansExhausted
  BY DEF Inv
<1> QED BY <1>1, HeapInvariant, PTL
=============================================================================
