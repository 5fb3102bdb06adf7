------------------------------- MODULE Lemmas -------------------------------
(***************************************************************************)
(* Facts about lists without repetition and about least and greatest       *)
(* numbers that the proofs of the components use.                          *)
(***************************************************************************)
EXTENDS Integers, Sequences, SequencesExt, FiniteSetsExt, SequenceTheorems,
        WellFoundedInduction, TLAPS

-----------------------------------------------------------------------------
(***************************************************************************)
(* Sequences: the run queue as a list without repetition.                  *)
(***************************************************************************)

\* Inserting a new element at the front, as scheduler_add_thread and the
\* requeueing in scheduler_tick_irq do, keeps the list free of repetitions.
LEMMA PushFront ==
  ASSUME NEW S, NEW q \in Seq(S), NEW x \in S, IsInjective(q), x \notin ToSet(q)
  PROVE  /\ <<x>> \o q \in Seq(S)
         /\ IsInjective(<<x>> \o q)
         /\ ToSet(<<x>> \o q) = ToSet(q) \cup {x}
<1> DEFINE p == <<x>> \o q
<1>1. /\ p \in Seq(S)
      /\ DOMAIN p = 1..Len(q) + 1
      /\ DOMAIN q = 1..Len(q)
      /\ Len(q) \in Nat
  OBVIOUS
<1>2. p[1] = x /\ \A i \in 1..Len(q) : p[i + 1] = q[i]
  OBVIOUS
<1>3. \A i \in DOMAIN p : i = 1 \/ (i - 1 \in DOMAIN q /\ p[i] = q[i - 1])
  BY <1>1, <1>2
<1> HIDE DEF p
<1>4. IsInjective(p)
  BY <1>1, <1>2, <1>3 DEF IsInjective, ToSet
<1>5. ToSet(p) = ToSet(q) \cup {x}
  <2>1. ToSet(p) \subseteq ToSet(q) \cup {x}
    BY <1>1, <1>2, <1>3 DEF ToSet
  <2>2. ToSet(q) \cup {x} \subseteq ToSet(p)
    BY <1>1, <1>2 DEF ToSet
  <2> QED BY <2>1, <2>2
<1> QED BY <1>1, <1>4, <1>5 DEF p

\* What is where after the element at position i is unlinked.
LEMMA RemovedAt ==
  ASSUME NEW S, NEW q \in Seq(S), NEW i \in 1..Len(q)
  PROVE  /\ RemoveAt(q, i) \in Seq(S)
         /\ DOMAIN RemoveAt(q, i) = 1..(Len(q) - 1)
         /\ Len(RemoveAt(q, i)) = Len(q) - 1
         /\ \A k \in 1..(Len(q) - 1) : RemoveAt(q, i)[k] = IF k < i THEN q[k] ELSE q[k + 1]
<1> DEFINE a == SubSeq(q, 1, i - 1)
           b == SubSeq(q, i + 1, Len(q))
           p == a \o b
<1>0. Len(q) \in Nat /\ DOMAIN q = 1..Len(q) /\ \A k \in 1..Len(q) : q[k] \in S
  OBVIOUS
<1>1. a \in Seq(S) /\ Len(a) = i - 1 /\ \A k \in 1..(i - 1) : a[k] = q[k]
  BY <1>0
<1>2. b \in Seq(S) /\ Len(b) = Len(q) - i /\ \A k \in 1..(Len(q) - i) : b[k] = q[i + k]
  <2>1. \A k \in (i + 1)..Len(q) : q[k] \in S
    BY <1>0
  <2>2. /\ b \in Seq(S)
        /\ Len(b) = IF i + 1 <= Len(q) THEN Len(q) - (i + 1) + 1 ELSE 0
        /\ \A k \in 1..(Len(q) - (i + 1) + 1) : b[k] = q[(i + 1) + k - 1]
    <3>1. i + 1 \in Int /\ Len(q) \in Int
      BY <1>0
    <3> QED BY <2>1, <3>1, SubSeqProperties
  <2> HIDE DEF b
  <2>3. Len(b) = Len(q) - i
    <3>1. CASE i + 1 <= Len(q)
      BY <3>1, <2>2, <1>0
    <3>2. CASE ~(i + 1 <= Len(q))
      <4>1. Len(q) = i
        <5>1. i \in Nat /\ i <= Len(q) /\ Len(q) \in Nat
          BY <1>0
        <5> QED BY <3>2, <5>1
      <4>2. Len(b) = 0
        BY <3>2, <2>2
      <4> QED BY <4>1, <4>2
    <3> QED BY <3>1, <3>2
  <2>4. ASSUME NEW k \in 1..(Len(q) - i)
        PROVE  b[k] = q[i + k]
    <3>1. k \in 1..(Len(q) - (i + 1) + 1) /\ (i + 1) + k - 1 = i + k
      BY <1>0
    <3> QED BY <3>1, <2>2
  <2> QED BY <2>2, <2>3, <2>4
<1> HIDE DEF a, b
<1>3. /\ p \in Seq(S)
      /\ Len(p) = Len(a) + Len(b)
      /\ \A k \in 1..(Len(a) + Len(b)) : p[k] = IF k <= Len(a) THEN a[k] ELSE b[k - Len(a)]
  BY <1>1, <1>2, ConcatProperties
<1>5. p = RemoveAt(q, i)
  BY DEF RemoveAt, a, b
<1> HIDE DEF p
<1>4. /\ DOMAIN p = 1..(Len(q) - 1)
      /\ \A k \in 1..(Len(q) - 1) : p[k] = IF k < i THEN q[k] ELSE q[k + 1]
  <2>1. Len(a) + Len(b) = Len(q) - 1 /\ DOMAIN p = 1..(Len(q) - 1)
    BY <1>0, <1>1, <1>2, <1>3
  <2>2. ASSUME NEW k \in 1..(Len(q) - 1), k < i
        PROVE  p[k] = q[k]
    BY <2>1, <2>2, <1>0, <1>1, <1>3
  <2>3. ASSUME NEW k \in 1..(Len(q) - 1), ~(k < i)
        PROVE  p[k] = q[k + 1]
    <3>1. k - Len(a) \in 1..(Len(q) - i) /\ i + (k - Len(a)) = k + 1
      BY <2>3, <1>0, <1>1
    <3>2. p[k] = b[k - Len(a)]
      BY <2>3, <2>1, <1>0, <1>1, <1>3
    <3> QED BY <3>1, <3>2, <1>2
  <2> QED BY <2>1, <2>2, <2>3
<1>6. Len(p) = Len(q) - 1
  BY <1>0, <1>1, <1>2, <1>3
<1> QED BY <1>3, <1>4, <1>5, <1>6

\* Unlinking the element at position i removes it, keeps the others and keeps
\* the list free of repetitions.
LEMMA Unlink ==
  ASSUME NEW S, NEW q \in Seq(S), NEW i \in 1..Len(q), IsInjective(q)
  PROVE  /\ RemoveAt(q, i) \in Seq(S)
         /\ IsInjective(RemoveAt(q, i))
         /\ ToSet(RemoveAt(q, i)) = ToSet(q) \ {q[i]}
<1> DEFINE p == RemoveAt(q, i)
<1>0. Len(q) \in Nat /\ DOMAIN q = 1..Len(q) /\ \A k \in 1..Len(q) : q[k] \in S
  OBVIOUS
<1>4. /\ p \in Seq(S) /\ DOMAIN p = 1..(Len(q) - 1)
      /\ \A k \in 1..(Len(q) - 1) : p[k] = IF k < i THEN q[k] ELSE q[k + 1]
  BY RemovedAt
<1> HIDE DEF p
<1>6. IsInjective(p)
  <2>1. SUFFICES ASSUME NEW k \in 1..(Len(q) - 1), NEW l \in 1..(Len(q) - 1), p[k] = p[l]
                 PROVE  k = l
    BY <1>4 DEF IsInjective
  <2>2. \A x, y \in 1..Len(q) : q[x] = q[y] => x = y
    BY <1>0 DEF IsInjective
  <2> DEFINE f(n) == IF n < i THEN n ELSE n + 1
  <2>3. f(k) \in 1..Len(q) /\ f(l) \in 1..Len(q) /\ p[k] = q[f(k)] /\ p[l] = q[f(l)]
    BY <1>0, <1>4
  <2>4. f(k) = f(l)
    BY <2>1, <2>2, <2>3
  <2> QED BY <2>4
<1>7. ToSet(p) \subseteq ToSet(q) \ {q[i]}
  BY <1>0, <1>4 DEF IsInjective, ToSet
<1>8. ASSUME NEW k \in DOMAIN q, q[k] # q[i]
      PROVE  q[k] \in ToSet(p)
  <2>1. CASE k < i
    BY <2>1, <1>0, <1>4 DEF ToSet
  <2>2. CASE k > i
    <3>1. k - 1 \in 1..(Len(q) - 1) /\ p[k - 1] = q[k]
      BY <2>2, <1>0, <1>4
    <3> QED BY <3>1, <1>4 DEF ToSet
  <2> QED BY <2>1, <2>2, <1>8, <1>0
<1>9. ToSet(q) \ {q[i]} \subseteq ToSet(p)
  BY <1>8 DEF ToSet
<1> QED BY <1>4, <1>6, <1>7, <1>9 DEF p

\* A non-empty set of list positions has a least one.
LEMMA MinIsMember ==
  ASSUME NEW P \in SUBSET Nat, P # {}
  PROVE  Min(P) \in P /\ \A y \in P : Min(P) =< y
<1>1. PICK x \in P : \A y \in P : ~ (<<y, x>> \in OpToRel(<, Nat))
  BY NatLessThanWellFounded, WFMin, Zenon
<1>2. ASSUME NEW y \in P
      PROVE  x =< y
  <2>1. y \in Nat /\ x \in Nat
    OBVIOUS
  <2>2. y < x => <<y, x>> \in OpToRel(<, Nat)
    BY <2>1, Zenon DEF OpToRel
  <2>3. ~(y < x)
    BY <1>1, <2>2, Zenon
  <2> QED BY <2>1, <2>3
<1> QED BY <1>2 DEF Min

\* Finitely many numbers have an upper bound: otherwise some least number k of
\* them has none, although k - 1 of them have one.
LEMMA UpperBound ==
  ASSUME NEW n \in Nat, NEW f \in [1..n -> Nat]
  PROVE  \E b \in Nat : \A i \in 1..n : f[i] =< b
<1> DEFINE Bounded(k) == \E b \in Nat : \A i \in 1..k : f[i] =< b
           Bad == {k \in 0..n : ~Bounded(k)}
<1>1. SUFFICES ASSUME Bad # {} PROVE FALSE
  <2>1. n \in 0..n
    OBVIOUS
  <2> QED BY <2>1
<1>2. Bad \in SUBSET Nat
  OBVIOUS
<1>3. PICK k \in Bad : \A y \in Bad : k =< y
  <2> HIDE DEF Bad
  <2> QED BY <1>1, <1>2, MinIsMember
<1>4. k \in 0..n /\ ~Bounded(k)
  OBVIOUS
<1>5. Bounded(0)
  <2>1. 0 \in Nat /\ \A i \in 1..0 : f[i] =< 0
    OBVIOUS
  <2> QED BY <2>1
<1>6. k - 1 \in 0..n
  <2>1. k # 0
    BY <1>4, <1>5
  <2> QED BY <1>4, <2>1
<1>7. Bounded(k - 1)
  <2>1. k - 1 \notin Bad
    <3> HIDE DEF Bad
    <3> QED BY <1>3, <1>4, <1>6
  <2> HIDE DEF Bounded
  <2> QED BY <1>6, <2>1
<1>8. PICK b \in Nat : \A i \in 1..(k - 1) : f[i] =< b
  BY <1>7
<1>9. f[k] \in Nat
  BY <1>4, <1>6
<1>10. \A i \in 1..k : f[i] =< (IF f[k] > b THEN f[k] ELSE b)
  <2> TAKE i \in 1..k
  <2>1. i = k \/ i \in 1..(k - 1)
    BY <1>4
  <2>2. f[i] \in Nat
    BY <1>4
  <2> QED BY <2>1, <2>2, <1>8, <1>9
<1> QED BY <1>4, <1>9, <1>10

\* A set of numbers with an upper bound has a greatest element.
LEMMA GreatestElement ==
  ASSUME NEW P \in SUBSET Nat, P # {}, NEW b \in Nat, \A y \in P : y =< b
  PROVE  Max(P) \in P /\ \A y \in P : y =< Max(P)
<1> DEFINE U == {u \in Nat : \A y \in P : y =< u}
<1>1. U \in SUBSET Nat /\ U # {}
  OBVIOUS
<1>2. Min(U) \in U /\ \A u \in U : Min(U) =< u
  <2> HIDE DEF U
  <2> QED BY <1>1, MinIsMember
<1> DEFINE u == Min(U)
<1>3. u \in Nat /\ \A y \in P : y =< u
  BY <1>2
<1>4. u \in P
  <2>1. SUFFICES ASSUME u \notin P PROVE FALSE
    OBVIOUS
  <2> HIDE DEF u
  <2>2. PICK z \in P : TRUE
    OBVIOUS
  <2>3. \A y \in P : y =< u - 1
    <3> TAKE y \in P
    <3>1. y \in Nat /\ y =< u /\ y # u
      BY <1>3, <2>1
    <3> QED BY <1>3, <3>1
  <2>4. u - 1 \in Nat
    BY <2>2, <2>3, <1>3
  <2>5. u - 1 \in U
    BY <2>3, <2>4
  <2>6. u =< u - 1
    BY <1>2, <2>5 DEF u
  <2> QED BY <2>6, <1>3
<1> HIDE DEF u
<1> QED BY <1>3, <1>4 DEF Max
=============================================================================
