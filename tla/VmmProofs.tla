----------------------------- MODULE VmmProofs -----------------------------
(***************************************************************************)
(* TLAPS proofs about Vmm, for tables of any size, any number of frames    *)
(* and pagemaps and any set of virtual and physical pages.                 *)
(*                                                                         *)
(* The argument: every frame has a level, 1 for a PML4 to 4 for a page     *)
(* table and 0 for what is no table yet; an entry leads from a table to    *)
(* one of the next level; and a table has one parent entry, or the same    *)
(* entry of the kernel's half in several PML4s.  The lemmas are about      *)
(* table contents and levels as values, so that they can be applied to the *)
(* intermediate states of vmm_map.                                         *)
(***************************************************************************)
EXTENDS Vmm, Lemmas

-----------------------------------------------------------------------------
(***************************************************************************)
(* The walk, for any contents of the tables.                               *)
(***************************************************************************)

Down(ent, t, i) == IF t = 0 THEN 0 ELSE ent[t][i].to
Pdpt(ent, pm, v) == ent[pm][v[1]].to
Pd(ent, pm, v) == Down(ent, Pdpt(ent, pm, v), v[2])
Pt(ent, pm, v) == Down(ent, Pd(ent, pm, v), v[3])
Trans(ent, pm, v) == IF Pt(ent, pm, v) = 0 THEN None ELSE ent[Pt(ent, pm, v)][v[4]]

\* The walk of vmm_get_phys, level by level.
LEMMA WalkIs ==
  ASSUME NEW pm, NEW v
  PROVE  /\ TableAt(pm, v, 2) = Pdpt(entries, pm, v)
         /\ TableAt(pm, v, 3) = Pd(entries, pm, v)
         /\ TableAt(pm, v, 4) = Pt(entries, pm, v)
         /\ Translation(pm, v) = Trans(entries, pm, v)
         /\ Translation(pm, v)' = Trans(entries', pm, v)
<1> DEFINE pdpt(ent) == Pdpt(ent, pm, v)
           pd(ent) == Pd(ent, pm, v)
           pt(ent) == Pt(ent, pm, v)
           Level(ent, l) == CASE l = 1 -> pm [] l = 2 -> pdpt(ent) [] l = 3 -> pd(ent) [] l = 4 -> pt(ent)
<1>0. \A l : TableAt(pm, v, l) = Level(entries, l)
  BY Zenon DEF TableAt, Pt, Pd, Down, Pdpt
<1>p. \A l : TableAt(pm, v, l)' = Level(entries', l)
  BY Zenon DEF TableAt, Pt, Pd, Down, Pdpt
<1> HIDE DEF pdpt, pd, pt
<1>l. \A ent : Level(ent, 2) = pdpt(ent) /\ Level(ent, 3) = pd(ent) /\ Level(ent, 4) = pt(ent)
  OBVIOUS
<1> HIDE DEF Level
<1>1. TableAt(pm, v, 2) = Pdpt(entries, pm, v)
  BY <1>0, <1>l, Zenon DEF pdpt
<1>2. TableAt(pm, v, 3) = Pd(entries, pm, v)
  BY <1>0, <1>l, Zenon DEF pd
<1>3. TableAt(pm, v, 4) = Pt(entries, pm, v)
  BY <1>0, <1>l, Zenon DEF pt
<1>4. Translation(pm, v) = Trans(entries, pm, v)
  BY <1>3 DEF Translation, Trans
<1>5. TableAt(pm, v, 4)' = Pt(entries', pm, v)
  BY <1>p, <1>l, Zenon DEF pt
<1>6. Translation(pm, v)' = Trans(entries', pm, v)
  BY <1>5 DEF Translation, Trans
<1> QED BY <1>1, <1>2, <1>3, <1>4, <1>6

-----------------------------------------------------------------------------
(***************************************************************************)
(* The tree of tables.                                                     *)
(***************************************************************************)

\* What is free and what is a PML4; frame 0 is written like one when there is no
\* memory.
LevelsFit(av, pms, L) ==
  /\ L \in [Frames -> 0..4]
  /\ av \in SUBSET Frames /\ pms \in SUBSET Frames
  /\ \A f \in av : L[f] = 0
  /\ \A f \in Frames : L[f] = 1 <=> f \in pms \cup {0}

\* An entry leads to the next level.
OneLevelDown(ent, L) ==
  \A f \in Frames, i \in Indices :
    L[f] \in 1..3 /\ ent[f][i].to # 0 => ent[f][i].to \in Frames /\ L[ent[f][i].to] = L[f] + 1

\* Two entries lead to the same table only if they are the same index of two PML4s,
\* in the kernel's half.
OneParent(ent, L) ==
  \A f, g \in Frames, i, j \in Indices :
    L[f] \in 1..3 /\ L[g] \in 1..3 /\ ent[f][i].to # 0 /\ ent[f][i].to = ent[g][j].to =>
      i = j /\ (f = g \/ (L[f] = 1 /\ i \in KernelIndices))

\* The entry of the bootloader is in every PML4.
Rooted(ent, pms) ==
  /\ BOOT \in pms
  /\ \A pm \in pms : ent[pm][Min(KernelIndices)] = [to |-> BOOT_PDPT, user |-> FALSE]

Tree(ent, av, pms, L) ==
  /\ ent \in [Frames -> [Indices -> Entries]]
  /\ LevelsFit(av, pms, L)
  /\ OneLevelDown(ent, L)
  /\ OneParent(ent, L)
  /\ Rooted(ent, pms)

\* What the assumptions say of indices and frames.
LEMMA ConstantFacts ==
  /\ Frames \subseteq Nat /\ 0 \in Frames /\ BOOT \in Frames /\ BOOT_PDPT \in Frames
  /\ BOOT # 0 /\ BOOT_PDPT # 0 /\ BOOT_PDPT # BOOT
  /\ Frames \cap Phys = {}
  /\ None \in Entries /\ EmptyTable \in [Indices -> Entries]
  /\ Min(KernelIndices) \in KernelIndices /\ KernelIndices \subseteq Indices
  /\ \A v \in Virts : v \in [1..4 -> Indices] /\ v[1] \in Indices /\ v[2] \in Indices
                      /\ v[3] \in Indices /\ v[4] \in Indices
<1>1. Frames \subseteq Nat /\ 0 \in Frames /\ BOOT \in Frames /\ BOOT_PDPT \in Frames
  BY VmmAssumption DEF Frames, BOOT, BOOT_PDPT
<1>2. None \in Entries
  BY <1>1 DEF None, Entries
<1>3. EmptyTable \in [Indices -> Entries]
  BY <1>2 DEF EmptyTable
<1>4. Min(KernelIndices) \in KernelIndices
  <2>1. KernelIndices \in SUBSET Nat /\ KernelIndices # {}
    BY VmmAssumption
  <2> QED BY <2>1, MinIsMember
<1>5. \A v \in Virts : v \in [1..4 -> Indices]
  BY VmmAssumption
<1>6. Frames \cap Phys = {} /\ KernelIndices \subseteq Indices
  BY VmmAssumption DEF Frames
<1> QED BY <1>1, <1>2, <1>3, <1>4, <1>5, <1>6 DEF BOOT, BOOT_PDPT

\* Where a walk can end.
LEMMA WalkLevels ==
  ASSUME NEW ent, NEW av, NEW pms, NEW L, Tree(ent, av, pms, L),
         NEW pm \in pms \cup {0}, NEW v \in Virts
  PROVE  /\ pm \in Frames /\ L[pm] = 1
         /\ Pdpt(ent, pm, v) # 0 => Pdpt(ent, pm, v) \in Frames /\ L[Pdpt(ent, pm, v)] = 2
         /\ Pd(ent, pm, v) # 0 => Pd(ent, pm, v) \in Frames /\ L[Pd(ent, pm, v)] = 3 /\ Pdpt(ent, pm, v) # 0
         /\ Pt(ent, pm, v) # 0 => Pt(ent, pm, v) \in Frames /\ L[Pt(ent, pm, v)] = 4 /\ Pd(ent, pm, v) # 0
         /\ Trans(ent, pm, v) \in Entries
<1>0. /\ v[1] \in Indices /\ v[2] \in Indices /\ v[3] \in Indices /\ v[4] \in Indices
      /\ None \in Entries /\ 0 \in Frames
  BY ConstantFacts
<1>1. OneLevelDown(ent, L) /\ LevelsFit(av, pms, L) /\ ent \in [Frames -> [Indices -> Entries]]
  BY DEF Tree
<1>2. pm \in Frames /\ L[pm] = 1
  BY <1>0, <1>1 DEF LevelsFit
<1>3. ASSUME NEW f \in Frames, NEW i \in Indices, L[f] \in 1..3, ent[f][i].to # 0
      PROVE  ent[f][i].to \in Frames /\ L[ent[f][i].to] = L[f] + 1
  BY <1>1, <1>3 DEF OneLevelDown
<1>4. Pdpt(ent, pm, v) # 0 => Pdpt(ent, pm, v) \in Frames /\ L[Pdpt(ent, pm, v)] = 2
  BY <1>0, <1>2, <1>3 DEF Pdpt
<1>5. Pd(ent, pm, v) # 0 => Pd(ent, pm, v) \in Frames /\ L[Pd(ent, pm, v)] = 3 /\ Pdpt(ent, pm, v) # 0
  BY <1>0, <1>3, <1>4 DEF Pd, Down
<1>6. Pt(ent, pm, v) # 0 => Pt(ent, pm, v) \in Frames /\ L[Pt(ent, pm, v)] = 4 /\ Pd(ent, pm, v) # 0
  BY <1>0, <1>3, <1>5 DEF Pt, Down
<1>7. Trans(ent, pm, v) \in Entries
  BY <1>0, <1>1, <1>6 DEF Trans
<1> QED BY <1>2, <1>4, <1>5, <1>6, <1>7

\* Two walks that meet have come the same way.
LEMMA WalksMeet ==
  ASSUME NEW ent, NEW av, NEW pms, NEW L, Tree(ent, av, pms, L),
         NEW pm \in pms, NEW qm \in pms, NEW v \in Virts, NEW w \in Virts
  PROVE  /\ Pdpt(ent, pm, v) # 0 /\ Pdpt(ent, pm, v) = Pdpt(ent, qm, w) =>
              v[1] = w[1] /\ (pm = qm \/ v[1] \in KernelIndices)
         /\ Pd(ent, pm, v) # 0 /\ Pd(ent, pm, v) = Pd(ent, qm, w) =>
              v[2] = w[2] /\ Pdpt(ent, pm, v) # 0 /\ Pdpt(ent, pm, v) = Pdpt(ent, qm, w)
         /\ Pt(ent, pm, v) # 0 /\ Pt(ent, pm, v) = Pt(ent, qm, w) =>
              v[3] = w[3] /\ Pd(ent, pm, v) # 0 /\ Pd(ent, pm, v) = Pd(ent, qm, w)
<1>0. /\ v[1] \in Indices /\ v[2] \in Indices /\ v[3] \in Indices
      /\ w[1] \in Indices /\ w[2] \in Indices /\ w[3] \in Indices
  BY ConstantFacts
<1>1. ASSUME NEW f \in Frames, NEW g \in Frames, NEW i \in Indices, NEW j \in Indices,
             L[f] \in 1..3, L[g] \in 1..3, ent[f][i].to # 0, ent[f][i].to = ent[g][j].to
      PROVE  i = j /\ (f = g \/ (L[f] = 1 /\ i \in KernelIndices))
  BY <1>1 DEF Tree, OneParent
<1>2. pm \in Frames /\ L[pm] = 1 /\ qm \in Frames /\ L[qm] = 1
  BY WalkLevels
<1>3. ASSUME NEW q \in pms, NEW x \in Virts
      PROVE  /\ Pdpt(ent, q, x) # 0 => Pdpt(ent, q, x) \in Frames /\ L[Pdpt(ent, q, x)] = 2
             /\ Pd(ent, q, x) # 0 => Pd(ent, q, x) \in Frames /\ L[Pd(ent, q, x)] = 3
  BY WalkLevels
<1>4. Pdpt(ent, pm, v) # 0 /\ Pdpt(ent, pm, v) = Pdpt(ent, qm, w) =>
        v[1] = w[1] /\ (pm = qm \/ v[1] \in KernelIndices)
  BY <1>0, <1>1, <1>2 DEF Pdpt
<1>5. Pd(ent, pm, v) # 0 /\ Pd(ent, pm, v) = Pd(ent, qm, w) =>
        v[2] = w[2] /\ Pdpt(ent, pm, v) # 0 /\ Pdpt(ent, pm, v) = Pdpt(ent, qm, w)
  BY <1>0, <1>1, <1>3 DEF Pd, Down
<1>6. Pt(ent, pm, v) # 0 /\ Pt(ent, pm, v) = Pt(ent, qm, w) =>
        v[3] = w[3] /\ Pd(ent, pm, v) # 0 /\ Pd(ent, pm, v) = Pd(ent, qm, w)
  BY <1>0, <1>1, <1>3 DEF Pt, Down
<1> QED BY <1>4, <1>5, <1>6

-----------------------------------------------------------------------------
(***************************************************************************)
(* The changes of the tables, each as a change of the tree.                *)
(***************************************************************************)

WithLevel(L, f, l) == [L EXCEPT ![f] = l]

\* The entries after get_or_create has made table f below entry i of table t.
WithChild(ent, t, i, f, e) == [ent EXCEPT ![f] = EmptyTable, ![t][i] = e]

\* What get_or_create finds when it makes table f at level n, and what it leaves.
CanGrow(ent, av, pms, L, t, n, i, f, e, new) ==
  /\ Tree(ent, av, pms, L)
  /\ t \in Frames /\ n \in 2..4 /\ L[t] = n - 1
  /\ i \in Indices /\ ent[t][i].to = 0
  /\ f \in av /\ e \in Entries /\ e.to = f
  /\ new = WithChild(ent, t, i, f, e)

HasGrown(ent, av, pms, L, t, n, i, f, e, new) ==
  /\ Tree(new, av \ {f}, pms, WithLevel(L, f, n))
  /\ \A pm \in pms, v \in Virts : Trans(new, pm, v) = Trans(ent, pm, v)
  /\ \A g \in Frames \ {f}, j \in Indices : ent[g][j].to # 0 => new[g][j] = ent[g][j]
  /\ new[t][i].to = f

\* get_or_create makes a table: the tree grows by a leaf and nothing is mapped or
\* unmapped by it.
LEMMA Grow ==
  ASSUME NEW ent, NEW av, NEW pms, NEW L, NEW t, NEW n, NEW i, NEW f, NEW e, NEW new,
         CanGrow(ent, av, pms, L, t, n, i, f, e, new)
  PROVE  HasGrown(ent, av, pms, L, t, n, i, f, e, new)
<1> DEFINE M == WithLevel(L, f, n)
<1>0. /\ ent \in [Frames -> [Indices -> Entries]] /\ LevelsFit(av, pms, L)
      /\ OneLevelDown(ent, L) /\ OneParent(ent, L) /\ Rooted(ent, pms)
      /\ t \in Frames /\ n \in 2..4 /\ L[t] = n - 1 /\ i \in Indices /\ ent[t][i].to = 0
      /\ f \in av /\ e \in Entries /\ e.to = f /\ new = WithChild(ent, t, i, f, e)
      /\ Tree(ent, av, pms, L)
  BY DEF CanGrow, Tree
<1>1. /\ f \in Frames /\ L[f] = 0 /\ f # t /\ f # 0 /\ L \in [Frames -> 0..4]
      /\ f \notin pms
  BY <1>0, ConstantFacts DEF LevelsFit
<1>2. e \in Entries /\ e.to = f /\ EmptyTable \in [Indices -> Entries]
  BY <1>0, ConstantFacts
<1>3. /\ new \in [Frames -> [Indices -> Entries]]
      /\ new[f] = EmptyTable
      /\ new[t] = [ent[t] EXCEPT ![i] = e]
      /\ \A g \in Frames \ {f, t} : new[g] = ent[g]
  BY <1>0, <1>1, <1>2 DEF WithChild
<1>4. /\ new[t][i] = e
      /\ \A j \in Indices \ {i} : new[t][j] = ent[t][j]
      /\ \A j \in Indices : new[f][j].to = 0 /\ new[f][j] = None
  <2>1. new[t][i] = e /\ \A j \in Indices \ {i} : new[t][j] = ent[t][j]
    BY <1>0, <1>3
  <2>2. \A j \in Indices : new[f][j] = None
    <3>1. \A j \in Indices : EmptyTable[j] = None
      BY DEF EmptyTable
    <3>2. new[f] = EmptyTable
      BY <1>3
    <3> QED BY <3>1, <3>2
  <2>3. None.to = 0
    BY DEF None
  <2> QED BY <2>1, <2>2, <2>3
<1>5. \A g \in Frames \ {f}, j \in Indices : new[g][j] = ent[g][j] \/ (g = t /\ j = i)
  BY <1>3, <1>4
<1>6. M \in [Frames -> 0..4] /\ M[f] = n /\ \A g \in Frames \ {f} : M[g] = L[g]
  BY <1>0, <1>1 DEF WithLevel
<1> HIDE DEF M
<1>7. LevelsFit(av \ {f}, pms, M)
  BY <1>0, <1>1, <1>6 DEF LevelsFit
<1>8. ASSUME NEW g \in Frames, NEW j \in Indices, ent[g][j].to = f
      PROVE  L[g] \notin 1..3
  BY <1>0, <1>1, <1>8 DEF OneLevelDown
<1>9. OneLevelDown(new, M)
  <2>1. SUFFICES ASSUME NEW g \in Frames, NEW j \in Indices, M[g] \in 1..3, new[g][j].to # 0
                 PROVE  new[g][j].to \in Frames /\ M[new[g][j].to] = M[g] + 1
    BY DEF OneLevelDown
  <2>2. g # f
    BY <1>4, <2>1
  <2>3. CASE g = t /\ j = i
    BY <1>0, <1>1, <1>2, <1>4, <1>6, <2>3
  <2>4. CASE new[g][j] = ent[g][j]
    BY <1>0, <1>6, <1>8, <2>1, <2>2, <2>4 DEF OneLevelDown
  <2> QED BY <1>5, <2>2, <2>3, <2>4
<1>10. OneParent(new, M)
  <2>1. SUFFICES ASSUME NEW g \in Frames, NEW h \in Frames, NEW j \in Indices, NEW k \in Indices,
                        M[g] \in 1..3, M[h] \in 1..3, new[g][j].to # 0, new[g][j].to = new[h][k].to
                 PROVE  j = k /\ (g = h \/ (M[g] = 1 /\ j \in KernelIndices))
    BY DEF OneParent
  <2>2. g # f /\ h # f
    BY <1>4, <2>1
  <2>3. L[g] \in 1..3 /\ L[h] \in 1..3 /\ M[g] = L[g]
    BY <1>6, <2>1, <2>2
  <2>4. CASE g = t /\ j = i
    <3>1. h = t /\ k = i
      <4>1. new[h][k].to = f
        BY <1>2, <1>4, <2>1, <2>4
      <4>2. new[h][k] # ent[h][k]
        BY <1>8, <2>3, <4>1
      <4> QED BY <1>5, <2>2, <4>2
    <3> QED BY <2>4, <3>1
  <2>5. CASE h = t /\ k = i
    <3>1. g = t /\ j = i
      <4>1. new[g][j].to = f
        BY <1>2, <1>4, <2>1, <2>5
      <4>2. new[g][j] # ent[g][j]
        BY <1>8, <2>3, <4>1
      <4> QED BY <1>5, <2>2, <4>2
    <3> QED BY <2>5, <3>1
  <2>6. CASE new[g][j] = ent[g][j] /\ new[h][k] = ent[h][k]
    BY <1>0, <2>1, <2>3, <2>6 DEF OneParent
  <2> QED BY <1>5, <2>2, <2>4, <2>5, <2>6
<1>11. \A g \in Frames \ {f}, j \in Indices : ent[g][j].to # 0 => new[g][j] = ent[g][j]
  BY <1>0, <1>5
<1>12. Rooted(new, pms)
  <2>1. pms \subseteq Frames \ {f} /\ Min(KernelIndices) \in Indices /\ BOOT_PDPT # 0
    BY <1>0, <1>1, ConstantFacts DEF LevelsFit
  <2>2. ASSUME NEW pm \in pms
        PROVE  new[pm][Min(KernelIndices)] = [to |-> BOOT_PDPT, user |-> FALSE]
    <3>1. ent[pm][Min(KernelIndices)] = [to |-> BOOT_PDPT, user |-> FALSE]
      BY <1>0 DEF Rooted
    <3>2. ent[pm][Min(KernelIndices)].to # 0
      BY <2>1, <3>1
    <3>3. new[pm][Min(KernelIndices)] = ent[pm][Min(KernelIndices)]
      BY <1>11, <2>1, <3>2
    <3> QED BY <3>1, <3>3
  <2> QED BY <1>0, <2>2 DEF Rooted
<1>13. ASSUME NEW pm \in pms, NEW v \in Virts
       PROVE  Trans(new, pm, v) = Trans(ent, pm, v)
  <2>0. v[1] \in Indices /\ v[2] \in Indices /\ v[3] \in Indices /\ v[4] \in Indices
    BY ConstantFacts
  <2>1. /\ pm \in Frames /\ pm # f /\ L[pm] = 1
        /\ Pdpt(ent, pm, v) # 0 => Pdpt(ent, pm, v) \in Frames /\ L[Pdpt(ent, pm, v)] = 2
        /\ Pd(ent, pm, v) # 0 => Pd(ent, pm, v) \in Frames /\ L[Pd(ent, pm, v)] = 3
        /\ Pt(ent, pm, v) # 0 => Pt(ent, pm, v) \in Frames /\ L[Pt(ent, pm, v)] = 4
    BY <1>0, <1>1, WalkLevels
  <2>2. Down(new, 0, v[2]) = 0 /\ Down(new, 0, v[3]) = 0
    BY DEF Down
  <2>3. Down(new, f, v[2]) = 0 /\ Down(new, f, v[3]) = 0
    BY <1>4, <2>0 DEF Down
  <2>4. ASSUME NEW g \in Frames, g # f, NEW j \in Indices
        PROVE  \/ new[g][j] = ent[g][j]
               \/ ent[g][j].to = 0 /\ new[g][j].to = f /\ g = t
    BY <1>0, <1>2, <1>4, <1>5, <2>4
  <2>5. \/ Pdpt(new, pm, v) = Pdpt(ent, pm, v)
        \/ Pdpt(ent, pm, v) = 0 /\ Pdpt(new, pm, v) = f
    BY <2>0, <2>1, <2>4 DEF Pdpt
  <2>6. \/ Pd(new, pm, v) = Pd(ent, pm, v)
        \/ Pd(ent, pm, v) = 0 /\ Pd(new, pm, v) = f
    <3>1. CASE Pdpt(ent, pm, v) = 0
      BY <2>2, <2>3, <2>5, <3>1 DEF Pd, Down
    <3>2. CASE Pdpt(ent, pm, v) # 0
      <4>1. Pdpt(ent, pm, v) # f /\ Pdpt(new, pm, v) = Pdpt(ent, pm, v)
        BY <1>1, <2>1, <2>5, <3>2
      <4>2. Pd(new, pm, v) = new[Pdpt(ent, pm, v)][v[2]].to /\ Pd(ent, pm, v) = ent[Pdpt(ent, pm, v)][v[2]].to
        BY <3>2, <4>1 DEF Pd, Down
      <4> QED BY <2>0, <2>1, <2>4, <3>2, <4>1, <4>2
    <3> QED BY <3>1, <3>2
  <2>7. \/ Pt(new, pm, v) = Pt(ent, pm, v)
        \/ Pt(ent, pm, v) = 0 /\ Pt(new, pm, v) = f
    <3>1. CASE Pd(ent, pm, v) = 0
      BY <2>2, <2>3, <2>6, <3>1 DEF Pt, Down
    <3>2. CASE Pd(ent, pm, v) # 0
      <4>1. Pd(ent, pm, v) # f /\ Pd(new, pm, v) = Pd(ent, pm, v)
        BY <1>1, <2>1, <2>6, <3>2
      <4>2. Pt(new, pm, v) = new[Pd(ent, pm, v)][v[3]].to /\ Pt(ent, pm, v) = ent[Pd(ent, pm, v)][v[3]].to
        BY <3>2, <4>1 DEF Pt, Down
      <4> QED BY <2>0, <2>1, <2>4, <3>2, <4>1, <4>2
    <3> QED BY <3>1, <3>2
  <2>8. CASE Pt(ent, pm, v) = 0
    <3>1. Trans(ent, pm, v) = None
      BY <2>8 DEF Trans
    <3>2. CASE Pt(new, pm, v) = 0
      BY <3>1, <3>2 DEF Trans
    <3>3. CASE Pt(new, pm, v) = f
      <4>1. Trans(new, pm, v) = new[f][v[4]]
        BY <1>1, <3>3 DEF Trans
      <4> QED BY <1>4, <2>0, <3>1, <4>1
    <3> QED BY <2>7, <2>8, <3>2, <3>3
  <2>9. CASE Pt(ent, pm, v) # 0
    <3>1. Pt(new, pm, v) = Pt(ent, pm, v) /\ Pt(ent, pm, v) # f /\ Pt(ent, pm, v) # t
      BY <1>0, <1>1, <2>1, <2>7, <2>9
    <3>2. Trans(new, pm, v) = new[Pt(ent, pm, v)][v[4]] /\ Trans(ent, pm, v) = ent[Pt(ent, pm, v)][v[4]]
      BY <2>9, <3>1 DEF Trans
    <3> QED BY <2>0, <2>1, <2>4, <2>9, <3>1, <3>2
  <2> QED BY <2>8, <2>9
<1> QED BY <1>2, <1>3, <1>4, <1>7, <1>9, <1>10, <1>11, <1>12, <1>13 DEF Tree, M, HasGrown

\* The entries after entry i of table t is written, and after table f is.
WithEntry(ent, t, i, e) == [ent EXCEPT ![t][i] = e]
WithTable(ent, f, table) == [ent EXCEPT ![f] = table]
KernelHalf(ent, src) == [i \in Indices |-> IF i \in KernelIndices THEN ent[src][i] ELSE None]

\* vmm_map and vmm_unmap write an entry of a page table: the tree stays, and the
\* page is the only one whose translation changes, in the pagemaps that share the
\* table.
LEMMA WriteLeaf ==
  ASSUME NEW ent, NEW av, NEW pms, NEW L, Tree(ent, av, pms, L),
         NEW pm \in pms, NEW virt \in Virts, Pt(ent, pm, virt) # 0, NEW e \in Entries,
         NEW new, new = WithEntry(ent, Pt(ent, pm, virt), virt[4], e)
  PROVE  /\ Tree(new, av, pms, L)
         /\ \A q \in pms, w \in Virts :
              \/ Trans(new, q, w) = Trans(ent, q, w) /\ ~(q = pm /\ w = virt)
              \/ /\ w = virt /\ (q = pm \/ virt[1] \in KernelIndices)
                 /\ Trans(ent, q, w) = Trans(ent, pm, virt)
                 /\ Trans(new, q, w) = e
<1> DEFINE t == Pt(ent, pm, virt)
<1>0. /\ ent \in [Frames -> [Indices -> Entries]] /\ LevelsFit(av, pms, L)
      /\ OneLevelDown(ent, L) /\ OneParent(ent, L) /\ Rooted(ent, pms)
      /\ virt[4] \in Indices
  BY ConstantFacts DEF Tree
<1>1. t \in Frames /\ L[t] = 4 /\ t # 0
  BY WalkLevels
<1>2. new = [ent EXCEPT ![t][virt[4]] = e]
  BY DEF WithEntry
<1> HIDE DEF t
<1>3. /\ new \in [Frames -> [Indices -> Entries]]
      /\ new[t][virt[4]] = e
      /\ \A j \in Indices \ {virt[4]} : new[t][j] = ent[t][j]
      /\ \A g \in Frames \ {t} : new[g] = ent[g]
  <2>1. [ent[t] EXCEPT ![virt[4]] = e] \in [Indices -> Entries]
    BY <1>0, <1>1
  <2>2. new = [ent EXCEPT ![t] = [ent[t] EXCEPT ![virt[4]] = e]]
    BY <1>0, <1>1, <1>2
  <2>3. new[t] = [ent[t] EXCEPT ![virt[4]] = e] /\ \A g \in Frames \ {t} : new[g] = ent[g]
    BY <1>0, <1>1, <2>2
  <2>4. new \in [Frames -> [Indices -> Entries]]
    BY <1>0, <1>1, <2>1, <2>2
  <2> QED BY <1>0, <1>1, <2>3, <2>4
<1>4. \A g \in Frames : L[g] \in 1..3 => new[g] = ent[g]
  BY <1>1, <1>3
<1>5. Tree(new, av, pms, L)
  <2>1. OneLevelDown(new, L)
    BY <1>0, <1>4 DEF OneLevelDown
  <2>2. OneParent(new, L)
    BY <1>0, <1>4 DEF OneParent
  <2>3. \A q \in pms : q \in Frames /\ L[q] \in 1..3
    BY <1>0 DEF LevelsFit
  <2>4. Rooted(new, pms)
    BY <1>0, <1>4, <2>3 DEF Rooted
  <2> QED BY <1>0, <1>3, <2>1, <2>2, <2>4 DEF Tree
<1>6. ASSUME NEW q \in pms, NEW w \in Virts
      PROVE  Pt(new, q, w) = Pt(ent, q, w)
  <2>1. /\ q \in Frames /\ L[q] = 1
        /\ Pdpt(ent, q, w) # 0 => Pdpt(ent, q, w) \in Frames /\ L[Pdpt(ent, q, w)] = 2
        /\ Pd(ent, q, w) # 0 => Pd(ent, q, w) \in Frames /\ L[Pd(ent, q, w)] = 3
    BY WalkLevels
  <2>2. Pdpt(new, q, w) = Pdpt(ent, q, w)
    BY <1>4, <2>1 DEF Pdpt
  <2>3. Pd(new, q, w) = Pd(ent, q, w)
    BY <1>4, <2>1, <2>2 DEF Pd, Down
  <2>4. CASE Pd(ent, q, w) = 0
    BY <2>3, <2>4 DEF Pt, Down
  <2>5. CASE Pd(ent, q, w) # 0
    <3>1. new[Pd(ent, q, w)] = ent[Pd(ent, q, w)]
      BY <1>4, <2>1, <2>5
    <3>2. Pt(new, q, w) = new[Pd(ent, q, w)][w[3]].to /\ Pt(ent, q, w) = ent[Pd(ent, q, w)][w[3]].to
      BY <2>3, <2>5 DEF Pt, Down
    <3> QED BY <3>1, <3>2
  <2> QED BY <2>4, <2>5
<1>7. ASSUME NEW q \in pms, NEW w \in Virts
      PROVE  \/ Trans(new, q, w) = Trans(ent, q, w) /\ ~(q = pm /\ w = virt)
             \/ /\ w = virt /\ (q = pm \/ virt[1] \in KernelIndices)
                /\ Trans(ent, q, w) = Trans(ent, pm, virt)
                /\ Trans(new, q, w) = e
  <2>0. w \in [1..4 -> Indices] /\ virt \in [1..4 -> Indices] /\ w[4] \in Indices
    BY ConstantFacts
  <2>1. CASE Pt(ent, q, w) = t /\ w[4] = virt[4]
    <3>1. /\ virt[3] = w[3] /\ virt[2] = w[2] /\ virt[1] = w[1]
          /\ pm = q \/ virt[1] \in KernelIndices
      BY <1>1, <2>1, WalksMeet DEF t
    <3>2. w = virt
      BY <2>0, <2>1, <3>1
    <3>3. Trans(ent, q, w) = ent[t][virt[4]] /\ Trans(ent, pm, virt) = ent[t][virt[4]]
      BY <1>1, <2>1 DEF Trans, t
    <3>4. Trans(new, q, w) = new[t][virt[4]]
      BY <1>1, <1>6, <2>1 DEF Trans
    <3> QED BY <1>3, <3>1, <3>2, <3>3, <3>4
  <2>2. CASE ~(Pt(ent, q, w) = t /\ w[4] = virt[4])
    <3>1. ~(q = pm /\ w = virt)
      BY <2>2 DEF t
    <3>2. CASE Pt(ent, q, w) = 0
      BY <1>6, <3>1, <3>2 DEF Trans
    <3>3. CASE Pt(ent, q, w) # 0
      <4>1. Pt(ent, q, w) \in Frames
        BY <3>3, WalkLevels
      <4>2. new[Pt(ent, q, w)][w[4]] = ent[Pt(ent, q, w)][w[4]]
        BY <1>3, <2>0, <2>2, <4>1
      <4> QED BY <1>6, <3>1, <3>3, <4>2 DEF Trans
    <3> QED BY <3>2, <3>3
  <2> QED BY <2>1, <2>2
<1> QED BY <1>5, <1>7

\* What vmm_new_pagemap finds when it writes a PML4 to frame f, and what it leaves.
CanAdd(ent, av, pms, L, f, src, new) ==
  /\ Tree(ent, av, pms, L)
  /\ f \in av \cup {0} /\ src \in pms
  /\ new = WithTable(ent, f, KernelHalf(ent, src))

HasAdded(ent, av, pms, L, f, src, new) ==
  /\ Tree(new, av \ {f}, pms \cup {f}, WithLevel(L, f, 1))
  /\ \A q \in pms \ {f}, v \in Virts : Trans(new, q, v) = Trans(ent, q, v)
  /\ \A v \in Virts : Trans(new, f, v) = IF v[1] \in KernelIndices THEN Trans(ent, src, v) ELSE None

\* vmm_new_pagemap: a PML4 in a frame that was free, or in frame 0 again; every
\* other pagemap keeps what it maps.
LEMMA NewPml4 ==
  ASSUME NEW ent, NEW av, NEW pms, NEW L, NEW f, NEW src, NEW new,
         CanAdd(ent, av, pms, L, f, src, new)
  PROVE  HasAdded(ent, av, pms, L, f, src, new)
<1> DEFINE M == WithLevel(L, f, 1)
           half == KernelHalf(ent, src)
<1>0. /\ ent \in [Frames -> [Indices -> Entries]] /\ LevelsFit(av, pms, L)
      /\ OneLevelDown(ent, L) /\ OneParent(ent, L) /\ Rooted(ent, pms)
      /\ f \in av \cup {0} /\ src \in pms /\ new = WithTable(ent, f, KernelHalf(ent, src))
      /\ Tree(ent, av, pms, L)
  BY DEF CanAdd, Tree
<1>1. /\ f \in Frames /\ L[f] \in {0, 1} /\ L \in [Frames -> 0..4]
      /\ src \in Frames /\ L[src] = 1 /\ pms \subseteq Frames
  BY <1>0, ConstantFacts DEF LevelsFit
<1>2. half \in [Indices -> Entries] /\ None.to = 0
  <2>1. None \in Entries
    BY ConstantFacts
  <2>2. None.to = 0
    BY DEF None
  <2> QED BY <1>0, <1>1, <2>1, <2>2 DEF KernelHalf
<1>3. \A i \in Indices : half[i] = IF i \in KernelIndices THEN ent[src][i] ELSE None
  BY DEF KernelHalf
<1>4. /\ new \in [Frames -> [Indices -> Entries]]
      /\ new[f] = half
      /\ \A g \in Frames \ {f} : new[g] = ent[g]
  <2> HIDE DEF half
  <2> QED BY <1>0, <1>1, <1>2 DEF half, WithTable
<1> HIDE DEF half
<1>5. M \in [Frames -> 0..4] /\ M[f] = 1 /\ \A g \in Frames \ {f} : M[g] = L[g]
  BY <1>1 DEF WithLevel
<1>6. \A g \in Frames : L[g] # 0 /\ L[g] # 1 => g # f /\ M[g] = L[g] /\ new[g] = ent[g]
  BY <1>1, <1>4, <1>5
<1> HIDE DEF M
<1>7. LevelsFit(av \ {f}, pms \cup {f}, M)
  BY <1>0, <1>1, <1>5 DEF LevelsFit
\* Every entry of the new tables is one of the old ones.
<1>8. ASSUME NEW g \in Frames, NEW i \in Indices, M[g] \in 1..3, new[g][i].to # 0
      PROVE  \E h \in Frames :
               /\ L[h] = M[g] /\ new[g][i] = ent[h][i]
               /\ g = h \/ (M[g] = 1 /\ i \in KernelIndices)
  <2>1. CASE g = f
    <3>1. i \in KernelIndices /\ new[g][i] = ent[src][i]
      BY <1>2, <1>3, <1>4, <1>8, <2>1
    <3> QED BY <1>1, <1>5, <2>1, <3>1
  <2>2. CASE g # f
    BY <1>4, <1>5, <2>2
  <2> QED BY <2>1, <2>2
<1>9. OneLevelDown(new, M)
  <2>1. SUFFICES ASSUME NEW g \in Frames, NEW i \in Indices, M[g] \in 1..3, new[g][i].to # 0
                 PROVE  new[g][i].to \in Frames /\ M[new[g][i].to] = M[g] + 1
    BY DEF OneLevelDown
  <2>2. PICK h \in Frames : L[h] = M[g] /\ new[g][i] = ent[h][i]
    BY <1>8, <2>1
  <2>3. new[g][i].to \in Frames /\ L[new[g][i].to] = M[g] + 1
    BY <1>0, <2>1, <2>2 DEF OneLevelDown
  <2>4. M[g] + 1 # 0 /\ M[g] + 1 # 1
    BY <2>1
  <2> QED BY <1>6, <2>3, <2>4
<1>10. OneParent(new, M)
  <2>1. SUFFICES ASSUME NEW g \in Frames, NEW h \in Frames, NEW i \in Indices, NEW j \in Indices,
                        M[g] \in 1..3, M[h] \in 1..3, new[g][i].to # 0, new[g][i].to = new[h][j].to
                 PROVE  i = j /\ (g = h \/ (M[g] = 1 /\ i \in KernelIndices))
    BY DEF OneParent
  <2>2. PICK x \in Frames : /\ L[x] = M[g] /\ new[g][i] = ent[x][i]
                            /\ g = x \/ (M[g] = 1 /\ i \in KernelIndices)
    BY <1>8, <2>1
  <2>3. PICK y \in Frames : /\ L[y] = M[h] /\ new[h][j] = ent[y][j]
                            /\ h = y \/ (M[h] = 1 /\ j \in KernelIndices)
    BY <1>8, <2>1
  <2>4. i = j /\ (x = y \/ (L[x] = 1 /\ i \in KernelIndices))
    BY <1>0, <2>1, <2>2, <2>3 DEF OneParent
  <2> QED BY <2>2, <2>3, <2>4
<1>11. Rooted(new, pms \cup {f})
  <2>1. Min(KernelIndices) \in KernelIndices /\ Min(KernelIndices) \in Indices
    BY ConstantFacts
  <2>2. new[f][Min(KernelIndices)] = ent[src][Min(KernelIndices)]
    BY <1>3, <1>4, <2>1
  <2> QED BY <1>0, <1>1, <1>4, <2>2 DEF Rooted
<1>12. ASSUME NEW q \in pms, NEW x \in Frames, NEW v \in Virts, new[x][v[1]] = ent[q][v[1]]
       PROVE  Trans(new, x, v) = Trans(ent, q, v)
  <2>1. /\ Pdpt(ent, q, v) # 0 => Pdpt(ent, q, v) \in Frames /\ L[Pdpt(ent, q, v)] = 2
        /\ Pd(ent, q, v) # 0 => Pd(ent, q, v) \in Frames /\ L[Pd(ent, q, v)] = 3
        /\ Pt(ent, q, v) # 0 => Pt(ent, q, v) \in Frames /\ L[Pt(ent, q, v)] = 4
    BY <1>0, WalkLevels
  <2>2. Pdpt(new, x, v) = Pdpt(ent, q, v)
    BY <1>12 DEF Pdpt
  <2>3. Pd(new, x, v) = Pd(ent, q, v)
    BY <1>6, <2>1, <2>2 DEF Pd, Down
  <2>4. Pt(new, x, v) = Pt(ent, q, v)
    BY <1>6, <2>1, <2>3 DEF Pt, Down
  <2> QED BY <1>6, <2>1, <2>4 DEF Trans
<1>13. \A q \in pms \ {f}, v \in Virts : Trans(new, q, v) = Trans(ent, q, v)
  BY <1>0, <1>1, <1>4, <1>12
<1>14. ASSUME NEW v \in Virts
       PROVE  Trans(new, f, v) = IF v[1] \in KernelIndices THEN Trans(ent, src, v) ELSE None
  <2>0. v[1] \in Indices
    BY ConstantFacts
  <2>1. CASE v[1] \in KernelIndices
    <3>1. new[f][v[1]] = ent[src][v[1]]
      BY <1>3, <1>4, <2>0, <2>1
    <3> QED BY <1>0, <1>1, <1>12, <2>1, <3>1
  <2>2. CASE v[1] \notin KernelIndices
    <3>1. Pdpt(new, f, v) = 0
      BY <1>2, <1>3, <1>4, <2>0, <2>2 DEF Pdpt
    <3> QED BY <2>2, <3>1 DEF Trans, Pt, Pd, Down
  <2> QED BY <2>1, <2>2
<1> QED BY <1>4, <1>7, <1>9, <1>10, <1>11, <1>13, <1>14 DEF Tree, M, HasAdded

-----------------------------------------------------------------------------
(***************************************************************************)
(* vmm_map's three calls of get_or_create.                                 *)
(***************************************************************************)

WalkState == [avail : SUBSET Frames, entries : [Frames -> [Indices -> Entries]], table : Frames]

\* The tree r.entries with levels L has become s.entries with levels M: no table
\* and no entry of a table has gone, nothing has been mapped or unmapped.
GrownTo(r, L, s, M, pms) ==
  /\ s \in WalkState
  /\ Tree(s.entries, s.avail, pms, M)
  /\ \A pm \in pms, v \in Virts : Trans(s.entries, pm, v) = Trans(r.entries, pm, v)
  /\ \A g \in Frames : L[g] # 0 => M[g] = L[g]
  /\ \A g \in Frames, j \in Indices :
       L[g] # 0 /\ r.entries[g][j].to # 0 => s.entries[g][j] = r.entries[g][j]

\* One call of get_or_create.
LEMMA GetOrCreateGrows ==
  ASSUME NEW r \in WalkState, NEW pms, NEW L, Tree(r.entries, r.avail, pms, L),
         NEW virt \in Virts, NEW level \in 1..3, NEW user \in BOOLEAN,
         r.table # 0 \/ level = 1, L[r.table] = level,
         NEW s, s = GetOrCreate(r, virt, level, user)
  PROVE  \E M : /\ GrownTo(r, L, s, M, pms)
                /\ s.table # 0 => M[s.table] = level + 1 /\ s.entries[r.table][virt[level]].to = s.table
<1> DEFINE t == r.table
           i == virt[level]
           f == Min(r.avail)
           n == level + 1
           e == [to |-> f, user |-> user]
           grown == WithChild(r.entries, t, i, f, e)
<1>0. /\ t \in Frames /\ r.avail \in SUBSET Frames /\ r.entries \in [Frames -> [Indices -> Entries]]
      /\ L \in [Frames -> 0..4] /\ ~(r.table = 0 /\ level > 1)
  BY DEF WalkState, Tree, LevelsFit
<1>1. i \in Indices
  BY ConstantFacts
<1>2. CASE r.entries[t][i].to # 0
  <2>1. s = [r EXCEPT !.table = r.entries[t][i].to]
    BY <1>0, <1>2 DEF GetOrCreate
  <2>2. r.entries[t][i].to \in Frames /\ L[r.entries[t][i].to] = level + 1
    BY <1>0, <1>1, <1>2 DEF Tree, OneLevelDown
  <2>3. s \in WalkState /\ s.entries = r.entries /\ s.avail = r.avail /\ s.table = r.entries[t][i].to
    BY <2>1, <2>2 DEF WalkState
  <2> QED BY <2>2, <2>3 DEF GrownTo
<1>3. CASE r.entries[t][i].to = 0 /\ r.avail # {}
  <2>1. f \in r.avail /\ f \in Frames /\ f # 0 /\ L[f] = 0
    <3>1. r.avail \in SUBSET Nat
      BY <1>0, ConstantFacts
    <3>2. f \in r.avail
      BY <1>3, <3>1, MinIsMember
    <3> QED BY <1>0, <3>2, ConstantFacts DEF Tree, LevelsFit
  <2>2. s = [avail |-> r.avail \ {f}, entries |-> grown, table |-> f]
    BY <1>0, <1>3 DEF GetOrCreate, WithChild
  <2>3. s.avail = r.avail \ {f} /\ s.entries = grown /\ s.table = f
    BY <2>2
  <2> HIDE DEF f
  <2>4. /\ Tree(grown, r.avail \ {f}, pms, WithLevel(L, f, n))
        /\ \A pm \in pms, v \in Virts : Trans(grown, pm, v) = Trans(r.entries, pm, v)
        /\ \A g \in Frames \ {f}, j \in Indices : r.entries[g][j].to # 0 => grown[g][j] = r.entries[g][j]
        /\ grown[t][i].to = f
    <3> DEFINE E == r.entries
               A == r.avail
    <3>1. n \in 2..4 /\ L[t] = n - 1 /\ t \in Frames /\ E[t][i].to = 0 /\ f \in A /\ Tree(E, A, pms, L)
      BY <1>0, <1>3, <2>1
    <3>2. grown = WithChild(E, t, i, f, e)
      OBVIOUS
    <3>0. e \in Entries /\ e.to = f
      BY <2>1 DEF Entries
    <3> HIDE DEF grown, i, t, E, A, e, n
    <3>3. HasGrown(E, A, pms, L, t, n, i, f, e, grown)
      BY <1>1, <3>0, <3>1, <3>2, Grow DEF CanGrow
    <3> QED BY <3>3 DEF E, A, HasGrown
  <2>5. s \in WalkState
    <3>1. grown \in [Frames -> [Indices -> Entries]]
      BY <2>4 DEF Tree
    <3> HIDE DEF grown
    <3> QED BY <1>0, <2>1, <2>2, <3>1 DEF WalkState
  <2> HIDE DEF grown, i
  <2> DEFINE M == WithLevel(L, f, n)
  <2>6. M[f] = level + 1 /\ \A g \in Frames : L[g] # 0 => g # f /\ M[g] = L[g]
    BY <1>0, <2>1 DEF WithLevel
  <2> HIDE DEF M
  <2>7. GrownTo(r, L, s, M, pms)
    BY <2>3, <2>4, <2>5, <2>6 DEF GrownTo, M
  <2>8. M[s.table] = level + 1 /\ s.entries[r.table][virt[level]].to = s.table
    BY <2>3, <2>4, <2>6 DEF i
  <2> QED BY <2>7, <2>8
<1>4. CASE r.entries[t][i].to = 0 /\ r.avail = {}
  <2>1. s = [r EXCEPT !.table = 0]
    BY <1>0, <1>4 DEF GetOrCreate
  <2>2. s \in WalkState /\ s.entries = r.entries /\ s.avail = r.avail /\ s.table = 0
    BY <2>1, ConstantFacts DEF WalkState
  <2> QED BY <2>2 DEF GrownTo
<1> QED BY <1>2, <1>3, <1>4

\* The three calls together.  With a failure on the way the tables made so far stay;
\* else the table is the page table of virt.
LEMMA TablesGrow ==
  ASSUME NEW L, Tree(entries, avail, pagemaps, L),
         NEW pm \in pagemaps, NEW virt \in Virts, NEW user \in BOOLEAN,
         NEW r, r = Tables(pm, virt, user)
  PROVE  \E M : /\ r \in WalkState
                /\ Tree(r.entries, r.avail, pagemaps, M)
                /\ \A q \in pagemaps, v \in Virts : Trans(r.entries, q, v) = Trans(entries, q, v)
                /\ r.table # 0 => r.table = Pt(r.entries, pm, virt)
<1> DEFINE r0 == [avail |-> avail, entries |-> entries, table |-> pm]
           r1 == GetOrCreate(r0, virt, 1, user)
           r2 == GetOrCreate(r1, virt, 2, user)
           r3 == GetOrCreate(r2, virt, 3, user)
<1>1. r = r3
  BY DEF Tables
<1>2. /\ r0 \in WalkState /\ r0.table = pm /\ r0.entries = entries /\ r0.avail = avail
      /\ L[r0.table] = 1
  BY DEF Tree, LevelsFit, WalkState
<1>3. virt[1] \in Indices /\ virt[2] \in Indices /\ virt[3] \in Indices
  BY ConstantFacts
<1> HIDE DEF r0
<1>4. PICK M1 : /\ GrownTo(r0, L, r1, M1, pagemaps)
                /\ r1.table # 0 => M1[r1.table] = 1 + 1 /\ r1.entries[pm][virt[1]].to = r1.table
  BY <1>2, GetOrCreateGrows
<1> HIDE DEF r1
<1>5. CASE r1.table = 0
  <2>1. r2 = r1
    BY <1>5 DEF GetOrCreate
  <2>2. r3 = r1
    BY <1>5, <2>1 DEF GetOrCreate
  <2> QED BY <1>1, <1>2, <1>4, <1>5, <2>2 DEF GrownTo
<1>6. CASE r1.table # 0
  <2>1. r1 \in WalkState /\ Tree(r1.entries, r1.avail, pagemaps, M1)
    BY <1>4 DEF GrownTo
  <2>2. PICK M2 : /\ GrownTo(r1, M1, r2, M2, pagemaps)
                  /\ r2.table # 0 => M2[r2.table] = 2 + 1 /\ r2.entries[r1.table][virt[2]].to = r2.table
    <3>1. M1[r1.table] = 2
      BY <1>4, <1>6
    <3> QED BY <1>6, <2>1, <3>1, GetOrCreateGrows
  <2> HIDE DEF r2
  <2>3. CASE r2.table = 0
    <3>1. r3 = r2
      BY <2>3 DEF GetOrCreate
    <3> QED BY <1>1, <1>2, <1>4, <2>2, <2>3, <3>1 DEF GrownTo
  <2>4. CASE r2.table # 0
    <3>1. r2 \in WalkState /\ Tree(r2.entries, r2.avail, pagemaps, M2)
      BY <2>2 DEF GrownTo
    <3>2. PICK M3 : /\ GrownTo(r2, M2, r3, M3, pagemaps)
                    /\ r3.table # 0 => M3[r3.table] = 3 + 1 /\ r3.entries[r2.table][virt[3]].to = r3.table
      <4>1. M2[r2.table] = 3
        BY <2>2, <2>4
      <4> QED BY <2>4, <3>1, <4>1, GetOrCreateGrows
    <3> HIDE DEF r3
    <3>3. \A q \in pagemaps, v \in Virts : Trans(r3.entries, q, v) = Trans(entries, q, v)
      BY <1>2, <1>4, <2>2, <3>2 DEF GrownTo
    <3>4. /\ pm \in Frames /\ r1.table \in Frames /\ r2.table \in Frames
          /\ L[pm] = 1 /\ M1[pm] = 1 /\ M2[pm] = 1 /\ M1[r1.table] = 2 /\ M2[r1.table] = 2 /\ M2[r2.table] = 3
      <4>1. pm \in Frames /\ r1.table \in Frames /\ r2.table \in Frames
        BY <1>2, <2>1, <3>1 DEF WalkState
      <4>2. L[pm] = 1 /\ M1[r1.table] = 2 /\ M2[r2.table] = 3
        BY <1>2, <1>4, <1>6, <2>2, <2>4
      <4>3. M1[pm] = 1
        BY <1>4, <4>1, <4>2 DEF GrownTo
      <4>4. M2[pm] = 1 /\ M2[r1.table] = 2
        BY <2>2, <4>1, <4>2, <4>3 DEF GrownTo
      <4> QED BY <4>1, <4>2, <4>3, <4>4
    <3>5. r2.entries[pm][virt[1]].to = r1.table
      BY <1>3, <1>4, <1>6, <2>2, <3>4 DEF GrownTo
    <3>6. r3.entries[pm][virt[1]].to = r1.table
      BY <1>3, <1>6, <3>2, <3>4, <3>5 DEF GrownTo
    <3>7. r3.entries[r1.table][virt[2]].to = r2.table
      BY <1>3, <2>2, <2>4, <3>2, <3>4 DEF GrownTo
    <3>8. r3.table # 0 => r3.table = Pt(r3.entries, pm, virt)
      BY <1>6, <2>4, <3>2, <3>6, <3>7 DEF Pt, Pd, Pdpt, Down
    <3> QED BY <1>1, <3>2, <3>3, <3>8 DEF GrownTo
  <2> QED BY <2>3, <2>4
<1> QED BY <1>5, <1>6

-----------------------------------------------------------------------------
(***************************************************************************)
(* The invariant and the operations.                                       *)
(***************************************************************************)

Inv ==
  /\ TypeOK
  /\ TlbCoherent
  /\ \E L : Tree(entries, avail, pagemaps, L)

\* The invariant holds at the start.
LEMMA InitInv == Init => Inv
<1> SUFFICES ASSUME Init PROVE Inv
  OBVIOUS
<1> DEFINE L == [f \in Frames |-> IF f = 0 \/ f = BOOT THEN 1 ELSE IF f = BOOT_PDPT THEN 2 ELSE 0]
           root == [to |-> BOOT_PDPT, user |-> FALSE]
           k == Min(KernelIndices)
<1>0. /\ k \in KernelIndices /\ k \in Indices /\ None \in Entries /\ None.to = 0 /\ root \in Entries
      /\ root.to = BOOT_PDPT
      /\ EmptyTable \in [Indices -> Entries] /\ \A i \in Indices : EmptyTable[i] = None
      /\ 0 \in Frames /\ BOOT \in Frames /\ BOOT_PDPT \in Frames /\ BOOT # 0 /\ BOOT_PDPT # 0 /\ BOOT_PDPT # BOOT
  <2>1. None.to = 0 /\ root.to = BOOT_PDPT /\ \A i \in Indices : EmptyTable[i] = None
    BY DEF None, EmptyTable
  <2>2. root \in Entries
    BY ConstantFacts DEF Entries
  <2> HIDE DEF root
  <2> QED BY <2>1, <2>2, ConstantFacts
<1>1. PICK n \in 0..MaxFrames : avail = 3 .. (n + 2)
  BY DEF Init
<1>2. avail \in SUBSET Frames /\ \A f \in avail : f # 0 /\ f # BOOT /\ f # BOOT_PDPT
  BY <1>1, VmmAssumption DEF Frames, BOOT, BOOT_PDPT
<1>3. entries = [f \in Frames |-> IF f # BOOT THEN EmptyTable ELSE [i \in Indices |-> IF i = k THEN root ELSE None]]
  BY DEF Init
<1> HIDE DEF root, k
<1>4. /\ entries \in [Frames -> [Indices -> Entries]]
      /\ \A f \in Frames, i \in Indices : entries[f][i] = IF f = BOOT /\ i = k THEN root ELSE None
  BY <1>0, <1>3
<1>5. /\ L \in [Frames -> 0..4] /\ L[BOOT] = 1 /\ L[BOOT_PDPT] = 2
      /\ \A f \in Frames : L[f] = 1 <=> f \in {BOOT, 0}
      /\ \A f \in avail : L[f] = 0
  BY <1>0, <1>2
<1> HIDE DEF L
<1>6. pagemaps = {BOOT} /\ cr3 = BOOT /\ tlb = [v \in Virts |-> None]
  BY DEF Init
<1>7. Tree(entries, avail, pagemaps, L)
  <2>1. LevelsFit(avail, pagemaps, L)
    BY <1>0, <1>2, <1>5, <1>6 DEF LevelsFit
  <2>2. OneLevelDown(entries, L)
    BY <1>0, <1>4, <1>5 DEF OneLevelDown
  <2>3. OneParent(entries, L)
    BY <1>0, <1>4, <1>5 DEF OneParent
  <2>4. Rooted(entries, pagemaps)
    BY <1>0, <1>4, <1>6 DEF Rooted, root, k
  <2> QED BY <1>4, <2>1, <2>2, <2>3, <2>4 DEF Tree
<1>8. TypeOK
  BY <1>0, <1>2, <1>4, <1>6 DEF TypeOK
<1>9. TlbCoherent
  BY <1>6 DEF TlbCoherent
<1> QED BY <1>7, <1>8, <1>9 DEF Inv

\* The effect of each operation on the translations and the tree: of vmm_map,
LEMMA MapStep ==
  ASSUME Inv, NEW pm \in pagemaps, NEW virt \in Virts, CallerMaps(pm, virt)
  PROVE  /\ UNCHANGED <<pagemaps, cr3, tlb>>
         /\ \E L : Tree(entries', avail', pagemaps, L)
         /\ \A q \in pagemaps, w \in Virts :
              \/ Trans(entries', q, w) = Trans(entries, q, w)
              \/ /\ w = virt /\ (q = pm \/ virt[1] \in KernelIndices)
                 /\ Trans(entries, q, w) \in {None, Trans(entries', q, w)}
                 /\ Trans(entries', q, w) = Trans(entries', pm, virt)
<1> DEFINE user == virt[1] \notin KernelIndices
<1>1. PICK phys \in Phys : /\ Translation(pm, virt) \in {None, [to |-> phys, user |-> user]}
                           /\ vmm_map(pm, virt, phys, user)
  BY DEF CallerMaps
<1> DEFINE e == [to |-> phys, user |-> user]
           r == Tables(pm, virt, user)
<1>2. /\ UNCHANGED <<pagemaps, cr3, tlb>>
      /\ avail' = r.avail
      /\ entries' = IF r.table = 0 THEN r.entries ELSE [r.entries EXCEPT ![r.table][virt[4]] = e]
  BY <1>1 DEF vmm_map
<1>3. e \in Entries /\ user \in BOOLEAN
  BY DEF Entries
<1>4. Trans(entries, pm, virt) \in {None, e}
  BY <1>1, WalkIs
<1>5. PICK L : Tree(entries, avail, pagemaps, L)
  BY DEF Inv
<1>6. PICK M : /\ r \in WalkState
               /\ Tree(r.entries, r.avail, pagemaps, M)
               /\ \A q \in pagemaps, v \in Virts : Trans(r.entries, q, v) = Trans(entries, q, v)
               /\ r.table # 0 => r.table = Pt(r.entries, pm, virt)
  <2> HIDE DEF user
  <2> QED BY <1>3, <1>5, TablesGrow
<1> HIDE DEF r, e
<1>7. CASE r.table = 0
  <2>1. entries' = r.entries
    BY <1>2, <1>7
  <2> QED BY <1>2, <1>6, <2>1
<1>8. CASE r.table # 0
  <2>1. entries' = WithEntry(r.entries, Pt(r.entries, pm, virt), virt[4], e) /\ Pt(r.entries, pm, virt) # 0
    BY <1>2, <1>6, <1>8 DEF WithEntry
  <2>2. /\ Tree(entries', r.avail, pagemaps, M)
        /\ \A q \in pagemaps, w \in Virts :
              \/ Trans(entries', q, w) = Trans(r.entries, q, w) /\ ~(q = pm /\ w = virt)
              \/ /\ w = virt /\ (q = pm \/ virt[1] \in KernelIndices)
                 /\ Trans(r.entries, q, w) = Trans(r.entries, pm, virt)
                 /\ Trans(entries', q, w) = e
    BY <1>3, <1>6, <2>1, WriteLeaf
  <2>3. Trans(entries', pm, virt) = e
    BY <2>2
  <2> QED BY <1>2, <1>4, <1>6, <2>2, <2>3
<1> QED BY <1>7, <1>8

\* of vmm_unmap,
LEMMA UnmapStep ==
  ASSUME Inv, NEW pm \in pagemaps, NEW virt \in Virts, vmm_unmap(pm, virt)
  PROVE  /\ UNCHANGED <<avail, pagemaps, cr3>> /\ tlb' = [tlb EXCEPT ![virt] = None]
         /\ \E L : Tree(entries', avail', pagemaps, L)
         /\ \A q \in pagemaps, w \in Virts :
              \/ Trans(entries', q, w) = Trans(entries, q, w)
              \/ /\ w = virt /\ (q = pm \/ virt[1] \in KernelIndices)
                 /\ Trans(entries', q, w) = None
         /\ Trans(entries', pm, virt) = None
<1>1. /\ UNCHANGED <<avail, pagemaps, cr3>> /\ tlb' = [tlb EXCEPT ![virt] = None]
      /\ Pt(entries, pm, virt) # 0
      /\ entries' = WithEntry(entries, Pt(entries, pm, virt), virt[4], None)
  BY WalkIs DEF vmm_unmap, WithEntry
<1>2. PICK L : Tree(entries, avail, pagemaps, L)
  BY DEF Inv
<1>3. None \in Entries
  BY ConstantFacts
<1>4. /\ Tree(entries', avail, pagemaps, L)
      /\ \A q \in pagemaps, w \in Virts :
            \/ Trans(entries', q, w) = Trans(entries, q, w) /\ ~(q = pm /\ w = virt)
            \/ /\ w = virt /\ (q = pm \/ virt[1] \in KernelIndices)
               /\ Trans(entries, q, w) = Trans(entries, pm, virt)
               /\ Trans(entries', q, w) = None
  BY <1>1, <1>2, <1>3, WriteLeaf
<1> QED BY <1>1, <1>4

\* and of vmm_new_pagemap, with a frame and without.
LEMMA NewStep ==
  ASSUME Inv, vmm_new_pagemap \/ NewPagemapAtZero
  PROVE  \E f \in Frames :
           /\ UNCHANGED <<cr3, tlb>> /\ pagemaps' = pagemaps \cup {f}
           /\ f \notin pagemaps \/ f = 0
           /\ avail' \in SUBSET avail
           /\ \E L : Tree(entries', avail', pagemaps', L)
           /\ \A q \in pagemaps \ {f}, v \in Virts : Trans(entries', q, v) = Trans(entries, q, v)
           /\ \A v \in Virts : Trans(entries', f, v) =
                IF v[1] \in KernelIndices THEN Trans(entries, cr3, v) ELSE None
<1>1. PICK L : Tree(entries, avail, pagemaps, L)
  BY DEF Inv
<1>2. avail \in SUBSET Nat /\ avail \in SUBSET Frames /\ cr3 \in pagemaps
  BY ConstantFacts DEF Inv, TypeOK
<1>3. PICK f \in avail \cup {0} :
        /\ UNCHANGED <<cr3, tlb>> /\ pagemaps' = pagemaps \cup {f} /\ avail' = avail \ {f}
        /\ entries' = [entries EXCEPT ![f] = CopiedHalf]
  <2>1. CASE vmm_new_pagemap
    <3>1. Min(avail) \in avail
      BY <1>2, <2>1, MinIsMember DEF vmm_new_pagemap
    <3> QED BY <2>1, <3>1 DEF vmm_new_pagemap
  <2>2. CASE NewPagemapAtZero
    BY <2>2 DEF NewPagemapAtZero
  <2> QED BY <2>1, <2>2
<1>4. f \in Frames /\ (f \notin pagemaps \/ f = 0)
  BY <1>1, <1>2, <1>3, ConstantFacts DEF Tree, LevelsFit
<1>5. entries' = WithTable(entries, f, KernelHalf(entries, cr3))
  BY <1>3 DEF CopiedHalf, KernelHalf, WithTable
<1>6. HasAdded(entries, avail, pagemaps, L, f, cr3, entries')
  BY <1>1, <1>2, <1>3, <1>5, NewPml4 DEF CanAdd
<1> QED BY <1>3, <1>4, <1>6 DEF HasAdded

\* The types of the entries follow from the tree.
LEMMA TreeTypes ==
  ASSUME NEW ent, NEW av, NEW pms, NEW L, Tree(ent, av, pms, L)
  PROVE  /\ ent \in [Frames -> [Indices -> Entries]] /\ av \in SUBSET Frames /\ pms \in SUBSET Frames
         /\ \A pm \in pms, v \in Virts : Trans(ent, pm, v) \in Entries
BY WalkLevels DEF Tree, LevelsFit

\* Every step keeps the invariant.
LEMMA NextInv == Inv /\ [Next]_vars => Inv'
<1> SUFFICES ASSUME Inv, [Next]_vars PROVE Inv'
  OBVIOUS
<1>0. /\ TypeOK
      /\ \A v \in Virts : cr3 # 0 /\ tlb[v] # None => tlb[v] = Trans(entries, cr3, v)
      /\ None \in Entries
  BY WalkIs, ConstantFacts DEF Inv, TlbCoherent
\* What is left to show of a step.
<1>1. ASSUME NEW L, Tree(entries', avail', pagemaps', L),
             cr3' \in pagemaps', tlb' \in [Virts -> Entries],
             \A v \in Virts : cr3' # 0 /\ tlb'[v] # None => tlb'[v] = Trans(entries', cr3', v)
      PROVE  Inv'
  <2>1. TypeOK'
    BY <1>1, TreeTypes DEF TypeOK
  <2>2. \A v \in Virts : Translation(cr3, v)' = Trans(entries', cr3', v)
    <3>1. ASSUME NEW v \in Virts
          PROVE  TableAt(cr3, v, 4)' = Pt(entries', cr3', v)
      <4> DEFINE pdpt == Pdpt(entries', cr3', v)
                 pd == Pd(entries', cr3', v)
                 pt == Pt(entries', cr3', v)
                 Level(l) == CASE l = 1 -> cr3' [] l = 2 -> pdpt [] l = 3 -> pd [] l = 4 -> pt
      <4>1. \A l : TableAt(cr3, v, l)' = Level(l)
        BY Zenon DEF TableAt, Pt, Pd, Pdpt, Down
      <4> HIDE DEF pdpt, pd, pt
      <4>2. Level(4) = pt
        OBVIOUS
      <4> HIDE DEF Level
      <4> QED BY <4>1, <4>2, Zenon DEF pt
    <3> QED BY <3>1 DEF Translation, Trans
  <2>3. TlbCoherent'
    BY <1>1, <2>2 DEF TlbCoherent
  <2> QED BY <1>1, <2>1, <2>3 DEF Inv
<1>2. ASSUME NEW pm \in pagemaps, NEW virt \in Virts, CallerMaps(pm, virt)
      PROVE  Inv'
  <2>1. PICK L : Tree(entries', avail', pagemaps, L)
    BY <1>2, MapStep
  <2>2. /\ UNCHANGED <<pagemaps, cr3, tlb>>
        /\ \A v \in Virts : \/ Trans(entries', cr3, v) = Trans(entries, cr3, v)
                            \/ Trans(entries, cr3, v) \in {None, Trans(entries', cr3, v)}
    BY <1>0, <1>2, MapStep DEF TypeOK
  <2>3. \A v \in Virts : cr3' # 0 /\ tlb'[v] # None => tlb'[v] = Trans(entries', cr3', v)
    BY <1>0, <2>2
  <2> QED BY <1>0, <1>1, <2>1, <2>2, <2>3 DEF TypeOK
<1>3. ASSUME NEW pm \in pagemaps, NEW virt \in Virts, vmm_unmap(pm, virt)
      PROVE  Inv'
  <2>1. PICK L : Tree(entries', avail', pagemaps, L)
    BY <1>3, UnmapStep
  <2>2. /\ UNCHANGED <<pagemaps, cr3>> /\ tlb' = [tlb EXCEPT ![virt] = None]
        /\ \A v \in Virts : v # virt => Trans(entries', cr3, v) = Trans(entries, cr3, v)
    BY <1>0, <1>3, UnmapStep DEF TypeOK
  <2>3. tlb' \in [Virts -> Entries] /\ tlb'[virt] = None /\ \A v \in Virts : v # virt => tlb'[v] = tlb[v]
    BY <1>0, <2>2 DEF TypeOK
  <2>4. \A v \in Virts : cr3' # 0 /\ tlb'[v] # None => tlb'[v] = Trans(entries', cr3', v)
    BY <1>0, <2>2, <2>3
  <2> QED BY <1>0, <1>1, <2>1, <2>2, <2>3, <2>4 DEF TypeOK
<1>4. CASE vmm_new_pagemap \/ NewPagemapAtZero
  <2>1. PICK f \in Frames :
           /\ UNCHANGED <<cr3, tlb>> /\ pagemaps' = pagemaps \cup {f}
           /\ f \notin pagemaps \/ f = 0
           /\ \E L : Tree(entries', avail', pagemaps', L)
           /\ \A q \in pagemaps \ {f}, v \in Virts : Trans(entries', q, v) = Trans(entries, q, v)
    BY <1>4, NewStep
  <2>2. PICK L : Tree(entries', avail', pagemaps', L)
    BY <2>1
  <2>3. \A v \in Virts : cr3' # 0 /\ tlb'[v] # None => tlb'[v] = Trans(entries', cr3', v)
    BY <1>0, <2>1 DEF TypeOK
  <2> QED BY <1>0, <1>1, <2>1, <2>2, <2>3 DEF TypeOK
<1>5. ASSUME NEW pm \in pagemaps, vmm_switch(pm)
      PROVE  Inv'
  <2>1. /\ cr3' = pm /\ UNCHANGED <<avail, entries, pagemaps>>
        /\ tlb' \in [Virts -> Entries] /\ \A v \in Virts : tlb'[v] = None
    BY <1>0, <1>5 DEF vmm_switch
  <2> QED BY <1>1, <2>1 DEF Inv
<1>6. ASSUME NEW virt \in Virts, CpuAccess(virt)
      PROVE  Inv'
  <2>1. PICK L : Tree(entries, avail, pagemaps, L)
    BY DEF Inv
  <2>2. /\ UNCHANGED <<avail, entries, pagemaps, cr3>>
        /\ tlb' = [tlb EXCEPT ![virt] = Trans(entries, cr3, virt)]
        /\ Trans(entries, cr3, virt) \in Entries
    BY <1>0, <1>6, <2>1, WalkIs, TreeTypes DEF CpuAccess, TypeOK
  <2>3. /\ tlb' \in [Virts -> Entries] /\ tlb'[virt] = Trans(entries, cr3, virt)
        /\ \A v \in Virts : v # virt => tlb'[v] = tlb[v]
    BY <1>0, <2>2 DEF TypeOK
  <2>4. \A v \in Virts : cr3' # 0 /\ tlb'[v] # None => tlb'[v] = Trans(entries', cr3', v)
    BY <1>0, <2>2, <2>3
  <2> QED BY <1>0, <1>1, <2>1, <2>2, <2>3, <2>4 DEF TypeOK
<1>7. CASE UNCHANGED vars
  BY <1>0, <1>1, <1>7 DEF vars, Inv, TypeOK
<1> QED BY <1>2, <1>3, <1>4, <1>5, <1>6, <1>7 DEF Next

\* The invariant holds of every execution.
THEOREM VmmInvariant == Spec => []Inv
<1> QED BY InitInv, NextInv, PTL DEF Spec

-----------------------------------------------------------------------------
(***************************************************************************)
(* The theorems.                                                           *)
(***************************************************************************)

\* However often vmm_map runs, through whichever pagemaps and however it fails, two
\* walks meet in a table only at the same level and after the same indices, and no
\* table is a free frame or a PML4: no mapping can overwrite another's table.
THEOREM TablesAreDistinct == Spec => []TablesDistinct
<1>1. Inv => TablesDistinct
  <2> SUFFICES ASSUME Inv PROVE TablesDistinct
    OBVIOUS
  <2>1. PICK L : Tree(entries, avail, pagemaps, L)
    BY DEF Inv
  <2> SUFFICES ASSUME NEW pm \in pagemaps, NEW qm \in pagemaps, NEW v \in Virts, NEW w \in Virts,
                      NEW l \in 2..4, NEW m \in 2..4, TableAt(pm, v, l) # 0
               PROVE  /\ TableAt(pm, v, l) \notin avail \cup pagemaps
                      /\ TableAt(pm, v, l) = TableAt(qm, w, m) =>
                           /\ l = m /\ SubSeq(v, 1, l - 1) = SubSeq(w, 1, l - 1)
                           /\ pm = qm \/ v[1] \in KernelIndices
    BY DEF TablesDistinct, Inv
  <2>2. ASSUME NEW q \in pagemaps, NEW x \in Virts, NEW k \in 2..4, TableAt(q, x, k) # 0
        PROVE  TableAt(q, x, k) \in Frames /\ L[TableAt(q, x, k)] = k
    <3>1. /\ Pdpt(entries, q, x) # 0 => Pdpt(entries, q, x) \in Frames /\ L[Pdpt(entries, q, x)] = 2
          /\ Pd(entries, q, x) # 0 => Pd(entries, q, x) \in Frames /\ L[Pd(entries, q, x)] = 3
          /\ Pt(entries, q, x) # 0 => Pt(entries, q, x) \in Frames /\ L[Pt(entries, q, x)] = 4
      BY <2>1, WalkLevels
    <3>2. k = 2 \/ k = 3 \/ k = 4
      OBVIOUS
    <3> QED BY <2>2, <3>1, <3>2, WalkIs
  <2>3. TableAt(pm, v, l) \notin avail \cup pagemaps
    BY <2>1, <2>2 DEF Tree, LevelsFit
  <2>4. ASSUME TableAt(pm, v, l) = TableAt(qm, w, m)
        PROVE  /\ l = m /\ SubSeq(v, 1, l - 1) = SubSeq(w, 1, l - 1)
               /\ pm = qm \/ v[1] \in KernelIndices
    <3>1. l = m
      BY <2>2, <2>4
    <3>2. /\ \A k \in 1 .. (l - 1) : v[k] = w[k]
          /\ pm = qm \/ v[1] \in KernelIndices
      <4>1. /\ Pdpt(entries, pm, v) # 0 /\ Pdpt(entries, pm, v) = Pdpt(entries, qm, w) =>
                 v[1] = w[1] /\ (pm = qm \/ v[1] \in KernelIndices)
            /\ Pd(entries, pm, v) # 0 /\ Pd(entries, pm, v) = Pd(entries, qm, w) =>
                 v[2] = w[2] /\ Pdpt(entries, pm, v) # 0 /\ Pdpt(entries, pm, v) = Pdpt(entries, qm, w)
            /\ Pt(entries, pm, v) # 0 /\ Pt(entries, pm, v) = Pt(entries, qm, w) =>
                 v[3] = w[3] /\ Pd(entries, pm, v) # 0 /\ Pd(entries, pm, v) = Pd(entries, qm, w)
        BY <2>1, WalksMeet
      <4>2. CASE l = 2
        BY <2>4, <3>1, <4>1, <4>2, WalkIs
      <4>3. CASE l = 3
        BY <2>4, <3>1, <4>1, <4>3, WalkIs
      <4>4. CASE l = 4
        BY <2>4, <3>1, <4>1, <4>4, WalkIs
      <4> QED BY <4>2, <4>3, <4>4
    <3>3. SubSeq(v, 1, l - 1) = SubSeq(w, 1, l - 1)
      BY <3>2
    <3> QED BY <3>1, <3>2, <3>3
  <2> QED BY <2>3, <2>4
<1> QED BY <1>1, VmmInvariant, PTL

\* Every pagemap sees the same mappings below the PML4 entry the bootloader made,
\* whenever it was created and through whichever pagemap they were made.
THEOREM KernelHalfIsShared == Spec => []KernelHalfShared
<1>1. Inv => KernelHalfShared
  <2> SUFFICES ASSUME Inv, NEW pm \in pagemaps, NEW v \in Virts, v[1] = Min(KernelIndices)
               PROVE  Translation(pm, v) = Translation(BOOT, v)
    BY DEF KernelHalfShared
  <2>1. PICK L : Tree(entries, avail, pagemaps, L)
    BY DEF Inv
  <2>2. entries[pm][v[1]] = entries[BOOT][v[1]]
    BY <2>1 DEF Tree, Rooted
  <2>3. Pdpt(entries, pm, v) = Pdpt(entries, BOOT, v)
    BY <2>2 DEF Pdpt
  <2> QED BY <2>3, WalkIs DEF Trans, Pt, Pd
<1> QED BY <1>1, VmmInvariant, PTL

\* The CPU never uses a translation that vmm_map or vmm_unmap has changed, although
\* vmm_map flushes nothing.
THEOREM TlbIsCoherent == Spec => []TlbCoherent
<1>1. Inv => TlbCoherent
  BY DEF Inv
<1> QED BY <1>1, VmmInvariant, PTL

-----------------------------------------------------------------------------
(***************************************************************************)
(* Refinement: one function per pagemap.                                   *)
(***************************************************************************)

Space(ent, pms) == [pm \in pms |-> [v \in Virts |-> Trans(ent, pm, v)]]

\* The address space that a pagemap stands for.
LEMMA SpaceIs ==
  /\ [pm \in pagemaps |-> [v \in Virts |-> Translation(pm, v)]] = Space(entries, pagemaps)
  /\ [pm \in pagemaps |-> [v \in Virts |-> Translation(pm, v)]]' = Space(entries', pagemaps')
<1>1. [pm \in pagemaps |-> [v \in Virts |-> Translation(pm, v)]] = Space(entries, pagemaps)
  BY WalkIs DEF Space
<1>2. ASSUME NEW pm, NEW v
      PROVE  Translation(pm, v)' = Trans(entries', pm, v)
  BY WalkIs
<1>3. [pm \in pagemaps' |-> [v \in Virts |-> Translation(pm, v)']] = Space(entries', pagemaps')
  BY <1>2 DEF Space
<1> QED BY <1>1, <1>3

\* A step in which one page changes, alike in the pagemaps that share it.
LEMMA ChangeStep ==
  ASSUME NEW pm \in pagemaps, NEW virt \in Virts, UNCHANGED <<pagemaps, cr3>>,
         \A q \in pagemaps, w \in Virts :
           \/ Trans(entries', q, w) = Trans(entries, q, w)
           \/ /\ w = virt /\ (q = pm \/ virt[1] \in KernelIndices)
              /\ Trans(entries', q, w) = Trans(entries', pm, virt)
  PROVE  Promise!Change(virt)
<1> DEFINE before == Space(entries, pagemaps)
           after == Space(entries', pagemaps')
           changed == {q \in DOMAIN before : after[q] # before[q]}
<1>1. /\ DOMAIN before = pagemaps /\ DOMAIN after = pagemaps
      /\ \A q \in pagemaps : /\ before[q] = [v \in Virts |-> Trans(entries, q, v)]
                             /\ after[q] = [v \in Virts |-> Trans(entries', q, v)]
  BY DEF Space
<1> HIDE DEF before, after
<1>2. \A q \in changed : \A w \in Virts \ {virt} : after[q][w] = before[q][w]
  BY <1>1
<1>3. ASSUME NEW p \in changed
      PROVE  p \in pagemaps /\ after[p][virt] = Trans(entries', pm, virt) /\ (p = pm \/ virt[1] \in KernelIndices)
  <2>1. p \in pagemaps /\ after[p] # before[p]
    BY <1>1
  <2>2. PICK w \in Virts : Trans(entries', p, w) # Trans(entries, p, w)
    BY <1>1, <2>1
  <2> QED BY <1>1, <2>1, <2>2
<1>4. \A p, q \in changed : p = q \/ (virt \in {v \in Virts : v[1] \in KernelIndices} /\ after[p][virt] = after[q][virt])
  BY <1>3
<1> QED BY <1>1, <1>2, <1>4, SpaceIs DEF Promise!Change, before, after

\* Every step is a step of AddressSpaces, or none.
LEMMA StepIsSpaceStep == Inv /\ [Next]_vars => [Promise!Next]_Promise!spaceVars
<1> SUFFICES ASSUME Inv, [Next]_vars PROVE [Promise!Next]_Promise!spaceVars
  OBVIOUS
<1>0. cr3 \in pagemaps
  BY DEF Inv, TypeOK
<1>1. ASSUME NEW pm \in pagemaps, NEW virt \in Virts, CallerMaps(pm, virt)
      PROVE  Promise!Next
  <2>1. Promise!Change(virt)
    BY <1>1, MapStep, ChangeStep
  <2> QED BY <2>1 DEF Promise!Next
<1>2. ASSUME NEW pm \in pagemaps, NEW virt \in Virts, vmm_unmap(pm, virt)
      PROVE  Promise!Next
  <2>1. /\ UNCHANGED <<pagemaps, cr3>>
        /\ \A q \in pagemaps, w \in Virts :
             \/ Trans(entries', q, w) = Trans(entries, q, w)
             \/ /\ w = virt /\ (q = pm \/ virt[1] \in KernelIndices)
                /\ Trans(entries', q, w) = Trans(entries', pm, virt)
    BY <1>2, UnmapStep
  <2>2. Promise!Change(virt)
    BY <2>1, ChangeStep
  <2> QED BY <2>2 DEF Promise!Next
<1>3. CASE vmm_new_pagemap \/ NewPagemapAtZero
  <2>1. PICK f \in Frames :
           /\ UNCHANGED <<cr3, tlb>> /\ pagemaps' = pagemaps \cup {f}
           /\ f \notin pagemaps \/ f = 0
           /\ \A q \in pagemaps \ {f}, v \in Virts : Trans(entries', q, v) = Trans(entries, q, v)
           /\ \A v \in Virts : Trans(entries', f, v) =
                IF v[1] \in KernelIndices THEN Trans(entries, cr3, v) ELSE None
    BY <1>3, NewStep
  <2> DEFINE before == Space(entries, pagemaps)
             after == Space(entries', pagemaps')
             kernel == {v \in Virts : v[1] \in KernelIndices}
  <2>2. /\ DOMAIN before = pagemaps /\ DOMAIN after = pagemaps'
        /\ \A q \in pagemaps : before[q] = [v \in Virts |-> Trans(entries, q, v)]
        /\ \A q \in pagemaps' : after[q] = [v \in Virts |-> Trans(entries', q, v)]
    BY DEF Space
  <2> HIDE DEF before, after
  <2>3. f \in DOMAIN after /\ DOMAIN after = DOMAIN before \cup {f}
    BY <2>1, <2>2
  <2>4. \A q \in DOMAIN before \ {f} : after[q] = before[q]
    BY <2>1, <2>2
  <2>5. after[f] = [v \in Virts |-> IF v \in kernel THEN before[cr3][v] ELSE None]
    <3>1. after[f] = [v \in Virts |-> Trans(entries', f, v)]
      BY <2>1, <2>2
    <3>2. \A v \in Virts : Trans(entries', f, v) = IF v \in kernel THEN before[cr3][v] ELSE None
      BY <1>0, <2>1, <2>2
    <3> HIDE DEF kernel
    <3> QED BY <3>1, <3>2
  <2>6. Promise!New
    BY <2>1, <2>2, <2>3, <2>4, <2>5, SpaceIs DEF Promise!New, before, after
  <2> QED BY <2>6 DEF Promise!Next
<1>4. ASSUME NEW pm \in pagemaps, vmm_switch(pm)
      PROVE  Promise!Next
  <2>1. cr3' = pm /\ UNCHANGED <<entries, pagemaps>>
    BY <1>4 DEF vmm_switch
  <2>2. DOMAIN Space(entries, pagemaps) = pagemaps /\ Space(entries', pagemaps') = Space(entries, pagemaps)
    BY <2>1 DEF Space
  <2>3. Promise!Switch
    BY <2>1, <2>2, SpaceIs DEF Promise!Switch
  <2> QED BY <2>3 DEF Promise!Next
<1>5. CASE (\E virt \in Virts : CpuAccess(virt)) \/ UNCHANGED vars
  <2>1. UNCHANGED <<entries, pagemaps, cr3>>
    BY <1>5 DEF CpuAccess, vars
  <2> QED BY <2>1, SpaceIs DEF Promise!spaceVars
<1> QED BY <1>1, <1>2, <1>3, <1>4, <1>5 DEF Next

\* The four-level tables behave like one function per pagemap: vmm_map and vmm_unmap
\* change the page they are given and no other, alike in every pagemap that shares
\* it, also when vmm_map runs out of frames half-way; vmm_new_pagemap begins with
\* the kernel's half of the current pagemap and nothing else.
THEOREM TablesAreSpaces == Spec => ImplementsAddressSpaces
<1> QED BY StepIsSpaceStep, VmmInvariant, PTL DEF Spec, ImplementsAddressSpaces, Promise!Spec
=============================================================================
