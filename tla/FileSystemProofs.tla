-------------------------- MODULE FileSystemProofs --------------------------
(***************************************************************************)
(* TLAPS proofs about FileSystem, for every set of archives that tar can   *)
(* have made, every set of lookups and every number of vnodes.             *)
(***************************************************************************)
EXTENDS FileSystem, Lemmas, FiniteSetTheorems

-----------------------------------------------------------------------------
(***************************************************************************)
(* The inductive invariant.                                                *)
(***************************************************************************)

\* tmpfs_init makes the root, a directory, before anything else happens.
Rooted ==
  /\ Len(children) = Len(nodes)
  /\ phase = "boot" => nodes = <<>> /\ open = {}
  /\ phase \in {"loading", "up"} => nodes # <<>>
  /\ nodes # <<>> => nodes[1].dir

Inv == HandlesStayValid /\ Rooted /\ TreeIsSound /\ ReadIsExact

Names == {"/"} \cup UNION {ToSet(path) : path \in GivenPaths}
NodeType == [name : Names, dir : BOOLEAN, data : Contents]

-----------------------------------------------------------------------------
(***************************************************************************)
(* Sequences.                                                              *)
(***************************************************************************)

\* A sequence and its places.
LEMMA SeqFacts ==
  ASSUME NEW S, NEW q \in Seq(S)
  PROVE  Len(q) \in Nat /\ DOMAIN q = 1..Len(q) /\ (\A i \in 1..Len(q) : q[i] \in S)
         /\ (q # <<>> <=> Len(q) >= 1)
OBVIOUS

\* A path without its last component, and without its first.
LEMMA Shorter ==
  ASSUME NEW S, NEW q \in Seq(S), Len(q) >= 1
  PROVE  /\ Front(q) \in Seq(S) /\ Len(Front(q)) = Len(q) - 1 /\ ToSet(Front(q)) \subseteq ToSet(q)
         /\ Tail(q) \in Seq(S) /\ Len(Tail(q)) = Len(q) - 1 /\ ToSet(Tail(q)) \subseteq ToSet(q)
         /\ Last(q) \in ToSet(q) /\ Last(q) \in S
<1>0. Len(q) \in Nat /\ DOMAIN q = 1..Len(q) /\ \A i \in 1..Len(q) : q[i] \in S
  OBVIOUS
<1> DEFINE f == SubSeq(q, 1, Len(q) - 1)
           t == Tail(q)
<1>1. f \in Seq(S) /\ Len(f) = Len(q) - 1 /\ \A i \in 1 .. (Len(q) - 1) : f[i] = q[i]
  BY <1>0
<1>2. t \in Seq(S) /\ Len(t) = Len(q) - 1 /\ \A i \in 1 .. (Len(q) - 1) : t[i] = q[i + 1]
  BY <1>0
<1> HIDE DEF f, t
<1>3. DOMAIN f = 1 .. (Len(q) - 1) /\ DOMAIN t = 1 .. (Len(q) - 1)
  BY <1>0, <1>1, <1>2
<1>4. ToSet(f) \subseteq ToSet(q)
  <2>1. \A i \in 1 .. (Len(q) - 1) : i \in 1..Len(q)
    BY <1>0
  <2> QED BY <1>0, <1>1, <1>3, <2>1 DEF ToSet
<1>5. ToSet(t) \subseteq ToSet(q)
  <2>1. \A i \in 1 .. (Len(q) - 1) : i + 1 \in 1..Len(q)
    BY <1>0
  <2> QED BY <1>0, <1>2, <1>3, <2>1 DEF ToSet
<1>6. Last(q) \in ToSet(q) /\ Last(q) \in S
  BY <1>0 DEF Last, ToSet
<1>7. Front(q) = f /\ Tail(q) = t
  BY DEF Front, f, t
<1> QED BY <1>1, <1>2, <1>4, <1>5, <1>6, <1>7

\* One more element at the end.
LEMMA Appended ==
  ASSUME NEW S, NEW q \in Seq(S), NEW e \in S
  PROVE  /\ Append(q, e) \in Seq(S) /\ Len(Append(q, e)) = Len(q) + 1
         /\ Append(q, e)[Len(q) + 1] = e /\ \A i \in 1..Len(q) : Append(q, e)[i] = q[i]
OBVIOUS

-----------------------------------------------------------------------------
(***************************************************************************)
(* vfs_find_path.                                                          *)
(***************************************************************************)

\* The nodes and lists as the walk uses them.
Walkable ==
  /\ nodes # <<>> /\ Len(nodes) \in Nat /\ Len(nodes) >= 1
  /\ \A n \in 1..Len(nodes) : nodes[n] \in NodeType /\ children[n] \in Seq(1..Len(nodes))
  /\ nodes[1].dir

\* They are so once tmpfs_init is done.
LEMMA TreeIsWalkable ==
  ASSUME TypeOK, Rooted, nodes # <<>>
  PROVE  Walkable
<1>1. nodes \in Seq(NodeType) /\ children \in Seq(Seq(1..Len(nodes)))
  BY DEF TypeOK, NodeType, Names
<1>2. /\ Len(nodes) \in Nat /\ Len(nodes) >= 1 /\ \A n \in 1..Len(nodes) : nodes[n] \in NodeType
      /\ \A n \in 1..Len(children) : children[n] \in Seq(1..Len(nodes))
  BY <1>1, SeqFacts
<1> QED BY <1>2 DEF Rooted, Walkable

\* tmpfs_finddir finds a node or nothing.
LEMMA NamedFacts ==
  ASSUME Walkable, NEW n \in 1..Len(nodes), NEW name
  PROVE  Named(n, name) \in 0..Len(nodes)
<1> DEFINE hits == {k \in 1..Len(children[n]) : nodes[children[n][k]].name = name}
<1>1. Named(n, name) = IF hits = {} THEN 0 ELSE children[n][Min(hits)]
  BY DEF Named
<1>2. children[n] \in Seq(1..Len(nodes)) /\ Len(nodes) \in Nat
  BY DEF Walkable
<1>3. CASE hits # {}
  <2>1. hits \in SUBSET Nat
    OBVIOUS
  <2>2. Min(hits) \in hits
    BY <1>3, <2>1, MinIsMember
  <2>3. Min(hits) \in 1..Len(children[n])
    BY <2>2
  <2> HIDE DEF hits
  <2>4. children[n][Min(hits)] \in 1..Len(nodes)
    BY <1>2, <2>3, SeqFacts
  <2> QED BY <1>1, <1>2, <1>3, <2>4
<1>4. CASE hits = {}
  BY <1>1, <1>2, <1>4
<1> QED BY <1>3, <1>4

Walks == [node : 0..Len(nodes), lost : 0..Len(nodes)]

AtRoot == [node |-> 1, lost |-> 0]
Gone == [node |-> 0, lost |-> 0]

\* g is where the walk along a path is after 0, 1, ... k of its components.
IsWalk(g, path, k) ==
  g = [i \in 0..k |-> IF i = 0 THEN AtRoot
                      ELSE IF path[i] = "" THEN g[i - 1] ELSE WalkStep(g[i - 1], path[i])]

\* The walk can go on along any path.
LEMMA WalkExists ==
  ASSUME NEW path, NEW n \in Nat
  PROVE  \E g : IsWalk(g, path, n)
<1> DEFINE bad == {k \in Nat : ~ \E g : IsWalk(g, path, k)}
           m == Min(bad)
           turn(f, i) == IF i = 0 THEN AtRoot
                         ELSE IF path[i] = "" THEN f[i - 1] ELSE WalkStep(f[i - 1], path[i])
<1> SUFFICES ASSUME n \in bad PROVE FALSE
  OBVIOUS
<1>1. m \in bad /\ \A k \in bad : m =< k
  BY MinIsMember
<1>2. m \in Nat /\ ~ \E g : IsWalk(g, path, m)
  BY <1>1
<1>3. \A k \in Nat : k < m => \E g : IsWalk(g, path, k)
  BY <1>1, <1>2
<1>w. \A g, k : IsWalk(g, path, k) <=> g = [i \in 0..k |-> turn(g, i)]
  BY DEF IsWalk
<1>z. \A f : turn(f, 0) = AtRoot
  OBVIOUS
<1>s. \A f, h, i : f[i - 1] = h[i - 1] => turn(f, i) = turn(h, i)
  OBVIOUS
<1>t. \A f, h : turn(f, 0) = turn(h, 0)
  OBVIOUS
<1> HIDE DEF bad, m, turn
<1>4. CASE m = 0
  <2> DEFINE h == [i \in 0..0 |-> AtRoot]
  <2>1. h = [i \in 0..0 |-> turn(h, i)]
    BY <1>z
  <2> HIDE DEF h
  <2> QED BY <1>2, <1>4, <1>w, <2>1
<1>5. CASE m # 0
  <2>1. m - 1 \in Nat /\ m - 1 < m
    BY <1>2, <1>5
  <2>2. PICK g : IsWalk(g, path, m - 1)
    BY <1>3, <2>1
  <2> DEFINE h == [i \in 0..m |-> IF i = m THEN turn(g, m) ELSE g[i]]
  <2>3. DOMAIN h = 0..m /\ h[m] = turn(g, m) /\ (\A i \in 0 .. (m - 1) : h[i] = g[i]) /\ h = [i \in 0..m |-> h[i]]
    BY <1>2
  <2>4. \A i \in 0 .. (m - 1) : g[i] = turn(g, i)
    BY <1>w, <2>2
  <2> HIDE DEF h
  <2>5. ASSUME NEW i \in 0..m
        PROVE  h[i] = turn(h, i)
    <3>1. h[i] = turn(g, i)
      <4>1. CASE i = m
        BY <2>3, <4>1
      <4>2. CASE i # m
        <5>1. i \in 0 .. (m - 1)
          BY <1>2, <4>2
        <5> QED BY <2>3, <2>4, <5>1
      <4> QED BY <4>1, <4>2
    <3>2. turn(g, i) = turn(h, i)
      <4>1. CASE i = 0
        BY <1>t, <4>1
      <4>2. CASE i # 0
        <5>1. i - 1 \in 0 .. (m - 1)
          BY <1>2, <4>2
        <5> QED BY <1>s, <2>3, <5>1, ZenonT(40)
      <4> QED BY <4>1, <4>2
    <3> QED BY <3>1, <3>2
  <2>6. h = [i \in 0..m |-> turn(h, i)]
    BY <2>3, <2>5
  <2> QED BY <1>2, <1>w, <2>6
<1> QED BY <1>4, <1>5

\* Walk is its last step.
LEMMA WalkOf ==
  ASSUME NEW path, Len(path) \in Nat, path # <<"">>
  PROVE  \E g : IsWalk(g, path, Len(path)) /\ Walk(path) = g[Len(path)]
<1> DEFINE g == CHOOSE f : IsWalk(f, path, Len(path))
<1>1. IsWalk(g, path, Len(path))
  BY WalkExists
<1>2. Walk(path) = g[Len(path)]
  BY Zenon DEF Walk, IsWalk, AtRoot
<1> QED BY <1>1, <1>2

\* What holds of the walk after some components: it is at the root and has seen
\* only slashes, or a first component was looked up.
OnTheWay(path, k, w) ==
  \/ w = AtRoot /\ \A j \in 1..k : path[j] = ""
  \/ w = Gone
  \/ w \in Walks /\ NeedsVnode(path)

\* Arithmetic of places.
LEMMA Places ==
  ASSUME NEW n \in Nat
  PROVE  /\ 0 \in 0..n
         /\ n >= 1 => 1 \in 1..n /\ 1 \in 0..n
         /\ \A k \in Nat : k + 1 =< n => k + 1 \in 1..n /\ (k + 1) - 1 = k
         /\ \A x \in 0..n : x # 0 => x \in 1..n
OBVIOUS

\* A place up to m is m or one before it.
LEMMA Before ==
  ASSUME NEW m, m - 1 \in Nat, (m - 1) + 1 = m
  PROVE  \A i \in 1..m : i = m \/ i \in 1 .. (m - 1)
<1>1. \A n \in Nat : \A i \in 1 .. (n + 1) : i = n + 1 \/ i \in 1..n
  OBVIOUS
<1> QED BY <1>1, Zenon

\* The walk starts at a node.
LEMMA WalkStarts == AtRoot.node = 1 /\ 1 # 0
BY DEF AtRoot

\* One component further.
LEMMA OneComponent ==
  ASSUME Walkable, NEW path, NEW k \in Nat, k + 1 =< Len(path), Len(path) \in Nat,
         NEW w, OnTheWay(path, k, w), path[k + 1] # ""
  PROVE  OnTheWay(path, k + 1, WalkStep(w, path[k + 1]))
<1>0. Len(nodes) \in Nat /\ 1 \in 1..Len(nodes) /\ 0 \in 0..Len(nodes)
  <2>1. Len(nodes) \in Nat /\ Len(nodes) >= 1
    BY Zenon DEF Walkable
  <2> QED BY <2>1, Places, Zenon
<1>d. nodes[1].dir
  BY Zenon DEF Walkable
<1>k. k + 1 \in 1..Len(path) /\ (k + 1) - 1 = k
  BY Places, Zenon
<1>z. \A x, y \in 0..Len(nodes) : [node |-> x, lost |-> y] \in Walks
  BY DEF Walks
<1> DEFINE name == path[k + 1]
           next == WalkStep(w, name)
<1>1. CASE w = AtRoot /\ \A j \in 1..k : path[j] = ""
  <2>0. w.node = 1 /\ w.node # 0
    BY <1>1, WalkStarts, Zenon
  <2>1. next = [w EXCEPT !.node = Named(1, name)]
    BY <1>d, <2>0, Zenon DEF WalkStep
  <2>2. next = [node |-> Named(1, name), lost |-> 0]
    BY <1>1, <2>1 DEF AtRoot
  <2>3. Named(1, name) \in 0..Len(nodes)
    BY <1>0, NamedFacts
  <2>4. CASE Named(1, name) = 0
    BY <2>2, <2>4 DEF OnTheWay, Gone
  <2>5. CASE Named(1, name) # 0
    <3>2. NeedsVnode(path)
      BY <1>1, <1>k, <2>5, Zenon DEF NeedsVnode
    <3>3. next \in Walks
      BY <1>0, <1>z, <2>2, <2>3, Zenon
    <3> QED BY <3>2, <3>3 DEF OnTheWay
  <2> QED BY <2>4, <2>5
<1>2. CASE w = Gone
  <2>1. next = Gone
    BY <1>2 DEF WalkStep, Gone
  <2> QED BY <2>1 DEF OnTheWay
<1>3. CASE w \in Walks /\ NeedsVnode(path)
  <2>1. w.node \in 0..Len(nodes) /\ w.lost \in 0..Len(nodes) /\ w = [node |-> w.node, lost |-> w.lost]
    BY <1>3 DEF Walks
  <2>2. next \in Walks
    <3>1. CASE w.node = 0
      BY <1>3, <3>1 DEF WalkStep
    <3>2. CASE w.node # 0 /\ ~nodes[w.node].dir
      <4>1. next = [node |-> 0, lost |-> w.node]
        BY <3>2, Zenon DEF WalkStep
      <4> QED BY <1>0, <1>z, <2>1, <4>1, Zenon
    <3>n. w.node # 0 => w.node \in 1..Len(nodes)
      BY <1>0, <2>1, Places, Zenon
    <3>3. CASE w.node # 0 /\ nodes[w.node].dir
      <4>1. next = [w EXCEPT !.node = Named(w.node, name)]
        BY <3>3, Zenon DEF WalkStep
      <4>2. next = [node |-> Named(w.node, name), lost |-> w.lost]
        BY <2>1, <4>1
      <4>3. Named(w.node, name) \in 0..Len(nodes)
        <5>1. w.node \in 1..Len(nodes)
          BY <3>3, <3>n, Zenon
        <5> QED BY <5>1, NamedFacts
      <4> QED BY <1>z, <2>1, <4>2, <4>3, Zenon
    <3> QED BY <3>1, <3>2, <3>3
  <2> QED BY <1>3, <2>2 DEF OnTheWay
<1> QED BY <1>1, <1>2, <1>3 DEF OnTheWay

\* What vfs_find_path returns: a node or NULL; a vnode is left over only if one
\* was needed.
LEMMA WalkFacts ==
  ASSUME Walkable, NEW path, Len(path) \in Nat
  PROVE  /\ Walk(path) \in Walks
         /\ Walk(path).node > 1 \/ Walk(path).lost # 0 => NeedsVnode(path)
<1>0. Len(nodes) \in Nat /\ 1 \in 0..Len(nodes) /\ 0 \in 0..Len(nodes)
  <2>1. Len(nodes) \in Nat /\ Len(nodes) >= 1
    BY Zenon DEF Walkable
  <2> QED BY <2>1
<1>b. AtRoot \in Walks /\ ~(AtRoot.node > 1 \/ AtRoot.lost # 0)
  BY <1>0 DEF Walks, AtRoot
<1>c. Gone \in Walks /\ ~(Gone.node > 1 \/ Gone.lost # 0)
  BY <1>0 DEF Walks, Gone
<1>a. \A k, w : OnTheWay(path, k, w) =>
        w \in Walks /\ (w.node > 1 \/ w.lost # 0 => NeedsVnode(path))
  BY <1>b, <1>c, Zenon DEF OnTheWay
<1>1. CASE path = <<"">>
  <2>1. Walk(path) = Gone
    BY <1>1 DEF Walk, Gone
  <2>2. OnTheWay(path, 0, Walk(path))
    BY <2>1 DEF OnTheWay
  <2> QED BY <1>a, <2>2
<1>2. CASE path # <<"">>
  <2> DEFINE n == Len(path)
  <2>1. PICK g : IsWalk(g, path, n) /\ Walk(path) = g[n]
    BY <1>2, WalkOf
  <2> DEFINE bad == {k \in 0..n : ~OnTheWay(path, k, g[k])}
             m == Min(bad)
  <2>2. CASE bad = {}
    <3>1. OnTheWay(path, n, g[n])
      BY <2>2
    <3> QED BY <1>a, <2>1, <3>1
  <2>3. CASE bad # {}
    <3>1. m \in bad /\ \A k \in bad : m =< k
      <4>1. bad \in SUBSET Nat
        OBVIOUS
      <4> HIDE DEF bad
      <4> QED BY <2>3, <4>1, MinIsMember
    <3>2. m \in 0..n /\ ~OnTheWay(path, m, g[m])
      BY <3>1
    <3> HIDE DEF m
    <3>3. CASE m = 0
      <4>1. g[0] = AtRoot
        <5> HIDE DEF bad
        <5> DEFINE turn(i) == IF i = 0 THEN AtRoot
                              ELSE IF path[i] = "" THEN g[i - 1] ELSE WalkStep(g[i - 1], path[i])
        <5>1. g = [i \in 0..n |-> turn(i)] /\ 0 \in 0..n
          BY <2>1, Places, Zenon DEF IsWalk
        <5>2. turn(0) = AtRoot
          OBVIOUS
        <5> HIDE DEF turn
        <5> QED BY <5>1, <5>2
      <4>2. OnTheWay(path, 0, AtRoot)
        BY DEF OnTheWay
      <4> QED BY <3>2, <3>3, <4>1, <4>2
    <3>4. CASE m # 0
      <4>1. m - 1 \in 0..n /\ m - 1 \in Nat /\ m - 1 < m /\ (m - 1) + 1 = m /\ m =< n
        BY <3>2, <3>4
      <4>2. OnTheWay(path, m - 1, g[m - 1])
        BY <3>1, <3>2, <4>1
      <4>3. g[m] = IF path[m] = "" THEN g[m - 1] ELSE WalkStep(g[m - 1], path[m])
        <5> HIDE DEF bad
        <5> QED BY <2>1, <3>2, <3>4 DEF IsWalk
      <4>4. CASE path[m] = ""
        <5>1. g[m] = g[m - 1]
          BY <4>3, <4>4
        <5>2. (\A j \in 1 .. (m - 1) : path[j] = "") => \A j \in 1..m : path[j] = ""
          <6> SUFFICES ASSUME \A j \in 1 .. (m - 1) : path[j] = "", NEW j \in 1..m
                       PROVE  path[j] = ""
            OBVIOUS
          <6>1. j = m \/ j \in 1 .. (m - 1)
            <7>1. \A i \in 1..m : i = m \/ i \in 1 .. (m - 1)
              BY <4>1, Before, Zenon
            <7> QED BY <7>1, Zenon
          <6> QED BY <4>4, <6>1
        <5>3. OnTheWay(path, m, g[m - 1])
          BY <4>2, <5>2 DEF OnTheWay
        <5> QED BY <3>2, <5>1, <5>3
      <4>5. CASE path[m] # ""
        <5>1. OnTheWay(path, (m - 1) + 1, WalkStep(g[m - 1], path[(m - 1) + 1]))
          <6> HIDE DEF bad
          <6> QED BY <4>1, <4>2, <4>5, OneComponent
        <5> QED BY <3>2, <4>1, <4>3, <4>5, <5>1
      <4> QED BY <4>4, <4>5
    <3> QED BY <3>3, <3>4
  <2> QED BY <2>2, <2>3
<1> QED BY <1>1, <1>2

\* The vnodes after the walk: none in use is touched, and there is one for what
\* it returns.
LEMMA AfterWalkFacts ==
  ASSUME vnodes \in [Vnodes -> 0..Len(nodes)], Len(nodes) \in Nat, NEW w \in Walks,
         w.node > 1 \/ w.lost # 0 => Unused # {}
  PROVE  /\ AfterWalk(w) \in [Vnodes -> 0..Len(nodes)]
         /\ \A v \in Vnodes : vnodes[v] # 0 => AfterWalk(w)[v] = vnodes[v]
         /\ w.node > 1 => Min(Unused) \in Vnodes /\ AfterWalk(w)[Min(Unused)] = w.node
<1>0. w.node \in 0..Len(nodes) /\ w.lost \in 0..Len(nodes)
  BY DEF Walks
<1>1. CASE w.node > 1 \/ w.lost # 0
  <2>1. Unused \in SUBSET Nat /\ Unused # {}
    BY <1>1, BlockAssumption DEF Unused
  <2>2. Min(Unused) \in Unused
    BY <2>1, MinIsMember
  <2>3. Min(Unused) \in Vnodes /\ vnodes[Min(Unused)] = 0
    BY <2>2 DEF Unused
  <2>4. AfterWalk(w) = [vnodes EXCEPT ![Min(Unused)] = IF w.node # 0 THEN w.node ELSE w.lost]
    BY <1>1 DEF AfterWalk
  <2> QED BY <1>0, <2>3, <2>4
<1>2. CASE ~(w.node > 1 \/ w.lost # 0)
  <2>1. AfterWalk(w) = vnodes
    BY <1>2 DEF AfterWalk
  <2> QED BY <1>2, <2>1
<1> QED BY <1>1, <1>2

-----------------------------------------------------------------------------
(***************************************************************************)
(* initrd_init and tmpfs_add_entry.                                        *)
(***************************************************************************)

\* What initrd_init cuts off a name: a path is left, of the same components.
LEMMA EntryPathFacts ==
  ASSUME NEW path \in Seq(STRING), Len(path) >= 1
  PROVE  /\ EntryPath(path) \in Seq(STRING) /\ Len(EntryPath(path)) >= 1
         /\ ToSet(EntryPath(path)) \subseteq ToSet(path)
<1> DEFINE name == Unprefixed(path)
<1>0. Len(path) \in Nat
  OBVIOUS
<1>1. name \in Seq(STRING) /\ Len(name) >= 1 /\ ToSet(name) \subseteq ToSet(path)
  <2>1. CASE Len(path) > 1 /\ Head(path) = "."
    <3>1. name = Tail(path)
      BY <2>1 DEF Unprefixed
    <3>2. Tail(path) \in Seq(STRING) /\ Len(Tail(path)) = Len(path) - 1 /\ ToSet(Tail(path)) \subseteq ToSet(path)
      BY Shorter
    <3> QED BY <1>0, <2>1, <3>1, <3>2
  <2>2. CASE ~(Len(path) > 1 /\ Head(path) = ".")
    <3>1. name = path
      BY <2>2 DEF Unprefixed
    <3> QED BY <3>1
  <2> QED BY <2>1, <2>2
<1>2. EntryPath(path) = IF Len(name) > 1 /\ Last(name) = "" THEN Front(name) ELSE name
  BY DEF EntryPath
<1> HIDE DEF name
<1>3. Len(name) \in Nat
  BY <1>1
<1>4. Front(name) \in Seq(STRING) /\ Len(Front(name)) = Len(name) - 1 /\ ToSet(Front(name)) \subseteq ToSet(name)
  BY <1>1, Shorter
<1>7. Len(name) > 1 => Len(Front(name)) >= 1
  BY <1>3, <1>4
<1>5. CASE Len(name) > 1 /\ Last(name) = ""
  <2>1. EntryPath(path) = Front(name)
    BY <1>2, <1>5
  <2>2. Len(Front(name)) >= 1
    BY <1>5, <1>7
  <2>3. ToSet(Front(name)) \subseteq ToSet(path)
    BY <1>1, <1>4
  <2> QED BY <1>4, <2>1, <2>2, <2>3, Zenon
<1>6. CASE ~(Len(name) > 1 /\ Last(name) = "")
  <2>1. EntryPath(path) = name
    BY <1>2, <1>6
  <2> QED BY <1>1, <2>1
<1> QED BY <1>5, <1>6

\* What tar writes of a member: its header, and its data behind it.
TarMember(arc, i) ==
  /\ HeaderName(arc[i]) \in Seq(STRING) \ {<<>>} /\ arc[i].name \in Seq(STRING)
  /\ arc[i].dir \in BOOLEAN /\ arc[i].size \in Nat
  /\ i + Blocks(arc[i].size) =< Len(arc)
  /\ \A j \in (i + 1) .. (i + Blocks(arc[i].size)) : arc[j].kind = "data"
  /\ ContentAt(arc, i) \in Contents

\* The string at header->name is a path.
LEMMA NameIsPath ==
  ASSUME NEW h, h.name \in Seq(STRING) \ {<<>>, <<"">>}, h.tail \in STRING
  PROVE  HeaderName(h) \in Seq(STRING) \ {<<>>}
<1>1. h.name \in Seq(STRING) /\ Len(h.name) >= 1
  BY SeqFacts
<1>2. Front(h.name) \in Seq(STRING)
  BY <1>1, Shorter
<1>3. Append(Front(h.name), h.tail) \in Seq(STRING) \ {<<>>}
  BY <1>2, AppendProperties, Zenon
<1> QED BY <1>3, Zenon DEF HeaderName

LEMMA ArchiveFacts ==
  ASSUME NEW arc \in Archives
  PROVE  /\ Len(arc) \in Nat /\ DOMAIN arc = 1..Len(arc)
         /\ \A i \in 1..Len(arc) :
              \/ arc[i].kind = "header" /\ TarMember(arc, i)
              \/ /\ arc[i].kind = "data"
                 /\ \E h \in 1 .. (i - 1) : arc[h].kind = "header" /\ i =< h + Blocks(arc[h].size)
              \/ \A j \in i..Len(arc) : arc[j].kind = "zero"
<1>1. arc \in Seq(ToSet(arc))
  BY ArchivesAssumption, Zenon
<1>2. Len(arc) \in Nat /\ DOMAIN arc = 1..Len(arc)
  BY <1>1, SeqFacts
<1>3. \A i \in 1..Len(arc) :
        arc[i].name \in Seq(STRING) \ {<<>>, <<"">>} /\ arc[i].tail \in STRING =>
          HeaderName(arc[i]) \in Seq(STRING) \ {<<>>} /\ arc[i].name \in Seq(STRING)
  BY NameIsPath, Zenon
<1> QED BY <1>2, <1>3, ArchivesAssumption, Zenon DEF TarMember

LEMMA HeaderIsMember ==
  ASSUME NEW arc \in Archives, NEW i \in 1..Len(arc), arc[i].kind = "header"
  PROVE  TarMember(arc, i)
<1>1. i \in i..Len(arc)
  BY ArchiveFacts
<1>2. ~ \A j \in i..Len(arc) : arc[j].kind = "zero"
  BY <1>1
<1> QED BY <1>2, ArchiveFacts

\* The size in blocks.
LEMMA BlocksAreNat ==
  ASSUME NEW size \in Nat
  PROVE  Blocks(size) \in Nat
<1>1. BLOCK \in Nat \ {0}
  BY BlockAssumption
<1>2. size + BLOCK - 1 \in Nat
  BY <1>1
<1>3. \A x \in Nat : x \div BLOCK \in Nat
  BY <1>1
<1> QED BY <1>2, <1>3, Zenon DEF Blocks

\* A header of an archive that tar made: its path is one of those given, its data
\* are there, and the next header is at most at the end.
LEMMA HeaderFacts ==
  ASSUME TypeOK, AtMember
  PROVE  /\ HeaderName(Header) \in Seq(STRING) /\ Len(HeaderName(Header)) >= 1 /\ HeaderName(Header) \in GivenPaths
         /\ Header.dir \in BOOLEAN
         /\ ContentAt(archive, offset + 1) \in Contents
         /\ NextOffset \in 0..Len(archive)
<1> DEFINE i == offset + 1
           blocks == Blocks(archive[i].size)
<1>1. archive \in Archives /\ offset \in 0..Len(archive)
  BY DEF TypeOK
<1>2. Len(archive) \in Nat /\ DOMAIN archive = 1..Len(archive)
  BY <1>1, ArchiveFacts
<1>3. i \in 1..Len(archive) /\ archive[i].kind = "header" /\ Header = archive[i]
  <2>1. offset < Len(archive)
    BY DEF AtMember
  <2>2. i \in 1..Len(archive)
    BY <1>1, <1>2, <2>1
  <2> QED BY <2>2 DEF AtMember, Header
<1>4. /\ HeaderName(archive[i]) \in Seq(STRING) \ {<<>>} /\ archive[i].dir \in BOOLEAN /\ archive[i].size \in Nat
      /\ i + blocks =< Len(archive)
      /\ ContentAt(archive, i) \in Contents
  BY <1>1, <1>3, HeaderIsMember, Zenon DEF TarMember
<1>5. blocks \in Nat
  BY <1>4, BlocksAreNat, Zenon
<1>6. NextOffset = i + blocks
  BY <1>3 DEF NextOffset
<1>7. NextOffset \in 0..Len(archive)
  <2>1. i + blocks =< Len(archive)
    BY <1>4, Zenon
  <2> HIDE DEF blocks
  <2>2. i + blocks \in 0..Len(archive)
    BY <1>1, <1>2, <1>5, <2>1
  <2> QED BY <1>6, <2>2
<1>8. archive[i] \in Headers(archive)
  BY <1>2, <1>3 DEF Headers, ToSet
<1>9. HeaderName(archive[i]) \in GivenPaths
  BY <1>1, <1>8 DEF GivenPaths
<1>10. Len(HeaderName(archive[i])) >= 1 /\ HeaderName(archive[i]) \in Seq(STRING)
  BY <1>4, SeqFacts
<1> QED BY <1>3, <1>4, <1>7, <1>9, <1>10

\* The parent is a directory of the tree.
LEMMA ParentFacts ==
  ASSUME Walkable, NEW path \in Seq(STRING), Len(path) >= 1
  PROVE  Parent(path) \in 1..Len(nodes) /\ nodes[Parent(path)].dir
<1> DEFINE w == Walk(Front(path))
<1>0. Len(nodes) \in Nat /\ 1 \in 1..Len(nodes)
  <2>1. Len(nodes) \in Nat /\ Len(nodes) >= 1
    BY Zenon DEF Walkable
  <2> QED BY <2>1, Places, Zenon
<1>1. Front(path) \in Seq(STRING) /\ Len(Front(path)) \in Nat
  <2>1. Front(path) \in Seq(STRING)
    BY Shorter
  <2> QED BY <2>1, SeqFacts
<1>2. w \in Walks
  BY <1>1, WalkFacts, Zenon
<1>3. w.node \in 0..Len(nodes)
  BY <1>2 DEF Walks
<1>4. w.node # 0 => w.node \in 1..Len(nodes)
  BY <1>0, <1>3, Places, Zenon
<1>5. CASE Len(path) > 1 /\ w.node # 0 /\ nodes[w.node].dir
  BY <1>4, <1>5, Zenon DEF Parent
<1>6. CASE ~(Len(path) > 1 /\ w.node # 0 /\ nodes[w.node].dir)
  <2>1. Parent(path) = 1
    BY <1>6, Zenon DEF Parent
  <2> QED BY <1>0, <2>1, Zenon DEF Walkable
<1> QED BY <1>5, <1>6, Zenon

\* The new node: the others keep their places.
LEMMA NodesGrow ==
  ASSUME NEW path \in Seq(STRING), Len(path) >= 1, ToSet(path) \subseteq Names,
         NEW dir \in BOOLEAN, NEW data \in Contents, nodes \in Seq(NodeType),
         nodes' = Append(nodes, NewNode(Last(path), dir, data))
  PROVE  /\ nodes' \in Seq(NodeType) /\ Len(nodes') = Len(nodes) + 1
         /\ \A n \in 1..Len(nodes) : nodes'[n] = nodes[n]
<1>1. Last(path) \in Names
  BY Shorter
<1>2. NewNode(Last(path), dir, data) \in NodeType
  <2>1. (IF dir THEN <<>> ELSE data) \in Contents
    BY BytesAssumption
  <2> DEFINE d == IF dir THEN <<>> ELSE data
  <2> HIDE DEF d
  <2>2. [name |-> Last(path), dir |-> dir, data |-> d] \in NodeType
    BY <1>1, <2>1 DEF NodeType, d
  <2> QED BY <2>2 DEF NewNode, d
<1> QED BY <1>2, Appended

\* The lists of children with the new node: it is in that of its parent, in front,
\* and its own is empty.
ChildrenGrown(p) ==
  /\ children' \in Seq(Seq(1 .. (Len(nodes) + 1))) /\ Len(children') = Len(nodes) + 1
  /\ \A d \in 1 .. (Len(nodes) + 1) : IsInjective(children'[d])
  /\ \A d \in 1..Len(nodes) :
       ToSet(children'[d]) = ToSet(children[d]) \cup (IF d = p THEN {Len(nodes) + 1} ELSE {})
  /\ ToSet(children'[Len(nodes) + 1]) = {}

\* The nodes in the lists are old ones.
LEMMA ChildrenAreNodes ==
  ASSUME Walkable, NEW d \in 1..Len(nodes)
  PROVE  ToSet(children[d]) \subseteq 1..Len(nodes) /\ Len(nodes) + 1 \notin ToSet(children[d])
<1>1. children[d] \in Seq(1..Len(nodes)) /\ Len(nodes) \in Nat
  BY Zenon DEF Walkable
<1> DEFINE q == children[d]
           S == 1..Len(nodes)
<1>2. q \in Seq(S)
  BY <1>1
<1>3. Len(nodes) + 1 \notin S
  BY <1>1
<1> HIDE DEF q, S
<1>4. ToSet(q) \subseteq S
  <2>1. DOMAIN q = 1..Len(q) /\ \A i \in 1..Len(q) : q[i] \in S
    BY <1>2, SeqFacts
  <2> QED BY <2>1 DEF ToSet
<1> QED BY <1>3, <1>4 DEF q, S

\* tmpfs_add_entry links the node into the list of its parent.
LEMMA ChildrenGrow ==
  ASSUME Walkable, Len(children) = Len(nodes), children \in Seq(Seq(1..Len(nodes))),
         \A d \in 1..Len(nodes) : IsInjective(children[d]),
         NEW p \in 1..Len(nodes),
         children' = Append([children EXCEPT ![p] = <<Len(nodes) + 1>> \o @], <<>>)
  PROVE  ChildrenGrown(p)
<1> DEFINE L == Len(nodes)
           S == 1 .. (L + 1)
           mine == <<L + 1>> \o children[p]
           more == [children EXCEPT ![p] = mine]
<1>1. L \in Nat
  BY Zenon DEF Walkable
<1>2. 1..L \subseteq S /\ L + 1 \in S
  BY <1>1
<1>3. \A d \in 1..L : children[d] \in Seq(S)
  <2> TAKE d \in 1..L
  <2> DEFINE R == 1..L
  <2>1. children[d] \in Seq(R)
    BY Zenon DEF Walkable
  <2>2. R \subseteq S
    BY <1>2
  <2> HIDE DEF R, S
  <2> QED BY <2>1, <2>2
<1>4. mine \in Seq(S) /\ IsInjective(mine) /\ ToSet(mine) = ToSet(children[p]) \cup {L + 1}
  <2>1. children[p] \in Seq(S) /\ L + 1 \in S /\ IsInjective(children[p]) /\ L + 1 \notin ToSet(children[p])
    BY <1>2, <1>3, ChildrenAreNodes
  <2> HIDE DEF S, L
  <2> QED BY <2>1, PushFront
<1>5. <<>> \in Seq(S) /\ IsInjective(<<>>) /\ ToSet(<<>>) = {}
  BY DEF IsInjective, ToSet
<1>6. children' = Append(more, <<>>)
  OBVIOUS
<1>7. DOMAIN children = 1..L /\ Len(children) = L
  <2>1. DOMAIN children = 1..Len(children)
    BY SeqFacts
  <2> QED BY <2>1
<1> HIDE DEF mine, S
<1>8. more \in Seq(Seq(S)) /\ Len(more) = L
      /\ more[p] = mine /\ \A d \in 1..L : d # p => more[d] = children[d]
  <2>1. DOMAIN more = 1..L /\ more[p] = mine /\ \A d \in 1..L : d # p => more[d] = children[d]
    BY <1>7
  <2>2. \A d \in 1..L : more[d] \in Seq(S)
    BY <1>3, <1>4, <2>1
  <2>4. more \in [1..L -> Seq(S)]
    <3>1. more = [d \in 1..L |-> more[d]]
      BY <1>7
    <3> HIDE DEF more
    <3> QED BY <2>2, <3>1
  <2>3. more \in Seq(Seq(S)) /\ Len(more) = L
    <3> DEFINE T == Seq(S)
    <3>1. more \in [1..L -> T]
      BY <2>4
    <3> HIDE DEF more, L, T
    <3>2. more \in Seq(T)
      BY <1>1, <3>1, IsASeq
    <3> QED BY <1>1, <2>1, <3>2, LenProperties DEF T
  <2> QED BY <2>1, <2>3
<1> HIDE DEF more
<1>9. /\ children' \in Seq(Seq(S)) /\ Len(children') = L + 1
      /\ children'[L + 1] = <<>> /\ \A d \in 1..L : children'[d] = more[d]
  <2> DEFINE T == Seq(S)
             e == <<>>
  <2>1. more \in Seq(T) /\ e \in T
    BY <1>5, <1>8
  <2> HIDE DEF T, e, L
  <2>2. /\ Append(more, e) \in Seq(T) /\ Len(Append(more, e)) = Len(more) + 1
        /\ Append(more, e)[Len(more) + 1] = e /\ \A d \in 1..Len(more) : Append(more, e)[d] = more[d]
    BY <2>1, Appended
  <2>3. Append(more, e) = children' /\ e = <<>>
    BY <1>6 DEF e
  <2> QED BY <1>8, <2>2, <2>3, Zenon DEF T
<1> QED
  <2>1. ASSUME NEW d \in 1 .. (L + 1)
        PROVE  IsInjective(children'[d])
    <3> HIDE DEF L
    <3>1. d = L + 1 \/ d \in 1..L
      <4>1. \A n \in Nat : \A k \in 1 .. (n + 1) : k = n + 1 \/ k \in 1..n
        OBVIOUS
      <4> QED BY <1>1, <4>1, Zenon
    <3>2. CASE d = L + 1
      BY <1>5, <1>9, <3>2
    <3>3. CASE d = p
      BY <1>4, <1>8, <1>9, <3>3 DEF L
    <3>4. CASE d \in 1..L /\ d # p
      <4>1. IsInjective(children[d])
        BY <3>4 DEF L
      <4> QED BY <1>8, <1>9, <3>4, <4>1
    <3> QED BY <3>1, <3>2, <3>3, <3>4
  <2>2. ASSUME NEW d \in 1..L
        PROVE  ToSet(children'[d]) = ToSet(children[d]) \cup (IF d = p THEN {L + 1} ELSE {})
    <3> HIDE DEF L
    <3>1. CASE d = p
      BY <1>4, <1>8, <1>9, <3>1
    <3>2. CASE d # p
      BY <1>8, <1>9, <3>2
    <3> QED BY <3>1, <3>2
  <2>3. ToSet(children'[L + 1]) = {}
    BY <1>5, <1>9
  <2> QED BY <1>9, <2>1, <2>2, <2>3, Zenon DEF ChildrenGrown, S, L

\* The tree stays sound: the new node has one parent, an older directory, and it
\* is a child of nobody else.
LEMMA TreeGrows ==
  ASSUME Walkable, TreeIsSound, NEW p \in 1..Len(nodes), nodes[p].dir, ChildrenGrown(p),
         Len(nodes') = Len(nodes) + 1, \A n \in 1..Len(nodes) : nodes'[n] = nodes[n]
  PROVE  TreeIsSound'
<1> DEFINE L == Len(nodes)
<1>0. L \in Nat /\ Len(nodes') = L + 1 /\ p \in 1..L
  BY Zenon DEF Walkable
<1>1. /\ \A d \in 1 .. (L + 1) : IsInjective(children'[d])
      /\ \A d \in 1..L : ToSet(children'[d]) = ToSet(children[d]) \cup (IF d = p THEN {L + 1} ELSE {})
      /\ ToSet(children'[L + 1]) = {}
  BY Zenon DEF ChildrenGrown
<1>2. \A d \in 1..L : ToSet(children[d]) \subseteq 1..L /\ L + 1 \notin ToSet(children[d])
  BY ChildrenAreNodes
<1>3. /\ \A node \in 2..L : \E dir \in 1 .. (node - 1) :
           nodes[dir].dir /\ \A d \in 1..L : node \in ToSet(children[d]) <=> d = dir
      /\ \A d \in 1..L : 1 \notin ToSet(children[d])
  BY Zenon DEF TreeIsSound
<1>n. \A d \in 1..L : nodes'[d] = nodes[d]
  OBVIOUS
<1> HIDE DEF L
<1>p. \A d \in 1 .. (L + 1) : d = L + 1 \/ d \in 1..L
  BY <1>0
<1>q. \A d \in 1..L : d # L + 1 /\ d \in 1 .. (L + 1)
  BY <1>0
<1>4. ASSUME NEW node \in 2 .. (L + 1)
      PROVE  \E dir \in 1 .. (node - 1) :
               /\ nodes'[dir].dir
               /\ \A d \in 1 .. (L + 1) : node \in ToSet(children'[d]) <=> d = dir
  <2>1. CASE node = L + 1
    <3>1. p \in 1 .. (node - 1)
      BY <1>0, <2>1
    <3>2. nodes'[p].dir
      BY <1>0, <1>n, Zenon
    <3>3. ASSUME NEW d \in 1 .. (L + 1)
          PROVE  L + 1 \in ToSet(children'[d]) <=> d = p
      <4>1. CASE d = L + 1
        BY <1>0, <1>1, <1>q, <4>1, Zenon
      <4>2. CASE d \in 1..L
        BY <1>1, <1>2, <4>2, Zenon
      <4> QED BY <1>p, <4>1, <4>2
    <3> QED BY <2>1, <3>1, <3>2, <3>3, Zenon
  <2>2. CASE node # L + 1
    <3>1. node \in 2..L /\ node \in 1..L
      BY <1>0, <2>2
    <3>2. PICK dir \in 1 .. (node - 1) :
            nodes[dir].dir /\ \A d \in 1..L : node \in ToSet(children[d]) <=> d = dir
      BY <1>3, <3>1, Zenon
    <3>3. dir \in 1..L
      <4>1. \A n \in 2..L : \A k \in 1 .. (n - 1) : k \in 1..L
        BY <1>0
      <4> QED BY <3>1, <4>1, Zenon
    <3>4. nodes'[dir].dir
      BY <1>n, <3>2, <3>3, Zenon
    <3>5. ASSUME NEW d \in 1 .. (L + 1)
          PROVE  node \in ToSet(children'[d]) <=> d = dir
      <4>1. CASE d = L + 1
        BY <1>1, <1>q, <3>3, <4>1, Zenon
      <4>2. CASE d \in 1..L
        <5>1. node \in ToSet(children[d]) <=> d = dir
          BY <3>2, <4>2, Zenon
        <5>2. node \in ToSet(children'[d]) <=> node \in ToSet(children[d])
          <6>1. CASE d = p
            BY <1>1, <2>2, <4>2, <6>1, Zenon
          <6>2. CASE d # p
            BY <1>1, <4>2, <6>2, Zenon
          <6> QED BY <6>1, <6>2
        <5> QED BY <5>1, <5>2, Zenon
      <4> QED BY <1>p, <4>1, <4>2, Zenon
    <3> QED BY <3>4, <3>5, Zenon
  <2> QED BY <2>1, <2>2
<1>5. ASSUME NEW d \in 1 .. (L + 1)
      PROVE  1 \notin ToSet(children'[d])
  <2>0. 1 # L + 1
    <3>1. \A n \in Nat : \A k \in 1..n : 1 # n + 1
      OBVIOUS
    <3> QED BY <1>0, <3>1, Zenon
  <2>1. CASE d = L + 1
    BY <1>1, <2>1, Zenon
  <2>2. CASE d \in 1..L
    <3>1. CASE d = p
      <4>1. ToSet(children'[d]) = ToSet(children[d]) \cup {L + 1}
        BY <1>1, <2>2, <3>1, Zenon
      <4>2. 1 \notin ToSet(children[d])
        BY <1>3, <2>2, Zenon
      <4> QED BY <2>0, <4>1, <4>2, Zenon
    <3>2. CASE d # p
      BY <1>1, <1>3, <2>2, <3>2, ZenonT(40)
    <3> QED BY <3>1, <3>2
  <2> QED BY <1>p, <2>1, <2>2, Zenon
<1> DEFINE K == L + 1
<1>6. \A node \in 2..K : \E dir \in 1 .. (node - 1) :
        nodes'[dir].dir /\ \A d \in 1..K : node \in ToSet(children'[d]) <=> d = dir
  BY <1>4, Zenon
<1>7. \A d \in 1..K : IsInjective(children'[d]) /\ 1 \notin ToSet(children'[d])
  BY <1>1, <1>5, Zenon
<1>8. K = Len(nodes')
  BY <1>0
<1> HIDE DEF K
<1> QED
  <2>1. \A node \in 2..Len(nodes') : \E dir \in 1 .. (node - 1) :
          nodes'[dir].dir /\ \A d \in 1..Len(nodes') : node \in ToSet(children'[d]) <=> d = dir
    BY <1>6, <1>8
  <2>2. \A d \in 1..Len(nodes') : IsInjective(children'[d]) /\ 1 \notin ToSet(children'[d])
    BY <1>7, <1>8
  <2> QED BY <2>1, <2>2, Zenon DEF TreeIsSound

-----------------------------------------------------------------------------
(***************************************************************************)
(* tmpfs_read.                                                             *)
(***************************************************************************)

\* uint64_t keeps what fits into it.
LEMMA FitsWord ==
  ASSUME NEW x \in Nat, x < WORD
  PROVE  x % WORD = x
<1> DEFINE q == x \div WORD
           r == x % WORD
<1>0. WORD \in Nat /\ WORD > 0
  BY BlockAssumption
<1>1. q \in Nat /\ r \in 0 .. (WORD - 1) /\ x = WORD * q + r
  BY <1>0, Z3
<1> HIDE DEF q, r
<1>2. q = 0
  <2>1. SUFFICES ASSUME q >= 1 PROVE FALSE
    BY <1>1
  <2>2. WORD * q >= WORD
    BY <1>0, <1>1, <2>1, Z3
  <2> QED BY <1>0, <1>1, <2>2
<1>3. r = x
  BY <1>0, <1>1, <1>2
<1> QED BY <1>3 DEF r

\* tmpfs_read copies as many bytes as the file has in the range asked for.
LEMMA ReadFacts ==
  ASSUME NEW len \in Nat, len < WORD, NEW off \in 0 .. (WORD - 1), NEW size \in 0 .. (WORD - 1)
  PROVE  /\ ReadLength(len, off, size) \in 0 .. (WORD - 1)
         /\ off + size < WORD =>
              ReadLength(len, off, size) = Cardinality({k \in off .. (off + size - 1) : k < len})
<1> DEFINE sum == (off + size) % WORD
           ret == ReadLength(len, off, size)
           there == {k \in off .. (off + size - 1) : k < len}
<1>0. WORD \in Nat /\ WORD > 0 /\ off \in Nat /\ size \in Nat /\ off + size \in Nat
  BY BlockAssumption
<1>1. ret = IF off >= len THEN 0 ELSE IF sum > len THEN len - off ELSE size
  BY DEF ReadLength
<1>s. sum \in Nat
  BY <1>0, Z3
<1>f. off + size < WORD => sum = off + size
  BY <1>0, FitsWord
<1> HIDE DEF sum, ret
<1>2. ret \in 0 .. (WORD - 1)
  BY <1>0, <1>1, <1>s
<1>3. ASSUME off + size < WORD
      PROVE  ret = Cardinality(there)
  <2>1. there = off .. ((off + ret) - 1)
    <3>0. ret \in Nat /\ ret = IF off >= len THEN 0 ELSE IF off + size > len THEN len - off ELSE size
      BY <1>0, <1>1, <1>2, <1>3, <1>f
    <3> QED BY <1>0, <3>0
  <2>2. Cardinality(off .. ((off + ret) - 1)) = ret
    <3>1. off \in Int /\ (off + ret) - 1 \in Int /\ ret \in Nat
      BY <1>0, <1>2
    <3> DEFINE b == (off + ret) - 1
    <3>2. Cardinality(off..b) = IF off > b THEN 0 ELSE b - off + 1
      BY <3>1, FS_Interval
    <3> QED BY <3>1, <3>2
  <2> QED BY <2>1, <2>2
<1> QED BY <1>2, <1>3 DEF ret

-----------------------------------------------------------------------------
(***************************************************************************)
(* The steps.                                                              *)
(***************************************************************************)

\* Nothing is there before tmpfs_init.
LEMMA InitInv ==
  ASSUME Init
  PROVE  Inv
<1>1. archive \in Archives /\ offset \in 0..Len(archive)
  <2>1. archive \in Seq(ToSet(archive)) /\ archive \in Archives
    BY ArchivesAssumption DEF Init
  <2>2. Len(archive) \in Nat
    BY <2>1
  <2>3. offset = 0
    BY DEF Init
  <2> QED BY <2>1, <2>2, <2>3
<1>2. Len(nodes) = 0 /\ Len(children) = 0 /\ nodes = <<>> /\ children = <<>>
  BY DEF Init
<1>3. got = NoRead /\ got.node = 0
  BY DEF Init, NoRead
<1>4. got \in [node : 0..Len(nodes), offset : {0} \cup Offsets, size : {0} \cup Offsets,
               ret : 0 .. (WORD - 1)]
  BY <1>2, <1>3, BlockAssumption DEF NoRead
<1>5. call.path = <<"">> /\ call.node = 0
  BY DEF Init
<1>6. nodes \in Seq(NodeType) /\ children \in Seq(Seq(1..Len(nodes)))
  BY <1>2
<1>7. TypeOK
  <2>0. 0 \in 0..Len(nodes)
    BY <1>2
  <2>1. phase = "boot" /\ vnodes \in [Vnodes -> 0..Len(nodes)] /\ open = {}
    <3>1. phase = "boot" /\ vnodes = [v \in Vnodes |-> 0] /\ open = {}
      BY Zenon DEF Init
    <3> QED BY <2>0, <3>1
  <2>2. call.path \in {<<"">>} /\ call.node \in 0..Len(nodes)
    BY <1>5, <2>0
  <2> QED BY <1>1, <1>4, <1>6, <2>1, <2>2 DEF TypeOK, NodeType, Names
<1>8. HandlesStayValid
  BY <1>7 DEF Init, HandlesStayValid
<1>9. Rooted
  BY <1>2 DEF Init, Rooted
<1>10. TreeIsSound
  BY <1>2 DEF TreeIsSound
<1>11. ReadIsExact
  BY <1>3, Zenon DEF ReadIsExact
<1> QED BY <1>8, <1>9, <1>10, <1>11 DEF Inv

\* Nothing but phase, offset and call changed in the tree, the vnodes and the last
\* read: what is said of them stays.
LEMMA SameTree ==
  ASSUME TreeIsSound, ReadIsExact, UNCHANGED <<nodes, children, got>>
  PROVE  TreeIsSound' /\ ReadIsExact'
<1>1. TreeIsSound'
  BY DEF TreeIsSound
<1>2. ReadIsExact'
  BY DEF ReadIsExact
<1> QED BY <1>1, <1>2

\* A fault stops the CPU.
LEMMA HaltsInv ==
  ASSUME Inv, Halts
  PROVE  Inv'
<1>1. phase' = "halted" /\ UNCHANGED <<archive, offset, nodes, children, vnodes, open, call, got>>
  BY DEF Halts, treeVars, callVars
<1>2. TypeOK'
  BY <1>1 DEF Inv, HandlesStayValid, TypeOK
<1>3. HandlesStayValid' /\ Rooted'
  BY <1>1, <1>2 DEF Inv, HandlesStayValid, Rooted
<1>4. TreeIsSound' /\ ReadIsExact'
  BY <1>1, SameTree DEF Inv
<1> QED BY <1>3, <1>4 DEF Inv

\* tmpfs_init makes the root.
LEMMA TmpfsInitInv ==
  ASSUME Inv, tmpfs_init
  PROVE  Inv'
<1>1. /\ phase' = "loading" /\ UNCHANGED <<archive, offset, open, call, got>>
      /\ nodes' = <<[name |-> "/", dir |-> TRUE, data |-> <<>>]>> /\ children' = << <<>> >>
      /\ vnodes' = [vnodes EXCEPT ![1] = 1]
      /\ nodes = <<>> /\ open = {}
  BY DEF tmpfs_init, callVars, Inv, Rooted
<1>2. nodes' \in Seq(NodeType) /\ Len(nodes') = 1 /\ nodes'[1].dir = TRUE /\ nodes' # <<>>
  <2>1. [name |-> "/", dir |-> TRUE, data |-> <<>>] \in NodeType
    BY BytesAssumption DEF NodeType, Names
  <2> QED BY <1>1, <2>1
<1>3. children' \in Seq(Seq(1..Len(nodes'))) /\ Len(children') = 1 /\ children'[1] = <<>>
  BY <1>1
<1>4. vnodes' \in [Vnodes -> 0..Len(nodes')] /\ vnodes'[1] = 1
  <2>1. vnodes \in [Vnodes -> 0..0] /\ 1 \in Vnodes
    BY <1>1, BlockAssumption DEF Inv, HandlesStayValid, TypeOK
  <2>2. 0 \in 0..1 /\ 1 \in 0..1 /\ Len(nodes') = 1 /\ \A x \in 0..0 : x \in 0..1
    BY <1>2
  <2> QED BY <1>1, <2>1, <2>2
<1>5. call'.node \in 0..Len(nodes') /\ got'.node = 0
      /\ got' \in [node : 0..Len(nodes'), offset : {0} \cup Offsets, size : {0} \cup Offsets,
                   ret : 0 .. (WORD - 1)]
  <2>1. call.node \in 0..0 /\ got \in [node : 0..0, offset : {0} \cup Offsets, size : {0} \cup Offsets,
                                       ret : 0 .. (WORD - 1)]
    BY <1>1 DEF Inv, HandlesStayValid, TypeOK
  <2> QED BY <1>1, <1>2, <2>1
<1>6. TypeOK'
  BY <1>1, <1>2, <1>3, <1>4, <1>5 DEF Inv, HandlesStayValid, TypeOK, NodeType, Names
<1>7. HandlesStayValid'
  BY <1>1, <1>4, <1>6 DEF HandlesStayValid
<1>8. Rooted'
  BY <1>1, <1>2, <1>3 DEF Rooted
<1>9. TreeIsSound'
  <2>1. \A node \in 2..Len(nodes') : FALSE
    BY <1>2
  <2>2. \A d \in 1..Len(nodes') : children'[d] = <<>>
    BY <1>2, <1>3
  <2>3. IsInjective(<<>>) /\ 1 \notin ToSet(<<>>)
    BY DEF IsInjective, ToSet
  <2> QED BY <2>1, <2>2, <2>3 DEF TreeIsSound
<1>10. ReadIsExact'
  BY <1>5, Zenon DEF ReadIsExact
<1> QED BY <1>7, <1>8, <1>9, <1>10 DEF Inv

\* The loop of initrd_init goes on without an entry, or ends.
LEMMA InitrdPassesInv ==
  ASSUME Inv, InitrdSkips \/ InitrdEnds
  PROVE  Inv'
<1>1. /\ phase = "loading" /\ phase' \in {"loading", "up"}
      /\ UNCHANGED <<archive, nodes, children, vnodes, open, call, got>>
  BY DEF InitrdSkips, InitrdEnds, treeVars, callVars
<1>0. TypeOK
  BY DEF Inv, HandlesStayValid
<1>2. offset' \in 0..Len(archive)
  <2>1. CASE InitrdSkips
    <3>1. AtMember /\ offset' = NextOffset
      BY <2>1 DEF InitrdSkips
    <3> QED BY <1>0, <3>1, HeaderFacts
  <2>2. CASE InitrdEnds
    BY <1>0, <2>2 DEF InitrdEnds, TypeOK
  <2> QED BY <2>1, <2>2
<1>3. TypeOK'
  BY <1>0, <1>1, <1>2 DEF TypeOK
<1>4. HandlesStayValid' /\ Rooted'
  BY <1>1, <1>3 DEF Inv, HandlesStayValid, Rooted
<1>5. TreeIsSound' /\ ReadIsExact'
  BY <1>1, SameTree DEF Inv
<1> QED BY <1>4, <1>5 DEF Inv

\* initrd_init enters a member into the tree.
LEMMA InitrdLoadsInv ==
  ASSUME Inv, InitrdLoads
  PROVE  Inv'
<1> DEFINE path == EntryPath(HeaderName(Header))
           data == ContentAt(archive, offset + 1)
           dir == Header.dir
           L == Len(nodes)
<1>0. TypeOK /\ Rooted /\ TreeIsSound /\ ReadIsExact /\ HandlesStayValid
  BY DEF Inv, HandlesStayValid
<1>1. /\ phase = "loading" /\ AtMember /\ offset' = NextOffset
      /\ Len(path) > 1 /\ NeedsVnode(Front(path)) => Unused # {}
      /\ nodes' = Append(nodes, NewNode(Last(path), dir, data))
      /\ children' = Append([children EXCEPT ![Parent(path)] = <<Len(nodes) + 1>> \o @], <<>>)
      /\ vnodes' = IF Len(path) > 1 THEN AfterWalk(Walk(Front(path))) ELSE vnodes
      /\ call' = [path |-> path, node |-> L + 1]
      /\ UNCHANGED <<phase, archive, open, got>>
  BY Zenon DEF InitrdLoads, tmpfs_add_entry
<1>2. HeaderName(Header) \in Seq(STRING) /\ Len(HeaderName(Header)) >= 1 /\ HeaderName(Header) \in GivenPaths
      /\ dir \in BOOLEAN /\ data \in Contents /\ NextOffset \in 0..Len(archive)
  BY <1>0, <1>1, HeaderFacts, Zenon
<1>3. path \in Seq(STRING) /\ Len(path) >= 1 /\ ToSet(path) \subseteq ToSet(HeaderName(Header))
  BY <1>2, EntryPathFacts, Zenon
<1>4. ToSet(path) \subseteq Names
  BY <1>2, <1>3 DEF Names
<1>5. path \in {EntryPath(p) : p \in GivenPaths}
  BY <1>2
<1> HIDE DEF path, data, dir
<1>6. nodes # <<>> /\ Walkable
  <2>1. nodes # <<>>
    BY <1>0, <1>1 DEF Rooted
  <2> QED BY <1>0, <2>1, TreeIsWalkable
<1>7. nodes \in Seq(NodeType) /\ children \in Seq(Seq(1..Len(nodes))) /\ Len(children) = Len(nodes)
      /\ L \in Nat
  <2>1. nodes \in Seq(NodeType) /\ children \in Seq(Seq(1..Len(nodes)))
    BY <1>0, Zenon DEF TypeOK, NodeType, Names
  <2>2. Len(children) = Len(nodes)
    BY <1>0, Zenon DEF Rooted
  <2>3. Len(nodes) \in Nat
    BY <2>1, SeqFacts
  <2> QED BY <2>1, <2>2, <2>3
<1>8. /\ nodes' \in Seq(NodeType) /\ Len(nodes') = L + 1
      /\ \A n \in 1..L : nodes'[n] = nodes[n]
  BY <1>1, <1>2, <1>3, <1>4, <1>7, NodesGrow, Zenon
<1>9. Parent(path) \in 1..Len(nodes) /\ nodes[Parent(path)].dir
  BY <1>3, <1>6, ParentFacts, Zenon
<1>10. ChildrenGrown(Parent(path))
  <2>1. \A d \in 1..Len(nodes) : IsInjective(children[d])
    BY <1>0, Zenon DEF TreeIsSound
  <2> QED BY <1>1, <1>6, <1>7, <1>9, <2>1, ChildrenGrow, Zenon
<1>11. TreeIsSound'
  BY <1>0, <1>6, <1>8, <1>9, <1>10, TreeGrows, Zenon
<1>12. /\ vnodes' \in [Vnodes -> 0..Len(nodes)]
       /\ \A v \in Vnodes : vnodes[v] # 0 => vnodes'[v] = vnodes[v]
  <2>0. vnodes \in [Vnodes -> 0..Len(nodes)]
    BY <1>0 DEF TypeOK
  <2>1. CASE Len(path) > 1
    <3> DEFINE front == Front(path)
               w == Walk(front)
    <3>1. Len(front) \in Nat
      <4>1. front \in Seq(STRING)
        BY <1>3, Shorter
      <4> QED BY <4>1, SeqFacts
    <3>2. w \in Walks /\ (w.node > 1 \/ w.lost # 0 => NeedsVnode(front))
      BY <1>6, <3>1, WalkFacts, Zenon
    <3>3. w.node > 1 \/ w.lost # 0 => Unused # {}
      BY <1>1, <2>1, <3>2, Zenon
    <3>4. vnodes' = AfterWalk(w)
      BY <1>1, <2>1, Zenon
    <3> HIDE DEF w
    <3> QED BY <1>7, <2>0, <3>2, <3>3, <3>4, AfterWalkFacts, Zenon
  <2>2. CASE ~(Len(path) > 1)
    <3>1. vnodes' = vnodes
      BY <1>1, <2>2, Zenon
    <3> QED BY <2>0, <3>1
  <2> QED BY <2>1, <2>2
<1>13. TypeOK'
  <2>1. children' \in Seq(Seq(1..Len(nodes')))
    BY <1>8, <1>10, Zenon DEF ChildrenGrown
  <2>2. 0..Len(nodes) \subseteq 0..Len(nodes') /\ L + 1 \in 0..Len(nodes')
    BY <1>7, <1>8
  <2>3. vnodes' \in [Vnodes -> 0..Len(nodes')]
    BY <1>12, <2>2
  <2>4. call'.path = path /\ call'.node \in 0..Len(nodes')
    <3>1. call'.path = path /\ call'.node = L + 1
      BY <1>1
    <3> QED BY <2>2, <3>1
  <2>5. got' \in [node : 0..Len(nodes'), offset : {0} \cup Offsets, size : {0} \cup Offsets,
                  ret : 0 .. (WORD - 1)]
    <3>1. got \in [node : 0..Len(nodes), offset : {0} \cup Offsets, size : {0} \cup Offsets,
                   ret : 0 .. (WORD - 1)] /\ got' = got
      BY <1>0, <1>1 DEF TypeOK
    <3> QED BY <2>2, <3>1
  <2>6. phase' \in {"boot", "loading", "up", "halted"} /\ archive' \in Archives
        /\ offset' \in 0..Len(archive') /\ open' \in SUBSET Vnodes
    BY <1>0, <1>1, <1>2 DEF TypeOK
  <2> QED BY <1>5, <1>8, <2>1, <2>3, <2>4, <2>5, <2>6 DEF TypeOK, NodeType, Names
<1>14. HandlesStayValid'
  <2>1. vnodes[1] = 1 /\ (\A v \in open : vnodes[v] # 0) /\ open \subseteq Vnodes /\ 1 \in Vnodes
    BY <1>0, <1>1, BlockAssumption DEF HandlesStayValid, TypeOK
  <2>2. vnodes'[1] = 1 /\ \A v \in open' : vnodes'[v] # 0
    BY <1>1, <1>12, <2>1
  <2> QED BY <1>13, <2>2 DEF HandlesStayValid
<1>15. Rooted'
  <2>1. nodes' # <<>>
    BY <1>7, <1>8
  <2>2. Len(children') = Len(nodes')
    BY <1>8, <1>10, Zenon DEF ChildrenGrown
  <2>3. nodes'[1].dir
    <3>1. nodes[1].dir /\ 1 \in 1..Len(nodes)
      <4>1. nodes[1].dir /\ Len(nodes) >= 1
        BY <1>6, Zenon DEF Walkable
      <4> QED BY <1>7, <4>1, Places, Zenon
    <3> QED BY <1>8, <3>1, Zenon
  <2>4. phase' = "loading"
    BY <1>1
  <2> QED BY <2>1, <2>2, <2>3, <2>4 DEF Rooted
<1>16. ReadIsExact'
  <2>1. got' = got /\ got.node \in 0..L
    BY <1>0, <1>1 DEF TypeOK
  <2>2. CASE got.node = 0
    BY <2>1, <2>2, Zenon DEF ReadIsExact
  <2>3. CASE got.node # 0
    <3>1. nodes'[got.node] = nodes[got.node]
      BY <1>7, <1>8, <2>1, <2>3
    <3> QED BY <1>0, <2>1, <3>1 DEF ReadIsExact
  <2> QED BY <2>2, <2>3
<1> QED BY <1>11, <1>14, <1>15, <1>16 DEF Inv

\* vfs_find_path gives out a vnode that holds what the walk found.
LEMMA FindPathInv ==
  ASSUME Inv, NEW path \in Lookups, vfs_find_path(path)
  PROVE  Inv'
<1> DEFINE w == Walk(path)
           L == Len(nodes)
<1>0. TypeOK /\ Rooted /\ TreeIsSound /\ ReadIsExact /\ HandlesStayValid
  BY DEF Inv, HandlesStayValid
<1>1. /\ phase = "up" /\ (NeedsVnode(path) => Unused # {})
      /\ vnodes' = AfterWalk(w)
      /\ open' = IF w.node = 0 THEN open ELSE open \cup {VnodeFor(w.node)}
      /\ call' = [path |-> path, node |-> w.node] /\ got' = NoRead
      /\ UNCHANGED <<phase, archive, offset, nodes, children>>
  BY Zenon DEF vfs_find_path, treeVars
<1>2. nodes # <<>> /\ Walkable
  <2>1. nodes # <<>>
    BY <1>0, <1>1 DEF Rooted
  <2> QED BY <1>0, <2>1, TreeIsWalkable
<1>3. Len(path) \in Nat /\ L \in Nat
  <2>1. path \in Seq(STRING) /\ nodes \in Seq(NodeType)
    BY <1>0, PathsAssumption DEF TypeOK, NodeType, Names
  <2> QED BY <2>1, SeqFacts
<1>4. w \in Walks /\ (w.node > 1 \/ w.lost # 0 => Unused # {})
  BY <1>1, <1>2, <1>3, WalkFacts, Zenon
<1> HIDE DEF w
<1>5. w.node \in 0..L
  BY <1>4 DEF Walks
<1>6. /\ vnodes' \in [Vnodes -> 0..L]
      /\ \A v \in Vnodes : vnodes[v] # 0 => vnodes'[v] = vnodes[v]
      /\ w.node > 1 => Min(Unused) \in Vnodes /\ vnodes'[Min(Unused)] = w.node
  <2>1. vnodes \in [Vnodes -> 0..Len(nodes)]
    BY <1>0 DEF TypeOK
  <2> QED BY <1>1, <1>3, <1>4, <2>1, AfterWalkFacts, Zenon
<1>7. vnodes'[1] = 1
  <2>1. vnodes[1] = 1 /\ 1 \in Vnodes
    BY <1>0, <1>1, BlockAssumption DEF HandlesStayValid
  <2> QED BY <1>6, <2>1
<1>8. w.node # 0 => VnodeFor(w.node) \in Vnodes /\ vnodes'[VnodeFor(w.node)] # 0
  <2>1. CASE w.node = 1
    BY <1>7, <2>1, BlockAssumption DEF VnodeFor
  <2>2. CASE w.node > 1
    BY <1>5, <1>6, <2>2 DEF VnodeFor
  <2> QED BY <1>3, <1>5, <2>1, <2>2
<1>9. open \subseteq Vnodes /\ \A v \in open : vnodes[v] # 0
  BY <1>0, <1>1 DEF HandlesStayValid, TypeOK
<1>10. open' \subseteq Vnodes /\ \A v \in open' : vnodes'[v] # 0
  <2>1. \A v \in open : vnodes'[v] # 0
    BY <1>6, <1>9
  <2> QED BY <1>1, <1>8, <1>9, <2>1
<1>11. got' \in [node : 0..L, offset : {0} \cup Offsets, size : {0} \cup Offsets, ret : 0 .. (WORD - 1)]
       /\ got'.node = 0
  BY <1>1, <1>3, BlockAssumption DEF NoRead
<1>12. TypeOK'
  <2>1. call'.path \in Lookups /\ call'.node \in 0..L
    BY <1>1, <1>5
  <2>2. nodes' = nodes /\ children' = children /\ archive' = archive /\ offset' = offset /\ phase' = phase
    BY <1>1
  <2> QED BY <1>0, <1>6, <1>10, <1>11, <2>1, <2>2 DEF TypeOK
<1>13. HandlesStayValid'
  BY <1>7, <1>10, <1>12 DEF HandlesStayValid
<1>14. Rooted' /\ TreeIsSound'
  BY <1>0, <1>1 DEF Rooted, TreeIsSound
<1>15. ReadIsExact'
  BY <1>11, Zenon DEF ReadIsExact
<1> QED BY <1>13, <1>14, <1>15 DEF Inv

\* vfs_close frees the vnode of its caller and no other.
LEMMA CloseInv ==
  ASSUME Inv, NEW v \in Vnodes, vfs_close(v)
  PROVE  Inv'
<1>0. TypeOK /\ Rooted /\ TreeIsSound /\ HandlesStayValid
  BY DEF Inv, HandlesStayValid
<1>1. /\ phase = "up" /\ v \in open /\ open' = open \ {v}
      /\ vnodes' = IF v = 1 THEN vnodes ELSE [vnodes EXCEPT ![v] = 0]
      /\ got' = NoRead /\ UNCHANGED <<phase, archive, offset, nodes, children, call>>
  BY Zenon DEF vfs_close, treeVars
<1>2. Len(nodes) \in Nat /\ 1 \in Vnodes /\ 0 \in 0..Len(nodes)
  <2>1. nodes \in Seq(NodeType)
    BY <1>0 DEF TypeOK, NodeType, Names
  <2>2. Len(nodes) \in Nat
    BY <2>1, SeqFacts
  <2> QED BY <2>2, BlockAssumption
<1>3. vnodes \in [Vnodes -> 0..Len(nodes)] /\ vnodes[1] = 1 /\ open \subseteq Vnodes
      /\ \A u \in open : vnodes[u] # 0
  BY <1>0, <1>1 DEF TypeOK, HandlesStayValid
<1>4. /\ vnodes' \in [Vnodes -> 0..Len(nodes)] /\ vnodes'[1] = 1 /\ open' \subseteq Vnodes
      /\ \A u \in open' : vnodes'[u] # 0
  BY <1>1, <1>2, <1>3
<1>5. got' \in [node : 0..Len(nodes), offset : {0} \cup Offsets, size : {0} \cup Offsets, ret : 0 .. (WORD - 1)]
      /\ got'.node = 0
  BY <1>1, <1>2, BlockAssumption DEF NoRead
<1>6. TypeOK'
  <2>1. nodes' = nodes /\ children' = children /\ archive' = archive /\ offset' = offset /\ phase' = phase
        /\ call' = call
    BY <1>1
  <2> QED BY <1>0, <1>4, <1>5, <2>1 DEF TypeOK
<1>7. HandlesStayValid'
  BY <1>4, <1>6 DEF HandlesStayValid
<1>8. Rooted' /\ TreeIsSound'
  BY <1>0, <1>1 DEF Rooted, TreeIsSound
<1>9. ReadIsExact'
  BY <1>5, Zenon DEF ReadIsExact
<1> QED BY <1>7, <1>8, <1>9 DEF Inv

\* vfs_read returns the bytes there are.
LEMMA ReadInv ==
  ASSUME Inv, NEW v \in Vnodes, NEW off \in Offsets, NEW size \in Offsets, vfs_read(v, off, size)
  PROVE  Inv'
<1> DEFINE n == vnodes[v]
           len == Len(nodes[n].data)
           ret == ReadLength(len, off, size)
<1>0. TypeOK /\ Rooted /\ TreeIsSound /\ HandlesStayValid
  BY DEF Inv, HandlesStayValid
<1>1. /\ phase = "up" /\ v \in open
      /\ got' = [node |-> n, offset |-> off, size |-> size, ret |-> ret]
      /\ UNCHANGED <<phase, archive, offset, nodes, children, vnodes, open, call>>
  BY Zenon DEF vfs_read, treeVars
<1>2. n \in 0..Len(nodes) /\ n # 0
  BY <1>0, <1>1 DEF TypeOK, HandlesStayValid
<1>3. len \in Nat /\ len < WORD
  <2>1. nodes \in Seq(NodeType)
    BY <1>0 DEF TypeOK, NodeType, Names
  <2>2. nodes[n] \in NodeType
    <3>1. Len(nodes) \in Nat /\ \A i \in 1..Len(nodes) : nodes[i] \in NodeType
      BY <2>1, SeqFacts
    <3> QED BY <1>2, <3>1
  <2>3. nodes[n].data \in Contents
    BY <2>2 DEF NodeType
  <2>4. nodes[n].data \in Seq(Nat) /\ len < WORD
    BY <2>3, BytesAssumption
  <2> QED BY <2>4
<1>4. /\ ret \in 0 .. (WORD - 1)
      /\ off + size < WORD => ret = Cardinality({k \in off .. (off + size - 1) : k < len})
  <2>1. off \in 0 .. (WORD - 1) /\ size \in 0 .. (WORD - 1)
    BY BytesAssumption
  <2> HIDE DEF len
  <2> QED BY <1>3, <2>1, ReadFacts
<1> HIDE DEF ret, n
<1>5. got' \in [node : 0..Len(nodes), offset : {0} \cup Offsets, size : {0} \cup Offsets, ret : 0 .. (WORD - 1)]
  BY <1>1, <1>2, <1>4
<1>6. TypeOK'
  <2>1. nodes' = nodes /\ children' = children /\ archive' = archive /\ offset' = offset /\ phase' = phase
        /\ call' = call /\ vnodes' = vnodes /\ open' = open
    BY <1>1
  <2> QED BY <1>0, <1>5, <2>1 DEF TypeOK
<1>7. HandlesStayValid' /\ Rooted' /\ TreeIsSound'
  BY <1>0, <1>1, <1>6 DEF HandlesStayValid, Rooted, TreeIsSound
<1>8. ReadIsExact'
  BY <1>1, <1>4 DEF ReadIsExact
<1> QED BY <1>7, <1>8 DEF Inv

\* Every step keeps the invariant.
LEMMA NextInv ==
  ASSUME Inv, [Next]_vars
  PROVE  Inv'
<1>1. CASE tmpfs_init
  BY <1>1, TmpfsInitInv
<1>2. CASE TmpfsInitFaults \/ InitrdFaults
  BY <1>2, HaltsInv DEF TmpfsInitFaults, InitrdFaults
<1>3. CASE InitrdLoads
  BY <1>3, InitrdLoadsInv
<1>4. CASE InitrdSkips \/ InitrdEnds
  BY <1>4, InitrdPassesInv
<1>5. CASE \E path \in Lookups : vfs_find_path(path)
  BY <1>5, FindPathInv
<1>6. CASE \E path \in Lookups : FindPathFaults(path)
  BY <1>6, HaltsInv DEF FindPathFaults
<1>7. CASE \E v \in Vnodes : vfs_close(v)
  BY <1>7, CloseInv
<1>8. CASE \E v \in Vnodes, off, size \in Offsets : vfs_read(v, off, size)
  BY <1>8, ReadInv
<1>9. CASE UNCHANGED vars
  <2>1. UNCHANGED <<phase, archive, offset, nodes, children, vnodes, open, call, got>>
    BY <1>9 DEF vars
  <2>2. TypeOK'
    BY <2>1 DEF Inv, HandlesStayValid, TypeOK
  <2>3. HandlesStayValid' /\ Rooted'
    BY <2>1, <2>2 DEF Inv, HandlesStayValid, Rooted
  <2>4. TreeIsSound' /\ ReadIsExact'
    BY <2>1, SameTree DEF Inv
  <2> QED BY <2>3, <2>4 DEF Inv
<1> QED BY <1>1, <1>2, <1>3, <1>4, <1>5, <1>6, <1>7, <1>8, <1>9 DEF Next

-----------------------------------------------------------------------------
(***************************************************************************)
(* The results.                                                            *)
(***************************************************************************)

\* The invariant holds for every archive, in every order of lookups, reads and
\* closes, whatever kmalloc refuses.
THEOREM FileSystemInvariant == Spec => []Inv
<1>1. Init => Inv
  BY InitInv
<1>2. Inv /\ [Next]_vars => Inv'
  BY NextInv
<1> QED BY <1>1, <1>2, PTL DEF Spec

\* tmpfs.c keeps a tree: whatever the paths in the archive and their order, every
\* node is in the list of one directory, which is older than it, and in it once.
THEOREM TreeStaysSound == Spec => []TreeIsSound
<1>1. Inv => TreeIsSound
  BY DEF Inv
<1> QED BY <1>1, FileSystemInvariant, PTL

\* vfs_close never frees vfs_root or a vnode that kmain holds, nor does a walk
\* take one that is in use, in any number of vnodes.
THEOREM HandlesAreValid == Spec => []HandlesStayValid
<1>1. Inv => HandlesStayValid
  BY DEF Inv
<1> QED BY <1>1, FileSystemInvariant, PTL

\* vfs_read returns as many bytes as the file has in the range, for every file and
\* every offset and size whose sum is a uint64_t.
THEOREM ReadsAreExact == Spec => []ReadIsExact
<1>1. Inv => ReadIsExact
  BY DEF Inv
<1> QED BY <1>1, FileSystemInvariant, PTL

-----------------------------------------------------------------------------
(***************************************************************************)
(* The vnodes of a lookup.                                                 *)
(***************************************************************************)

\* The turns of a walk.
Turns(g, path, N) ==
  /\ g[0] = AtRoot
  /\ \A k \in 1..N : g[k] = IF path[k] = "" THEN g[k - 1] ELSE WalkStep(g[k - 1], path[k])

LEMMA WalkTurns ==
  ASSUME NEW g, NEW path, NEW N \in Nat, IsWalk(g, path, N)
  PROVE  Turns(g, path, N)
<1> DEFINE turn(i) == IF i = 0 THEN AtRoot
                      ELSE IF path[i] = "" THEN g[i - 1] ELSE WalkStep(g[i - 1], path[i])
<1>1. g = [i \in 0..N |-> turn(i)]
  BY Zenon DEF IsWalk
<1>2. 0 \in 0..N /\ \A k \in 1..N : k \in 0..N /\ k # 0
  OBVIOUS
<1>3. g[0] = turn(0) /\ \A k \in 1..N : g[k] = turn(k)
  <2> HIDE DEF turn
  <2> QED BY <1>1, <1>2
<1> QED BY <1>2, <1>3 DEF Turns

\* The first m components.
LEMMA Prefix ==
  ASSUME NEW path \in Seq(STRING), NEW m \in 1..Len(path)
  PROVE  /\ Len(path) \in Nat /\ m \in Nat /\ m \in 0..m /\ 1 \in 1..m /\ 1 \in 1..Len(path) /\ 1 - 1 = 0
         /\ Len(SubSeq(path, 1, m)) = m
         /\ \A k \in 1..m : SubSeq(path, 1, m)[k] = path[k] /\ k \in 1..Len(path)
         /\ \A k \in 0..m : k # 0 => k \in 1..m /\ k - 1 \in 0..m /\ ~(k =< k - 1)
         /\ 0..m \in SUBSET Nat
OBVIOUS

\* The walk along the first m components is the first part of the walk.
LEMMA WalkOfPrefix ==
  ASSUME NEW path \in Seq(STRING), NEW g, IsWalk(g, path, Len(path)), NEW m \in 1..Len(path),
         SubSeq(path, 1, m) # <<"">>
  PROVE  Walk(SubSeq(path, 1, m)) = g[m]
<1> DEFINE q == SubSeq(path, 1, m)
<1>1. /\ Len(path) \in Nat /\ m \in Nat /\ m \in 0..m /\ Len(q) = m /\ 0..m \in SUBSET Nat
      /\ \A k \in 1..m : q[k] = path[k] /\ k \in 1..Len(path)
      /\ \A k \in 0..m : k # 0 => k \in 1..m /\ k - 1 \in 0..m /\ ~(k =< k - 1)
  BY Prefix, Zenon
<1>2. q # <<"">>
  OBVIOUS
<1> HIDE DEF q
<1>3. PICK h : IsWalk(h, q, m) /\ Walk(q) = h[m]
  BY <1>1, <1>2, WalkOf
<1>4. /\ g[0] = h[0]
      /\ \A k \in 1..m : g[k] = IF path[k] = "" THEN g[k - 1] ELSE WalkStep(g[k - 1], path[k])
      /\ \A k \in 1..m : h[k] = IF path[k] = "" THEN h[k - 1] ELSE WalkStep(h[k - 1], path[k])
  <2>1. Turns(g, path, Len(path)) /\ Turns(h, q, m)
    BY <1>1, <1>3, WalkTurns, Zenon
  <2> QED BY <1>1, <2>1, Zenon DEF Turns
<1> DEFINE bad == {k \in 0..m : g[k] # h[k]}
           d == Min(bad)
<1>5. SUFFICES ASSUME bad # {} PROVE FALSE
  <2>2. bad = {} => g[m] = h[m]
    BY <1>1, Zenon
  <2> QED BY <1>3, <2>2 DEF q
<1>6. d \in bad /\ \A k \in bad : d =< k
  <2>1. bad \in SUBSET Nat
    BY <1>1, Zenon
  <2> HIDE DEF bad
  <2> QED BY <1>5, <2>1, MinIsMember
<1>7. d \in 0..m /\ g[d] # h[d]
  BY <1>6
<1> HIDE DEF d
<1>8. d \in 1..m /\ d - 1 \in 0..m /\ ~(d =< d - 1)
  BY <1>1, <1>4, <1>7, Zenon
<1>9. g[d - 1] = h[d - 1]
  BY <1>6, <1>8
<1> QED BY <1>4, <1>7, <1>8, <1>9

\* A vnode is lost in the walk where a file has a component behind it.
LostAt(g, path, k) ==
  \E j \in 1..k : path[j] # "" /\ g[j - 1].node # 0 /\ ~nodes[g[j - 1].node].dir

LEMMA LostAtFile ==
  ASSUME Walkable, NEW path \in Seq(STRING), NEW g, IsWalk(g, path, Len(path))
  PROVE  \A k \in 0..Len(path) :
           g[k] \in Walks /\ (g[k].lost # 0 => g[k].node = 0 /\ LostAt(g, path, k))
<1> DEFINE N == Len(path)
           Good(k) == g[k] \in Walks /\ (g[k].lost # 0 => g[k].node = 0 /\ LostAt(g, path, k))
           bad == {k \in 0..N : ~Good(k)}
           d == Min(bad)
<1>1. N \in Nat
  OBVIOUS
<1>2. /\ g[0] = AtRoot
      /\ \A k \in 1..N : g[k] = IF path[k] = "" THEN g[k - 1] ELSE WalkStep(g[k - 1], path[k])
  BY <1>1, WalkTurns, ZenonT(40) DEF Turns
<1>n. Len(nodes) \in Nat /\ 1 \in 1..Len(nodes) /\ 0 \in 0..Len(nodes)
  <2>1. Len(nodes) \in Nat /\ Len(nodes) >= 1
    BY Zenon DEF Walkable
  <2> QED BY <2>1, Places, Zenon
<1>3. SUFFICES ASSUME bad # {} PROVE FALSE
  OBVIOUS
<1>4. d \in bad /\ \A k \in bad : d =< k
  <2>1. bad \in SUBSET Nat
    BY <1>1
  <2> HIDE DEF bad
  <2> QED BY <1>3, <2>1, MinIsMember
<1>5. d \in 0..N /\ ~Good(d)
  BY <1>4
<1> HIDE DEF d
<1>6. Good(0)
  <2>1. AtRoot \in Walks /\ AtRoot.lost = 0
    BY <1>n DEF AtRoot, Walks
  <2> QED BY <1>2, <2>1, Zenon
<1>7. d \in 1..N /\ d - 1 \in 0..N /\ ~(d =< d - 1)
  BY <1>1, <1>5, <1>6
<1>8. Good(d - 1)
  BY <1>4, <1>7
<1> DEFINE w == g[d - 1]
<1>9. LostAt(g, path, d - 1) => LostAt(g, path, d)
  <2>1. \A j \in 1 .. (d - 1) : j \in 1..d
    BY <1>7
  <2> QED BY <2>1, Zenon DEF LostAt
<1>10. /\ w \in Walks /\ w.node \in 0..Len(nodes) /\ w.lost \in 0..Len(nodes)
       /\ w = [node |-> w.node, lost |-> w.lost]
       /\ w.lost # 0 => w.node = 0 /\ LostAt(g, path, d)
  BY <1>8, <1>9 DEF Walks
<1>11. g[d] = IF path[d] = "" THEN w ELSE WalkStep(w, path[d])
  BY <1>2, <1>7
<1>12. CASE path[d] = "" \/ w.node = 0
  <2>1. g[d] = w
    BY <1>11, <1>12 DEF WalkStep
  <2> HIDE DEF w
  <2> QED BY <1>5, <1>10, <2>1
<1>13. CASE path[d] # "" /\ w.node # 0 /\ ~nodes[w.node].dir
  <2>1. g[d] = [node |-> 0, lost |-> w.node]
    BY <1>11, <1>13, Zenon DEF WalkStep
  <2>2. d \in 1..d
    BY <1>7
  <2>3. LostAt(g, path, d)
    BY <1>13, <2>2, Zenon DEF LostAt
  <2> HIDE DEF w
  <2>4. g[d] \in Walks /\ g[d].node = 0
    BY <1>10, <1>n, <2>1 DEF Walks
  <2> QED BY <1>5, <2>3, <2>4
<1>14. CASE path[d] # "" /\ w.node # 0 /\ nodes[w.node].dir
  <2>1. g[d] = [w EXCEPT !.node = Named(w.node, path[d])]
    BY <1>11, <1>14, Zenon DEF WalkStep
  <2>2. w.lost = 0 /\ w.node \in 1..Len(nodes)
    BY <1>n, <1>10, <1>14, Places, Zenon
  <2>3. Named(w.node, path[d]) \in 0..Len(nodes)
    <3> HIDE DEF w
    <3> QED BY <2>2, NamedFacts
  <2> HIDE DEF w
  <2>4. g[d] = [node |-> Named(w.node, path[d]), lost |-> 0]
    BY <1>10, <2>1, <2>2
  <2>5. g[d] \in Walks /\ g[d].lost = 0
    BY <1>n, <2>3, <2>4 DEF Walks
  <2> QED BY <1>5, <2>5
<1> QED BY <1>12, <1>13, <1>14

\* A lookup that loses a vnode finds nothing and goes through a file.
LEMMA LossIsThroughFile ==
  ASSUME Walkable, NEW path \in Seq(STRING), Walk(path).lost # 0
  PROVE  Walk(path).node = 0 /\ ThroughFile(path)
<1> DEFINE N == Len(path)
<1>1. N \in Nat
  OBVIOUS
<1>2. path # <<"">>
  BY DEF Walk
<1>3. PICK g : IsWalk(g, path, N) /\ Walk(path) = g[N]
  BY <1>1, <1>2, WalkOf
<1>4. \A k \in 0..N : g[k] \in Walks /\ (g[k].lost # 0 => g[k].node = 0 /\ LostAt(g, path, k))
  BY <1>3, LostAtFile
<1>5. Walk(path).node = 0 /\ LostAt(g, path, N)
  <2>1. N \in 0..N
    BY <1>1
  <2> QED BY <1>3, <1>4, <2>1
<1>6. PICK j \in 1..N : path[j] # "" /\ g[j - 1].node # 0 /\ ~nodes[g[j - 1].node].dir
  BY <1>5 DEF LostAt
<1>7. g[0] = AtRoot /\ \A k \in 1..N : path[k] = "" => g[k] = g[k - 1]
  BY <1>1, <1>3, WalkTurns DEF Turns
<1>8. g[0].node = 1 /\ nodes[1].dir
  BY <1>7, WalkStarts, Zenon DEF Walkable
<1>9. j - 1 # 0
  BY <1>6, <1>8
<1>10. j - 1 \in 1..N /\ j - 1 < j
  BY <1>1, <1>9
<1> DEFINE m == j - 1
<1>11. SubSeq(path, 1, m) # <<"">>
  <2> SUFFICES ASSUME SubSeq(path, 1, m) = <<"">> PROVE FALSE
    OBVIOUS
  <2>0. m \in 1..N
    BY <1>10
  <2>1. Len(SubSeq(path, 1, m)) = m /\ SubSeq(path, 1, m)[1] = path[1] /\ 1 \in 1..N /\ 1 - 1 = 0
    BY <2>0, Prefix, Zenon
  <2>2. m = 1 /\ path[1] = ""
    <3>1. Len(<<"">>) = 1 /\ <<"">>[1] = ""
      OBVIOUS
    <3> QED BY <2>1, <3>1, Zenon
  <2>3. g[1] = g[0]
    <3>1. g[1] = g[1 - 1]
      BY <1>7, <2>1, <2>2, Zenon
    <3> QED BY <2>1, <3>1, Zenon
  <2> QED BY <1>6, <1>8, <2>2, <2>3
<1>12. Walk(SubSeq(path, 1, m)) = g[m]
  BY <1>3, <1>10, <1>11, WalkOfPrefix
<1>13. ThroughFile(path)
  BY <1>6, <1>10, <1>12, Zenon DEF ThroughFile
<1> QED BY <1>5, <1>13

\* Only a lookup and a close move vnodes; the vnode a lookup takes is then open.
LEMMA FindPathBalances ==
  ASSUME Inv, NEW path \in Lookups, vfs_find_path(path)
  PROVE  Leaked' = Leaked \/ (call'.node = 0 /\ ThroughFile(call'.path))
<1> DEFINE w == Walk(path)
<1>0. TypeOK /\ Rooted /\ HandlesStayValid
  BY DEF Inv, HandlesStayValid
<1>1. /\ phase = "up" /\ vnodes' = AfterWalk(w)
      /\ open' = IF w.node = 0 THEN open ELSE open \cup {VnodeFor(w.node)}
      /\ call' = [path |-> path, node |-> w.node] /\ (NeedsVnode(path) => Unused # {})
  BY Zenon DEF vfs_find_path
<1>2. Walkable
  <2>1. nodes # <<>>
    BY <1>0, <1>1 DEF Rooted
  <2> QED BY <1>0, <2>1, TreeIsWalkable
<1>3. path \in Seq(STRING) /\ Len(path) \in Nat
  <2>1. path \in Seq(STRING)
    BY PathsAssumption
  <2> QED BY <2>1
<1>4. w \in Walks /\ (w.node > 1 \/ w.lost # 0 => Unused # {})
  BY <1>1, <1>2, <1>3, WalkFacts, Zenon
<1>5. CASE w.lost # 0
  <2>1. w.node = 0 /\ ThroughFile(path)
    BY <1>2, <1>3, <1>5, LossIsThroughFile
  <2> QED BY <1>1, <2>1
<1>6. CASE w.lost = 0
  <2> HIDE DEF w
  <2>0. w.node \in Nat /\ vnodes \in [Vnodes -> 0..Len(nodes)] /\ Len(nodes) \in Nat /\ 1 \in Vnodes
    <3>1. Len(nodes) \in Nat
      BY <1>2, Zenon DEF Walkable
    <3>2. w.node \in 0..Len(nodes)
      BY <1>4, Zenon DEF Walks
    <3>3. vnodes \in [Vnodes -> 0..Len(nodes)] /\ 1 \in Vnodes
      BY <1>0, BlockAssumption, Zenon DEF TypeOK
    <3> QED BY <3>1, <3>2, <3>3
  <2>1. CASE w.node > 1
    <3> DEFINE u == Min(Unused)
    <3>1. Unused \in SUBSET Nat /\ Unused # {}
      BY <1>4, <2>1, BlockAssumption DEF Unused
    <3>2. u \in Unused
      BY <3>1, MinIsMember
    <3>3. u \in Vnodes /\ vnodes[u] = 0
      BY <3>2 DEF Unused
    <3>4. vnodes' = [vnodes EXCEPT ![u] = w.node] /\ open' = open \cup {u}
      <4>1. w.node # 0 /\ w.node # 1
        BY <2>0, <2>1
      <4> QED BY <1>1, <2>1, <4>1, Zenon DEF AfterWalk, VnodeFor
    <3> HIDE DEF u
    <3>5. Leaked' = Leaked
      BY <2>0, <3>3, <3>4 DEF Leaked
    <3> QED BY <3>5
  <2>2. CASE ~(w.node > 1)
    <3>1. vnodes' = vnodes /\ (open' = open \/ open' = open \cup {1})
      BY <1>1, <1>6, <2>0, <2>2 DEF AfterWalk, VnodeFor
    <3>2. Leaked' = Leaked
      BY <3>1 DEF Leaked
    <3> QED BY <3>2
  <2> QED BY <2>1, <2>2
<1> QED BY <1>5, <1>6

\* A lookup gives back every vnode it has taken, or kmain has it, unless a file
\* stands in the path where a component follows; for every tree and path.
THEOREM LookupsAreBalanced == Spec => LookupsBalance
<1> DEFINE Balanced == phase = "up" =>
             Leaked' = Leaked \/ (call'.node = 0 /\ ThroughFile(call'.path))
<1>1. Inv /\ [Next]_vars => [Balanced]_vars
  <2> SUFFICES ASSUME Inv, Next, phase = "up"
               PROVE  Leaked' = Leaked \/ (call'.node = 0 /\ ThroughFile(call'.path))
    OBVIOUS
  <2>1. CASE \E path \in Lookups : vfs_find_path(path)
    BY <2>1, FindPathBalances
  <2>2. CASE UNCHANGED <<vnodes, open>>
    BY <2>2 DEF Leaked
  <2>3. CASE \E v \in Vnodes : vfs_close(v)
    <3>1. PICK v \in Vnodes : vfs_close(v)
      BY <2>3
    <3>2. v \in open /\ open' = open \ {v} /\ vnodes' = IF v = 1 THEN vnodes ELSE [vnodes EXCEPT ![v] = 0]
      BY <3>1 DEF vfs_close
    <3>3. vnodes \in [Vnodes -> 0..Len(nodes)]
      BY DEF Inv, HandlesStayValid, TypeOK
    <3>4. Leaked' = Leaked
      BY <3>2, <3>3 DEF Leaked
    <3> QED BY <3>4
  <2>4. \/ \E path \in Lookups : vfs_find_path(path)
        \/ UNCHANGED <<vnodes, open>>
        \/ \E v \in Vnodes : vfs_close(v)
    BY DEF Next, tmpfs_init, TmpfsInitFaults, InitrdLoads, InitrdSkips, InitrdEnds, InitrdFaults,
           FindPathFaults, vfs_read, Halts
  <2> QED BY <2>1, <2>2, <2>3, <2>4
<1>2. [][Balanced]_vars => LookupsBalance
  BY DEF LookupsBalance
<1> HIDE DEF Balanced
<1> QED BY <1>1, <1>2, FileSystemInvariant, PTL DEF Spec

-----------------------------------------------------------------------------
(***************************************************************************)
(* The tree of an archive.                                                 *)
(***************************************************************************)

\* MemberPath, of a path.
PathOf(path) ==
  SubSeq(path, IF Len(path) > 1 /\ path[1] = "." THEN 2 ELSE 1,
               IF path[Len(path)] = "" THEN Len(path) - 1 ELSE Len(path))

\* The archives that ArchiveIsLoaded is about.
Regular == Orderly /\ NamesFit

LEMMA MemberPathIs ==
  ASSUME Regular, archive \in Archives
  PROVE  \A i \in Positions : MemberPath(i) = PathOf(HeaderName(archive[i]))
<1> SUFFICES ASSUME NEW i \in Positions
             PROVE  MemberPath(i) = PathOf(HeaderName(archive[i]))
  OBVIOUS
<1>1. archive[i].prefix = <<>> /\ ~archive[i].full
  BY Zenon DEF Regular, NamesFit
<1>2. archive[i].name \in Seq(STRING)
  BY HeaderIsMember, Zenon DEF TarMember, Positions
<1>3. archive[i].prefix \o archive[i].name = archive[i].name
  <2>1. \A q \in Seq(STRING) : <<>> \o q = q
    OBVIOUS
  <2> QED BY <1>1, <1>2, <2>1, Zenon
<1>4. HeaderName(archive[i]) = archive[i].name
  BY <1>1, Zenon DEF HeaderName
<1> QED BY <1>3, <1>4, Zenon DEF MemberPath, PathOf

\* Cuts of a sequence.
LEMMA Cuts ==
  ASSUME NEW q \in Seq(STRING), Len(q) >= 1
  PROVE  /\ SubSeq(q, 1, Len(q)) = q
         /\ SubSeq(q, 1, Len(q) - 1) = Front(q) /\ Len(Front(q)) = Len(q) - 1
         /\ SubSeq(q, 2, Len(q)) = Tail(q) /\ Len(Tail(q)) = Len(q) - 1
         /\ Len(q) > 1 => SubSeq(q, 2, Len(q) - 1) = Front(Tail(q)) /\ Last(Tail(q)) = q[Len(q)]
<1>1. Len(q) \in Nat /\ DOMAIN q = 1..Len(q)
  OBVIOUS
<1>2. SubSeq(q, 1, Len(q)) = q
  <2> DEFINE s == SubSeq(q, 1, Len(q))
  <2>1. s \in Seq(STRING) /\ Len(s) = Len(q) /\ \A k \in 1..Len(q) : s[k] = q[k]
    BY <1>1
  <2> HIDE DEF s
  <2>2. s = q
    BY <2>1, SeqEqual
  <2> QED BY <2>2 DEF s
<1>3. SubSeq(q, 1, Len(q) - 1) = Front(q) /\ Len(Front(q)) = Len(q) - 1
  BY Shorter DEF Front
<1>4. /\ Tail(q) \in Seq(STRING) /\ Len(Tail(q)) = Len(q) - 1
      /\ \A k \in 1 .. (Len(q) - 1) : Tail(q)[k] = q[k + 1]
  BY <1>1
<1>5. SubSeq(q, 2, Len(q)) = Tail(q)
  <2> DEFINE s == SubSeq(q, 2, Len(q))
  <2>1. s \in Seq(STRING) /\ Len(s) = Len(q) - 1 /\ \A k \in 1 .. (Len(q) - 1) : s[k] = q[k + 1]
    BY <1>1
  <2> HIDE DEF s
  <2>2. s = Tail(q)
    BY <1>4, <2>1, SeqEqual
  <2> QED BY <2>2 DEF s
<1>6. ASSUME Len(q) > 1 PROVE SubSeq(q, 2, Len(q) - 1) = Front(Tail(q)) /\ Last(Tail(q)) = q[Len(q)]
  <2> DEFINE s == SubSeq(q, 2, Len(q) - 1)
             t == Tail(q)
             u == SubSeq(t, 1, Len(t) - 1)
  <2>1. s \in Seq(STRING) /\ Len(s) = Len(q) - 2 /\ \A k \in 1 .. (Len(q) - 2) : s[k] = q[k + 1]
    BY <1>1, <1>6
  <2>2. t \in Seq(STRING) /\ Len(t) = Len(q) - 1 /\ \A k \in 1 .. (Len(q) - 1) : t[k] = q[k + 1]
    BY <1>4
  <2> HIDE DEF s, t
  <2>3. u \in Seq(STRING) /\ Len(u) = Len(q) - 2 /\ \A k \in 1 .. (Len(q) - 2) : u[k] = q[k + 1]
    BY <1>1, <1>6, <2>2
  <2> HIDE DEF u
  <2>4. s = u
    BY <2>1, <2>3, SeqEqual
  <2>5. t[Len(t)] = q[Len(q)]
    BY <1>1, <1>6, <2>2
  <2> QED BY <2>4, <2>5 DEF Front, Last, s, t, u
<1> QED BY <1>2, <1>3, <1>4, <1>5, <1>6

\* What is in front of the last element.
LEMMA FrontIs ==
  ASSUME NEW q \in Seq(STRING), Len(q) >= 1
  PROVE  /\ Front(q) \in Seq(STRING) /\ Len(Front(q)) = Len(q) - 1 /\ Len(q) \in Nat
         /\ \A k \in 1 .. (Len(q) - 1) : Front(q)[k] = q[k]
<1> DEFINE f == SubSeq(q, 1, Len(q) - 1)
<1>1. Len(q) \in Nat /\ DOMAIN q = 1..Len(q) /\ \A k \in 1..Len(q) : q[k] \in STRING
  OBVIOUS
<1>2. f \in Seq(STRING) /\ Len(f) = Len(q) - 1 /\ \A k \in 1 .. (Len(q) - 1) : f[k] = q[k]
  BY <1>1
<1> QED BY <1>1, <1>2 DEF Front

LEMMA OneLong ==
  ASSUME NEW T, NEW q \in Seq(T), Len(q) = 1
  PROVE  q = <<q[1]>>
<1> DEFINE x == q[1]
           r == <<x>>
<1>1. x \in T
  OBVIOUS
<1> HIDE DEF x
<1>2. r \in Seq(T) /\ Len(r) = 1 /\ r[1] = x
  BY <1>1
<1>3. \A k \in 1..1 : k = 1
  OBVIOUS
<1> HIDE DEF r
<1>4. q = r
  BY <1>2, <1>3, SeqEqual DEF x
<1> QED BY <1>4 DEF r, x

\* Nothing is in front of a single element.
LEMMA Single ==
  ASSUME NEW q \in Seq(STRING), Len(q) >= 1
  PROVE  /\ q # <<>> /\ (Len(q) = 1 \/ Len(q) > 1) /\ (Len(q) > 1 => Len(q) # 1)
         /\ Front(q) = <<>> <=> Len(q) = 1
         /\ q = <<"">> <=> Len(q) = 1 /\ Last(q) = ""
<1> DEFINE f == Front(q)
<1>1. f \in Seq(STRING) /\ Len(f) = Len(q) - 1 /\ Len(q) \in Nat
  BY FrontIs
<1> HIDE DEF f
<1>2. f = <<>> <=> Len(q) = 1
  BY <1>1
<1>3. q # <<>> /\ (Len(q) = 1 \/ Len(q) > 1) /\ (Len(q) > 1 => Len(q) # 1)
  BY <1>1
<1>4. ASSUME Len(q) = 1, Last(q) = "" PROVE q = <<"">>
  <2>1. q[1] = ""
    BY <1>4 DEF Last
  <2> QED BY <1>4, <2>1, OneLong, Zenon
<1>5. Len(<<"">>) = 1 /\ Last(<<"">>) = ""
  BY DEF Last
<1> QED BY <1>2, <1>3, <1>4, <1>5 DEF f

\* A sequence is its front and its last element.
LEMMA FrontAndLast ==
  ASSUME NEW p \in Seq(STRING), NEW q \in Seq(STRING), p # <<>>, q # <<>>, Front(p) = Front(q), Last(p) = Last(q)
  PROVE  p = q
<1>1. Len(p) \in Nat /\ Len(q) \in Nat /\ Len(p) >= 1 /\ Len(q) >= 1
  BY SeqFacts
<1> DEFINE f == Front(p)
           g == Front(q)
<1>2. Len(f) = Len(p) - 1 /\ \A k \in 1 .. (Len(p) - 1) : f[k] = p[k]
  BY <1>1, FrontIs
<1>3. Len(g) = Len(q) - 1 /\ \A k \in 1 .. (Len(q) - 1) : g[k] = q[k]
  BY <1>1, FrontIs
<1>4. f = g
  OBVIOUS
<1> HIDE DEF f, g
<1>5. Len(p) = Len(q)
  BY <1>1, <1>2, <1>3, <1>4
<1>6. p[Len(p)] = q[Len(q)]
  BY DEF Last
<1>7. ASSUME NEW k \in 1..Len(p) PROVE p[k] = q[k]
  <2>1. k = Len(p) \/ k \in 1 .. (Len(p) - 1)
    BY <1>1
  <2> QED BY <1>2, <1>3, <1>4, <1>5, <1>6, <2>1
<1> QED BY <1>5, <1>7, SeqEqual

\* initrd_init cuts of a name what is not of its path.
LEMMA PathForms ==
  ASSUME NEW path \in Seq(STRING), Len(path) >= 1
  PROVE  /\ PathOf(path) \in Seq(STRING)
         /\ PathOf(path) = <<>> <=> Unprefixed(path) = <<"">>
         /\ PathOf(path) # <<>> => EntryPath(path) = PathOf(path)
<1> DEFINE name == Unprefixed(path)
           out == PathOf(path)
<1>0. Len(path) \in Nat /\ Head(path) = path[1]
  OBVIOUS
<1>1. /\ name \in Seq(STRING) /\ Len(name) >= 1
      /\ name[Len(name)] = path[Len(path)]
      /\ out = IF path[Len(path)] = "" THEN Front(name) ELSE name
  <2>1. CASE Len(path) > 1 /\ path[1] = "."
    <3>1. name = Tail(path) /\ Tail(path) \in Seq(STRING) /\ Len(Tail(path)) = Len(path) - 1
      BY <1>0, <2>1, Shorter, Zenon DEF Unprefixed
    <3>2. Len(path) - 1 >= 1
      BY <1>0, <2>1
    <3>3. Last(Tail(path)) = path[Len(path)]
      BY <2>1, Cuts, Zenon
    <3>4. out = IF path[Len(path)] = "" THEN Front(Tail(path)) ELSE Tail(path)
      BY <2>1, Cuts, Zenon DEF PathOf
    <3> QED BY <3>1, <3>2, <3>3, <3>4, Zenon DEF Last
  <2>2. CASE ~(Len(path) > 1 /\ path[1] = ".")
    <3>1. name = path
      BY <1>0, <2>2, Zenon DEF Unprefixed
    <3>2. out = IF path[Len(path)] = "" THEN Front(path) ELSE path
      BY <2>2, Cuts, Zenon DEF PathOf
    <3> QED BY <3>1, <3>2, Zenon
  <2> QED BY <2>1, <2>2, Zenon
<1>2. EntryPath(path) = IF Len(name) > 1 /\ Last(name) = "" THEN Front(name) ELSE name
  BY Zenon DEF EntryPath
<1> HIDE DEF name, out
<1>3. /\ name # <<>> /\ (Len(name) = 1 \/ Len(name) > 1) /\ (Front(name) = <<>> <=> Len(name) = 1)
      /\ name = <<"">> <=> Len(name) = 1 /\ Last(name) = ""
      /\ Front(name) \in Seq(STRING)
  BY <1>1, Single, FrontIs, Zenon
<1>5. CASE path[Len(path)] = ""
  <2>1. out = Front(name) /\ Last(name) = ""
    BY <1>1, <1>5, Zenon DEF Last
  <2> QED BY <1>2, <1>3, <2>1, Zenon DEF name, out
<1>6. CASE path[Len(path)] # ""
  <2>1. out = name /\ Last(name) # ""
    BY <1>1, <1>6, Zenon DEF Last
  <2> QED BY <1>1, <1>2, <1>3, <2>1, Zenon DEF name, out
<1> QED BY <1>5, <1>6

\* The headers of an archive up to a block, and what a node has of one.
HeadersTo(arc, off) == {i \in 1..Len(arc) : arc[i].kind = "header" /\ i =< off}
DataOf(arc, i) == IF arc[i].dir THEN <<>> ELSE ContentAt(arc, i)

\* P gives the path of every node: no two have the same.
Distinct(P, ns) ==
  /\ P \in Seq(Seq(STRING)) /\ Len(P) = Len(ns) /\ Len(P) >= 1 /\ P[1] = <<>>
  /\ \A m, n \in 1..Len(P) : P[m] = P[n] => m = n

\* A node is named by the last component of its path, and has an older directory
\* at the path before it.
Nested(P, ns) ==
  \A n \in 2..Len(P) :
    /\ P[n] # <<>> /\ ns[n].name = Last(P[n]) /\ \A j \in 1..Len(P[n]) : P[n][j] # ""
    /\ \E d \in 1 .. (n - 1) : P[d] = Front(P[n]) /\ ns[d].dir

\* The lists of children are as the paths say.
Linked(P, cs) ==
  \A d, n \in 1..Len(P) : n \in ToSet(cs[d]) <=> n # 1 /\ Front(P[n]) = P[d]

\* The nodes are the members so far, and the members so far are nodes.
FromMembers(P, ns, arc, off) ==
  \A n \in 2..Len(P) : \E i \in HeadersTo(arc, off) :
    P[n] = PathOf(HeaderName(arc[i])) /\ ns[n].dir = arc[i].dir /\ ns[n].data = DataOf(arc, i)
AllEntered(P, arc, off) ==
  \A i \in HeadersTo(arc, off) :
    PathOf(HeaderName(arc[i])) # <<>> => \E n \in 2..Len(P) : P[n] = PathOf(HeaderName(arc[i]))

Placed(P, ns, cs, arc, off) ==
  /\ Distinct(P, ns) /\ Nested(P, ns) /\ Linked(P, cs)
  /\ FromMembers(P, ns, arc, off) /\ AllEntered(P, arc, off)

\* The paths.
LEMMA PathsOfNodes ==
  ASSUME NEW P, NEW ns, Distinct(P, ns), Nested(P, ns)
  PROVE  /\ Len(P) \in Nat /\ \A n \in 1..Len(P) : P[n] \in Seq(STRING)
         /\ \A n \in 2..Len(P) : n \in 1..Len(P) /\ n # 1 /\ Len(P[n]) >= 1 /\ Len(P[n]) \in Nat
<1>1. P \in Seq(Seq(STRING))
  BY Zenon DEF Distinct
<1>2. Len(P) \in Nat /\ \A n \in 1..Len(P) : P[n] \in Seq(STRING)
  BY <1>1, SeqFacts
<1>3. ASSUME NEW n \in 2..Len(P) PROVE n \in 1..Len(P) /\ n # 1
  BY <1>2
<1>4. ASSUME NEW n \in 2..Len(P) PROVE Len(P[n]) >= 1 /\ Len(P[n]) \in Nat
  <2>1. P[n] \in Seq(STRING) /\ P[n] # <<>>
    BY <1>2, <1>3, Zenon DEF Nested
  <2> DEFINE p == P[n]
  <2>2. p \in Seq(STRING) /\ p # <<>>
    BY <2>1
  <2> HIDE DEF p
  <2>3. Len(p) >= 1 /\ Len(p) \in Nat
    BY <2>2, SeqFacts
  <2> QED BY <2>3 DEF p
<1> QED BY <1>2, <1>3, <1>4, Zenon

\* tmpfs_finddir finds the node with the path, and no other.
LEMMA NamedPlaced ==
  ASSUME Walkable, NEW P, Distinct(P, nodes), Nested(P, nodes), Linked(P, children),
         NEW n \in 2..Len(P), NEW d \in 1..Len(P), P[d] = Front(P[n])
  PROVE  Named(d, Last(P[n])) = n
<1> DEFINE L == Len(nodes)
           name == Last(P[n])
           kids == children[d]
           hits == {k \in 1..Len(kids) : nodes[kids[k]].name = name}
<1>0. Len(P) = L /\ L \in Nat /\ n \in 1..L /\ n # 1 /\ d \in 1..L
  <2>1. Len(P) = L
    BY Zenon DEF Distinct
  <2> QED BY <2>1, PathsOfNodes
<1>1. kids \in Seq(1..L)
  BY <1>0, Zenon DEF Walkable
<1>2. DOMAIN kids = 1..Len(kids) /\ \A k \in 1..Len(kids) : kids[k] \in 1..L
  <2> HIDE DEF kids, L
  <2> QED BY <1>1, SeqFacts
<1>3. \A c \in 1..L : c \in ToSet(kids) <=> c # 1 /\ Front(P[c]) = P[d]
  BY <1>0, Zenon DEF Linked
<1>4. n \in ToSet(kids)
  BY <1>0, <1>3, Zenon
<1>5. \A c \in 2..Len(P) : nodes[c].name = Last(P[c])
  BY Zenon DEF Nested
<1>6. PICK h \in 1..Len(kids) : kids[h] = n
  <2> HIDE DEF kids
  <2> QED BY <1>2, <1>4 DEF ToSet
<1>7. h \in hits
  BY <1>5, <1>6, Zenon
<1>8. hits # {} /\ hits \in SUBSET Nat
  BY <1>7
<1> HIDE DEF hits
<1>9. Min(hits) \in hits
  BY <1>8, MinIsMember
<1> DEFINE c == kids[Min(hits)]
<1>10. Min(hits) \in 1..Len(kids) /\ nodes[c].name = name
  BY <1>9, Zenon DEF hits
<1>11. c \in 1..L /\ c \in ToSet(kids)
  <2>1. c \in 1..L
    BY <1>2, <1>10, Zenon
  <2>2. c \in ToSet(kids)
    <3> HIDE DEF kids
    <3> QED BY <1>2, <1>10 DEF ToSet
  <2> QED BY <2>1, <2>2
<1>12. c # 1 /\ Front(P[c]) = Front(P[n])
  BY <1>3, <1>11, Zenon
<1> HIDE DEF c, kids, name
<1>13. c \in 2..Len(P)
  BY <1>0, <1>11, <1>12
<1>14. Last(P[c]) = Last(P[n])
  BY <1>5, <1>10, <1>13, Zenon DEF name
<1>15. /\ P[c] \in Seq(STRING) /\ P[c] # <<>> /\ P[n] \in Seq(STRING) /\ P[n] # <<>>
  BY <1>13, PathsOfNodes, Zenon DEF Nested
<1>16. P[c] = P[n]
  BY <1>12, <1>14, <1>15, FrontAndLast, Zenon
<1>17. c = n
  BY <1>0, <1>11, <1>16, Zenon DEF Distinct
<1>18. Named(d, Last(P[n])) = kids[Min(hits)]
  BY <1>8, Zenon DEF Named, hits, kids, name
<1> QED BY <1>17, <1>18 DEF c

\* Arithmetic of lengths.
LEMMA Lengths ==
  ASSUME NEW x \in Nat, x >= 1
  PROVE  /\ x \in 1..x /\ 1 \in 1..x /\ (x = 1 \/ x - 1 \in 1..x)
         /\ x - 1 = 1 => 1 \in 1 .. (x - 1)
         /\ x = 1 => x - 1 = 0
         /\ x - 1 \in 0..x /\ \A k \in 1 .. (x - 1) : k \in 1..x
OBVIOUS

\* vfs_find_path finds every node at its path.
LEMMA WalkPlaced ==
  ASSUME Walkable, NEW P, Distinct(P, nodes), Nested(P, nodes), Linked(P, children)
  PROVE  \A n \in 1..Len(P) : Walk(P[n]) = [node |-> n, lost |-> 0]
<1> DEFINE Found(n) == Walk(P[n]) = [node |-> n, lost |-> 0]
           bad == {n \in 1..Len(P) : ~Found(n)}
           n == Min(bad)
<1>0. Len(P) \in Nat
  BY PathsOfNodes
<1>1. SUFFICES ASSUME bad # {} PROVE FALSE
  OBVIOUS
<1>2. n \in bad /\ \A m \in bad : n =< m
  <2>1. bad \in SUBSET Nat
    BY <1>0
  <2> HIDE DEF bad
  <2> QED BY <1>1, <2>1, MinIsMember
<1>3. n \in 1..Len(P) /\ ~Found(n) /\ \A m \in 1..Len(P) : ~(n =< m) => Found(m)
  BY <1>2, Zenon
<1> HIDE DEF n, bad
<1>4. n # 1
  <2>1. P[1] = <<>> /\ Len(<<>>) = 0 /\ <<>> # <<"">> /\ 0 \in Nat
    BY DEF Distinct
  <2>2. PICK g : IsWalk(g, <<>>, 0) /\ Walk(<<>>) = g[0]
    BY <2>1, WalkOf, Zenon
  <2>3. g[0] = AtRoot
    BY <2>1, <2>2, WalkTurns, Zenon DEF Turns
  <2> QED BY <1>3, <2>1, <2>2, <2>3, Zenon DEF AtRoot
<1>5. n \in 2..Len(P)
  BY <1>0, <1>3, <1>4
<1> DEFINE p == P[n]
           N == Len(p)
<1>6. p \in Seq(STRING) /\ N \in Nat /\ N >= 1 /\ p # <<>> /\ \A j \in 1..N : p[j] # ""
  BY <1>3, <1>5, PathsOfNodes, Zenon DEF Nested
<1>7. PICK d \in 1 .. (n - 1) : P[d] = Front(p) /\ nodes[d].dir
  BY <1>5, Zenon DEF Nested
<1>8. d \in 1..Len(P) /\ ~(n =< d) /\ d # 0
  BY <1>0, <1>3, <1>7
<1>9. Walk(Front(p)) = [node |-> d, lost |-> 0]
  BY <1>3, <1>7, <1>8, Zenon
<1>10. Named(d, Last(p)) = n
  BY <1>5, <1>7, <1>8, NamedPlaced, Zenon
<1> HIDE DEF p
<1>11. Front(p) = SubSeq(p, 1, N - 1) /\ (N = 1 \/ N - 1 \in 1..N) /\ N \in 1..N /\ Last(p) = p[N]
  BY <1>6, Lengths, Zenon DEF Front, Last
<1>12. p # <<"">> /\ SubSeq(p, 1, N - 1) # <<"">>
  <2>1. 1 \in 1..N /\ p[1] # ""
    BY <1>6, Lengths, Zenon
  <2>2. <<"">>[1] = "" /\ Len(<<"">>) = 1 /\ Last(<<"">>) = ""
    BY DEF Last
  <2>3. p # <<"">>
    BY <2>1, <2>2, Zenon
  <2>4. ASSUME Front(p) = <<"">> PROVE FALSE
    <3>1. Len(Front(p)) = N - 1 /\ \A k \in 1 .. (N - 1) : Front(p)[k] = p[k]
      BY <1>6, FrontIs
    <3>2. 1 \in 1 .. (N - 1)
      BY <1>6, <2>2, <2>4, <3>1, Lengths, Zenon
    <3> QED BY <2>1, <2>2, <2>4, <3>1, <3>2, Zenon
  <2> QED BY <1>11, <2>3, <2>4
<1>13. PICK g : IsWalk(g, p, N) /\ Walk(p) = g[N]
  BY <1>6, <1>12, WalkOf, Zenon
<1>14. g[0] = AtRoot /\ g[N] = WalkStep(g[N - 1], p[N])
  BY <1>6, <1>11, <1>13, WalkTurns, Zenon DEF Turns
<1>15. g[N - 1] = [node |-> d, lost |-> 0]
  <2>1. CASE N = 1
    <3>1. Front(p) = <<>> /\ N - 1 = 0
      BY <1>6, <2>1, Single, Lengths, Zenon
    <3>2. d = 1
      <4>1. P[1] = <<>> /\ 1 \in 1..Len(P)
        BY <1>0, <1>5 DEF Distinct
      <4> QED BY <1>7, <1>8, <3>1, <4>1, Zenon DEF Distinct
    <3> QED BY <1>14, <3>1, <3>2, Zenon DEF AtRoot
  <2>2. CASE N - 1 \in 1..N
    <3>1. Walk(SubSeq(p, 1, N - 1)) = g[N - 1]
      BY <1>6, <1>12, <1>13, <2>2, WalkOfPrefix, Zenon
    <3> QED BY <1>9, <1>11, <3>1, Zenon
  <2> QED BY <1>11, <2>1, <2>2
<1>16. WalkStep(g[N - 1], p[N]) = [node |-> n, lost |-> 0]
  <2> DEFINE w == [node |-> d, lost |-> 0]
  <2>1. w.node = d /\ [w EXCEPT !.node = n] = [node |-> n, lost |-> 0]
    OBVIOUS
  <2> HIDE DEF w
  <2>2. WalkStep(w, p[N]) = [w EXCEPT !.node = Named(d, p[N])]
    BY <1>7, <1>8, <2>1, Zenon DEF WalkStep
  <2> QED BY <1>10, <1>11, <1>15, <2>1, <2>2, Zenon DEF w
<1>17. Walk(p) = [node |-> n, lost |-> 0]
  BY <1>13, <1>14, <1>16, Zenon
<1> QED BY <1>3, <1>17 DEF p

\* One more path.
LEMMA PathsGrow ==
  ASSUME NEW P \in Seq(Seq(STRING)), NEW path \in Seq(STRING)
  PROVE  /\ Append(P, path) \in Seq(Seq(STRING)) /\ Len(Append(P, path)) = Len(P) + 1
         /\ Append(P, path)[Len(P) + 1] = path /\ \A n \in 1..Len(P) : Append(P, path)[n] = P[n]
BY Appended

\* One more place.
LEMMA NextPlaces ==
  ASSUME NEW L \in Nat, L >= 1
  PROVE  /\ \A n \in 1 .. (L + 1) : n = L + 1 \/ n \in 1..L
         /\ \A n \in 2 .. (L + 1) : n = L + 1 \/ n \in 2..L
         /\ \A n \in 1..L : n \in 1 .. (L + 1) /\ n # L + 1
         /\ \A n \in 1..L : n = 1 \/ n \in 2..L
         /\ \A n \in 2..L : n \in 1..L /\ n # 1 /\ n \in 2 .. (L + 1) /\ \A m \in 1 .. (n - 1) : m \in 1..L
         /\ 1 \in 1..L /\ L + 1 \in 2 .. (L + 1) /\ (L + 1) - 1 = L /\ L + 1 >= 1 /\ L + 1 # 1
OBVIOUS

\* tmpfs_add_entry adds node L + 1 for header h, with a new path below directory d.
Entered(P, ns, cs, arc, off, ns2, cs2, off2, L, path, h, d) ==
  /\ L \in Nat /\ Len(ns) = L /\ Len(ns2) = L + 1 /\ \A n \in 1..L : ns2[n] = ns[n]
  /\ path \in Seq(STRING) /\ path # <<>> /\ \A j \in 1..Len(path) : path[j] # ""
  /\ h \in 1..Len(arc) /\ path = PathOf(HeaderName(arc[h]))
  /\ ns2[L + 1].name = Last(path) /\ ns2[L + 1].dir = arc[h].dir /\ ns2[L + 1].data = DataOf(arc, h)
  /\ HeadersTo(arc, off2) = HeadersTo(arc, off) \union {h}
  /\ \A i \in HeadersTo(arc, off) : PathOf(HeaderName(arc[i])) # path
  /\ d \in 1..L /\ P[d] = Front(path) /\ ns[d].dir
  /\ \A e \in 1..L : /\ ToSet(cs2[e]) = ToSet(cs[e]) \cup (IF e = d THEN {L + 1} ELSE {})
                     /\ L + 1 \notin ToSet(cs[e])
  /\ ToSet(cs2[L + 1]) = {}

LEMMA PlacedGrows ==
  ASSUME NEW P, NEW ns, NEW cs, NEW arc, NEW off, NEW ns2, NEW cs2, NEW off2,
         NEW L, NEW path, NEW h, NEW d,
         Placed(P, ns, cs, arc, off),
         Entered(P, ns, cs, arc, off, ns2, cs2, off2, L, path, h, d)
  PROVE  Placed(Append(P, path), ns2, cs2, arc, off2)
<1>e. /\ L \in Nat /\ Len(ns) = L /\ Len(ns2) = L + 1 /\ \A n \in 1..L : ns2[n] = ns[n]
      /\ path \in Seq(STRING) /\ path # <<>> /\ \A j \in 1..Len(path) : path[j] # ""
      /\ h \in 1..Len(arc) /\ path = PathOf(HeaderName(arc[h]))
      /\ ns2[L + 1].name = Last(path) /\ ns2[L + 1].dir = arc[h].dir /\ ns2[L + 1].data = DataOf(arc, h)
      /\ HeadersTo(arc, off2) = HeadersTo(arc, off) \union {h}
      /\ \A i \in HeadersTo(arc, off) : PathOf(HeaderName(arc[i])) # path
      /\ d \in 1..L /\ P[d] = Front(path) /\ ns[d].dir
      /\ \A e \in 1..L : /\ ToSet(cs2[e]) = ToSet(cs[e]) \cup (IF e = d THEN {L + 1} ELSE {})
                         /\ L + 1 \notin ToSet(cs[e])
      /\ ToSet(cs2[L + 1]) = {}
  BY DEF Entered
<1> USE <1>e
<1> DEFINE Q == Append(P, path)
<1>0. Distinct(P, ns) /\ Nested(P, ns) /\ Linked(P, cs) /\ FromMembers(P, ns, arc, off) /\ AllEntered(P, arc, off)
  BY Zenon DEF Placed
<1>1. P \in Seq(Seq(STRING)) /\ Len(P) = L /\ L >= 1 /\ P[1] = <<>>
      /\ \A m, n \in 1..L : P[m] = P[n] => m = n
  BY <1>0, Zenon DEF Distinct
<1>2. Q \in Seq(Seq(STRING)) /\ Len(Q) = L + 1 /\ Q[L + 1] = path /\ \A n \in 1..L : Q[n] = P[n]
  <2>1. /\ Q \in Seq(Seq(STRING)) /\ Len(Q) = Len(P) + 1
        /\ Q[Len(P) + 1] = path /\ \A n \in 1..Len(P) : Q[n] = P[n]
    BY <1>1, PathsGrow, ZenonT(40)
  <2> HIDE DEF Q
  <2> QED BY <1>1, <2>1, Zenon
<1> HIDE DEF Q
<1>3. /\ \A n \in 1 .. (L + 1) : n = L + 1 \/ n \in 1..L
      /\ \A n \in 2 .. (L + 1) : n = L + 1 \/ n \in 2..L
      /\ \A n \in 1..L : n \in 1 .. (L + 1) /\ n # L + 1
      /\ \A n \in 1..L : n = 1 \/ n \in 2..L
      /\ \A n \in 2..L : n \in 1..L /\ n # 1 /\ n \in 2 .. (L + 1) /\ \A m \in 1 .. (n - 1) : m \in 1..L
      /\ 1 \in 1..L /\ L + 1 \in 2 .. (L + 1) /\ (L + 1) - 1 = L /\ L + 1 >= 1 /\ L + 1 # 1
  BY <1>1, NextPlaces, Zenon
<1>4. \A m \in 1..L : P[m] # path
  <2>1. \A m \in 2..L : \E i \in HeadersTo(arc, off) : P[m] = PathOf(HeaderName(arc[i]))
    BY <1>0, <1>1, Zenon DEF FromMembers
  <2> SUFFICES ASSUME NEW m \in 1..L, P[m] = path PROVE FALSE
    OBVIOUS
  <2>2. m # 1
    BY <1>1, Zenon
  <2>3. m \in 2..L
    BY <1>3, <2>2, Zenon
  <2>4. PICK i \in HeadersTo(arc, off) : P[m] = PathOf(HeaderName(arc[i]))
    BY <2>1, <2>3, Zenon
  <2>5. PathOf(HeaderName(arc[i])) # path
    BY Zenon
  <2> QED BY <2>4, <2>5, Zenon
<1>5. Distinct(Q, ns2)
  <2>1. Q[1] = <<>>
    BY <1>1, <1>2, <1>3, Zenon
  <2>2. ASSUME NEW m \in 1 .. (L + 1), NEW n \in 1 .. (L + 1), Q[m] = Q[n] PROVE m = n
    <3>1. CASE m \in 1..L /\ n \in 1..L
      <4>1. Q[m] = P[m] /\ Q[n] = P[n]
        BY <1>2, <3>1, Zenon
      <4>2. P[m] = P[n]
        BY <2>2, <4>1, Zenon
      <4> QED BY <1>1, <3>1, <4>2, Zenon
    <3>2. CASE m = L + 1 /\ n \in 1..L
      BY <1>2, <1>4, <2>2, <3>2, Zenon
    <3>3. CASE m \in 1..L /\ n = L + 1
      BY <1>2, <1>4, <2>2, <3>3, Zenon
    <3> QED BY <1>3, <3>1, <3>2, <3>3, Zenon
  <2> QED BY <1>2, <1>3, <2>1, <2>2, Zenon DEF Distinct
<1>6. Nested(Q, ns2)
  <2> DEFINE Good(n) == /\ Q[n] # <<>> /\ ns2[n].name = Last(Q[n]) /\ \A j \in 1..Len(Q[n]) : Q[n][j] # ""
                        /\ \E e \in 1 .. (n - 1) : Q[e] = Front(Q[n]) /\ ns2[e].dir
  <2>1. Good(L + 1)
    <3>1. Q[d] = Front(path) /\ ns2[d].dir /\ d \in 1 .. ((L + 1) - 1)
      BY <1>2, <1>3, Zenon
    <3> QED BY <1>2, <3>1, Zenon
  <2>2. ASSUME NEW n \in 2..L PROVE Good(n)
    <3>1. /\ P[n] # <<>> /\ ns[n].name = Last(P[n]) /\ \A j \in 1..Len(P[n]) : P[n][j] # ""
          /\ \E e \in 1 .. (n - 1) : P[e] = Front(P[n]) /\ ns[e].dir
      BY <1>0, <1>1, Zenon DEF Nested
    <3>2. Q[n] = P[n] /\ ns2[n] = ns[n] /\ \A e \in 1 .. (n - 1) : Q[e] = P[e] /\ ns2[e] = ns[e]
      BY <1>2, <1>3, Zenon
    <3> QED BY <3>1, <3>2, ZenonT(40)
  <2> HIDE DEF Good
  <2>3. \A n \in 2 .. (L + 1) : Good(n)
    BY <1>3, <2>1, <2>2, Zenon
  <2> QED BY <1>2, <2>3, Zenon DEF Nested, Good
<1>7. Linked(Q, cs2)
  <2> SUFFICES ASSUME NEW e \in 1 .. (L + 1), NEW n \in 1 .. (L + 1)
               PROVE  n \in ToSet(cs2[e]) <=> n # 1 /\ Front(Q[n]) = Q[e]
    BY <1>2, ZenonT(40) DEF Linked
  <2>1. CASE e \in 1..L /\ n \in 1..L
    <3>1. n \in ToSet(cs[e]) <=> n # 1 /\ Front(P[n]) = P[e]
      BY <1>0, <1>1, <2>1, Zenon DEF Linked
    <3>2. n \in ToSet(cs2[e]) <=> n \in ToSet(cs[e])
      <4>1. n # L + 1 /\ ToSet(cs2[e]) = ToSet(cs[e]) \cup (IF e = d THEN {L + 1} ELSE {})
        BY <1>3, <2>1, Zenon
      <4> QED BY <4>1, Zenon
    <3> QED BY <1>2, <2>1, <3>1, <3>2, Zenon
  <2>2. CASE e \in 1..L /\ n = L + 1
    <3>1. n \in ToSet(cs2[e]) <=> e = d
      BY <2>2
    <3>2. Front(Q[n]) = P[d] /\ Q[e] = P[e] /\ n # 1
      BY <1>2, <1>3, <2>2, Zenon
    <3> QED BY <1>1, <2>2, <3>1, <3>2, ZenonT(40)
  <2>3. CASE e = L + 1 /\ n \in 1..L
    <3>1. n \in 2..L => \E m \in 1 .. (n - 1) : P[m] = Front(P[n])
      BY <1>0, <1>1, Zenon DEF Nested
    <3>2. n # 1 => Front(P[n]) # path
      BY <1>3, <1>4, <2>3, <3>1, Zenon
    <3> QED BY <1>2, <2>3, <3>2, Zenon
  <2>4. CASE e = L + 1 /\ n = L + 1
    <3>1. Front(path) # path
      BY <1>4, Zenon
    <3> QED BY <1>2, <2>4, <3>1, Zenon
  <2> QED BY <1>3, <2>1, <2>2, <2>3, <2>4, Zenon
<1>8. FromMembers(Q, ns2, arc, off2)
  <2> DEFINE Of(n, i) == Q[n] = PathOf(HeaderName(arc[i])) /\ ns2[n].dir = arc[i].dir /\ ns2[n].data = DataOf(arc, i)
  <2>1. Of(L + 1, h) /\ h \in HeadersTo(arc, off2)
    BY <1>2, Zenon
  <2>2. ASSUME NEW n \in 2..L PROVE \E i \in HeadersTo(arc, off2) : Of(n, i)
    <3>1. PICK i \in HeadersTo(arc, off) :
            P[n] = PathOf(HeaderName(arc[i])) /\ ns[n].dir = arc[i].dir /\ ns[n].data = DataOf(arc, i)
      BY <1>0, <1>1, Zenon DEF FromMembers
    <3>2. Q[n] = P[n] /\ ns2[n] = ns[n] /\ i \in HeadersTo(arc, off2)
      BY <1>2, <1>3, Zenon
    <3> QED BY <3>1, <3>2, Zenon
  <2> HIDE DEF Of
  <2>3. \A n \in 2 .. (L + 1) : \E i \in HeadersTo(arc, off2) : Of(n, i)
    BY <1>3, <2>1, <2>2, ZenonT(40)
  <2> QED BY <1>2, <2>3, Zenon DEF FromMembers, Of
<1>9. AllEntered(Q, arc, off2)
  <2> SUFFICES ASSUME NEW i \in HeadersTo(arc, off2), PathOf(HeaderName(arc[i])) # <<>>
               PROVE  \E n \in 2 .. (L + 1) : Q[n] = PathOf(HeaderName(arc[i]))
    BY <1>2, ZenonT(40) DEF AllEntered
  <2>1. CASE i = h
    BY <1>2, <1>3, <2>1, ZenonT(40)
  <2>2. CASE i \in HeadersTo(arc, off)
    <3>1. PICK n \in 2..L : P[n] = PathOf(HeaderName(arc[i]))
      BY <1>0, <1>1, <2>2, Zenon DEF AllEntered
    <3> QED BY <1>2, <1>3, <3>1, Zenon
  <2> QED BY <2>1, <2>2, Zenon
<1>10. Placed(Q, ns2, cs2, arc, off2)
  BY <1>5, <1>6, <1>7, <1>8, <1>9, Zenon DEF Placed
<1> QED BY <1>10 DEF Q

\* Where the loop of initrd_init may stand: behind the data of a member.
AtBoundary(arc, off) == \A i \in HeadersTo(arc, off) : i + Blocks(arc[i].size) =< off

\* The loop goes from one header to the next.
LEMMA BoundaryMoves ==
  ASSUME NEW arc \in Archives, NEW off \in Nat, AtBoundary(arc, off),
         off + 1 \in 1..Len(arc), arc[off + 1].kind = "header",
         NEW off2, off2 = off + 1 + Blocks(arc[off + 1].size)
  PROVE  AtBoundary(arc, off2) /\ HeadersTo(arc, off2) = HeadersTo(arc, off) \union {off + 1}
<1> DEFINE h == off + 1
           blocks == Blocks(arc[h].size)
<1>1. TarMember(arc, h)
  BY HeaderIsMember
<1>2. arc[h].size \in Nat /\ (\A j \in (h + 1) .. (h + blocks) : arc[j].kind = "data") /\ h + blocks =< Len(arc)
  BY <1>1, Zenon DEF TarMember
<1>3. blocks \in Nat /\ Len(arc) \in Nat
  BY <1>2, BlocksAreNat, ArchiveFacts, Zenon
<1> HIDE DEF blocks
<1>4. off2 = h + blocks /\ h \in Nat /\ h \in 1..Len(arc) /\ h =< off2 /\ off2 \in Nat
  BY <1>3 DEF blocks
<1>5. ASSUME NEW i \in 1..Len(arc), arc[i].kind = "header" PROVE i =< off2 <=> i =< off \/ i = h
  <2>1. i \notin (h + 1) .. (h + blocks)
    <3>1. "header" # "data"
      OBVIOUS
    <3> QED BY <1>2, <1>5, <3>1, Zenon
  <2> QED BY <1>3, <1>4, <2>1
<1>6. HeadersTo(arc, off2) = HeadersTo(arc, off) \union {h}
  BY <1>4, <1>5 DEF HeadersTo
<1>7. AtBoundary(arc, off2)
  <2> SUFFICES ASSUME NEW i \in HeadersTo(arc, off2) PROVE i + Blocks(arc[i].size) =< off2
    BY DEF AtBoundary
  <2>1. CASE i = h
    BY <1>3, <1>4, <2>1 DEF blocks
  <2>2. CASE i \in HeadersTo(arc, off)
    <3>1. i + Blocks(arc[i].size) =< off
      BY <2>2, Zenon DEF AtBoundary
    <3>2. i \in 1..Len(arc) /\ arc[i].kind = "header"
      BY <2>2, Zenon DEF HeadersTo
    <3>3. arc[i].size \in Nat
      BY <3>2, HeaderIsMember, Zenon DEF TarMember
    <3>4. Blocks(arc[i].size) \in Nat
      BY <3>3, BlocksAreNat, Zenon
    <3>5. \A x \in Nat : i + x \in Nat
      BY <3>2
    <3>6. \A x \in Nat : x =< off => x =< off2
      BY <1>3, <1>4
    <3> QED BY <3>1, <3>4, <3>5, <3>6, Zenon
  <2> QED BY <1>6, <2>1, <2>2, Zenon
<1> QED BY <1>6, <1>7

\* It ends behind the last header.
LEMMA BoundaryAtEnd ==
  ASSUME NEW arc \in Archives, NEW off \in Nat, AtBoundary(arc, off),
         off < Len(arc) => arc[off + 1].kind # "header"
  PROVE  \A i \in 1..Len(arc) : arc[i].kind = "header" => i =< off
<1>1. Len(arc) \in Nat
  BY ArchiveFacts
<1>2. SUFFICES ASSUME NEW i \in 1..Len(arc), arc[i].kind = "header", ~(i =< off) PROVE FALSE
  OBVIOUS
<1>3. off + 1 \in 1..Len(arc) /\ off < Len(arc) /\ i \in (off + 1)..Len(arc)
  BY <1>1, <1>2
<1>4. "header" # "zero"
  OBVIOUS
<1>5. PICK h \in 1 .. ((off + 1) - 1) : arc[h].kind = "header" /\ off + 1 =< h + Blocks(arc[h].size)
  BY <1>2, <1>3, <1>4, ArchiveFacts, Zenon
<1>6. h \in 1..Len(arc) /\ h =< off /\ h \in Nat
  BY <1>1, <1>3
<1>7. h + Blocks(arc[h].size) =< off
  BY <1>5, <1>6, Zenon DEF AtBoundary, HeadersTo
<1>8. Blocks(arc[h].size) \in Nat
  BY <1>5, <1>6, HeaderIsMember, BlocksAreNat, Zenon DEF TarMember
<1>9. \A x \in Nat : ~(off + 1 =< h + x /\ h + x =< off)
  BY <1>6
<1> QED BY <1>5, <1>7, <1>8, <1>9, Zenon

\* The parent that tmpfs_add_entry finds for the next member is its directory.
LEMMA ParentPlaced ==
  ASSUME Walkable, NEW P, Placed(P, nodes, children, archive, offset), Regular,
         offset \in Nat, archive \in Archives, NEW h \in Positions, h = offset + 1,
         NEW path \in Seq(STRING), path # <<>>, path = MemberPath(h)
  PROVE  /\ Parent(path) \in 1..Len(P) /\ P[Parent(path)] = Front(path)
         /\ \A i \in HeadersTo(archive, offset) : PathOf(HeaderName(archive[i])) # path
<1>0. /\ Distinct(P, nodes) /\ Nested(P, nodes) /\ Linked(P, children)
      /\ FromMembers(P, nodes, archive, offset) /\ AllEntered(P, archive, offset)
  BY Zenon DEF Placed
<1>1. Len(P) \in Nat /\ 1 \in 1..Len(P) /\ P[1] = <<>>
  <2>1. Len(P) \in Nat
    BY <1>0, PathsOfNodes, Zenon
  <2>2. Len(P) >= 1 /\ P[1] = <<>>
    BY <1>0, Zenon DEF Distinct
  <2> QED BY <2>1, <2>2, Lengths, Zenon
<1>2. Len(path) \in Nat /\ Len(path) >= 1
  BY SeqFacts
<1>3. \A i \in Positions : i < h <=> i \in HeadersTo(archive, offset)
  <2>1. \A i \in 1..Len(archive) : i < offset + 1 <=> i =< offset
    <3>1. \A i \in Nat : i < offset + 1 <=> i =< offset
      OBVIOUS
    <3>2. \A i \in 1..Len(archive) : i \in Nat
      OBVIOUS
    <3> QED BY <3>1, <3>2, Zenon
  <2> QED BY <2>1, Zenon DEF Positions, HeadersTo
<1>4. \A i \in HeadersTo(archive, offset) : i \in Positions /\ i < h /\ i # h
  <2>1. \A i \in HeadersTo(archive, offset) : i \in Positions
    BY Zenon DEF Positions, HeadersTo
  <2>2. ~(h < h)
    <3>1. \A x \in Nat : ~(x + 1 < x + 1)
      OBVIOUS
    <3> QED BY <3>1, Zenon
  <2> QED BY <1>3, <2>1, <2>2, Zenon
<1>5. ASSUME NEW i \in HeadersTo(archive, offset) PROVE PathOf(HeaderName(archive[i])) # path
  <2>1. MemberPath(i) # MemberPath(h)
    BY <1>4, Zenon DEF Regular, Orderly
  <2> QED BY <1>4, <2>1, MemberPathIs, Zenon
<1>6. CASE ~(Len(path) > 1)
  <2>1. Len(path) = 1
    BY <1>2, <1>6, Single, Zenon
  <2>2. Front(path) = <<>>
    BY <1>2, <2>1, Single, Zenon
  <2>3. Parent(path) = 1
    BY <1>6, Zenon DEF Parent
  <2> QED BY <1>1, <1>5, <2>2, <2>3, Zenon
<1>7. CASE Len(path) > 1
  <2>1. PICK i \in Positions : i < h /\ archive[i].dir /\ MemberPath(i) = Front(path)
    BY <1>7, Zenon DEF Regular, Orderly
  <2>2. i \in HeadersTo(archive, offset) /\ PathOf(HeaderName(archive[i])) = Front(path)
    BY <1>3, <2>1, MemberPathIs, Zenon
  <2>3. Front(path) # <<>>
    BY <1>2, <1>7, Single, Zenon
  <2>4. PICK n \in 2..Len(P) : P[n] = Front(path)
    BY <1>0, <2>2, <2>3, Zenon DEF AllEntered
  <2>5. PICK j \in HeadersTo(archive, offset) : P[n] = PathOf(HeaderName(archive[j])) /\ nodes[n].dir = archive[j].dir
    BY <1>0, Zenon DEF FromMembers
  <2>6. j = i
    <3>1. MemberPath(j) = MemberPath(i)
      BY <1>4, <2>1, <2>4, <2>5, MemberPathIs, Zenon
    <3> QED BY <1>4, <2>1, <2>5, <3>1, Zenon DEF Regular, Orderly
  <2>7. nodes[n].dir
    BY <2>1, <2>5, <2>6, Zenon
  <2>8. n \in 1..Len(P) /\ n # 0
    <3>1. n \in 1..Len(P)
      BY <1>0, PathsOfNodes, Zenon
    <3>2. \A x \in 1..Len(P) : x # 0
      OBVIOUS
    <3> QED BY <3>1, <3>2, Zenon
  <2>9. Walk(Front(path)) = [node |-> n, lost |-> 0]
    BY <1>0, <2>4, <2>8, WalkPlaced, Zenon
  <2>10. Walk(Front(path)).node = n
    <3>1. [node |-> n, lost |-> 0].node = n
      OBVIOUS
    <3> QED BY <2>9, <3>1, Zenon
  <2>11. Parent(path) = n
    BY <1>7, <2>7, <2>8, <2>10, Zenon DEF Parent
  <2> QED BY <1>5, <2>4, <2>8, <2>11, Zenon
<1> QED BY <1>6, <1>7

\* From tmpfs_init on, the loop stands at a boundary and the tree is that of the
\* members before it; when it has ended, that of all.
LoadInv ==
  /\ Inv
  /\ phase = "boot" => offset = 0
  /\ phase \in {"loading", "up"} =>
       /\ AtBoundary(archive, offset)
       /\ Regular => \E P : Placed(P, nodes, children, archive, offset)
  /\ phase = "up" /\ Regular => \A i \in Positions : i =< offset

\* Regular, of an archive.
RegularOf(arc) ==
  LET At == {i \in 1..Len(arc) : arc[i].kind = "header"}
      PathAt(i) == PathOf(arc[i].prefix \o arc[i].name)
  IN  /\ \A i \in At : arc[i].ustar /\ \A n \in 1..Len(PathAt(i)) : PathAt(i)[n] # ""
      /\ \A i, j \in At : i # j => PathAt(i) # PathAt(j)
      /\ \A j \in At : Len(PathAt(j)) > 1 =>
           \E i \in At : i < j /\ arc[i].dir /\ PathAt(i) = Front(PathAt(j))
      /\ \A i \in At : arc[i].prefix = <<>> /\ ~arc[i].full

LEMMA RegularStays ==
  ASSUME archive' = archive
  PROVE  Regular' = Regular /\ Positions' = Positions
<1>1. Positions' = Positions
  BY Zenon DEF Positions
<1>2. Regular = RegularOf(archive)
  BY Zenon DEF Regular, Orderly, NamesFit, RegularOf, Positions, MemberPath, PathOf
<1>3. Regular' = RegularOf(archive')
  BY Zenon DEF Regular, Orderly, NamesFit, RegularOf, Positions, MemberPath, PathOf
<1> QED BY <1>1, <1>2, <1>3, Zenon

\* tmpfs_init: the root is the tree of no members.
LEMMA RootPlaced ==
  ASSUME NEW arc \in Archives, NEW root
  PROVE  AtBoundary(arc, 0) /\ Placed(<< <<>> >>, <<root>>, << <<>> >>, arc, 0)
<1>1. HeadersTo(arc, 0) = {}
  BY DEF HeadersTo
<1> DEFINE P == << <<>> >>
<1>2. P \in Seq(Seq(STRING)) /\ Len(P) = 1 /\ P[1] = <<>>
  <2>1. <<>> \in Seq(STRING)
    OBVIOUS
  <2> QED BY <2>1
<1>3. Len(<<root>>) = 1 /\ (\A n \in 1..1 : n = 1) /\ (\A n \in 2..1 : FALSE) /\ 1 >= 1
  OBVIOUS
<1>4. 1 \notin ToSet(<< <<>> >>[1])
  <2>1. << <<>> >>[1] = <<>>
    OBVIOUS
  <2>2. ToSet(<<>>) = {}
    BY DEF ToSet
  <2> QED BY <2>1, <2>2, Zenon
<1> HIDE DEF P
<1>5. Distinct(P, <<root>>)
  BY <1>2, <1>3, Zenon DEF Distinct
<1>6. Nested(P, <<root>>) /\ FromMembers(P, <<root>>, arc, 0)
  BY <1>2, <1>3, Zenon DEF Nested, FromMembers
<1>7. Linked(P, << <<>> >>)
  BY <1>2, <1>3, <1>4, Zenon DEF Linked
<1>8. AllEntered(P, arc, 0) /\ AtBoundary(arc, 0)
  BY <1>1, Zenon DEF AllEntered, AtBoundary
<1>9. Placed(P, <<root>>, << <<>> >>, arc, 0)
  BY <1>5, <1>6, <1>7, <1>8, Zenon DEF Placed
<1> QED BY <1>8, <1>9 DEF P

\* The tree is what it was.
LEMMA LoadStays ==
  ASSUME LoadInv, Inv', UNCHANGED <<nodes, children, archive, offset>>,
         phase' = phase \/ phase' = "halted"
  PROVE  LoadInv'
<1>1. nodes' = nodes /\ children' = children /\ archive' = archive /\ offset' = offset
  OBVIOUS
<1>2. Regular' = Regular /\ Positions' = Positions
  BY <1>1, RegularStays, Zenon
<1>3. "halted" # "boot" /\ "halted" # "up" /\ "halted" \notin {"loading", "up"}
  OBVIOUS
<1>4. CASE phase' = "halted"
  BY <1>3, <1>4, Zenon DEF LoadInv
<1>5. CASE phase' = phase
  <2>1. phase' = "boot" => offset' = 0
    BY <1>1, <1>5, Zenon DEF LoadInv
  <2>2. phase' \in {"loading", "up"} =>
          /\ AtBoundary(archive', offset')
          /\ Regular' => \E P : Placed(P, nodes', children', archive', offset')
    BY <1>1, <1>2, <1>5, Zenon DEF LoadInv
  <2>3. phase' = "up" /\ Regular' => \A i \in Positions' : i =< offset'
    BY <1>1, <1>2, <1>5, Zenon DEF LoadInv
  <2> QED BY <2>1, <2>2, <2>3, Zenon DEF LoadInv
<1> QED BY <1>4, <1>5

LEMMA LoadInit ==
  ASSUME Init
  PROVE  LoadInv
<1>1. Inv
  BY InitInv
<1>2. phase = "boot" /\ offset = 0
  BY Zenon DEF Init
<1>3. "boot" # "up" /\ "boot" \notin {"loading", "up"}
  OBVIOUS
<1> QED BY <1>1, <1>2, <1>3, Zenon DEF LoadInv

\* What the loop finds at a member.
LEMMA AtHeader ==
  ASSUME LoadInv, phase = "loading", AtMember, NEW h, h = offset + 1
  PROVE  /\ archive \in Archives /\ offset \in Nat /\ h \in Positions /\ h \in 1..Len(archive)
         /\ Header = archive[h]
         /\ HeaderName(archive[h]) \in Seq(STRING) /\ Len(HeaderName(archive[h])) >= 1
         /\ AtBoundary(archive, NextOffset)
         /\ HeadersTo(archive, NextOffset) = HeadersTo(archive, offset) \union {h}
<1>1. TypeOK
  BY Zenon DEF LoadInv, Inv, HandlesStayValid
<1>2. archive \in Archives /\ offset \in 0..Len(archive)
  BY <1>1, Zenon DEF TypeOK
<1>3. Len(archive) \in Nat
  BY <1>2, ArchiveFacts, Zenon
<1>4. offset < Len(archive) /\ Header.kind = "header"
  BY Zenon DEF AtMember
<1>5. offset \in Nat /\ h \in 1..Len(archive)
  <2>1. offset < Len(archive)
    BY <1>4
  <2> QED BY <1>2, <1>3, <2>1
<1>6. Header = archive[h] /\ archive[h].kind = "header"
  BY <1>4, Zenon DEF Header
<1>7. h \in Positions
  BY <1>5, <1>6, Zenon DEF Positions
<1>8. HeaderName(archive[h]) \in Seq(STRING) /\ Len(HeaderName(archive[h])) >= 1
  BY <1>1, <1>6, HeaderFacts, Zenon
<1>9. NextOffset = offset + 1 + Blocks(archive[h].size)
  BY <1>6, Zenon DEF NextOffset
<1>10. "loading" \in {"loading", "up"}
  OBVIOUS
<1>11. AtBoundary(archive, offset)
  BY <1>10, Zenon DEF LoadInv
<1>12. /\ AtBoundary(archive, NextOffset)
       /\ HeadersTo(archive, NextOffset) = HeadersTo(archive, offset) \union {offset + 1}
  BY <1>2, <1>5, <1>6, <1>9, <1>11, BoundaryMoves, Zenon
<1> QED BY <1>2, <1>5, <1>6, <1>7, <1>8, <1>12, Zenon

\* "./" is no member of the tree.
LEMMA LoadSkips ==
  ASSUME LoadInv, InitrdSkips, Inv'
  PROVE  LoadInv'
<1>1. /\ phase = "loading" /\ AtMember /\ Unprefixed(HeaderName(Header)) = <<"">> /\ offset' = NextOffset
      /\ phase' = "loading" /\ archive' = archive /\ nodes' = nodes /\ children' = children
  BY DEF InitrdSkips, treeVars
<1>2. PICK h : h = offset + 1
  OBVIOUS
<1>3. /\ Header = archive[h] /\ HeaderName(archive[h]) \in Seq(STRING) /\ Len(HeaderName(archive[h])) >= 1
      /\ AtBoundary(archive, NextOffset)
      /\ HeadersTo(archive, NextOffset) = HeadersTo(archive, offset) \union {h}
  BY <1>1, <1>2, AtHeader, Zenon
<1>4. PathOf(HeaderName(archive[h])) = <<>>
  BY <1>1, <1>3, PathForms, Zenon
<1>5. "loading" # "boot" /\ "loading" # "up" /\ "loading" \in {"loading", "up"}
  OBVIOUS
<1>6. ASSUME NEW P, Placed(P, nodes, children, archive, offset)
      PROVE  Placed(P, nodes, children, archive, NextOffset)
  <2>1. FromMembers(P, nodes, archive, NextOffset)
    BY <1>3, <1>6, Zenon DEF Placed, FromMembers
  <2>2. AllEntered(P, archive, NextOffset)
    BY <1>3, <1>4, <1>6, Zenon DEF Placed, AllEntered
  <2> QED BY <1>6, <2>1, <2>2, Zenon DEF Placed
<1>7. Regular' = Regular
  BY <1>1, RegularStays, Zenon
<1>8. Regular => \E P : Placed(P, nodes, children, archive, offset)
  BY <1>1, <1>5, Zenon DEF LoadInv
<1>9. AtBoundary(archive', offset') /\ (Regular' => \E P : Placed(P, nodes', children', archive', offset'))
  BY <1>1, <1>3, <1>6, <1>7, <1>8, Zenon
<1> QED BY <1>1, <1>5, <1>9, Zenon DEF LoadInv

\* A member is entered at its path.
LEMMA LoadEnters ==
  ASSUME LoadInv, InitrdLoads, Inv'
  PROVE  LoadInv'
<1>1. PICK h : h = offset + 1
  OBVIOUS
<1>2. PICK path : path = EntryPath(HeaderName(Header))
  OBVIOUS
<1>3. /\ phase = "loading" /\ AtMember /\ Unprefixed(HeaderName(Header)) # <<"">> /\ offset' = NextOffset
      /\ phase' = "loading" /\ archive' = archive
      /\ nodes' = Append(nodes, NewNode(Last(path), Header.dir, ContentAt(archive, h)))
      /\ children' = Append([children EXCEPT ![Parent(path)] = <<Len(nodes) + 1>> \o @], <<>>)
  <2>1. phase' = phase /\ archive' = archive
    BY DEF InitrdLoads
  <2> QED BY <1>1, <1>2, <2>1, Zenon DEF InitrdLoads, tmpfs_add_entry
<1>4. /\ archive \in Archives /\ offset \in Nat /\ h \in Positions /\ h \in 1..Len(archive)
      /\ Header = archive[h] /\ HeaderName(archive[h]) \in Seq(STRING) /\ Len(HeaderName(archive[h])) >= 1
      /\ AtBoundary(archive, NextOffset)
      /\ HeadersTo(archive, NextOffset) = HeadersTo(archive, offset) \union {h}
  BY <1>1, <1>3, AtHeader, Zenon
<1>5. path = PathOf(HeaderName(archive[h])) /\ path # <<>> /\ path \in Seq(STRING)
  BY <1>2, <1>3, <1>4, PathForms, Zenon
<1>6. TypeOK /\ Rooted /\ TreeIsSound
  BY Zenon DEF LoadInv, Inv, HandlesStayValid
<1>7. Walkable
  <2>1. nodes # <<>>
    BY <1>3, <1>6, Zenon DEF Rooted
  <2> QED BY <1>6, <2>1, TreeIsWalkable, Zenon
<1>8. "loading" # "boot" /\ "loading" # "up" /\ "loading" \in {"loading", "up"}
  OBVIOUS
<1>9. PICK L : L = Len(nodes)
  OBVIOUS
<1>10. L \in Nat
  BY <1>7, <1>9, Zenon DEF Walkable
<1>11. Len(path) >= 1 /\ ToSet(path) \subseteq Names /\ Header.dir \in BOOLEAN /\ ContentAt(archive, h) \in Contents
  <2>1. HeaderName(Header) \in Seq(STRING) /\ Len(HeaderName(Header)) >= 1 /\ HeaderName(Header) \in GivenPaths
        /\ Header.dir \in BOOLEAN /\ ContentAt(archive, h) \in Contents
    BY <1>1, <1>3, <1>6, HeaderFacts, Zenon
  <2>2. Len(path) >= 1 /\ ToSet(path) \subseteq ToSet(HeaderName(Header))
    BY <1>2, <2>1, EntryPathFacts, Zenon
  <2> QED BY <2>1, <2>2 DEF Names
<1>12. nodes \in Seq(NodeType) /\ children \in Seq(Seq(1..Len(nodes))) /\ Len(children) = Len(nodes)
  BY <1>6, Zenon DEF TypeOK, NodeType, Names, Rooted
<1>13. Len(nodes') = L + 1 /\ \A n \in 1..L : nodes'[n] = nodes[n]
  BY <1>3, <1>5, <1>9, <1>11, <1>12, NodesGrow, Zenon
<1>14. /\ nodes'[L + 1].name = Last(path) /\ nodes'[L + 1].dir = archive[h].dir
       /\ nodes'[L + 1].data = DataOf(archive, h)
  <2> DEFINE x == NewNode(Last(path), Header.dir, ContentAt(archive, h))
  <2>1. x.name = Last(path) /\ x.dir = Header.dir /\ x.data = IF Header.dir THEN <<>> ELSE ContentAt(archive, h)
    BY DEF NewNode
  <2> HIDE DEF x
  <2>2. nodes'[L + 1] = x
    <3>1. nodes' = Append(nodes, x)
      BY <1>3, Zenon DEF x
    <3>2. \A q \in Seq(NodeType) : Append(q, x)[Len(q) + 1] = x
      OBVIOUS
    <3> QED BY <1>9, <1>12, <3>1, <3>2, Zenon
  <2> QED BY <1>4, <2>1, <2>2, Zenon DEF DataOf
<1>15. PICK d : d = Parent(path)
  OBVIOUS
<1>16. d \in 1..L /\ nodes[d].dir
  BY <1>5, <1>7, <1>9, <1>11, <1>15, ParentFacts, Zenon
<1>17. ChildrenGrown(d)
  <2>1. \A e \in 1..Len(nodes) : IsInjective(children[e])
    BY <1>6, Zenon DEF TreeIsSound
  <2> QED BY <1>3, <1>7, <1>9, <1>12, <1>15, <1>16, <2>1, ChildrenGrow, Zenon
<1>18. /\ \A e \in 1..L : /\ ToSet(children'[e]) = ToSet(children[e]) \cup (IF e = d THEN {L + 1} ELSE {})
                          /\ L + 1 \notin ToSet(children[e])
       /\ ToSet(children'[L + 1]) = {}
  BY <1>7, <1>9, <1>17, ChildrenAreNodes, Zenon DEF ChildrenGrown
<1>19. ASSUME Regular, NEW P, Placed(P, nodes, children, archive, offset)
       PROVE  Placed(Append(P, path), nodes', children', archive, NextOffset)
  <2>0. path = MemberPath(h)
    BY <1>4, <1>5, <1>19, MemberPathIs, Zenon
  <2>1. /\ P[d] = Front(path)
        /\ \A i \in HeadersTo(archive, offset) : PathOf(HeaderName(archive[i])) # path
    BY <1>1, <1>4, <1>5, <1>7, <1>15, <1>19, <2>0, ParentPlaced, Zenon
  <2>2. \A j \in 1..Len(path) : path[j] # ""
    BY <1>4, <1>19, <2>0, Zenon DEF Regular, Orderly
  <2>3. Entered(P, nodes, children, archive, offset, nodes', children', NextOffset, L, path, h, d)
    BY <1>4, <1>5, <1>9, <1>10, <1>13, <1>14, <1>16, <1>18, <2>1, <2>2, Zenon DEF Entered
  <2> QED BY <1>19, <2>3, PlacedGrows, Zenon
<1>20. Regular' = Regular
  BY <1>3, RegularStays, Zenon
<1>21. Regular => \E P : Placed(P, nodes, children, archive, offset)
  BY <1>3, <1>8, Zenon DEF LoadInv
<1>22. AtBoundary(archive', offset') /\ (Regular' => \E P : Placed(P, nodes', children', archive', offset'))
  BY <1>3, <1>4, <1>19, <1>20, <1>21, Zenon
<1> QED BY <1>3, <1>8, <1>22, Zenon DEF LoadInv

\* The loop ends behind the last member.
LEMMA LoadEnds ==
  ASSUME LoadInv, InitrdEnds, Inv'
  PROVE  LoadInv'
<1>1. /\ phase = "loading" /\ ~AtMember /\ phase' = "up"
      /\ archive' = archive /\ nodes' = nodes /\ children' = children /\ offset' = offset
  BY DEF InitrdEnds, treeVars
<1>2. "up" # "boot" /\ "up" \in {"loading", "up"} /\ "loading" \in {"loading", "up"}
  OBVIOUS
<1>3. AtBoundary(archive, offset) /\ (Regular => \E P : Placed(P, nodes, children, archive, offset))
  BY <1>1, <1>2, Zenon DEF LoadInv
<1>4. Regular' = Regular /\ Positions' = Positions
  BY <1>1, RegularStays, Zenon
<1>5. archive \in Archives /\ offset \in Nat /\ (offset < Len(archive) => offset + 1 \in 1..Len(archive))
  <2>1. archive \in Archives /\ offset \in 0..Len(archive)
    BY Zenon DEF LoadInv, Inv, HandlesStayValid, TypeOK
  <2>2. Len(archive) \in Nat
    BY <2>1, ArchiveFacts, Zenon
  <2> QED BY <2>1, <2>2
<1>6. ASSUME Regular PROVE \A i \in Positions : i =< offset
  <2>1. ASSUME offset < Len(archive), archive[offset + 1].kind = "header" PROVE FALSE
    <3>1. offset + 1 \in Positions
      BY <1>5, <2>1, Zenon DEF Positions
    <3>2. archive[offset + 1].ustar
      BY <1>6, <3>1, Zenon DEF Regular, Orderly
    <3> QED BY <1>1, <2>1, <3>2, Zenon DEF AtMember, Header
  <2>2. \A i \in 1..Len(archive) : archive[i].kind = "header" => i =< offset
    BY <1>3, <1>5, <2>1, BoundaryAtEnd, Zenon
  <2> QED BY <2>2, Zenon DEF Positions
<1> QED BY <1>1, <1>2, <1>3, <1>4, <1>6, Zenon DEF LoadInv

\* tmpfs_init comes before the first member.
LEMMA LoadBegins ==
  ASSUME LoadInv, tmpfs_init, Inv'
  PROVE  LoadInv'
<1> DEFINE root == [name |-> "/", dir |-> TRUE, data |-> <<>>]
<1>1. /\ phase = "boot" /\ phase' = "loading" /\ archive' = archive /\ offset' = offset
      /\ nodes' = <<root>> /\ children' = << <<>> >>
  BY DEF tmpfs_init
<1> HIDE DEF root
<1>2. "loading" # "boot" /\ "loading" # "up"
  OBVIOUS
<1>3. archive \in Archives /\ offset = 0
  BY <1>1, Zenon DEF LoadInv, Inv, HandlesStayValid, TypeOK
<1>4. AtBoundary(archive, 0) /\ Placed(<< <<>> >>, <<root>>, << <<>> >>, archive, 0)
  BY <1>3, RootPlaced, Zenon
<1>5. AtBoundary(archive', offset') /\ \E P : Placed(P, nodes', children', archive', offset')
  BY <1>1, <1>3, <1>4, Zenon
<1> QED BY <1>1, <1>2, <1>5, Zenon DEF LoadInv

LEMMA LoadStep ==
  ASSUME LoadInv, [Next]_vars
  PROVE  LoadInv'
<1>0. Inv'
  BY NextInv, Zenon DEF LoadInv
<1>1. CASE tmpfs_init
  BY <1>0, <1>1, LoadBegins
<1>2. CASE TmpfsInitFaults \/ InitrdFaults \/ \E path \in Lookups : FindPathFaults(path)
  <2>1. Halts
    BY <1>2, Zenon DEF TmpfsInitFaults, InitrdFaults, FindPathFaults
  <2>2. UNCHANGED <<nodes, children, archive, offset>> /\ phase' = "halted"
    BY <2>1 DEF Halts, treeVars
  <2> QED BY <1>0, <2>2, LoadStays
<1>3. CASE InitrdLoads
  BY <1>0, <1>3, LoadEnters
<1>4. CASE InitrdSkips
  BY <1>0, <1>4, LoadSkips
<1>5. CASE InitrdEnds
  BY <1>0, <1>5, LoadEnds
<1>6. CASE \E path \in Lookups : vfs_find_path(path)
  <2>1. UNCHANGED <<nodes, children, archive, offset>> /\ phase' = phase
    BY <1>6 DEF vfs_find_path, treeVars
  <2> QED BY <1>0, <2>1, LoadStays
<1>7. CASE \E v \in Vnodes : vfs_close(v)
  <2>1. UNCHANGED <<nodes, children, archive, offset>> /\ phase' = phase
    BY <1>7 DEF vfs_close, treeVars
  <2> QED BY <1>0, <2>1, LoadStays
<1>8. CASE \E v \in Vnodes, off, size \in Offsets : vfs_read(v, off, size)
  <2>1. UNCHANGED <<nodes, children, archive, offset>> /\ phase' = phase
    BY <1>8 DEF vfs_read, treeVars
  <2> QED BY <1>0, <2>1, LoadStays
<1>9. CASE UNCHANGED vars
  <2>1. UNCHANGED <<nodes, children, archive, offset>> /\ phase' = phase
    BY <1>9 DEF vars
  <2> QED BY <1>0, <2>1, LoadStays
<1> QED BY <1>1, <1>2, <1>3, <1>4, <1>5, <1>6, <1>7, <1>8, <1>9, Zenon DEF Next

\* The numbers of the nodes below the root.
LEMMA BelowRoot ==
  ASSUME NEW L \in Nat, L >= 1
  PROVE  IsFiniteSet(2..L) /\ Cardinality(2..L) + 1 = L
<1>1. 2 \in Int /\ L \in Int
  OBVIOUS
<1>2. IsFiniteSet(2..L) /\ Cardinality(2..L) = IF 2 > L THEN 0 ELSE L - 2 + 1
  BY <1>1, FS_Interval
<1> QED BY <1>2

\* One to one: as many of the one as of the other.
LEMMA SameNumber ==
  ASSUME NEW S, NEW T, IsFiniteSet(S), NEW g \in [S -> T],
         \A x, y \in S : g[x] = g[y] => x = y, \A z \in T : \E x \in S : g[x] = z
  PROVE  Cardinality(T) = Cardinality(S)
<1>1. g \in Bijection(S, T)
  BY DEF Bijection, Injection, Surjection, IsInjective
<1>2. ExistsBijection(S, T)
  BY <1>1 DEF ExistsBijection
<1> QED BY <1>2, FS_Bijection

\* The nodes are the members.
LEMMA LoadInvSuffices ==
  ASSUME LoadInv
  PROVE  ArchiveIsLoaded
<1>0. SUFFICES ASSUME phase = "up", Regular
               PROVE  /\ Len(nodes) = Cardinality(Members) + 1
                      /\ \A i \in Members :
                           LET node == Walk(MemberPath(i)).node
                           IN  /\ node # 0
                               /\ nodes[node].dir = archive[i].dir
                               /\ nodes[node].data = IF archive[i].dir THEN <<>> ELSE ContentAt(archive, i)
  BY Zenon DEF ArchiveIsLoaded, MembersAreThere, Regular
<1>1. "up" \in {"loading", "up"} /\ archive \in Archives
  <2>1. archive \in Archives
    BY Zenon DEF LoadInv, Inv, HandlesStayValid, TypeOK
  <2> QED BY <2>1
<1>2. PICK P : Placed(P, nodes, children, archive, offset)
  BY <1>0, <1>1, Zenon DEF LoadInv
<1>3. /\ Distinct(P, nodes) /\ Nested(P, nodes) /\ Linked(P, children)
      /\ FromMembers(P, nodes, archive, offset) /\ AllEntered(P, archive, offset)
  BY <1>2, Zenon DEF Placed
<1>4. HeadersTo(archive, offset) = Positions
  <2>1. \A i \in Positions : i =< offset
    BY <1>0, Zenon DEF LoadInv
  <2> QED BY <2>1, Zenon DEF HeadersTo, Positions
<1>5. Walkable
  <2>1. TypeOK /\ Rooted
    BY Zenon DEF LoadInv, Inv, HandlesStayValid
  <2>2. nodes # <<>>
    <3>1. Len(<<>>) = 0 /\ ~(0 >= 1)
      OBVIOUS
    <3> QED BY <1>3, <3>1, Zenon DEF Distinct
  <2> QED BY <2>1, <2>2, TreeIsWalkable, Zenon
<1>6. PICK L : L = Len(P)
  OBVIOUS
<1>7. L \in Nat /\ L >= 1 /\ Len(nodes) = L
  BY <1>3, <1>6, PathsOfNodes, Zenon DEF Distinct
<1>8. \A n \in 2..L : n \in 1..L /\ n # 0 /\ P[n] # <<>>
  <2>1. \A n \in 2..L : n \in 1..L /\ n # 0
    BY <1>7
  <2> QED BY <1>3, <1>6, <2>1, Zenon DEF Nested
<1>9. \A n \in 2..L : \E i \in Members :
        P[n] = MemberPath(i) /\ nodes[n].dir = archive[i].dir /\ nodes[n].data = DataOf(archive, i)
  <2> TAKE n \in 2..L
  <2>1. PICK i \in Positions :
          P[n] = PathOf(HeaderName(archive[i])) /\ nodes[n].dir = archive[i].dir /\ nodes[n].data = DataOf(archive, i)
    BY <1>3, <1>4, <1>6, Zenon DEF FromMembers
  <2>2. i \in Members /\ P[n] = MemberPath(i)
    BY <1>0, <1>8, <1>1, <2>1, MemberPathIs, Zenon DEF Members
  <2> QED BY <2>1, <2>2, Zenon
<1>10. \A i \in Members : \E n \in 2..L : P[n] = MemberPath(i)
  BY <1>0, <1>3, <1>4, <1>6, <1>1, MemberPathIs, Zenon DEF AllEntered, Members
<1>11. \A i, j \in Members : MemberPath(i) = MemberPath(j) => i = j
  BY <1>0, Zenon DEF Regular, Orderly, Members
<1>12. \A m, n \in 2..L : P[m] = P[n] => m = n
  BY <1>3, <1>6, <1>8, Zenon DEF Distinct
<1>13. Cardinality(Members) = Cardinality(2..L)
  <2> DEFINE of(n) == CHOOSE i \in Members : P[n] = MemberPath(i)
             S == 2..L
             T == Members
             g == [n \in S |-> of(n)]
  <2>1. \A n \in S : of(n) \in T /\ P[n] = MemberPath(of(n))
    BY <1>9, Zenon
  <2> HIDE DEF of, T
  <2>2. g \in [S -> T] /\ \A n \in S : g[n] = of(n)
    BY <2>1
  <2> HIDE DEF g, S
  <2>3. ASSUME NEW x \in S, NEW y \in S, g[x] = g[y] PROVE x = y
    <3>1. P[x] = MemberPath(of(x)) /\ P[y] = MemberPath(of(y)) /\ of(x) = of(y)
      BY <2>1, <2>2, <2>3, Zenon
    <3>2. P[x] = P[y]
      BY <3>1, Zenon
    <3> QED BY <1>12, <3>2, Zenon DEF S
  <2>4. \A z \in T : \E x \in S : g[x] = z
    <3> TAKE z \in T
    <3>1. PICK n \in S : P[n] = MemberPath(z)
      BY <1>10, Zenon DEF S, T
    <3>2. of(n) = z
      BY <1>11, <2>1, <3>1, Zenon DEF T
    <3> QED BY <2>2, <3>1, <3>2, Zenon
  <2>5. IsFiniteSet(S)
    BY <1>7, BelowRoot, Zenon DEF S
  <2>6. Cardinality(T) = Cardinality(S)
    BY <2>2, <2>3, <2>4, <2>5, SameNumber, Zenon
  <2> QED BY <2>6 DEF S, T
<1>14. Len(nodes) = Cardinality(Members) + 1
  BY <1>7, <1>13, BelowRoot, Zenon
<1>15. ASSUME NEW i \in Members
       PROVE  LET node == Walk(MemberPath(i)).node
              IN  /\ node # 0
                  /\ nodes[node].dir = archive[i].dir
                  /\ nodes[node].data = IF archive[i].dir THEN <<>> ELSE ContentAt(archive, i)
  <2>1. PICK n \in 2..L : P[n] = MemberPath(i)
    BY <1>10, Zenon
  <2>2. n \in 1..L /\ n # 0
    BY <1>8, <2>1, Zenon
  <2>3. Walk(P[n]) = [node |-> n, lost |-> 0]
    BY <1>3, <1>5, <1>6, <2>2, WalkPlaced, Zenon
  <2>4. [node |-> n, lost |-> 0].node = n
    OBVIOUS
  <2>5. Walk(MemberPath(i)).node = n
    BY <2>1, <2>3, <2>4, Zenon
  <2>6. PICK j \in Members :
          P[n] = MemberPath(j) /\ nodes[n].dir = archive[j].dir /\ nodes[n].data = DataOf(archive, j)
    BY <1>9, <2>1, Zenon
  <2>7. j = i
    BY <1>11, <2>1, <2>6, Zenon
  <2> QED BY <2>2, <2>5, <2>6, <2>7, Zenon DEF DataOf
<1> QED BY <1>14, <1>15, Zenon

\* However many members an archive of a directory tree has, with paths of less than 100
\* characters, and however many blocks their data fill: after initrd_init every one of
\* them is found at its path by vfs_find_path, with its own bytes, and there is nothing
\* else.
THEOREM ArchiveLoaded == Spec => []ArchiveIsLoaded
<1>1. Init => LoadInv
  BY LoadInit
<1>2. LoadInv /\ [Next]_vars => LoadInv'
  BY LoadStep
<1>3. LoadInv => ArchiveIsLoaded
  BY LoadInvSuffices
<1> QED BY <1>1, <1>2, <1>3, PTL DEF Spec

-----------------------------------------------------------------------------
(***************************************************************************)
(* The map of paths.                                                       *)
(***************************************************************************)

\* Paths without empty components.
Clean == {p \in Seq(STRING) : \A k \in 1..Len(p) : p[k] # ""}

\* Walk, of a tree: the first child with a name, a step, all steps.
FirstNamed(ns, kids, name) ==
  LET hits == {k \in 1..Len(kids) : ns[kids[k]].name = name}
  IN  IF hits = {} THEN 0 ELSE kids[Min(hits)]
StepIn(ns, cs, w, name) ==
  CASE w.node = 0           -> w
    [] w.node # 0 /\ ~ns[w.node].dir -> [node |-> 0, lost |-> w.node]
    [] OTHER                -> [w EXCEPT !.node = FirstNamed(ns, cs[w.node], name)]
WalkIn(ns, cs, path) ==
  LET after[k \in 0..Len(path)] ==
        IF k = 0 THEN [node |-> 1, lost |-> 0]
        ELSE IF path[k] = "" THEN after[k - 1]
        ELSE StepIn(ns, cs, after[k - 1], path[k])
  IN  IF path = <<"">> THEN [node |-> 0, lost |-> 0] ELSE after[Len(path)]

LEMMA NamedIs ==
  ASSUME NEW d, NEW name
  PROVE  /\ Named(d, name) = FirstNamed(nodes, children[d], name)
         /\ Named(d, name)' = FirstNamed(nodes', children'[d], name)
BY Zenon DEF Named, FirstNamed

LEMMA WalkIs ==
  ASSUME NEW path
  PROVE  /\ Walk(path) = WalkIn(nodes, children, path)
         /\ Walk(path)' = WalkIn(nodes', children', path)
BY Zenon DEF Walk, WalkStep, Named, WalkIn, StepIn, FirstNamed

\* A walk has its last component behind it.
Unfolds ==
  Walkable =>
    /\ Walk(<<>>).node = 1
    /\ \A p \in Clean : p # <<>> =>
         LET d == Walk(Front(p)).node
         IN  Walk(p).node = IF d # 0 /\ nodes[d].dir THEN Named(d, Last(p)) ELSE 0

LEMMA CleanFacts ==
  ASSUME NEW p \in Clean
  PROVE  /\ p \in Seq(STRING) /\ Len(p) \in Nat /\ p # <<"">>
         /\ p # <<>> =>
              /\ Len(p) >= 1 /\ Len(Front(p)) = Len(p) - 1 /\ Front(p) \in Clean
              /\ Last(p) = p[Len(p)] /\ Last(p) \in STRING /\ Last(p) # ""
<1>1. p \in Seq(STRING) /\ Len(p) \in Nat /\ \A k \in 1..Len(p) : p[k] # "" /\ p[k] \in STRING
  <2>1. p \in Seq(STRING) /\ \A k \in 1..Len(p) : p[k] # ""
    BY Zenon DEF Clean
  <2> QED BY <2>1, SeqFacts, Zenon
<1>2. p # <<"">>
  <2>1. <<"">>[1] = "" /\ Len(<<"">>) = 1 /\ 1 \in 1..1
    OBVIOUS
  <2> QED BY <1>1, <2>1, Zenon
<1>3. ASSUME p # <<>> PROVE
              /\ Len(p) >= 1 /\ Len(Front(p)) = Len(p) - 1 /\ Front(p) \in Clean
              /\ Last(p) = p[Len(p)] /\ Last(p) \in STRING /\ Last(p) # ""
  <2>1. Len(p) >= 1
    BY <1>1, <1>3, SeqFacts
  <2>2. /\ Front(p) \in Seq(STRING) /\ Len(Front(p)) = Len(p) - 1
        /\ \A k \in 1 .. (Len(p) - 1) : Front(p)[k] = p[k]
    BY <1>1, <2>1, FrontIs, Zenon
  <2>3. \A k \in 1 .. (Len(p) - 1) : k \in 1..Len(p)
    BY <1>1, <2>1, Lengths, Zenon
  <2>4. Front(p) \in Clean
    BY <1>1, <2>2, <2>3, Zenon DEF Clean
  <2>5. Last(p) = p[Len(p)] /\ Len(p) \in 1..Len(p)
    BY <1>1, <2>1, Lengths, Zenon DEF Last
  <2> QED BY <1>1, <2>1, <2>2, <2>4, <2>5, Zenon
<1> QED BY <1>1, <1>2, <1>3, Zenon

\* Where a step leads.
LEMMA StepNode ==
  ASSUME NEW w \in Walks, NEW name
  PROVE  WalkStep(w, name).node = IF w.node # 0 /\ nodes[w.node].dir THEN Named(w.node, name) ELSE 0
<1>1. w = [node |-> w.node, lost |-> w.lost]
  BY DEF Walks
<1>2. \A x : [w EXCEPT !.node = x].node = x /\ [node |-> 0, lost |-> x].node = 0
  BY <1>1
<1>3. CASE w.node = 0
  <2>1. WalkStep(w, name) = w
    BY <1>3, Zenon DEF WalkStep
  <2> QED BY <1>3, <2>1, Zenon
<1>4. CASE w.node # 0 /\ ~nodes[w.node].dir
  <2>1. WalkStep(w, name) = [node |-> 0, lost |-> w.node]
    BY <1>4, Zenon DEF WalkStep
  <2> QED BY <1>2, <1>4, <2>1, Zenon
<1>5. CASE w.node # 0 /\ nodes[w.node].dir
  <2>1. WalkStep(w, name) = [w EXCEPT !.node = Named(w.node, name)]
    BY <1>5, Zenon DEF WalkStep
  <2> QED BY <1>2, <1>5, <2>1, Zenon
<1> QED BY <1>3, <1>4, <1>5, Zenon

LEMMA WalkUnfolds == Unfolds
<1> SUFFICES ASSUME Walkable
             PROVE  /\ Walk(<<>>).node = 1
                    /\ \A p \in Clean : p # <<>> =>
                         LET d == Walk(Front(p)).node
                         IN  Walk(p).node = IF d # 0 /\ nodes[d].dir THEN Named(d, Last(p)) ELSE 0
  BY Zenon DEF Unfolds
<1>1. Walk(<<>>) = AtRoot
  <2>1. Len(<<>>) = 0 /\ <<>> # <<"">> /\ 0 \in Nat
    OBVIOUS
  <2>2. PICK g : IsWalk(g, <<>>, 0) /\ Walk(<<>>) = g[0]
    BY <2>1, WalkOf, Zenon
  <2> QED BY <2>1, <2>2, WalkTurns, Zenon DEF Turns
<1>2. ASSUME NEW p \in Clean, p # <<>>
      PROVE  Walk(p).node = IF Walk(Front(p)).node # 0 /\ nodes[Walk(Front(p)).node].dir
                            THEN Named(Walk(Front(p)).node, Last(p)) ELSE 0
  <2> DEFINE N == Len(p)
  <2>1. /\ p \in Seq(STRING) /\ N \in Nat /\ p # <<"">> /\ N >= 1 /\ Front(p) \in Clean
        /\ Last(p) = p[N] /\ p[N] # ""
    BY <1>2, CleanFacts, Zenon
  <2>2. Front(p) # <<"">>
    BY <2>1, CleanFacts, Zenon
  <2>3. Front(p) = SubSeq(p, 1, N - 1) /\ (N = 1 \/ N - 1 \in 1..N) /\ N \in 1..N /\ (N = 1 => N - 1 = 0)
    BY <2>1, Lengths, Zenon DEF Front
  <2>4. PICK g : IsWalk(g, p, N) /\ Walk(p) = g[N]
    BY <2>1, WalkOf, Zenon
  <2>5. g[0] = AtRoot /\ g[N] = WalkStep(g[N - 1], p[N])
    BY <2>1, <2>3, <2>4, WalkTurns, Zenon DEF Turns
  <2>6. g[N - 1] \in Walks
    <3>1. \A k \in 0..N : g[k] \in Walks
      BY <2>1, <2>4, LostAtFile, Zenon
    <3>2. N - 1 \in 0..N
      BY <2>1, Lengths, Zenon
    <3> QED BY <3>1, <3>2, Zenon
  <2>7. Walk(Front(p)) = g[N - 1]
    <3>1. CASE N = 1
      <4>1. Front(p) = <<>>
        BY <2>1, <3>1, Single, Zenon
      <4> QED BY <1>1, <2>3, <2>5, <3>1, <4>1, Zenon
    <3>2. CASE N - 1 \in 1..N
      BY <2>1, <2>2, <2>3, <2>4, <3>2, WalkOfPrefix, Zenon
    <3> QED BY <2>3, <3>1, <3>2, Zenon
  <2> QED BY <2>1, <2>4, <2>5, <2>6, <2>7, StepNode, Zenon
<1> QED BY <1>1, <1>2, WalkStarts, Zenon

LEMMA WalkUnfoldsNext == Unfolds'
BY WalkUnfolds, PTL

\* Induction on the length of a path.
LEMMA CleanInduction ==
  ASSUME NEW good, <<>> \in good, \A p \in Clean : p # <<>> /\ Front(p) \in good => p \in good
  PROVE  Clean \subseteq good
<1> DEFINE bad == {n \in Nat : \E p \in Clean : Len(p) = n /\ p \notin good}
           m == Min(bad)
<1> SUFFICES ASSUME NEW r \in Clean, r \notin good PROVE FALSE
  OBVIOUS
<1>1. Len(r) \in bad
  BY CleanFacts, Zenon
<1>2. m \in bad /\ \A n \in bad : m =< n
  <2>1. bad \in SUBSET Nat /\ bad # {}
    BY <1>1, Zenon
  <2> HIDE DEF bad
  <2> QED BY <2>1, MinIsMember
<1>3. PICK p \in Clean : Len(p) = m /\ p \notin good
  BY <1>2, Zenon
<1>4. p # <<>>
  BY <1>3
<1>5. Len(p) \in Nat /\ Len(Front(p)) = Len(p) - 1 /\ Front(p) \in Clean
  BY <1>4, CleanFacts, Zenon
<1>6. Len(Front(p)) \in Nat
  BY <1>5, CleanFacts, Zenon
<1>7. Len(Front(p)) \notin bad
  <2> HIDE DEF bad
  <2>1. ~(m =< Len(Front(p)))
    BY <1>3, <1>5
  <2> QED BY <1>2, <2>1
<1>8. Front(p) \in good
  BY <1>5, <1>6, <1>7, Zenon
<1> QED BY <1>3, <1>4, <1>8

\* What it is to begin with a path.
LEMMA PrefixIs ==
  ASSUME NEW q \in Seq(STRING), NEW p \in Seq(STRING)
  PROVE  IsPrefix(q, p) <=> Len(q) =< Len(p) /\ \A k \in 1..Len(q) : q[k] = p[k]
<1> DEFINE s == SubSeq(q, 1, Len(q))
           t == SubSeq(p, 1, Len(q))
<1>1. Len(q) \in Nat /\ Len(p) \in Nat
  OBVIOUS
<1>2. IsPrefix(q, p) <=> Len(q) =< Len(p) /\ s = t
  BY DEF IsPrefix
<1>3. ASSUME Len(q) =< Len(p) PROVE s = t <=> \A k \in 1..Len(q) : q[k] = p[k]
  <2>1. s \in Seq(STRING) /\ Len(s) = Len(q) /\ \A k \in 1..Len(q) : s[k] = q[k]
    BY <1>1
  <2>2. t \in Seq(STRING) /\ Len(t) = Len(q) /\ \A k \in 1..Len(q) : t[k] = p[k]
    BY <1>1, <1>3
  <2> HIDE DEF s, t
  <2> QED BY <2>1, <2>2, SeqEqual
<1> QED BY <1>2, <1>3

LEMMA PrefixOfFront ==
  ASSUME NEW q \in Seq(STRING), q # <<>>, NEW p \in Seq(STRING)
  PROVE  /\ IsPrefix(q, q) /\ ~IsPrefix(q, Front(q)) /\ ~IsPrefix(q, <<>>)
         /\ p # <<>> => (IsPrefix(q, p) <=> p = q \/ IsPrefix(q, Front(p)))
<1>1. Len(q) \in Nat /\ Len(q) >= 1 /\ Len(p) \in Nat /\ (p # <<>> => Len(p) >= 1) /\ <<>> \in Seq(STRING) /\ Len(<<>>) = 0
  BY SeqFacts
<1>2. IsPrefix(q, q)
  BY <1>1, PrefixIs
<1>3. Front(q) \in Seq(STRING) /\ Len(Front(q)) = Len(q) - 1
  BY <1>1, FrontIs
<1>4. ~IsPrefix(q, Front(q)) /\ ~IsPrefix(q, <<>>)
  <2>1. ~(Len(q) =< Len(Front(q))) /\ ~(Len(q) =< Len(<<>>))
    BY <1>1, <1>3
  <2> QED BY <1>1, <1>3, <2>1, PrefixIs, Zenon
<1>5. ASSUME p # <<>> PROVE IsPrefix(q, p) <=> p = q \/ IsPrefix(q, Front(p))
  <2> DEFINE f == Front(p)
  <2>1. f \in Seq(STRING) /\ Len(f) = Len(p) - 1 /\ (\A k \in 1 .. (Len(p) - 1) : f[k] = p[k])
    BY <1>1, <1>5, FrontIs
  <2> HIDE DEF f
  <2>2. IsPrefix(q, p) <=> Len(q) =< Len(p) /\ \A k \in 1..Len(q) : q[k] = p[k]
    BY PrefixIs, Zenon
  <2>3. IsPrefix(q, f) <=> Len(q) =< Len(f) /\ \A k \in 1..Len(q) : q[k] = f[k]
    BY <2>1, PrefixIs, Zenon
  <2>4. ASSUME IsPrefix(q, f) PROVE IsPrefix(q, p)
    <3>1. Len(q) =< Len(p) /\ \A k \in 1..Len(q) : k \in 1 .. (Len(p) - 1)
      BY <1>1, <2>1, <2>3, <2>4
    <3> QED BY <2>1, <2>2, <2>3, <2>4, <3>1, Zenon
  <2>5. ASSUME IsPrefix(q, p), p # q PROVE IsPrefix(q, f)
    <3>1. Len(q) # Len(p)
      BY <1>1, <2>2, <2>5, SeqEqual
    <3>2. Len(q) =< Len(f) /\ \A k \in 1..Len(q) : k \in 1 .. (Len(p) - 1)
      BY <1>1, <2>1, <2>2, <2>5, <3>1
    <3> QED BY <2>1, <2>2, <2>3, <2>5, <3>2, Zenon
  <2>6. (IsPrefix(q, p) <=> p = q \/ IsPrefix(q, f))
    BY <1>2, <2>4, <2>5, Zenon
  <2> QED BY <2>6 DEF f
<1> QED BY <1>2, <1>4, <1>5, Zenon

\* A child that tmpfs_finddir finds is in the list and has the name.
LEMMA NamedSound ==
  ASSUME Walkable, TreeIsSound, NEW d \in 1..Len(nodes), NEW name, Named(d, name) # 0
  PROVE  /\ Named(d, name) \in 2..Len(nodes) /\ Named(d, name) \in ToSet(children[d])
         /\ nodes[Named(d, name)].name = name
<1> DEFINE L == Len(nodes)
           kids == children[d]
           hits == {k \in 1..Len(kids) : nodes[kids[k]].name = name}
           c == Named(d, name)
<1>1. kids \in Seq(1..L) /\ L \in Nat
  BY Zenon DEF Walkable
<1>2. DOMAIN kids = 1..Len(kids) /\ \A k \in 1..Len(kids) : kids[k] \in 1..L
  <2> HIDE DEF kids, L
  <2> QED BY <1>1, SeqFacts
<1>3. hits # {} /\ c = kids[Min(hits)]
  BY Zenon DEF Named
<1>4. hits \in SUBSET Nat
  OBVIOUS
<1> HIDE DEF hits, c
<1>5. Min(hits) \in hits
  BY <1>3, <1>4, MinIsMember
<1>6. Min(hits) \in 1..Len(kids) /\ nodes[c].name = name
  BY <1>3, <1>5, Zenon DEF hits
<1>7. c \in 1..L /\ c \in ToSet(kids)
  <2>1. c \in 1..L
    BY <1>2, <1>3, <1>6, Zenon
  <2>2. c \in ToSet(kids)
    <3> HIDE DEF kids
    <3> QED BY <1>2, <1>3, <1>6 DEF ToSet
  <2> QED BY <2>1, <2>2
<1>8. 1 \notin ToSet(kids)
  BY Zenon DEF TreeIsSound
<1>9. c # 1
  BY <1>7, <1>8, Zenon
<1> HIDE DEF L
<1>10. c \in 2..L
  BY <1>1, <1>7, <1>9
<1> QED BY <1>6, <1>7, <1>10 DEF c, L

\* The path of the root.
LEMMA EmptyPath == <<>> \in Clean /\ Len(<<>>) = 0
<1>1. \A k \in 1..0 : FALSE
  OBVIOUS
<1>2. <<>> \in Seq(STRING) /\ Len(<<>>) = 0
  OBVIOUS
<1> QED BY <1>1, <1>2, Zenon DEF Clean

\* What a walk along a path without empty components finds: nothing, the root, or a
\* node of the name that comes last, in the list of what is found before.
LEMMA WalkFinds ==
  ASSUME Walkable, TreeIsSound, NEW p \in Clean
  PROVE  /\ Walk(p).node \in 0..Len(nodes)
         /\ p = <<>> => Walk(p).node = 1
         /\ p # <<>> /\ Walk(p).node # 0 =>
              /\ Walk(p).node \in 2..Len(nodes) /\ nodes[Walk(p).node].name = Last(p)
              /\ Walk(Front(p)).node \in 1..Len(nodes) /\ nodes[Walk(Front(p)).node].dir
              /\ Walk(p).node \in ToSet(children[Walk(Front(p)).node])
<1>0. /\ Walk(<<>>).node = 1
      /\ p # <<>> => Walk(p).node = IF Walk(Front(p)).node # 0 /\ nodes[Walk(Front(p)).node].dir
                                    THEN Named(Walk(Front(p)).node, Last(p)) ELSE 0
  BY WalkUnfolds, Zenon DEF Unfolds
<1>1. ASSUME NEW r \in Clean PROVE Walk(r).node \in 0..Len(nodes)
  <2>1. Walk(r) \in Walks
    BY CleanFacts, WalkFacts, Zenon
  <2> QED BY <2>1 DEF Walks
<1>2. ASSUME p # <<>>, Walk(p).node # 0
      PROVE  /\ Walk(p).node \in 2..Len(nodes) /\ nodes[Walk(p).node].name = Last(p)
             /\ Walk(Front(p)).node \in 1..Len(nodes) /\ nodes[Walk(Front(p)).node].dir
             /\ Walk(p).node \in ToSet(children[Walk(Front(p)).node])
  <2> DEFINE d == Walk(Front(p)).node
  <2>1. d # 0 /\ nodes[d].dir /\ Walk(p).node = Named(d, Last(p)) /\ Named(d, Last(p)) # 0
    BY <1>0, <1>2, Zenon
  <2>2. d \in 0..Len(nodes) /\ Len(nodes) \in Nat
    BY <1>1, <1>2, CleanFacts, Zenon DEF Walkable
  <2>3. d \in 1..Len(nodes)
    BY <2>1, <2>2, Places, Zenon
  <2> HIDE DEF d
  <2>4. /\ Named(d, Last(p)) \in 2..Len(nodes) /\ Named(d, Last(p)) \in ToSet(children[d])
        /\ nodes[Named(d, Last(p))].name = Last(p)
    BY <2>1, <2>3, NamedSound, Zenon
  <2> QED BY <2>1, <2>3, <2>4, Zenon DEF d
<1> QED BY <1>0, <1>1, <1>2, Zenon

\* Two paths do not lead to one node.
LEMMA PathsUnique ==
  ASSUME Walkable, TreeIsSound
  PROVE  \A p, r \in Clean : Walk(p).node = Walk(r).node /\ Walk(p).node # 0 => p = r
<1> DEFINE good == {p \in Clean : \A r \in Clean : Walk(p).node = Walk(r).node /\ Walk(p).node # 0 => p = r}
<1>0. 1 \notin 2..Len(nodes) /\ <<>> \in Clean
  <2>1. 1 \notin 2..Len(nodes)
    OBVIOUS
  <2> QED BY <2>1, EmptyPath, Zenon
<1>1. <<>> \in good
  BY <1>0, WalkFinds, Zenon
<1>2. ASSUME NEW p \in Clean, p # <<>>, Front(p) \in good PROVE p \in good
  <2> SUFFICES ASSUME NEW r \in Clean, Walk(p).node = Walk(r).node, Walk(p).node # 0 PROVE p = r
    OBVIOUS
  <2> DEFINE n == Walk(p).node
             d == Walk(Front(p)).node
             e == Walk(Front(r)).node
  <2>1. n \in 2..Len(nodes) /\ nodes[n].name = Last(p) /\ d \in 1..Len(nodes) /\ n \in ToSet(children[d])
    BY <1>2, WalkFinds, Zenon
  <2>2. r # <<>>
    BY <1>0, <2>1, WalkFinds, Zenon
  <2>3. nodes[n].name = Last(r) /\ e \in 1..Len(nodes) /\ n \in ToSet(children[e])
    BY <2>2, WalkFinds, Zenon
  <2>4. PICK dir \in 1 .. (n - 1) : \A x \in 1..Len(nodes) : n \in ToSet(children[x]) <=> x = dir
    BY <2>1, Zenon DEF TreeIsSound
  <2>5. d = e
    BY <2>1, <2>3, <2>4, Zenon
  <2>6. d # 0
    <3>1. \A x \in 1..Len(nodes) : x # 0
      OBVIOUS
    <3> QED BY <2>1, <3>1, Zenon
  <2>7. Front(p) = Front(r)
    <3>1. Front(r) \in Clean
      BY <2>2, CleanFacts, Zenon
    <3> QED BY <1>2, <2>5, <2>6, <3>1, Zenon
  <2>8. p \in Seq(STRING) /\ r \in Seq(STRING)
    BY CleanFacts, Zenon
  <2> QED BY <1>2, <2>1, <2>2, <2>3, <2>7, <2>8, FrontAndLast, Zenon
<1> HIDE DEF good
<1>3. Clean \subseteq good
  BY <1>1, <1>2, CleanInduction, Zenon
<1> QED BY <1>3, Zenon DEF good

\* w is where the walks in a tree lead.
Leads(w, ns, cs) ==
  /\ w[<<>>] = 1
  /\ \A p \in Clean : p # <<>> =>
       w[p] = IF w[Front(p)] # 0 /\ ns[w[Front(p)]].dir
              THEN FirstNamed(ns, cs[w[Front(p)]], Last(p)) ELSE 0

\* The first child with a name after a node with the name new is put in front of the
\* children of a directory.
NamedAfter(ns, cs, ms, ds, L, dir, new) ==
  /\ \A d \in 1..L : ms[d] = ns[d]
  /\ \A d \in 1..L : \A name :
       FirstNamed(ms, ds[d], name) = IF d = dir /\ name = new THEN L + 1 ELSE FirstNamed(ns, cs[d], name)
  /\ \A name : FirstNamed(ms, ds[L + 1], name) = 0

\* Two paths do not lead to one node.
OnePathEach(w) == \A p, r \in Clean : w[p] = w[r] /\ w[p] # 0 => p = r

\* How walks change with a new node: it is found, what it shadows is not.
Shadowed(v, w, L, target) ==
  \A p \in Clean : v[p] = IF p = target THEN L + 1 ELSE IF IsPrefix(target, p) THEN 0 ELSE w[p]
Stayed(v, w) == \A p \in Clean : v[p] = w[p]

\* The paths that change: that of the new node and what it shadows.
LEMMA WalksChange ==
  ASSUME NEW ns, NEW cs, NEW ms, NEW ds, NEW L \in Nat, L >= 1, NEW q \in Clean, NEW new \in STRING,
         NEW w \in [Clean -> 0..L], NEW v,
         Leads(w, ns, cs), Leads(v, ms, ds), NamedAfter(ns, cs, ms, ds, L, w[q], new),
         w[q] # 0, ns[w[q]].dir, OnePathEach(w),
         NEW target, target \in Clean, target # <<>>, Front(target) = q, Last(target) = new
  PROVE  Shadowed(v, w, L, target)
<1> USE DEF OnePathEach, Shadowed
<1> DEFINE good == {p \in Clean : v[p] = IF p = target THEN L + 1 ELSE IF IsPrefix(target, p) THEN 0 ELSE w[p]}
<1>0. /\ target \in Seq(STRING) /\ \A p \in Clean : p \in Seq(STRING) /\ (p # <<>> => Front(p) \in Clean)
      /\ <<>> \in Clean
  BY CleanFacts, EmptyPath, Zenon
<1>1. \A d \in 1..L : d # L + 1 /\ d # 0
  OBVIOUS
<1>n. \A x \in 0..L : x # 0 => x \in 1..L
  OBVIOUS
<1>m. L + 1 # 0
  OBVIOUS
<1>2. <<>> \in good
  BY <1>0, PrefixOfFront, Zenon DEF Leads
<1>3. ASSUME NEW p \in Clean, p # <<>>, Front(p) \in good PROVE p \in good
  <2> DEFINE f == Front(p)
  <2>0. f \in Clean /\ (IsPrefix(target, p) <=> p = target \/ IsPrefix(target, f))
    BY <1>0, <1>3, PrefixOfFront, Zenon
  <2>1. v[f] = IF f = target THEN L + 1 ELSE IF IsPrefix(target, f) THEN 0 ELSE w[f]
    BY <1>3, Zenon
  <2>2. v[p] = IF v[f] # 0 /\ ms[v[f]].dir THEN FirstNamed(ms, ds[v[f]], Last(p)) ELSE 0
    BY <1>3, Zenon DEF Leads
  <2>3. w[p] = IF w[f] # 0 /\ ns[w[f]].dir THEN FirstNamed(ns, cs[w[f]], Last(p)) ELSE 0
    BY <1>3, Zenon DEF Leads
  <2>4. w[f] # 0 => w[f] \in 1..L
    BY <1>n, <2>0, Zenon
  <2> SUFFICES v[p] = IF p = target THEN L + 1 ELSE IF IsPrefix(target, p) THEN 0 ELSE w[p]
    OBVIOUS
  <2>5. CASE p = target
    <3>1. ~IsPrefix(target, f) /\ f # target
      BY <1>0, <2>5, PrefixOfFront, Zenon
    <3>2. v[f] = w[q] /\ f = q
      BY <2>1, <2>5, <3>1, Zenon
    <3>3. ms[w[q]].dir /\ FirstNamed(ms, ds[w[q]], new) = L + 1
      BY <2>4, <3>2, Zenon DEF NamedAfter
    <3> QED BY <2>2, <2>5, <3>2, <3>3, Zenon
  <2>6. CASE p # target /\ IsPrefix(target, f)
    <3>1. v[f] # 0 => v[f] = L + 1
      BY <2>1, <2>6, Zenon
    <3>2. v[p] = 0
      BY <2>2, <3>1, Zenon DEF NamedAfter
    <3> QED BY <2>0, <2>6, <3>2, Zenon
  <2>7. CASE p # target /\ ~IsPrefix(target, f)
    <3>0. ~IsPrefix(target, p) /\ f # target
      BY <1>0, <2>0, <2>7, PrefixOfFront, Zenon
    <3>1. v[f] = w[f]
      BY <2>1, <2>7, <3>0, Zenon
    <3>2. ~(w[f] = w[q] /\ Last(p) = new)
      <4> SUFFICES ASSUME w[f] = w[q], Last(p) = new PROVE FALSE
        OBVIOUS
      <4>1. f = q
        BY <2>0, Zenon
      <4>2. p = target
        BY <1>0, <1>3, <4>1, FrontAndLast, Zenon
      <4> QED BY <2>7, <4>2
    <3>3. w[f] # 0 => ms[w[f]] = ns[w[f]] /\ FirstNamed(ms, ds[w[f]], Last(p)) = FirstNamed(ns, cs[w[f]], Last(p))
      BY <2>4, <3>2, Zenon DEF NamedAfter
    <3>4. v[p] = w[p]
      <4>1. CASE w[f] # 0 /\ ns[w[f]].dir
        BY <2>2, <2>3, <3>1, <3>3, <4>1, Zenon
      <4>2. CASE ~(w[f] # 0 /\ ns[w[f]].dir)
        BY <2>2, <2>3, <3>1, <3>3, <4>2, Zenon
      <4> QED BY <4>1, <4>2, Zenon
    <3> QED BY <2>7, <3>0, <3>4, Zenon
  <2> QED BY <2>5, <2>6, <2>7, Zenon
<1> HIDE DEF good
<1>4. Clean \subseteq good
  BY <1>2, <1>3, CleanInduction, Zenon
<1> QED BY <1>4, Zenon DEF good

\* A node without a name is on no path.
LEMMA WalksStay ==
  ASSUME NEW ns, NEW cs, NEW ms, NEW ds, NEW L \in Nat, NEW dir,
         NEW w \in [Clean -> 0..L], NEW v,
         Leads(w, ns, cs), Leads(v, ms, ds), NamedAfter(ns, cs, ms, ds, L, dir, "")
  PROVE  Stayed(v, w)
<1> USE DEF Stayed
<1> DEFINE good == {p \in Clean : v[p] = w[p]}
<1>0. <<>> \in Clean
  BY EmptyPath, Zenon
<1>n. \A x \in 0..L : x # 0 => x \in 1..L
  BY Places, Zenon
<1>2. <<>> \in good
  BY <1>0, Zenon DEF Leads
<1>3. ASSUME NEW p \in Clean, p # <<>>, Front(p) \in good PROVE p \in good
  <2> DEFINE f == Front(p)
  <2>0. f \in Clean /\ Last(p) # "" /\ v[f] = w[f]
    BY <1>3, CleanFacts, Zenon
  <2>2. v[p] = IF v[f] # 0 /\ ms[v[f]].dir THEN FirstNamed(ms, ds[v[f]], Last(p)) ELSE 0
    BY <1>3, Zenon DEF Leads
  <2>3. w[p] = IF w[f] # 0 /\ ns[w[f]].dir THEN FirstNamed(ns, cs[w[f]], Last(p)) ELSE 0
    BY <1>3, Zenon DEF Leads
  <2>4. w[f] # 0 => w[f] \in 1..L
    BY <1>n, <2>0, Zenon
  <2>5. w[f] # 0 => ms[w[f]] = ns[w[f]] /\ FirstNamed(ms, ds[w[f]], Last(p)) = FirstNamed(ns, cs[w[f]], Last(p))
    BY <2>0, <2>4, Zenon DEF NamedAfter
  <2>6. CASE w[f] # 0 /\ ns[w[f]].dir
    BY <2>0, <2>2, <2>3, <2>5, <2>6, Zenon
  <2>7. CASE ~(w[f] # 0 /\ ns[w[f]].dir)
    BY <2>0, <2>2, <2>3, <2>5, <2>7, Zenon
  <2> QED BY <2>6, <2>7, Zenon
<1> HIDE DEF good
<1>4. Clean \subseteq good
  BY <1>2, <1>3, CleanInduction, Zenon
<1> QED BY <1>4, Zenon DEF good

\* One more element in front.
LEMMA InFront ==
  ASSUME NEW S, NEW kids \in Seq(S), NEW x \in S
  PROVE  /\ Len(<<x>> \o kids) = Len(kids) + 1 /\ (<<x>> \o kids)[1] = x /\ Len(kids) \in Nat
         /\ \A k \in 1..Len(kids) : (<<x>> \o kids)[k + 1] = kids[k] /\ k + 1 \in 1 .. (Len(kids) + 1)
         /\ \A k \in 1 .. (Len(kids) + 1) : k = 1 \/ (k - 1 \in 1..Len(kids) /\ (k - 1) + 1 = k)
         /\ 1 \in 1 .. (Len(kids) + 1)
OBVIOUS

\* A new node in front of the list is found under its name, the others under theirs.
LEMMA FirstNamedInFront ==
  ASSUME NEW ns, NEW S, NEW kids \in Seq(S), NEW x \in S, NEW name
  PROVE  FirstNamed(ns, <<x>> \o kids, name) =
           IF name = ns[x].name THEN x ELSE FirstNamed(ns, kids, name)
<1> DEFINE more == <<x>> \o kids
           N == Len(kids)
           hits == {k \in 1..N : ns[kids[k]].name = name}
           all == {k \in 1..Len(more) : ns[more[k]].name = name}
<1>1. /\ Len(more) = N + 1 /\ more[1] = x /\ N \in Nat /\ 1 \in 1 .. (N + 1)
      /\ \A k \in 1..N : more[k + 1] = kids[k] /\ k + 1 \in 1 .. (N + 1)
      /\ \A k \in 1 .. (N + 1) : k = 1 \/ (k - 1 \in 1..N /\ (k - 1) + 1 = k)
  <2>0. N \in Nat /\ 1 \in 1 .. (N + 1)
    OBVIOUS
  <2>1. Len(more) = N + 1 /\ more[1] = x
    OBVIOUS
  <2>2. \A k \in 1..N : more[k + 1] = kids[k] /\ k + 1 \in 1 .. (N + 1)
    BY InFront, Zenon
  <2>3. \A k \in 1 .. (N + 1) : k = 1 \/ (k - 1 \in 1..N /\ (k - 1) + 1 = k)
    BY InFront, Zenon
  <2> QED BY <2>0, <2>1, <2>2, <2>3, Zenon
<1>2. FirstNamed(ns, more, name) = IF all = {} THEN 0 ELSE more[Min(all)]
  BY Zenon DEF FirstNamed
<1>3. FirstNamed(ns, kids, name) = IF hits = {} THEN 0 ELSE kids[Min(hits)]
  BY Zenon DEF FirstNamed
<1> HIDE DEF more, N
<1>4. all \in SUBSET Nat /\ hits \in SUBSET Nat
  BY <1>1
<1>5. /\ 1 \in all <=> name = ns[x].name
      /\ \A k \in hits : k + 1 \in all
      /\ \A k \in all : k = 1 \/ (k - 1 \in hits /\ k - 1 \in 1..N /\ (k - 1) + 1 = k)
      /\ \A k \in all : k \in Nat /\ k >= 1
      /\ hits \subseteq 1..N
  <2>1. 1 \in all <=> name = ns[x].name
    BY <1>1, Zenon
  <2>2. \A k \in hits : k + 1 \in all
    BY <1>1, Zenon
  <2>3. \A k \in all : k = 1 \/ (k - 1 \in hits /\ k - 1 \in 1..N /\ (k - 1) + 1 = k)
    BY <1>1, Zenon
  <2>4. \A k \in 1..Len(more) : k \in Nat /\ k >= 1
    BY <1>1
  <2> QED BY <2>1, <2>2, <2>3, <2>4, Zenon
<1> HIDE DEF all, hits
<1>6. CASE name = ns[x].name
  <2>1. Min(all) \in all /\ \A k \in all : Min(all) =< k
    BY <1>4, <1>5, <1>6, MinIsMember
  <2>2. Min(all) = 1
    BY <1>5, <1>6, <2>1
  <2> QED BY <1>1, <1>2, <1>5, <1>6, <2>2, Zenon DEF more
<1>7. CASE name # ns[x].name
  <2>1. CASE hits = {}
    <3>1. all = {}
      BY <1>5, <1>7, <2>1, Zenon
    <3> QED BY <1>2, <1>3, <1>7, <2>1, <3>1, Zenon DEF more
  <2>2. CASE hits # {}
    <3> DEFINE a == Min(all)
               h == Min(hits)
    <3>1. all # {}
      BY <1>5, <2>2, Zenon
    <3>2. a \in all /\ (\A k \in all : a =< k) /\ h \in hits /\ \A k \in hits : h =< k
      BY <1>4, <2>2, <3>1, MinIsMember
    <3> HIDE DEF a, h
    <3>3. a # 1
      BY <1>5, <1>7, <3>2, Zenon
    <3>4. a - 1 \in hits /\ h + 1 \in all /\ a \in Nat /\ h \in Nat /\ h \in 1..N
      BY <1>4, <1>5, <3>2, <3>3, Zenon
    <3>5. a =< h + 1 /\ h =< a - 1
      BY <3>2, <3>4, Zenon
    <3>6. a = h + 1
      BY <3>4, <3>5
    <3>7. more[a] = kids[h]
      BY <1>1, <3>4, <3>6, Zenon
    <3> QED BY <1>2, <1>3, <1>7, <2>2, <3>1, <3>7, Zenon DEF more, a, h
  <2> QED BY <2>1, <2>2
<1> QED BY <1>6, <1>7

\* tmpfs_add_entry.
LEMMA EntryIsNamed ==
  ASSUME Walkable, Len(children) = Len(nodes), children \in Seq(Seq(1..Len(nodes))),
         NEW dir \in 1..Len(nodes),
         children' = Append([children EXCEPT ![dir] = <<Len(nodes) + 1>> \o @], <<>>),
         \A d \in 1..Len(nodes) : nodes'[d] = nodes[d]
  PROVE  NamedAfter(nodes, children, nodes', children', Len(nodes), dir, nodes'[Len(nodes) + 1].name)
<1> DEFINE L == Len(nodes)
           S == 1 .. (L + 1)
           mine == <<L + 1>> \o children[dir]
           more == [children EXCEPT ![dir] = mine]
<1>1. L \in Nat
  BY Zenon DEF Walkable
<1>2. DOMAIN children = 1..L /\ Len(children) = L
  <2>1. DOMAIN children = 1..Len(children)
    BY SeqFacts
  <2> QED BY <2>1
<1>3. \A d \in 1..L : children[d] \in Seq(1..L)
  BY Zenon DEF Walkable
<1>4. L + 1 \in S /\ \A d \in 1..L : children[d] \in Seq(S)
  <2>0. L + 1 \in S
    BY <1>1
  <2>1. ASSUME NEW d \in 1..L PROVE children[d] \in Seq(S)
    <3> DEFINE R == 1..L
    <3>1. children[d] \in Seq(R)
      BY <1>3
    <3>2. R \subseteq S
      BY <1>1
    <3> HIDE DEF R, S
    <3> QED BY <3>1, <3>2
  <2> QED BY <2>0, <2>1
<1>5. children' = Append(more, <<>>)
  OBVIOUS
<1> HIDE DEF mine
<1>6. DOMAIN more = 1..L /\ more[dir] = mine /\ \A d \in 1..L : d # dir => more[d] = children[d]
  BY <1>2
<1> DEFINE T == Seq(S)
<1>7. mine \in T /\ <<>> \in T
  <2>1. children[dir] \in Seq(S) /\ L + 1 \in S
    BY <1>4, Zenon
  <2> HIDE DEF S, L
  <2> QED BY <2>1 DEF mine
<1>8. more \in Seq(T) /\ Len(more) = L
  <2>1. \A d \in 1..L : more[d] \in T
    BY <1>4, <1>6, <1>7, Zenon
  <2>2. more = [d \in 1..L |-> more[d]]
    BY <1>2
  <2> HIDE DEF more, T, L
  <2>3. more \in [1..L -> T]
    BY <2>1, <2>2
  <2>4. more \in Seq(T)
    BY <1>1, <2>3, IsASeq
  <2> QED BY <1>1, <1>6, <2>4, LenProperties
<1> HIDE DEF more
<1>9. children'[L + 1] = <<>> /\ \A d \in 1..L : children'[d] = more[d]
  <2> DEFINE e == <<>>
  <2>1. more \in Seq(T) /\ e \in T
    BY <1>7, <1>8
  <2> HIDE DEF T, e, L
  <2>2. Append(more, e)[Len(more) + 1] = e /\ \A d \in 1..Len(more) : Append(more, e)[d] = more[d]
    BY <2>1, Appended
  <2>3. Append(more, e) = children' /\ e = <<>>
    BY <1>5 DEF e
  <2> QED BY <1>8, <2>2, <2>3, Zenon
<1>10. ASSUME NEW d \in 1..L, NEW name
       PROVE  FirstNamed(nodes', children'[d], name) =
                IF d = dir /\ name = nodes'[L + 1].name THEN L + 1 ELSE FirstNamed(nodes, children[d], name)
  <2>1. FirstNamed(nodes', children[d], name) = FirstNamed(nodes, children[d], name)
    <3> DEFINE R == 1..L
               ms == nodes'
               ns == nodes
               kids == children[d]
    <3>1. kids \in Seq(R) /\ \A e \in R : ms[e] = ns[e]
      BY <1>3, Zenon
    <3> HIDE DEF R, ms, ns, kids
    <3>2. FirstNamed(ms, kids, name) = FirstNamed(ns, kids, name)
      <4>1. \A k \in 1..Len(kids) : kids[k] \in R
        BY <3>1, SeqFacts
      <4>2. {k \in 1..Len(kids) : ms[kids[k]].name = name} = {k \in 1..Len(kids) : ns[kids[k]].name = name}
        BY <3>1, <4>1, Zenon
      <4> QED BY <4>2, Zenon DEF FirstNamed
    <3> QED BY <3>2 DEF ms, ns, kids
  <2>2. CASE d = dir
    <3>1. FirstNamed(nodes', <<L + 1>> \o children[d], name) =
            IF name = nodes'[L + 1].name THEN L + 1 ELSE FirstNamed(nodes', children[d], name)
      <4> DEFINE ms == nodes'
                 x == L + 1
      <4>1. children[d] \in Seq(S) /\ x \in S
        BY <1>4, Zenon
      <4> HIDE DEF S, ms, x
      <4>2. FirstNamed(ms, <<x>> \o children[d], name) =
              IF name = ms[x].name THEN x ELSE FirstNamed(ms, children[d], name)
        BY <4>1, FirstNamedInFront
      <4> QED BY <4>2 DEF ms, x
    <3> QED BY <1>6, <1>9, <2>1, <2>2, <3>1, Zenon DEF mine
  <2>3. CASE d # dir
    BY <1>6, <1>9, <2>1, <2>3, Zenon
  <2> QED BY <2>2, <2>3
<1>11. ASSUME NEW name PROVE FirstNamed(nodes', children'[L + 1], name) = 0
  <2>1. Len(<<>>) = 0 /\ 1..0 = {}
    OBVIOUS
  <2>2. {k \in 1..Len(<<>>) : nodes'[<<>>[k]].name = name} = {}
    BY <2>1, Zenon
  <2> QED BY <1>9, <2>2, Zenon DEF FirstNamed
<1> QED BY <1>10, <1>11, Zenon DEF NamedAfter

\* u[i] is what Components has of the first i strings of a path.
IsParts(u, path, k) ==
  u = [i \in 0..k |-> IF i = 0 THEN <<>>
                      ELSE IF path[i] = "" THEN u[i - 1] ELSE Append(u[i - 1], path[i])]

LEMMA PartsExist ==
  ASSUME NEW path, NEW n \in Nat
  PROVE  \E u : IsParts(u, path, n)
<1> DEFINE bad == {k \in Nat : ~ \E u : IsParts(u, path, k)}
           m == Min(bad)
           turn(f, i) == IF i = 0 THEN <<>>
                         ELSE IF path[i] = "" THEN f[i - 1] ELSE Append(f[i - 1], path[i])
<1> SUFFICES ASSUME n \in bad PROVE FALSE
  OBVIOUS
<1>1. m \in bad /\ \A k \in bad : m =< k
  BY MinIsMember
<1>2. m \in Nat /\ ~ \E u : IsParts(u, path, m)
  BY <1>1
<1>3. \A k \in Nat : k < m => \E u : IsParts(u, path, k)
  BY <1>1, <1>2
<1>w. \A u, k : IsParts(u, path, k) <=> u = [i \in 0..k |-> turn(u, i)]
  BY DEF IsParts
<1>z. \A f : turn(f, 0) = <<>>
  OBVIOUS
<1>s. \A f, h, i : f[i - 1] = h[i - 1] => turn(f, i) = turn(h, i)
  OBVIOUS
<1>t. \A f, h : turn(f, 0) = turn(h, 0)
  OBVIOUS
<1> HIDE DEF bad, m, turn
<1>4. CASE m = 0
  <2> DEFINE h == [i \in 0..0 |-> <<>>]
  <2>1. h = [i \in 0..0 |-> turn(h, i)]
    BY <1>z
  <2> HIDE DEF h
  <2> QED BY <1>2, <1>4, <1>w, <2>1
<1>5. CASE m # 0
  <2>1. m - 1 \in Nat /\ m - 1 < m
    BY <1>2, <1>5
  <2>2. PICK u : IsParts(u, path, m - 1)
    BY <1>3, <2>1
  <2> DEFINE h == [i \in 0..m |-> IF i = m THEN turn(u, m) ELSE u[i]]
  <2>3. DOMAIN h = 0..m /\ h[m] = turn(u, m) /\ (\A i \in 0 .. (m - 1) : h[i] = u[i]) /\ h = [i \in 0..m |-> h[i]]
    BY <1>2
  <2>4. \A i \in 0 .. (m - 1) : u[i] = turn(u, i)
    BY <1>w, <2>2
  <2> HIDE DEF h
  <2>5. ASSUME NEW i \in 0..m
        PROVE  h[i] = turn(h, i)
    <3>1. h[i] = turn(u, i)
      <4>1. CASE i = m
        BY <2>3, <4>1
      <4>2. CASE i # m
        <5>1. i \in 0 .. (m - 1)
          BY <1>2, <4>2
        <5> QED BY <2>3, <2>4, <5>1
      <4> QED BY <4>1, <4>2
    <3>2. turn(u, i) = turn(h, i)
      <4>1. CASE i = 0
        BY <1>t, <4>1
      <4>2. CASE i # 0
        <5>1. i - 1 \in 0 .. (m - 1)
          BY <1>2, <4>2
        <5> QED BY <1>s, <2>3, <5>1, ZenonT(40)
      <4> QED BY <4>1, <4>2
    <3> QED BY <3>1, <3>2
  <2>6. h = [i \in 0..m |-> turn(h, i)]
    BY <2>3, <2>5
  <2> QED BY <1>2, <1>w, <2>6
<1> QED BY <1>4, <1>5

\* Arithmetic of places.
LEMMA UpTo == \A n \in Nat :
  /\ n \in 0..n /\ n + 1 >= 1 /\ (n + 1) - 1 = n
  /\ \A k \in 1 .. (n + 1) : k = n + 1 \/ k \in 1..n
  /\ \A k \in 0..n : k # 0 => k \in 1..n /\ k - 1 \in 0..n /\ ~(k =< k - 1)
OBVIOUS

\* A component more.
LEMMA Longer ==
  ASSUME NEW S, NEW p \in Seq(S), NEW x \in S
  PROVE  /\ Append(p, x) \in Seq(S) /\ Len(Append(p, x)) = Len(p) + 1 /\ Append(p, x) # <<>>
         /\ Append(p, x)[Len(p) + 1] = x /\ \A k \in 1..Len(p) : Append(p, x)[k] = p[k]
         /\ Front(Append(p, x)) = p /\ Last(Append(p, x)) = x
<1> DEFINE r == Append(p, x)
           N == Len(p)
           f == SubSeq(r, 1, N)
<1>1. N \in Nat
  OBVIOUS
<1>2. r \in Seq(S) /\ Len(r) = N + 1 /\ r[N + 1] = x /\ \A k \in 1..N : r[k] = p[k]
  OBVIOUS
<1> HIDE DEF r
<1>3. Last(r) = x /\ r # <<>>
  BY <1>1, <1>2 DEF Last
<1>4. f \in Seq(S) /\ Len(f) = N /\ \A k \in 1..N : f[k] = r[k]
  BY <1>1, <1>2
<1>5. Front(r) = f
  <2>1. Len(r) - 1 = N
    BY <1>1, <1>2
  <2> QED BY <2>1, Zenon DEF Front
<1> HIDE DEF f
<1>6. f = p
  BY <1>2, <1>4, SeqEqual
<1> QED BY <1>2, <1>3, <1>5, <1>6, Zenon DEF r

LEMMA OneMore ==
  ASSUME NEW p \in Clean, NEW x \in STRING, x # ""
  PROVE  /\ Append(p, x) \in Clean /\ Append(p, x) # <<>>
         /\ Front(Append(p, x)) = p /\ Last(Append(p, x)) = x
<1> DEFINE r == Append(p, x)
           N == Len(p)
<1>1. p \in Seq(STRING) /\ N \in Nat
  BY CleanFacts, Zenon
<1>2. /\ r \in Seq(STRING) /\ Len(r) = N + 1 /\ r[N + 1] = x /\ \A k \in 1..N : r[k] = p[k]
      /\ r # <<>> /\ Front(r) = p /\ Last(r) = x
  BY <1>1, Longer, ZenonT(40)
<1>3. \A k \in 1 .. (N + 1) : k = N + 1 \/ k \in 1..N
  BY <1>1, UpTo, Zenon
<1> HIDE DEF r
<1>4. r \in Clean
  <2>1. \A k \in 1..N : p[k] # ""
    BY Zenon DEF Clean
  <2>2. \A k \in 1 .. (N + 1) : r[k] # ""
    BY <1>2, <1>3, <2>1, Zenon
  <2> QED BY <1>2, <2>2, Zenon DEF Clean
<1> QED BY <1>2, <1>4 DEF r

\* The components of a path, one string after the other.
Parts(u, path) ==
  /\ u[0] = <<>> /\ Components(path) = u[Len(path)]
  /\ \A k \in 1..Len(path) : u[k] = IF path[k] = "" THEN u[k - 1] ELSE Append(u[k - 1], path[k])

LEMMA ComponentsAre ==
  ASSUME NEW path \in Seq(STRING)
  PROVE  \E u : Parts(u, path) /\ \A k \in 0..Len(path) : u[k] \in Clean
<1> DEFINE N == Len(path)
           u == CHOOSE f : IsParts(f, path, N)
<1>0. N \in Nat
  OBVIOUS
<1>1. IsParts(u, path, N)
  BY <1>0, PartsExist, Zenon
<1>2. Components(path) = u[N]
  BY Zenon DEF Components, IsParts
<1> HIDE DEF u
<1> DEFINE turn(i) == IF i = 0 THEN <<>>
                      ELSE IF path[i] = "" THEN u[i - 1] ELSE Append(u[i - 1], path[i])
<1>3. u = [i \in 0..N |-> turn(i)]
  BY <1>1, Zenon DEF IsParts
<1>4. 0 \in 0..N /\ \A k \in 1..N : k \in 0..N /\ k # 0
  <2>1. \A n \in Nat : 0 \in 0..n /\ \A k \in 1..n : k \in 0..n /\ k # 0
    OBVIOUS
  <2> QED BY <1>0, <2>1, Zenon
<1>5. u[0] = turn(0) /\ \A k \in 1..N : u[k] = turn(k)
  <2> HIDE DEF turn
  <2> QED BY <1>3, <1>4, Zenon
<1>6. Parts(u, path)
  BY <1>2, <1>4, <1>5, Zenon DEF Parts
<1> DEFINE bad == {k \in 0..N : u[k] \notin Clean}
           m == Min(bad)
<1>7. bad = {}
  <2> SUFFICES ASSUME bad # {} PROVE FALSE
    OBVIOUS
  <2>1. m \in bad /\ \A k \in bad : m =< k
    <3>1. bad \in SUBSET Nat
      BY <1>0
    <3> HIDE DEF bad
    <3> QED BY <3>1, MinIsMember
  <2>2. m \in 0..N /\ u[m] \notin Clean
    BY <2>1, Zenon
  <2> HIDE DEF m
  <2>3. m # 0
    BY <1>6, <2>2, EmptyPath, Zenon DEF Parts
  <2>4. m \in 1..N /\ m - 1 \in 0..N /\ ~(m =< m - 1)
    BY <1>0, <2>2, <2>3, UpTo, Zenon
  <2>5. u[m - 1] \in Clean
    BY <2>1, <2>4, Zenon
  <2>6. path[m] \in STRING
    BY <2>4, SeqFacts, Zenon
  <2> QED BY <1>6, <2>2, <2>4, <2>5, <2>6, OneMore, Zenon DEF Parts
<1> QED BY <1>6, <1>7, Zenon

\* A walk along any path is where the walk along its components is.
LEMMA WalkAlong ==
  ASSUME Walkable, NEW path \in Seq(STRING), NEW g, IsWalk(g, path, Len(path)),
         NEW u, Parts(u, path), \A k \in 0..Len(path) : u[k] \in Clean
  PROVE  \A k \in 0..Len(path) : g[k].node = Walk(u[k]).node
<1> DEFINE N == Len(path)
           bad == {k \in 0..N : g[k].node # Walk(u[k]).node}
           m == Min(bad)
<1>0. N \in Nat
  OBVIOUS
<1>1. Turns(g, path, N)
  BY <1>0, WalkTurns, Zenon
<1>2. \A k \in 0..N : g[k] \in Walks
  BY <1>0, LostAtFile, Zenon
<1> SUFFICES ASSUME bad # {} PROVE FALSE
  OBVIOUS
<1>3. m \in bad /\ \A k \in bad : m =< k
  <2>1. bad \in SUBSET Nat
    BY <1>0
  <2> HIDE DEF bad
  <2> QED BY <2>1, MinIsMember
<1>4. m \in 0..N /\ g[m].node # Walk(u[m]).node
  BY <1>3, Zenon
<1> HIDE DEF m
<1>5. m # 0
  BY <1>1, <1>4, WalkUnfolds, WalkStarts, Zenon DEF Parts, Turns, Unfolds
<1>6. m \in 1..N /\ m - 1 \in 0..N /\ ~(m =< m - 1)
  BY <1>0, <1>4, <1>5, UpTo, Zenon
<1> DEFINE p == u[m - 1]
           w == g[m - 1]
<1>7. w.node = Walk(p).node /\ w \in Walks /\ p \in Clean
  BY <1>2, <1>3, <1>6, Zenon
<1>8. path[m] \in STRING
  BY <1>6, SeqFacts, Zenon
<1>9. CASE path[m] = ""
  BY <1>1, <1>4, <1>6, <1>7, <1>9, Zenon DEF Parts, Turns
<1>10. CASE path[m] # ""
  <2> DEFINE r == Append(p, path[m])
  <2>1. g[m] = WalkStep(w, path[m]) /\ u[m] = r
    BY <1>1, <1>6, <1>10, Zenon DEF Parts, Turns
  <2>2. r \in Clean /\ r # <<>> /\ Front(r) = p /\ Last(r) = path[m]
    BY <1>7, <1>8, <1>10, OneMore, Zenon
  <2>3. g[m].node = IF w.node # 0 /\ nodes[w.node].dir THEN Named(w.node, path[m]) ELSE 0
    <3> HIDE DEF w
    <3>1. WalkStep(w, path[m]).node = IF w.node # 0 /\ nodes[w.node].dir THEN Named(w.node, path[m]) ELSE 0
      BY <1>7, StepNode, Zenon
    <3> QED BY <2>1, <3>1, Zenon
  <2> HIDE DEF r
  <2>4. Walk(r).node = IF Walk(Front(r)).node # 0 /\ nodes[Walk(Front(r)).node].dir
                       THEN Named(Walk(Front(r)).node, Last(r)) ELSE 0
    BY <2>2, WalkUnfolds, Zenon DEF Unfolds
  <2> QED BY <1>4, <1>7, <2>1, <2>2, <2>3, <2>4, Zenon
<1> QED BY <1>9, <1>10

LEMMA WalkComponents ==
  ASSUME Walkable, NEW path \in Seq(STRING), path # <<"">>
  PROVE  Components(path) \in Clean /\ Walk(path).node = Walk(Components(path)).node
<1>0. Len(path) \in Nat
  BY SeqFacts, Zenon
<1>1. PICK u : Parts(u, path) /\ \A k \in 0..Len(path) : u[k] \in Clean
  BY ComponentsAre, Zenon
<1>2. PICK g : IsWalk(g, path, Len(path)) /\ Walk(path) = g[Len(path)]
  BY <1>0, WalkOf, Zenon
<1>3. Len(path) \in 0..Len(path)
  BY <1>0, UpTo, Zenon
<1>4. g[Len(path)].node = Walk(u[Len(path)]).node
  BY <1>1, <1>2, <1>3, WalkAlong, Zenon
<1> QED BY <1>1, <1>2, <1>3, <1>4, Zenon DEF Parts

\* tmpfs_add_entry finds the parent at the path before the last component, as a
\* lookup does, and takes the root if that is no directory.
LEMMA ParentPath ==
  ASSUME Walkable, NEW path \in Seq(STRING), Len(path) >= 1
  PROVE  \E c \in Clean :
           /\ Parent(path) = IF Walk(c).node # 0 /\ nodes[Walk(c).node].dir THEN Walk(c).node ELSE 1
           /\ Components(path) = IF Last(path) = "" THEN c ELSE Append(c, Last(path))
<1> DEFINE N == Len(path)
<1>0. N \in Nat
  BY SeqFacts, Zenon
<1>1. PICK u : Parts(u, path) /\ \A k \in 0..N : u[k] \in Clean
  BY ComponentsAre, Zenon
<1> DEFINE c == u[N - 1]
<1>2. N \in 1..N /\ N - 1 \in 0..N /\ (N = 1 => N - 1 = 0) /\ (N = 1 \/ N - 1 \in 1..N)
      /\ (N - 1 = 1 => 1 \in 1 .. (N - 1))
  BY <1>0, Lengths, Zenon
<1>3. c \in Clean
  BY <1>1, <1>2, Zenon
<1>4. Components(path) = IF Last(path) = "" THEN c ELSE Append(c, Last(path))
  BY <1>1, <1>2, Zenon DEF Parts, Last
<1>5. Walk(<<>>).node = 1 /\ nodes[1].dir /\ 1 # 0
  BY WalkUnfolds, WalkStarts, Zenon DEF Unfolds, Walkable
<1>6. (N = 1 \/ N > 1) /\ (N > 1 => N # 1)
  BY Single, Zenon
<1>7. CASE N = 1
  <2>1. c = <<>> /\ ~(N > 1)
    BY <1>1, <1>2, <1>6, <1>7, Zenon DEF Parts
  <2>2. Parent(path) = 1
    BY <2>1, Zenon DEF Parent
  <2> QED BY <1>3, <1>4, <1>5, <2>1, <2>2, Zenon
<1>8. CASE N > 1 /\ Front(path) = <<"">>
  <2>1. Len(Front(path)) = N - 1 /\ \A k \in 1 .. (N - 1) : Front(path)[k] = path[k]
    BY FrontIs, Zenon
  <2>2. <<"">>[1] = "" /\ Len(<<"">>) = 1 /\ 1 - 1 = 0
    OBVIOUS
  <2>3. N - 1 = 1 /\ path[1] = "" /\ 1 \in 1..N
    BY <1>0, <1>2, <1>8, <2>1, <2>2, Lengths, Zenon
  <2>4. c = <<>>
    BY <1>1, <2>2, <2>3, Zenon DEF Parts
  <2>5. Walk(<<"">>).node = 0
    <3>1. [node |-> 0, lost |-> 0].node = 0
      OBVIOUS
    <3>2. Walk(<<"">>) = [node |-> 0, lost |-> 0]
      BY Zenon DEF Walk
    <3> QED BY <3>1, <3>2, Zenon
  <2>6. Parent(path) = 1
    BY <1>8, <2>5, Zenon DEF Parent
  <2> QED BY <1>3, <1>4, <1>5, <2>4, <2>6, Zenon
<1>9. CASE N > 1 /\ Front(path) # <<"">>
  <2>1. path # <<"">>
    BY <1>6, <1>9, Single, Zenon
  <2>2. PICK g : IsWalk(g, path, N) /\ Walk(path) = g[N]
    BY <1>0, <2>1, WalkOf, Zenon
  <2>3. Front(path) = SubSeq(path, 1, N - 1) /\ N - 1 \in 1..N
    BY <1>2, <1>6, <1>9, Zenon DEF Front
  <2>4. Walk(Front(path)) = g[N - 1]
    BY <1>9, <2>2, <2>3, WalkOfPrefix, Zenon
  <2>5. g[N - 1].node = Walk(c).node
    BY <1>1, <1>2, <2>2, WalkAlong, Zenon
  <2>6. Walk(Front(path)).node = Walk(c).node
    BY <2>4, <2>5, Zenon
  <2>7. Parent(path) = IF Walk(c).node # 0 /\ nodes[Walk(c).node].dir THEN Walk(c).node ELSE 1
    BY <1>9, <2>6, Zenon DEF Parent
  <2> QED BY <1>3, <1>4, <2>7, Zenon
<1> QED BY <1>6, <1>7, <1>8, <1>9, Zenon

\* The paths that are given, by their components.
Proper == {Components(path) : path \in Lookups \cup {EntryPath(p) : p \in GivenPaths}}

\* The paths that are given.
LEMMA Given ==
  ASSUME NEW path \in GivenPaths
  PROVE  path \in Seq(STRING) /\ Len(path) >= 1
<1>1. CASE path \in Lookups
  <2>1. path \in Seq(STRING) /\ path # <<>>
    BY <1>1, PathsAssumption, Zenon
  <2> QED BY <2>1, SeqFacts
<1>2. CASE path \notin Lookups
  <2>0. PICK arc \in Archives : path \in {HeaderName(b) : b \in Headers(arc)}
    BY <1>2, Zenon DEF GivenPaths
  <2>1. PICK b \in Headers(arc) : path = HeaderName(b)
    BY <2>0, Zenon
  <2>2. DOMAIN arc = 1..Len(arc)
    BY ArchiveFacts, Zenon
  <2>3. PICK i \in 1..Len(arc) : arc[i] = b /\ b.kind = "header"
    BY <2>1, <2>2, Zenon DEF Headers, ToSet
  <2>4. HeaderName(arc[i]) \in Seq(STRING) \ {<<>>}
    BY <2>3, HeaderIsMember, Zenon DEF TarMember
  <2>5. path \in Seq(STRING) /\ path # <<>>
    BY <2>1, <2>3, <2>4, Zenon
  <2> QED BY <2>5, SeqFacts
<1> QED BY <1>1, <1>2

LEMMA ProperAreClean == Proper \subseteq Clean
<1> SUFFICES ASSUME NEW path, path \in Lookups \cup {EntryPath(p) : p \in GivenPaths}
             PROVE  Components(path) \in Clean
  BY Zenon DEF Proper
<1>1. path \in Seq(STRING)
  <2>1. CASE path \in Lookups
    BY <2>1, Given, Zenon DEF GivenPaths
  <2>2. CASE path \notin Lookups
    <3>1. PICK p \in GivenPaths : path = EntryPath(p)
      BY <2>2, Zenon
    <3>2. p \in Seq(STRING) /\ Len(p) >= 1
      BY <3>1, Given, Zenon
    <3> QED BY <3>1, <3>2, EntryPathFacts, Zenon
  <2> QED BY <2>1, <2>2
<1>2. PICK u : Parts(u, path) /\ \A k \in 0..Len(path) : u[k] \in Clean
  BY <1>1, ComponentsAre, Zenon
<1>3. Len(path) \in 0..Len(path)
  BY <1>1, UpTo, SeqFacts, Zenon
<1> QED BY <1>2, <1>3, Zenon DEF Parts

\* Parts of sequences.
LEMMA AppendToNone == ASSUME NEW x PROVE Append(<<>>, x) = <<x>>
OBVIOUS

LEMMA Cut ==
  ASSUME NEW S, NEW p \in Seq(S), NEW n \in 0..Len(p)
  PROVE  /\ SubSeq(p, 1, n) \in Seq(S) /\ Len(SubSeq(p, 1, n)) = n
         /\ \A k \in 1..n : SubSeq(p, 1, n)[k] = p[k] /\ k \in 1..Len(p)
OBVIOUS

LEMMA Whole ==
  ASSUME NEW S, NEW p \in Seq(S)
  PROVE  SubSeq(p, 1, Len(p)) = p
<1> DEFINE f == SubSeq(p, 1, Len(p))
<1>1. f \in Seq(S) /\ Len(f) = Len(p) /\ \A k \in 1..Len(p) : f[k] = p[k]
  OBVIOUS
<1> HIDE DEF f
<1>2. f = p
  BY <1>1, SeqEqual
<1> QED BY <1>2 DEF f

\* The root, its children and what is on the way to a path given are in AllPaths.
LEMMA PathsAre ==
  /\ AllPaths \subseteq Clean
  /\ \A c \in Proper : c \in AllPaths /\ (c # <<>> => Front(c) \in AllPaths /\ <<Last(c)>> \in AllPaths)
<1> DEFINE pieces(p) == {SubSeq(p, 1, n) : n \in 0..Len(p)}
           single(p) == <<Last(p)>>
           A == UNION {pieces(p) : p \in Proper}
           B == {single(p) : p \in Proper \ {<<>>}}
<1>0. AllPaths = A \cup B
  BY Zenon DEF AllPaths, Proper
<1>1. ASSUME NEW c \in Clean, NEW n \in 0..Len(c) PROVE SubSeq(c, 1, n) \in Clean
  <2>1. c \in Seq(STRING) /\ \A k \in 1..Len(c) : c[k] # ""
    BY Zenon DEF Clean
  <2>2. /\ SubSeq(c, 1, n) \in Seq(STRING) /\ Len(SubSeq(c, 1, n)) = n
        /\ \A k \in 1..n : SubSeq(c, 1, n)[k] = c[k] /\ k \in 1..Len(c)
    BY <2>1, Cut, Zenon
  <2> QED BY <2>1, <2>2, Zenon DEF Clean
<1>2. ASSUME NEW c \in Clean, c # <<>> PROVE single(c) \in Clean
  <2>1. Last(c) \in STRING /\ Last(c) # ""
    BY <1>2, CleanFacts, Zenon
  <2>2. Append(<<>>, Last(c)) \in Clean
    BY <2>1, EmptyPath, OneMore, Zenon
  <2> QED BY <2>2, AppendToNone, Zenon
<1>3. AllPaths \subseteq Clean
  <2>1. \A c \in Clean : pieces(c) \subseteq Clean
    BY <1>1, Zenon
  <2>2. \A c \in Clean : c # <<>> => single(c) \in Clean
    BY <1>2, Zenon
  <2> HIDE DEF pieces, single
  <2>3. A \subseteq Clean
    BY <2>1, ProperAreClean, Zenon
  <2>4. B \subseteq Clean
    BY <2>2, ProperAreClean, Zenon
  <2> HIDE DEF A, B
  <2> QED BY <1>0, <2>3, <2>4
<1>4. ASSUME NEW c \in Proper
      PROVE  c \in AllPaths /\ (c # <<>> => Front(c) \in AllPaths /\ <<Last(c)>> \in AllPaths)
  <2>1. c \in Clean /\ c \in Seq(STRING) /\ Len(c) \in Nat
    BY CleanFacts, ProperAreClean, Zenon
  <2>2. SubSeq(c, 1, Len(c)) = c /\ Len(c) \in 0..Len(c)
    BY <2>1, Whole, UpTo, Zenon
  <2>3. c # <<>> => Front(c) = SubSeq(c, 1, Len(c) - 1) /\ Len(c) - 1 \in 0..Len(c)
    BY <2>1, CleanFacts, Lengths, Zenon DEF Front
  <2>4. SubSeq(c, 1, Len(c)) \in pieces(c)
    BY <2>2, Zenon
  <2>5. c # <<>> => SubSeq(c, 1, Len(c) - 1) \in pieces(c)
    BY <2>3, Zenon
  <2>6. pieces(c) \subseteq AllPaths /\ (c # <<>> => single(c) \in AllPaths)
    <3> HIDE DEF pieces, single
    <3>1. pieces(c) \subseteq A
      BY Zenon
    <3>2. c # <<>> => single(c) \in B
      BY Zenon
    <3> HIDE DEF A, B
    <3> QED BY <1>0, <3>1, <3>2
  <2> HIDE DEF pieces
  <2> QED BY <2>2, <2>3, <2>4, <2>5, <2>6, Zenon
<1> QED BY <1>3, <1>4, Zenon

\* All the walks of a tree.
WalksOf(ns, cs) == [p \in Clean |-> WalkIn(ns, cs, p).node]
Guided == Walkable => Leads(WalksOf(nodes, children), nodes, children)

LEMMA WalksLead == Guided
<1> SUFFICES ASSUME Walkable PROVE Leads(WalksOf(nodes, children), nodes, children)
  BY Zenon DEF Guided
<1> DEFINE w == WalksOf(nodes, children)
<1>1. \A p \in Clean : w[p] = Walk(p).node
  <2>1. \A p \in Clean : w[p] = WalkIn(nodes, children, p).node
    BY Zenon DEF WalksOf
  <2>2. \A p : WalkIn(nodes, children, p) = Walk(p)
    BY WalkIs, Zenon
  <2> HIDE DEF w
  <2> QED BY <2>1, <2>2, Zenon
<1> HIDE DEF w
<1>2. w[<<>>] = 1
  BY <1>1, EmptyPath, WalkUnfolds, Zenon DEF Unfolds
<1>3. ASSUME NEW p \in Clean, p # <<>>
      PROVE  w[p] = IF w[Front(p)] # 0 /\ nodes[w[Front(p)]].dir
                    THEN FirstNamed(nodes, children[w[Front(p)]], Last(p)) ELSE 0
  <2> DEFINE d == w[Front(p)]
  <2>1. Front(p) \in Clean
    BY <1>3, CleanFacts, Zenon
  <2>2. d = Walk(Front(p)).node /\ w[p] = Walk(p).node
    BY <1>1, <2>1, Zenon
  <2>3. Walk(p).node = IF Walk(Front(p)).node # 0 /\ nodes[Walk(Front(p)).node].dir
                       THEN Named(Walk(Front(p)).node, Last(p)) ELSE 0
    BY <1>3, WalkUnfolds, Zenon DEF Unfolds
  <2> HIDE DEF d
  <2>4. Named(d, Last(p)) = FirstNamed(nodes, children[d], Last(p))
    BY Zenon DEF Named, FirstNamed
  <2>5. w[p] = IF d # 0 /\ nodes[d].dir THEN FirstNamed(nodes, children[d], Last(p)) ELSE 0
    BY <2>2, <2>3, <2>4, Zenon
  <2> QED BY <2>5 DEF d
<1>4. Leads(w, nodes, children)
  BY <1>2, <1>3, Zenon DEF Leads
<1> QED BY <1>4 DEF w

LEMMA WalksLeadNext ==
  ASSUME Walkable'
  PROVE  Leads(WalksOf(nodes', children'), nodes', children')
<1>1. Guided'
  BY WalksLead, PTL
<1> QED BY <1>1, Zenon DEF Guided

\* What they lead to is below the root.
FoundNodes ==
  Walkable /\ TreeIsSound =>
    \A p \in Clean : p # <<>> /\ WalksOf(nodes, children)[p] # 0 =>
      WalksOf(nodes, children)[p] \in 2..Len(nodes)

LEMMA WalksFind == FoundNodes
<1> SUFFICES ASSUME Walkable, TreeIsSound, NEW p \in Clean, p # <<>>, WalksOf(nodes, children)[p] # 0
             PROVE  WalksOf(nodes, children)[p] \in 2..Len(nodes)
  BY Zenon DEF FoundNodes
<1>1. WalksOf(nodes, children)[p] = WalkIn(nodes, children, p).node
  BY Zenon DEF WalksOf
<1>2. WalkIn(nodes, children, p) = Walk(p)
  BY WalkIs, Zenon
<1>3. WalksOf(nodes, children)[p] = Walk(p).node
  BY <1>1, <1>2, Zenon
<1> QED BY <1>3, WalkFinds, Zenon

\* One is one more than none.
LEMMA Ones == 1 - 1 = 0
OBVIOUS

\* The map that a tree is, by its walks.
Member(ns, n) == [dir |-> ns[n].dir, data |-> ns[n].data]
Reached(ns, w) == {p \in AllPaths : ns # <<>> /\ p # <<>> /\ w[p] # 0}
TreeOf(ns, w) == [p \in Reached(ns, w) |-> Member(ns, w[p])]
TreeShown == Tree = TreeOf(nodes, WalksOf(nodes, children))

LEMMA TreeIsShown == TreeShown
<1> DEFINE w == WalksOf(nodes, children)
           Dom == {p \in AllPaths : nodes # <<>> /\ p # <<>> /\ Walk(p).node # 0}
<1>1. \A p \in Clean : w[p] = Walk(p).node
  <2>1. \A p \in Clean : w[p] = WalkIn(nodes, children, p).node
    BY Zenon DEF WalksOf
  <2>2. \A p : WalkIn(nodes, children, p) = Walk(p)
    BY WalkIs, Zenon
  <2> HIDE DEF w
  <2> QED BY <2>1, <2>2, Zenon
<1> HIDE DEF w
<1>2. \A p \in AllPaths : w[p] = Walk(p).node
  BY <1>1, PathsAre, Zenon
<1>3. Dom = Reached(nodes, w)
  <2>1. \A p \in AllPaths : Walk(p).node # 0 <=> w[p] # 0
    BY <1>2, Zenon
  <2> QED BY <2>1, Zenon DEF Reached
<1>4. Tree = [p \in Dom |-> Public(Walk(p).node)]
  BY Zenon DEF Tree
<1>5. \A p \in Dom : Public(Walk(p).node) = Member(nodes, w[p])
  BY <1>2, Zenon DEF Public, Member
<1> HIDE DEF Dom
<1>6. Tree = [p \in Dom |-> Member(nodes, w[p])]
  BY <1>4, <1>5, Zenon
<1>7. Tree = TreeOf(nodes, w)
  BY <1>3, <1>6, Zenon DEF TreeOf
<1> QED BY <1>7, Zenon DEF TreeShown, w

LEMMA TreeIsNext == Tree' = TreeOf(nodes', WalksOf(nodes', children'))
<1>1. TreeShown'
  BY TreeIsShown, PTL
<1> QED BY <1>1, Zenon DEF TreeShown

\* A path out of AllPaths leads to what the map has there.
LEMMA TreeHas ==
  ASSUME NEW ns, NEW w, NEW p \in AllPaths
  PROVE  /\ p \in DOMAIN TreeOf(ns, w) <=> ns # <<>> /\ p # <<>> /\ w[p] # 0
         /\ p \in DOMAIN TreeOf(ns, w) => TreeOf(ns, w)[p] = Member(ns, w[p])
<1> DEFINE R == Reached(ns, w)
<1>1. p \in R <=> ns # <<>> /\ p # <<>> /\ w[p] # 0
  BY Zenon DEF Reached
<1> HIDE DEF R
<1> DEFINE t == [r \in R |-> Member(ns, w[r])]
<1>2. DOMAIN t = R /\ (p \in R => t[p] = Member(ns, w[p]))
  BY Zenon
<1>3. TreeOf(ns, w) = t
  BY Zenon DEF TreeOf, R
<1> HIDE DEF t
<1> QED BY <1>1, <1>2, <1>3, Zenon

LEMMA TreeHasOnly ==
  ASSUME NEW ns, NEW w
  PROVE  DOMAIN TreeOf(ns, w) \subseteq AllPaths
<1> DEFINE R == Reached(ns, w)
<1>1. R \subseteq AllPaths
  BY Zenon DEF Reached
<1> HIDE DEF R
<1>2. DOMAIN [r \in R |-> Member(ns, w[r])] = R
  BY Zenon
<1>3. TreeOf(ns, w) = [r \in R |-> Member(ns, w[r])]
  BY Zenon DEF TreeOf, R
<1> QED BY <1>1, <1>2, <1>3, Zenon

\* The old nodes, and a map with a member more.
SameNodes(ms, ns, L) == \A d \in 1..L : ms[d] = ns[d]
Grown(s, t, target, new) ==
  LET kept == {p \in DOMAIN t : ~IsPrefix(target, p)}
  IN  /\ DOMAIN s = kept \cup {target}
      /\ s[target] = new
      /\ \A p \in kept : s[p] = t[p]
Shows(t, ns, w) == t = TreeOf(ns, w)

LEMMA MapChanges ==
  ASSUME NEW ns, NEW ms, ns # <<>>, ms # <<>>, NEW L \in Nat, NEW w \in [Clean -> 0..L], NEW v,
         SameNodes(ms, ns, L), NEW target \in AllPaths, target # <<>>, Shadowed(v, w, L, target)
  PROVE  Grown(TreeOf(ms, v), TreeOf(ns, w), target, Member(ms, L + 1))
<1> USE DEF SameNodes, Shadowed
<1> DEFINE t == TreeOf(ns, w)
           s == TreeOf(ms, v)
           kept == {p \in DOMAIN t : ~IsPrefix(target, p)}
<1>1. L + 1 # 0 /\ \A x \in 0..L : x # 0 => x \in 1..L
  OBVIOUS
<1>2. AllPaths \subseteq Clean /\ DOMAIN t \subseteq AllPaths /\ DOMAIN s \subseteq AllPaths
  BY PathsAre, TreeHasOnly, Zenon
<1>3. ASSUME NEW p \in AllPaths
      PROVE  /\ p \in DOMAIN t <=> p # <<>> /\ w[p] # 0
             /\ p \in DOMAIN t => t[p] = Member(ns, w[p])
  <2>1. p \in DOMAIN t <=> ns # <<>> /\ p # <<>> /\ w[p] # 0
    BY TreeHas, ZenonT(40)
  <2>2. p \in DOMAIN t => t[p] = Member(ns, w[p])
    BY TreeHas
  <2> HIDE DEF t, s
  <2> QED BY <2>1, <2>2, Zenon
<1>4. ASSUME NEW p \in AllPaths
      PROVE  /\ p \in DOMAIN s <=> p # <<>> /\ v[p] # 0
             /\ p \in DOMAIN s => s[p] = Member(ms, v[p])
  <2>1. p \in DOMAIN s <=> ms # <<>> /\ p # <<>> /\ v[p] # 0
    BY TreeHas, ZenonT(40)
  <2>2. p \in DOMAIN s => s[p] = Member(ms, v[p])
    BY TreeHas
  <2> HIDE DEF t, s
  <2> QED BY <2>1, <2>2, Zenon
<1> HIDE DEF t, s
<1>5. v[target] = L + 1 /\ target \in DOMAIN s /\ s[target] = Member(ms, L + 1)
  BY <1>1, <1>2, <1>4, Zenon
<1>6. IsPrefix(target, target)
  BY <1>2, CleanFacts, PrefixOfFront, Zenon
<1>7. ASSUME NEW p \in AllPaths PROVE p \in DOMAIN s <=> p \in kept \/ p = target
  <2>1. p \in Clean
    BY <1>2, Zenon
  <2>2. CASE p = target
    BY <1>5, <2>2, Zenon
  <2>3. CASE p # target /\ IsPrefix(target, p)
    <3>1. v[p] = 0
      BY <2>1, <2>3, Zenon
    <3> QED BY <1>4, <2>3, <3>1, Zenon
  <2>4. CASE p # target /\ ~IsPrefix(target, p)
    <3>1. v[p] = w[p]
      BY <2>1, <2>4, Zenon
    <3> QED BY <1>3, <1>4, <2>4, <3>1, Zenon
  <2> QED BY <2>2, <2>3, <2>4, Zenon
<1>8. ASSUME NEW p \in kept PROVE s[p] = t[p]
  <2>1. p \in AllPaths /\ p \in Clean /\ p \in DOMAIN t /\ ~IsPrefix(target, p) /\ p # target
    BY <1>2, <1>6, Zenon
  <2>2. v[p] = w[p] /\ w[p] \in 0..L /\ w[p] # 0
    BY <1>3, <2>1, Zenon
  <2>3. w[p] \in 1..L
    BY <1>1, <2>2, Zenon
  <2>4. ms[w[p]] = ns[w[p]]
    BY <2>3, Zenon
  <2>5. p \in DOMAIN s
    BY <1>7, <2>1, Zenon
  <2>6. s[p] = Member(ms, w[p]) /\ t[p] = Member(ns, w[p])
    BY <1>3, <1>4, <2>1, <2>2, <2>5, Zenon
  <2> QED BY <2>4, <2>6, Zenon DEF Member
<1>9. DOMAIN s = kept \cup {target}
  <2>1. kept \subseteq AllPaths
    BY <1>2, Zenon
  <2>2. \A p : p \in DOMAIN s <=> p \in kept \/ p = target
    BY <1>2, <1>7, <2>1, Zenon
  <2> HIDE DEF kept
  <2> QED BY <2>2
<1> QED BY <1>5, <1>8, <1>9, Zenon DEF t, s, Grown

\* The map as it was.
LEMMA MapStays ==
  ASSUME NEW ns, NEW ms, ns # <<>>, ms # <<>>, NEW L \in Nat, NEW w \in [Clean -> 0..L], NEW v,
         SameNodes(ms, ns, L), Stayed(v, w), NEW t, Shows(t, ns, w)
  PROVE  Shows(t, ms, v)
<1> USE DEF SameNodes, Stayed
<1>1. \A x \in 0..L : x # 0 => x \in 1..L
  OBVIOUS
<1>2. \A p \in AllPaths : v[p] = w[p] /\ w[p] \in 0..L
  BY PathsAre, Zenon
<1>3. Reached(ms, v) = Reached(ns, w)
  BY <1>2, Zenon DEF Reached
<1> DEFINE R == Reached(ns, w)
<1>4. \A p \in R : v[p] = w[p] /\ w[p] \in 1..L
  BY <1>1, <1>2, Zenon DEF Reached
<1>5. \A p \in R : Member(ms, v[p]) = Member(ns, w[p])
  BY <1>4, Zenon DEF Member
<1> HIDE DEF R
<1>6. [p \in R |-> Member(ms, v[p])] = [p \in R |-> Member(ns, w[p])]
  BY <1>5, Zenon
<1> QED BY <1>3, <1>6, Zenon DEF TreeOf, R, Shows

\* tmpfs_create_dir leaves data alone, and the root is as tmpfs_init makes it.
Plain ==
  nodes # <<>> =>
    /\ nodes[1].name = "/" /\ nodes[1].dir /\ nodes[1].data = <<>>
    /\ \A n \in 1..Len(nodes) : nodes[n].dir => nodes[n].data = <<>>

Sound == Inv /\ nodes # <<>> => Walkable /\ TreeIsSound /\ TypeOK

LEMMA InvIsSound == Sound
<1> SUFFICES ASSUME Inv, nodes # <<>> PROVE Walkable /\ TreeIsSound /\ TypeOK
  BY Zenon DEF Sound
<1>1. TypeOK /\ Rooted /\ TreeIsSound
  BY DEF Inv, HandlesStayValid
<1> QED BY <1>1, TreeIsWalkable, Zenon

LEMMA InvIsSoundNext == ASSUME Inv', nodes' # <<>> PROVE Walkable' /\ TreeIsSound' /\ TypeOK'
<1>1. Sound'
  BY InvIsSound, PTL
<1> QED BY <1>1, Zenon DEF Sound

\* No node looks like NULL.
LEMMA NotNothing ==
  ASSUME Plain, nodes # <<>>, NEW n \in 1..Len(nodes)
  PROVE  Member(nodes, n) # Nothing
<1>1. <<>> # <<0>>
  OBVIOUS
<1>2. nodes[n].dir => nodes[n].data = <<>>
  BY Zenon DEF Plain
<1>3. Member(nodes, n).dir = nodes[n].dir /\ Member(nodes, n).data = nodes[n].data
  BY DEF Member
<1>4. Nothing.dir = TRUE /\ Nothing.data = <<0>>
  BY DEF Nothing
<1> QED BY <1>1, <1>2, <1>3, <1>4, Zenon

\* What a lookup finds is what the map has.
LEMMA LookupIs ==
  ASSUME Walkable, TreeIsSound, Plain, NEW c \in AllPaths
  PROVE  Promise!Lookup(c) = IF Walk(c).node = 0 THEN Nothing ELSE Member(nodes, Walk(c).node)
<1> DEFINE w == WalksOf(nodes, children)
<1>0. c \in Clean /\ nodes # <<>>
  BY PathsAre, Zenon DEF Walkable
<1>1. w[c] = Walk(c).node
  <2>1. w[c] = WalkIn(nodes, children, c).node
    BY <1>0, Zenon DEF WalksOf
  <2>2. WalkIn(nodes, children, c) = Walk(c)
    BY WalkIs, Zenon
  <2> HIDE DEF w
  <2> QED BY <2>1, <2>2, Zenon
<1>2. Tree = TreeOf(nodes, w)
  BY TreeIsShown, Zenon DEF TreeShown
<1> HIDE DEF w
<1>3. c \in DOMAIN Tree <=> c # <<>> /\ Walk(c).node # 0
  BY <1>0, <1>1, <1>2, TreeHas, Zenon
<1>4. c \in DOMAIN Tree => Tree[c] = Member(nodes, Walk(c).node)
  BY <1>1, <1>2, TreeHas
<1>5. CASE c = <<>>
  <2>1. Walk(c).node = 1 /\ 1 # 0
    BY <1>0, <1>5, WalkFinds, WalkStarts, Zenon
  <2>2. Member(nodes, 1) = [dir |-> TRUE, data |-> <<>>]
    <3>1. nodes[1].dir /\ nodes[1].data = <<>>
      BY <1>0, Zenon DEF Plain
    <3>2. 1 \in 1..Len(nodes) /\ nodes[1] \in NodeType
      BY Places, Zenon DEF Walkable
    <3>3. nodes[1].dir = TRUE
      BY <3>1, <3>2 DEF NodeType
    <3> QED BY <3>1, <3>3, Zenon DEF Member
  <2>3. Promise!Lookup(c) = [dir |-> TRUE, data |-> <<>>]
    BY <1>5, Zenon DEF Promise!Lookup, Promise!Root
  <2> QED BY <2>1, <2>2, <2>3, Zenon
<1>6. CASE c # <<>>
  <2>1. Promise!Lookup(c) = IF c \in DOMAIN Tree THEN Tree[c] ELSE Nothing
    BY <1>6, Zenon DEF Promise!Lookup
  <2> QED BY <1>3, <1>4, <1>6, <2>1, Zenon
<1> QED BY <1>5, <1>6

\* What initrd_init does with a member: one node more, in front of the others in
\* its directory.
Made(path, dir, data) ==
  /\ path \in Seq(STRING) /\ Len(path) >= 1 /\ Components(path) \in Proper
  /\ dir \in BOOLEAN /\ data \in Contents
  /\ nodes # <<>> /\ nodes' # <<>> /\ Len(nodes') = Len(nodes) + 1
  /\ \A n \in 1..Len(nodes) : nodes'[n] = nodes[n]
  /\ nodes'[Len(nodes) + 1] = NewNode(Last(path), dir, data)
  /\ NamedAfter(nodes, children, nodes', children', Len(nodes), Parent(path), Last(path))
  /\ call' = [path |-> path, node |-> Len(nodes) + 1]

LEMMA EntryMade ==
  ASSUME Inv, InitrdLoads
  PROVE  \E path, dir, data : Made(path, dir, data)
<1> DEFINE path == EntryPath(HeaderName(Header))
           data == ContentAt(archive, offset + 1)
           dir == Header.dir
           L == Len(nodes)
<1>0. TypeOK /\ Rooted /\ TreeIsSound
  BY DEF Inv, HandlesStayValid
<1>1. /\ phase = "loading" /\ AtMember
      /\ nodes' = Append(nodes, NewNode(Last(path), dir, data))
      /\ children' = Append([children EXCEPT ![Parent(path)] = <<Len(nodes) + 1>> \o @], <<>>)
      /\ call' = [path |-> path, node |-> L + 1]
  BY Zenon DEF InitrdLoads, tmpfs_add_entry
<1>2. HeaderName(Header) \in Seq(STRING) /\ Len(HeaderName(Header)) >= 1 /\ HeaderName(Header) \in GivenPaths
      /\ dir \in BOOLEAN /\ data \in Contents
  BY <1>0, <1>1, HeaderFacts, Zenon
<1>3. path \in Seq(STRING) /\ Len(path) >= 1 /\ ToSet(path) \subseteq ToSet(HeaderName(Header))
  BY <1>2, EntryPathFacts, Zenon
<1>4. ToSet(path) \subseteq Names
  BY <1>2, <1>3 DEF Names
<1>5. Components(path) \in Proper
  BY <1>2, Zenon DEF Proper
<1> HIDE DEF path, data, dir
<1>6. nodes # <<>> /\ Walkable
  <2>1. nodes # <<>>
    BY <1>0, <1>1 DEF Rooted
  <2> QED BY <1>0, <2>1, TreeIsWalkable
<1>7. nodes \in Seq(NodeType) /\ children \in Seq(Seq(1..Len(nodes))) /\ Len(children) = Len(nodes)
      /\ L \in Nat
  <2>1. nodes \in Seq(NodeType) /\ children \in Seq(Seq(1..Len(nodes)))
    BY <1>0, Zenon DEF TypeOK, NodeType, Names
  <2>2. Len(children) = Len(nodes)
    BY <1>0, Zenon DEF Rooted
  <2>3. Len(nodes) \in Nat
    BY <2>1, SeqFacts
  <2> QED BY <2>1, <2>2, <2>3
<1>8. /\ nodes' \in Seq(NodeType) /\ Len(nodes') = L + 1
      /\ \A n \in 1..L : nodes'[n] = nodes[n]
  BY <1>1, <1>2, <1>3, <1>4, <1>7, NodesGrow, Zenon
<1>9. Parent(path) \in 1..Len(nodes)
  BY <1>3, <1>6, ParentFacts, Zenon
<1>10. nodes'[L + 1] = NewNode(Last(path), dir, data)
  <2> DEFINE e == NewNode(Last(path), dir, data)
             ns == nodes
  <2>1. ns \in Seq(NodeType)
    BY <1>7
  <2>2. nodes' = Append(ns, e)
    BY <1>1
  <2> HIDE DEF e, ns
  <2>3. Append(ns, e)[Len(ns) + 1] = e
    BY <2>1
  <2> QED BY <2>2, <2>3, Zenon DEF e, ns
<1>11. nodes'[L + 1].name = Last(path)
  BY <1>10 DEF NewNode
<1>12. NamedAfter(nodes, children, nodes', children', L, Parent(path), nodes'[L + 1].name)
  BY <1>1, <1>6, <1>7, <1>8, <1>9, EntryIsNamed, Zenon
<1>13. nodes' # <<>>
  BY <1>7, <1>8
<1>14. Made(path, dir, data)
  BY <1>1, <1>2, <1>3, <1>5, <1>6, <1>8, <1>10, <1>11, <1>12, <1>13, Zenon DEF Made
<1> QED BY <1>14, Zenon

\* Where walks lead.
LEMMA WalksAre ==
  ASSUME Walkable, TreeIsSound
  PROVE  /\ WalksOf(nodes, children) \in [Clean -> 0..Len(nodes)]
         /\ \A p \in Clean : WalksOf(nodes, children)[p] = Walk(p).node
         /\ Leads(WalksOf(nodes, children), nodes, children)
<1> DEFINE w == WalksOf(nodes, children)
<1>1. \A p : WalkIn(nodes, children, p) = Walk(p)
  BY WalkIs, Zenon
<1>2. \A p \in Clean : WalkIn(nodes, children, p).node \in 0..Len(nodes)
  BY <1>1, WalkFinds, Zenon
<1>3. \A p \in Clean : w[p] = WalkIn(nodes, children, p).node
  BY Zenon DEF WalksOf
<1>4. w \in [Clean -> 0..Len(nodes)]
  BY <1>2, Zenon DEF WalksOf
<1>5. Leads(w, nodes, children)
  BY WalksLead, Zenon DEF Guided
<1> HIDE DEF w
<1>6. \A p \in Clean : w[p] = Walk(p).node
  BY <1>1, <1>3, Zenon
<1> QED BY <1>4, <1>5, <1>6 DEF w

\* PathMap has the same helpers.
LEMMA SameHelpers ==
  \A s, t : /\ Promise!Front(s) = Front(s) /\ Promise!Last(s) = Last(s)
            /\ Promise!IsPrefix(s, t) <=> IsPrefix(s, t)
BY Zenon DEF Promise!Front, Front, Promise!Last, Last, Promise!IsPrefix, IsPrefix

\* The path at which a lookup finds a new node.
LEMMA EntryPlace ==
  ASSUME Walkable, TreeIsSound, Plain, NEW path \in Seq(STRING), Len(path) >= 1, Last(path) # "",
         Components(path) \in Proper
  PROVE  LET target == Promise!Target(Components(path))
         IN  /\ Components(path) \in AllPaths \ {<<>>}
             /\ target \in AllPaths /\ target # <<>> /\ Last(target) = Last(path)
             /\ Front(target) \in Clean /\ Parent(path) = Walk(Front(target)).node
<1> DEFINE name == Last(path)
           all == Components(path)
           target == Promise!Target(all)
<1>0. name \in STRING
  BY Shorter, Zenon
<1>1. PICK c \in Clean :
        /\ Parent(path) = IF Walk(c).node # 0 /\ nodes[Walk(c).node].dir THEN Walk(c).node ELSE 1
        /\ all = IF name = "" THEN c ELSE Append(c, name)
  BY ParentPath, Zenon
<1>2. all = Append(c, name)
  BY <1>1, Zenon
<1>3. all \in Clean /\ all # <<>> /\ Front(all) = c /\ Last(all) = name
  BY <1>0, <1>2, OneMore, Zenon
<1>4. all \in AllPaths /\ c \in AllPaths /\ <<name>> \in AllPaths
  BY <1>3, PathsAre, Zenon
<1> HIDE DEF name, all
<1> DEFINE found == IF Walk(c).node = 0 THEN Nothing ELSE Member(nodes, Walk(c).node)
<1>5. Promise!Lookup(c) = found
  BY <1>4, LookupIs, Zenon
<1>6. target = IF found # Nothing /\ found.dir THEN all ELSE <<name>>
  <2>1. Promise!Front(all) = c /\ Promise!Last(all) = name
    BY <1>3, SameHelpers, Zenon
  <2> HIDE DEF found
  <2> QED BY <1>5, <2>1, Zenon DEF Promise!Target
<1>7. Len(nodes) \in Nat /\ nodes # <<>> /\ Walk(c).node \in 0..Len(nodes)
  BY WalkFinds, Zenon DEF Walkable
<1>8. Walk(<<>>).node = 1
  BY EmptyPath, WalkFinds, Zenon
<1>9. Append(<<>>, name) \in Clean /\ Append(<<>>, name) # <<>>
      /\ Front(Append(<<>>, name)) = <<>> /\ Last(Append(<<>>, name)) = name
  BY <1>0, EmptyPath, OneMore, Zenon DEF name
<1>10. Append(<<>>, name) = <<name>>
  BY AppendToNone, Zenon
<1>11. CASE Walk(c).node = 0
  <2>1. target = <<name>> /\ Parent(path) = 1
    BY <1>1, <1>6, <1>11, Zenon
  <2> QED BY <1>3, <1>4, <1>8, <1>9, <1>10, <2>1, EmptyPath, Zenon DEF name, all
<1>12. CASE Walk(c).node # 0
  <2>1. Walk(c).node \in 1..Len(nodes)
    BY <1>7, <1>12, Places, Zenon
  <2>2. found = Member(nodes, Walk(c).node) /\ Member(nodes, Walk(c).node) # Nothing
    BY <1>7, <1>12, <2>1, NotNothing, Zenon
  <2>3. \A n : Member(nodes, n).dir = nodes[n].dir
    BY DEF Member
  <2>4. target = IF nodes[Walk(c).node].dir THEN all ELSE <<name>>
    BY <1>6, <2>2, <2>3, Zenon
  <2>5. CASE nodes[Walk(c).node].dir
    <3>1. target = all /\ Parent(path) = Walk(c).node
      BY <1>1, <1>12, <2>4, <2>5, Zenon
    <3> QED BY <1>3, <1>4, <3>1, Zenon DEF name, all
  <2>6. CASE ~nodes[Walk(c).node].dir
    <3>1. target = <<name>> /\ Parent(path) = 1
      BY <1>1, <2>4, <2>6, Zenon
    <3> QED BY <1>3, <1>4, <1>8, <1>9, <1>10, <3>1, EmptyPath, Zenon DEF name, all
  <2> QED BY <2>5, <2>6
<1> QED BY <1>11, <1>12

\* A place is not 0.
LEMMA Positive == ASSUME NEW L PROVE \A x \in 1..L : x # 0
OBVIOUS

\* The numbers of members.
LEMMA Counted ==
  ASSUME NEW L \in Nat, L >= 1
  PROVE  (L + 1) - 1 = (L - 1) + 1 /\ L + 1 # 0 /\ L + 1 \in 1 .. (L + 1)
OBVIOUS

\* A member is added.
LEMMA EntryAdds ==
  ASSUME Inv, Plain, InitrdLoads, Inv'
  PROVE  Promise!Next
<1>0. PICK path, dir, data : Made(path, dir, data)
  BY EntryMade, Zenon
<1> DEFINE L == Len(nodes)
           name == Last(path)
           w == WalksOf(nodes, children)
           v == WalksOf(nodes', children')
           new == Member(nodes', L + 1)
<1>1. /\ path \in Seq(STRING) /\ Len(path) >= 1 /\ Components(path) \in Proper
      /\ dir \in BOOLEAN /\ data \in Contents
      /\ nodes # <<>> /\ nodes' # <<>> /\ Len(nodes') = L + 1
      /\ \A n \in 1..L : nodes'[n] = nodes[n]
      /\ nodes'[L + 1] = NewNode(name, dir, data)
      /\ NamedAfter(nodes, children, nodes', children', L, Parent(path), name)
      /\ call' = [path |-> path, node |-> L + 1]
  BY <1>0, Zenon DEF Made
<1>2. Walkable /\ TreeIsSound /\ L \in Nat /\ L >= 1
  BY <1>1, InvIsSound, Zenon DEF Sound, Walkable
<1>3. Walkable'
  BY <1>1, InvIsSoundNext, Zenon
<1>4. w \in [Clean -> 0..L] /\ (\A p \in Clean : w[p] = Walk(p).node) /\ Leads(w, nodes, children)
  BY <1>2, WalksAre, Zenon
<1>5. Leads(v, nodes', children')
  BY <1>3, WalksLeadNext, Zenon
<1>6. Tree = TreeOf(nodes, w) /\ Tree' = TreeOf(nodes', v)
  BY TreeIsShown, TreeIsNext, Zenon DEF TreeShown
<1>7. call'.path = path /\ call'.node = L + 1 /\ L + 1 # 0 /\ (L + 1) - 1 = (L - 1) + 1
  <2>1. call'.path = path /\ call'.node = L + 1
    BY <1>1
  <2> QED BY <1>2, <2>1, Counted, Zenon
<1>8. new \in AllMembers /\ nodes'[L + 1].name = name
  <2>1. (IF dir THEN <<>> ELSE data) \in Contents
    BY <1>1, BytesAssumption, Zenon
  <2> DEFINE d == IF dir THEN <<>> ELSE data
  <2>2. d \in Contents /\ dir \in BOOLEAN
    BY <1>1, <2>1, Zenon
  <2>3. nodes'[L + 1] = [name |-> name, dir |-> dir, data |-> d]
    BY <1>1, Zenon DEF NewNode
  <2> HIDE DEF d
  <2>4. [dir |-> dir, data |-> d] \in AllMembers
    BY <2>2, Zenon DEF AllMembers
  <2>5. nodes'[L + 1].name = name /\ new = [dir |-> dir, data |-> d]
    BY <2>3 DEF Member
  <2> QED BY <2>4, <2>5, Zenon
<1>9. (IF call.node = 0 THEN Nothing ELSE Public(call.node))' = new
  <2>1. \A n : Public(n)' = Member(nodes', n)
    BY Zenon DEF Public, Member
  <2>2. (IF call.node = 0 THEN Nothing ELSE Public(call.node))' =
          [dir |-> nodes'[call'.node].dir, data |-> nodes'[call'.node].data]
    BY <1>7, Zenon DEF Public
  <2> QED BY <1>7, <2>2, Zenon DEF Member
<1>10. (IF nodes = <<>> THEN 0 ELSE Len(nodes) - 1)' = (IF nodes = <<>> THEN 0 ELSE Len(nodes) - 1) + 1
  BY <1>1, <1>7, Zenon
<1>11. Unnamed' <=> path = <<"">> \/ name = ""
  BY <1>7, <1>8, Zenon DEF Unnamed
<1>12. (IF Unnamed THEN <<"">> ELSE Components(call.path))' = IF Unnamed' THEN <<"">> ELSE Components(path)
  <2>1. (IF Unnamed THEN <<"">> ELSE Components(call.path))' = IF Unnamed' THEN <<"">> ELSE Components(call'.path)
    BY Zenon DEF Components
  <2> QED BY <1>7, <2>1, Zenon
<1> HIDE DEF w, v, new
<1>13. CASE name = ""
  <2>1. Stayed(v, w)
    <3>1. NamedAfter(nodes, children, nodes', children', L, Parent(path), "")
      BY <1>1, <1>13, Zenon
    <3> QED BY <1>2, <1>4, <1>5, <3>1, WalksStay, Zenon
  <2>2. Tree' = Tree
    <3>1. SameNodes(nodes', nodes, L) /\ Shows(Tree, nodes, w)
      BY <1>1, <1>6, Zenon DEF SameNodes, Shows
    <3>2. Shows(Tree, nodes', v)
      BY <1>1, <1>2, <1>4, <2>1, <3>1, MapStays, Zenon
    <3> QED BY <1>6, <3>2, Zenon DEF Shows
  <2>3. Promise!AddUnnamed
    BY <1>8, <1>9, <1>10, <1>11, <1>12, <1>13, <2>2, Zenon DEF Promise!AddUnnamed
  <2> QED BY <2>3, Zenon DEF Promise!Next
<1>14. CASE name # ""
  <2> DEFINE all == Components(path)
             target == Promise!Target(all)
             q == Front(target)
             kept == {p \in DOMAIN Tree : ~IsPrefix(target, p)}
  <2>1. /\ all \in AllPaths \ {<<>>}
        /\ target \in AllPaths /\ target # <<>> /\ Last(target) = name
        /\ q \in Clean /\ Parent(path) = Walk(q).node
    BY <1>1, <1>2, <1>14, EntryPlace, Zenon
  <2>2. path # <<"">>
    BY <1>1, <1>14, Single, Zenon
  <2>3. target \in Clean /\ name \in STRING
    BY <1>1, <2>1, PathsAre, Shorter, Zenon
  <2> HIDE DEF target, all
  <2>4. Parent(path) \in 1..L /\ nodes[Parent(path)].dir /\ w[q] = Parent(path)
    BY <1>1, <1>2, <1>4, <2>1, ParentFacts, Zenon
  <2>5. w[q] # 0 /\ nodes[w[q]].dir
    <3>1. \A x \in 1..L : x # 0
      BY Positive
    <3> QED BY <2>4, <3>1, Zenon
  <2>6. OnePathEach(w)
    BY <1>2, <1>4, PathsUnique, Zenon DEF OnePathEach
  <2>7. NamedAfter(nodes, children, nodes', children', L, w[q], name)
    BY <1>1, <2>4, Zenon
  <2>8. Shadowed(v, w, L, target)
    BY <1>2, <1>4, <1>5, <2>1, <2>3, <2>5, <2>6, <2>7, WalksChange, Zenon
  <2>9. Grown(TreeOf(nodes', v), TreeOf(nodes, w), target, Member(nodes', L + 1))
    <3>1. SameNodes(nodes', nodes, L)
      BY <1>1, Zenon DEF SameNodes
    <3> QED BY <1>1, <1>2, <1>4, <2>1, <2>8, <3>1, MapChanges, Zenon
  <2>10. /\ DOMAIN Tree' = kept \cup {target} /\ Tree'[target] = new
         /\ \A p \in kept : Tree'[p] = Tree[p]
    BY <1>6, <2>9, Zenon DEF new, Grown
  <2>11. kept = {p \in DOMAIN Tree : ~Promise!IsPrefix(target, p)}
    BY SameHelpers, Zenon
  <2> HIDE DEF kept
  <2>12. Promise!Add(all)
    <3>1. (IF Unnamed THEN <<"">> ELSE Components(call.path))' = all
      BY <1>11, <1>12, <1>14, <2>2, Zenon DEF all
    <3> QED BY <1>8, <1>9, <1>10, <2>10, <2>11, <3>1, Zenon DEF Promise!Add, target
  <2> QED BY <2>1, <2>12, Zenon DEF Promise!Next
<1> QED BY <1>13, <1>14

\* A lookup.
LEMMA FindFinds ==
  ASSUME Inv, Plain, NEW path \in Lookups, vfs_find_path(path)
  PROVE  Promise!Next
<1> DEFINE n == Walk(path).node
           c == Components(path)
<1>1. phase = "up" /\ nodes' = nodes /\ children' = children /\ call' = [path |-> path, node |-> n]
  BY Zenon DEF vfs_find_path, treeVars
<1>2. nodes # <<>>
  BY <1>1 DEF Inv, Rooted
<1>3. Walkable /\ TreeIsSound
  BY <1>2, InvIsSound, Zenon DEF Sound
<1>4. call'.path = path /\ call'.node = n
  BY <1>1
<1>5. Tree' = Tree
  BY <1>1, TreeIsShown, TreeIsNext, Zenon DEF TreeShown
<1>6. (IF nodes = <<>> THEN 0 ELSE Len(nodes) - 1)' = IF nodes = <<>> THEN 0 ELSE Len(nodes) - 1
  BY <1>1, Zenon
<1>7. (IF Unnamed THEN <<"">> ELSE Components(call.path))' = IF Unnamed' THEN <<"">> ELSE c
  <2>1. (IF Unnamed THEN <<"">> ELSE Components(call.path))' = IF Unnamed' THEN <<"">> ELSE Components(call'.path)
    BY Zenon DEF Components
  <2> QED BY <1>4, <2>1, Zenon
<1>8. Unnamed' <=> path = <<"">> \/ (n # 0 /\ nodes[n].name = "")
  BY <1>1, <1>4, Zenon DEF Unnamed
<1>9. (IF call.node = 0 THEN Nothing ELSE Public(call.node))' = IF n = 0 THEN Nothing ELSE Member(nodes, n)
  <2>1. (IF call.node = 0 THEN Nothing ELSE Public(call.node))' =
          IF call'.node = 0 THEN Nothing ELSE [dir |-> nodes'[call'.node].dir, data |-> nodes'[call'.node].data]
    BY Zenon DEF Public, Nothing
  <2> QED BY <1>1, <1>4, <2>1, Zenon DEF Member
<1>10. path \in Seq(STRING)
  BY PathsAssumption, Zenon
<1> HIDE DEF c
<1>11. CASE path = <<"">>
  <2>1. n = 0
    <3>1. [node |-> 0, lost |-> 0].node = 0
      OBVIOUS
    <3>2. Walk(<<"">>) = [node |-> 0, lost |-> 0]
      BY Zenon DEF Walk
    <3> QED BY <1>11, <3>1, <3>2, Zenon
  <2>2. <<"">> \notin DOMAIN Tree /\ <<"">> # <<>>
    <3>1. DOMAIN Tree \subseteq AllPaths
      BY TreeIsShown, TreeHasOnly, Zenon DEF TreeShown
    <3>2. <<"">> # <<>>
      OBVIOUS
    <3> QED BY <3>1, <3>2, PathsAre, CleanFacts, Zenon
  <2>3. Promise!Lookup(<<"">>) = Nothing
    BY <2>2, Zenon DEF Promise!Lookup
  <2>4. Promise!Find(<<"">>)
    BY <1>5, <1>6, <1>7, <1>8, <1>9, <1>11, <2>1, <2>3, Zenon DEF Promise!Find
  <2> QED BY <2>4, Zenon DEF Promise!Next
<1>12. CASE path # <<"">>
  <2>1. c \in Clean /\ n = Walk(c).node
    BY <1>3, <1>10, <1>12, WalkComponents, Zenon DEF c
  <2>2. c \in AllPaths
    <3>1. c \in Proper
      BY Zenon DEF Proper, c
    <3> QED BY <3>1, PathsAre, Zenon
  <2>3. Promise!Lookup(c) = IF n = 0 THEN Nothing ELSE Member(nodes, n)
    BY <1>3, <2>1, <2>2, LookupIs, Zenon
  <2>4. ASSUME n # 0 PROVE nodes[n].name # ""
    <3>1. CASE c = <<>>
      <4>1. n = 1
        BY <1>3, <2>1, <3>1, WalkFinds, Zenon
      <4>2. nodes[1].name = "/"
        BY <1>2, Zenon DEF Plain
      <4>3. "/" # ""
        OBVIOUS
      <4> QED BY <4>1, <4>2, <4>3, Zenon
    <3>2. CASE c # <<>>
      <4>1. nodes[Walk(c).node].name = Last(c)
        BY <1>3, <2>1, <2>4, <3>2, WalkFinds, Zenon
      <4> QED BY <2>1, <3>2, <4>1, CleanFacts, Zenon
    <3> QED BY <3>1, <3>2
  <2>5. ~Unnamed'
    BY <1>8, <1>12, <2>4, Zenon
  <2>6. Promise!Find(c)
    <3>1. (IF Unnamed THEN <<"">> ELSE Components(call.path))' = c
      BY <1>7, <2>5, Zenon
    <3>2. (IF call.node = 0 THEN Nothing ELSE Public(call.node))' = Promise!Lookup(c)
      BY <1>9, <2>3, Zenon
    <3> QED BY <1>5, <1>6, <3>1, <3>2, Zenon DEF Promise!Find
  <2> QED BY <2>2, <2>6, Zenon DEF Promise!Next
<1> QED BY <1>11, <1>12

\* tmpfs_init makes a tree without paths.
LEMMA RootIsNoPath ==
  ASSUME Inv, tmpfs_init, Inv'
  PROVE  UNCHANGED Promise!treeVars
<1>1. phase = "boot" /\ nodes' = <<[name |-> "/", dir |-> TRUE, data |-> <<>>]>> /\ call' = call
  BY Zenon DEF tmpfs_init, callVars
<1>2. nodes = <<>> /\ TypeOK
  BY <1>1 DEF Inv, Rooted, HandlesStayValid
<1>3. Len(nodes') = 1 /\ nodes' # <<>>
  BY <1>1
<1>4. call.node = 0
  <2>1. call.node \in 0..Len(nodes)
    BY <1>2, Zenon DEF TypeOK
  <2>2. Len(<<>>) = 0 /\ \A x \in 0..0 : x = 0
    OBVIOUS
  <2> QED BY <1>2, <2>1, <2>2, Zenon
<1> DEFINE w == WalksOf(nodes, children)
           v == WalksOf(nodes', children')
<1>5. Walkable' /\ TreeIsSound'
  BY <1>3, InvIsSoundNext, Zenon
<1>6. \A p \in Clean : p # <<>> => v[p] = 0
  <2>1. FoundNodes'
    BY WalksFind, PTL
  <2>2. \A p \in Clean : p # <<>> /\ v[p] # 0 => v[p] \in 2..Len(nodes')
    BY <1>5, <2>1, Zenon DEF FoundNodes
  <2>3. \A x : x \notin 2..1
    OBVIOUS
  <2> HIDE DEF v
  <2> QED BY <1>3, <2>2, <2>3, Zenon
<1>7. Tree = TreeOf(nodes, w) /\ Tree' = TreeOf(nodes', v)
  BY TreeIsShown, TreeIsNext, Zenon DEF TreeShown
<1> HIDE DEF v, w
<1>8. Tree' = Tree
  <2>1. Reached(nodes, w) = {}
    BY <1>2, Zenon DEF Reached
  <2>2. Reached(nodes', v) = {}
    BY <1>6, PathsAre, Zenon DEF Reached
  <2>3. \A ns, u : Reached(ns, u) = {} => TreeOf(ns, u) = [p \in {} |-> 0]
    <3> SUFFICES ASSUME NEW ns, NEW u, Reached(ns, u) = {} PROVE TreeOf(ns, u) = [p \in {} |-> 0]
      BY Zenon
    <3>1. TreeOf(ns, u) = [p \in {} |-> Member(ns, u[p])]
      BY Zenon DEF TreeOf
    <3>2. [p \in {} |-> Member(ns, u[p])] = [p \in {} |-> 0]
      BY Zenon
    <3> QED BY <3>1, <3>2, Zenon
  <2> QED BY <1>7, <2>1, <2>2, <2>3, Zenon
<1>9. (IF nodes = <<>> THEN 0 ELSE Len(nodes) - 1)' = IF nodes = <<>> THEN 0 ELSE Len(nodes) - 1
  <2>1. 1 - 1 = 0
    BY Ones
  <2> QED BY <1>2, <1>3, <2>1, Zenon
<1>10. (IF Unnamed THEN <<"">> ELSE Components(call.path))' = IF Unnamed THEN <<"">> ELSE Components(call.path)
  <2>1. (IF Unnamed THEN <<"">> ELSE Components(call.path))' = IF Unnamed' THEN <<"">> ELSE Components(call'.path)
    BY Zenon DEF Components
  <2>2. Unnamed' <=> Unnamed
    BY <1>1, <1>4, Zenon DEF Unnamed
  <2> QED BY <1>1, <2>1, <2>2, Zenon
<1>11. (IF call.node = 0 THEN Nothing ELSE Public(call.node))' = IF call.node = 0 THEN Nothing ELSE Public(call.node)
  BY <1>1, <1>4, Zenon DEF Nothing
<1> QED BY <1>8, <1>9, <1>10, <1>11, Zenon DEF Promise!treeVars

\* The map is left alone by what leaves the tree and the last call alone.
LEMMA MapUnchanged ==
  ASSUME UNCHANGED <<nodes, children, call>>
  PROVE  UNCHANGED Promise!treeVars
<1>1. nodes' = nodes /\ children' = children /\ call' = call
  OBVIOUS
<1>2. Tree' = Tree
  BY <1>1, TreeIsShown, TreeIsNext, Zenon DEF TreeShown
<1>3. (IF nodes = <<>> THEN 0 ELSE Len(nodes) - 1)' = IF nodes = <<>> THEN 0 ELSE Len(nodes) - 1
  BY <1>1, Zenon
<1>4. (IF Unnamed THEN <<"">> ELSE Components(call.path))' = IF Unnamed THEN <<"">> ELSE Components(call.path)
  <2>1. (IF Unnamed THEN <<"">> ELSE Components(call.path))' = IF Unnamed' THEN <<"">> ELSE Components(call'.path)
    BY Zenon DEF Components
  <2>2. Unnamed' <=> Unnamed
    BY <1>1, Zenon DEF Unnamed
  <2> QED BY <1>1, <2>1, <2>2, Zenon
<1>5. (IF call.node = 0 THEN Nothing ELSE Public(call.node))' = IF call.node = 0 THEN Nothing ELSE Public(call.node)
  BY <1>1, Zenon DEF Nothing, Public
<1> QED BY <1>2, <1>3, <1>4, <1>5, Zenon DEF Promise!treeVars

\* Only tmpfs_init and tmpfs_add_entry make nodes.
LEMMA PlainStays ==
  ASSUME Inv, Plain, [Next]_vars
  PROVE  Plain'
<1>1. CASE nodes' = nodes
  BY <1>1, Zenon DEF Plain
<1>2. CASE tmpfs_init
  <2> DEFINE root == [name |-> "/", dir |-> TRUE, data |-> <<>>]
  <2>1. nodes' = <<root>>
    BY <1>2, Zenon DEF tmpfs_init
  <2>2. Len(<<root>>) = 1 /\ <<root>>[1] = root /\ \A k \in 1..1 : k = 1
    OBVIOUS
  <2>3. root.name = "/" /\ root.dir /\ root.data = <<>>
    OBVIOUS
  <2> HIDE DEF root
  <2> QED BY <2>1, <2>2, <2>3, Zenon DEF Plain
<1>3. CASE InitrdLoads
  <2>1. PICK path, dir, data : Made(path, dir, data)
    BY <1>3, EntryMade, Zenon
  <2> DEFINE L == Len(nodes)
             e == NewNode(Last(path), dir, data)
  <2>2. /\ nodes # <<>> /\ Len(nodes') = L + 1 /\ (\A n \in 1..L : nodes'[n] = nodes[n])
        /\ nodes'[L + 1] = e
    BY <2>1, Zenon DEF Made
  <2>3. e.dir => e.data = <<>>
    BY DEF NewNode
  <2>4. L \in Nat /\ L >= 1
    BY <2>2, InvIsSound, Zenon DEF Sound, Walkable
  <2>5. 1 \in 1..L /\ \A n \in 1 .. (L + 1) : n = L + 1 \/ n \in 1..L
    BY <2>4, NextPlaces, Zenon
  <2> HIDE DEF e
  <2>6. nodes'[1].name = "/" /\ nodes'[1].dir /\ nodes'[1].data = <<>>
    BY <2>2, <2>5, Zenon DEF Plain
  <2>7. \A n \in 1..L : nodes[n].dir => nodes[n].data = <<>>
    BY <2>2, Zenon DEF Plain
  <2>8. ASSUME NEW n \in 1 .. (L + 1), nodes'[n].dir PROVE nodes'[n].data = <<>>
    <3>1. CASE n = L + 1
      BY <2>2, <2>3, <2>8, <3>1, Zenon
    <3>2. CASE n \in 1..L
      BY <2>2, <2>7, <2>8, <3>2, Zenon
    <3> QED BY <2>5, <3>1, <3>2, Zenon
  <2>9. \A n \in 1..Len(nodes') : nodes'[n].dir => nodes'[n].data = <<>>
    BY <2>2, <2>8, Zenon
  <2> QED BY <2>6, <2>9, Zenon DEF Plain
<1> QED
  BY <1>1, <1>2, <1>3, Zenon DEF Next, vars, TmpfsInitFaults, InitrdSkips, InitrdEnds, InitrdFaults,
     vfs_find_path, FindPathFaults, vfs_close, vfs_read, Halts, treeVars

\* A step of the file system is one of the map, or none.
LEMMA MapStep ==
  ASSUME Inv, Plain, [Next]_vars, Inv'
  PROVE  [Promise!Next]_(Promise!treeVars)
<1>1. CASE UNCHANGED <<nodes, children, call>>
  BY <1>1, MapUnchanged, Zenon
<1>2. CASE tmpfs_init
  BY <1>2, RootIsNoPath, Zenon
<1>3. CASE InitrdLoads
  BY <1>3, EntryAdds, Zenon
<1>4. CASE \E path \in Lookups : vfs_find_path(path)
  BY <1>4, FindFinds, Zenon
<1> QED
  BY <1>1, <1>2, <1>3, <1>4, Zenon DEF Next, vars, TmpfsInitFaults, InitrdSkips, InitrdEnds, InitrdFaults,
     FindPathFaults, vfs_close, vfs_read, Halts, treeVars, callVars

\* At the start there is no path, and nothing has been looked up.
LEMMA MapInit ==
  ASSUME Init
  PROVE  Promise!Init /\ Plain
<1>1. nodes = <<>> /\ call = [path |-> <<"">>, node |-> 0]
  BY Zenon DEF Init
<1>2. call.node = 0
  BY <1>1
<1>3. Plain
  BY <1>1, Zenon DEF Plain
<1> DEFINE Dom == {p \in AllPaths : nodes # <<>> /\ p # <<>> /\ Walk(p).node # 0}
<1>4. Dom = {}
  BY <1>1, Zenon
<1>5. DOMAIN Tree = Dom
  BY Zenon DEF Tree
<1> HIDE DEF Dom
<1> QED BY <1>1, <1>2, <1>3, <1>4, <1>5, Zenon DEF Promise!Init

\* The file system implements PathMap: whatever the archive has, the tree of tmpfs.c
\* seen through vfs_find_path is a map from paths, a member that initrd_init adds
\* changes the entry of its own path and of what it shadows, and no other, and a
\* lookup answers what the map has at the components of its path.
THEOREM FileSystemIsPathMap == Spec => ImplementsPathMap
<1>1. Init => Promise!Init /\ Plain
  BY MapInit
<1>2. Inv /\ Plain /\ [Next]_vars => Plain'
  BY PlainStays
<1>3. Inv /\ Plain /\ [Next]_vars /\ Inv' => [Promise!Next]_(Promise!treeVars)
  BY MapStep
<1>4. Spec => []Inv
  BY FileSystemInvariant
<1>5. Spec => []Plain
  BY <1>1, <1>2, <1>4, PTL DEF Spec
<1>6. Spec => Promise!Spec
  BY <1>1, <1>3, <1>4, <1>5, PTL DEF Spec, Promise!Spec
<1> QED BY <1>6 DEF ImplementsPathMap

-----------------------------------------------------------------------------
(***************************************************************************)
(* lib/string.c, which the file system is written with: every function     *)
(* returns what the C standard says, for every memory and every set of     *)
(* byte values.  The memory and the call are those of module KString.      *)
(***************************************************************************)

CONSTANTS Size, Bytes, Ints
VARIABLES mem, mem0, f, a, b, n, c, i, last, pc, ret

S == INSTANCE KString

StringParams ==
  /\ Size \in Nat \ {0} /\ Bytes \subseteq 0..255 /\ 0 \in Bytes
  /\ Ints \subseteq Int /\ \A x \in Ints : x % 256 \in Bytes

\* The byte that memset stores and strrchr looks for.
Sought == c % 256

\* What a loop has done: the bytes l .. h - 1 of the copy, or l bytes filled.
Moved(l, h) == [p \in S!Addr |-> IF p \in (a + l) .. (a + h - 1) THEN mem0[p - a + b] ELSE mem0[p]]
Filled(l) == [p \in S!Addr |-> IF p \in a .. (a + l - 1) THEN Sought ELSE mem0[p]]

\* What a loop has seen: equal bytes, no end of the string, the last place of the byte.
SameBelow(l) == \A j \in 0 .. (l - 1) : mem0[a + j] = mem0[b + j]
NoEndBelow(p, l) == \A j \in 0 .. (l - 1) : mem0[p + j] # 0
LastBelow(l) ==
  \/ last = <<>> /\ \A j \in 0 .. (l - 1) : mem0[a + j] # Sought
  \/ \E j \in 0 .. (l - 1) : /\ last = <<a + j>> /\ mem0[a + j] = Sought
                             /\ \A h \in (j + 1) .. (l - 1) : mem0[a + h] # Sought

\* The call is one that C allows, said of the memory at the call.
CallOK ==
  /\ f \in {"memcpy", "memset", "memmove", "memcmp"} => a + n <= Size
  /\ f \in {"memcpy", "memmove", "memcmp"} => b + n <= Size
  /\ f = "memcpy" => S!Apart(a, b, n)
  /\ f \in {"strcmp", "strrchr", "strlen"} => S!IsString(mem0, a)
  /\ f \in {"strcmp", "strcpy"} => S!IsString(mem0, b)
  /\ f = "strcpy" => /\ a + (S!StringLength(mem0, b) + 1) <= Size
                     /\ S!Apart(a, b, S!StringLength(mem0, b) + 1)

Looping ==
  /\ f = "memcpy" => i <= n /\ mem = Moved(0, i)
  /\ f = "memset" => i <= n /\ mem = Filled(i)
  /\ f = "memmove" => i <= n /\ mem = (IF b < a THEN Moved(i, n) ELSE Moved(0, i))
  /\ f = "memcmp" => i <= n /\ mem = mem0 /\ SameBelow(i)
  /\ f = "strcmp" => mem = mem0 /\ SameBelow(i) /\ NoEndBelow(a, i)
  /\ f = "strcpy" => mem = Moved(0, i) /\ NoEndBelow(b, i)
  /\ f = "strrchr" => mem = mem0 /\ NoEndBelow(a, i) /\ LastBelow(i)
  /\ f = "strlen" => mem = mem0 /\ NoEndBelow(a, i)

\* What a call has come to, without the CASE of AsTheStandardMandates.
Mandated ==
  /\ f \in {"memcpy", "memmove"} => mem = S!Copied(n) /\ ret = <<a>>
  /\ f = "memset" => mem = Filled(n) /\ ret = <<a>>
  /\ f = "memcmp" => mem = mem0 /\ ret = <<S!Order(n)>>
  /\ f = "strcmp" => mem = mem0 /\ ret = <<S!Order(S!Shorter + 1)>>
  /\ f = "strcpy" => mem = S!Copied(S!StringLength(mem0, b) + 1) /\ ret = <<a>>
  /\ f = "strrchr" => /\ mem = mem0
                      /\ ret = IF S!Found = {} THEN <<>>
                               ELSE <<CHOOSE p \in S!Found : \A q \in S!Found : q <= p>>
  /\ f = "strlen" => mem = mem0 /\ ret = <<S!StringLength(mem0, a)>>

StringInv == S!TypeOK /\ CallOK /\ (pc = "loop" => Looping) /\ (pc = "done" => Mandated)

\* A string ends at its length, and a place before which there is no 0 is not
\* past its end.
LEMMA StringEnds ==
  ASSUME StringParams, NEW m \in [S!Addr -> Bytes], NEW p \in S!Addr, S!IsString(m, p)
  PROVE  /\ S!StringLength(m, p) \in 0 .. (Size - 1)
         /\ S!EndsAt(m, p, S!StringLength(m, p))
         /\ \A k \in Nat : (\A j \in 0 .. (k - 1) : m[p + j] # 0) => k <= S!StringLength(m, p)
         /\ \A k \in 0 .. S!StringLength(m, p) : m[p + k] = 0 => k = S!StringLength(m, p)
<1> DEFINE e == S!StringLength(m, p)
<1>1. e \in 0 .. (Size - 1) /\ S!EndsAt(m, p, e)
  BY DEF S!IsString, S!StringLength
<1> HIDE DEF e
<1>2. p + e \in S!Addr /\ m[p + e] = 0 /\ \A j \in 0 .. (e - 1) : m[p + j] # 0
  BY <1>1 DEF S!EndsAt
<1>3. e \in Nat
  BY <1>1 DEF StringParams
<1>4. ASSUME NEW k \in Nat, \A j \in 0 .. (k - 1) : m[p + j] # 0 PROVE k <= e
  <2>1. e \in 0 .. (k - 1) => FALSE
    BY <1>2, <1>4
  <2> QED BY <2>1, <1>3
<1>5. ASSUME NEW k \in 0..e, m[p + k] = 0 PROVE k = e
  <2>1. k \in 0 .. (e - 1) => FALSE
    BY <1>2, <1>5
  <2> QED BY <2>1, <1>3
<1> QED BY <1>1, <1>4, <1>5 DEF e

\* The arguments and the index are numbers, and the memory is a function.
LEMMA StringTypes ==
  ASSUME StringParams, S!TypeOK
  PROVE  /\ Size \in Nat /\ {a, b, n, i} \subseteq Nat
         /\ a \in S!Addr /\ b \in S!Addr /\ i <= Size /\ n <= Size
         /\ mem \in [S!Addr -> Bytes] /\ mem0 \in [S!Addr -> Bytes]
         /\ \A x : x \in S!Addr <=> x \in Nat /\ x < Size
         /\ \A x \in Bytes : x \in 0..255
         /\ Sought \in Bytes
<1>1. Size \in Nat /\ Bytes \subseteq 0..255
  BY DEF StringParams
<1>2. \A x : x \in S!Addr <=> x \in Nat /\ x < Size
  BY <1>1 DEF S!Addr
<1>3. /\ a \in S!Addr /\ b \in S!Addr /\ n \in 0..Size /\ i \in 0..Size /\ c \in Ints \cup {0}
      /\ mem \in [S!Addr -> Bytes] /\ mem0 \in [S!Addr -> Bytes]
  BY DEF S!TypeOK
<1>4. {a, b, n, i} \subseteq Nat /\ i <= Size /\ n <= Size
  BY <1>1, <1>2, <1>3
<1>5. Sought \in Bytes
  <2>1. 0 % 256 = 0 /\ 0 \in Bytes /\ \A x \in Ints : x % 256 \in Bytes
    BY Z3 DEF StringParams
  <2> QED BY <1>3, <2>1, Zenon DEF Sought
<1> QED BY <1>1, <1>2, <1>3, <1>4, <1>5

\* One more byte of a copy, above or below the bytes that are there.
LEMMA MovedOne ==
  ASSUME StringParams, S!TypeOK, UNCHANGED <<mem0, a, b>>,
         NEW l \in Nat, NEW h \in Nat, NEW k \in Nat, l <= h, a + k < Size,
         mem = Moved(l, h), mem' = [mem EXCEPT ![a + k] = mem0[b + k]]
  PROVE  /\ k = h => mem' = Moved(l, h + 1)
         /\ k + 1 = l => mem' = Moved(k, h)
<1>1. /\ Size \in Nat /\ a \in Nat /\ b \in Nat
      /\ \A x : x \in S!Addr <=> x \in Nat /\ x < Size
  BY StringTypes
<1>2. a + k \in S!Addr
  BY <1>1
<1>3. mem' = [p \in S!Addr |-> IF p = a + k THEN mem0[b + k] ELSE mem[p]]
  BY <1>2 DEF Moved
<1>4. ASSUME k = h PROVE mem' = Moved(l, h + 1)
  <2>1. ASSUME NEW p \in S!Addr
        PROVE  (IF p = a + k THEN mem0[b + k] ELSE mem[p])
               = IF p \in (a + l) .. (a + (h + 1) - 1) THEN mem0[p - a + b] ELSE mem0[p]
    <3>1. p \in Nat
      BY <1>1
    <3>2. mem[p] = IF p \in (a + l) .. (a + h - 1) THEN mem0[p - a + b] ELSE mem0[p]
      BY DEF Moved
    <3>3. CASE p = a + k
      <4>1. p \in (a + l) .. (a + (h + 1) - 1) /\ p - a + b = b + k
        BY <3>3, <1>1, <3>1, <1>4
      <4> QED BY <3>3, <4>1
    <3>4. CASE p # a + k
      <4>1. p \in (a + l) .. (a + (h + 1) - 1) <=> p \in (a + l) .. (a + h - 1)
        BY <3>4, <1>1, <3>1, <1>4
      <4> QED BY <3>2, <3>4, <4>1
    <3> QED BY <3>3, <3>4
  <2> QED BY <2>1, <1>3 DEF Moved
<1>5. ASSUME k + 1 = l PROVE mem' = Moved(k, h)
  <2>1. ASSUME NEW p \in S!Addr
        PROVE  (IF p = a + k THEN mem0[b + k] ELSE mem[p])
               = IF p \in (a + k) .. (a + h - 1) THEN mem0[p - a + b] ELSE mem0[p]
    <3>1. p \in Nat
      BY <1>1
    <3>2. mem[p] = IF p \in (a + l) .. (a + h - 1) THEN mem0[p - a + b] ELSE mem0[p]
      BY DEF Moved
    <3>3. CASE p = a + k
      <4>1. p \in (a + k) .. (a + h - 1) /\ p - a + b = b + k
        BY <3>3, <1>1, <3>1, <1>5
      <4> QED BY <3>3, <4>1
    <3>4. CASE p # a + k
      <4>1. p \in (a + k) .. (a + h - 1) <=> p \in (a + l) .. (a + h - 1)
        BY <3>4, <1>1, <3>1, <1>5
      <4> QED BY <3>2, <3>4, <4>1
    <3> QED BY <3>3, <3>4
  <2> QED BY <2>1, <1>3 DEF Moved
<1> QED BY <1>4, <1>5

\* The same said of the next state.
LEMMA MovedNext ==
  UNCHANGED <<mem0, a, b, n>> =>
    /\ Moved(0, i)' = Moved(0, i')
    /\ Moved(i, n)' = Moved(i', n)
BY Zenon DEF Moved

LEMMA FilledNext ==
  UNCHANGED <<mem0, a, c>> => Filled(i)' = Filled(i') /\ Filled(n)' = Filled(n')
BY Zenon DEF Filled, Sought

\* A byte outside what has been copied is still the one of the call.
LEMMA NotMoved ==
  ASSUME StringParams, S!TypeOK, NEW l, NEW h, NEW q \in S!Addr, mem = Moved(l, h),
         q \notin (a + l) .. (a + h - 1)
  PROVE  mem[q] = mem0[q]
BY DEF Moved

\* A step that stores or returns keeps the types.
LEMMA StoreKeepsType ==
  ASSUME StringParams, S!TypeOK, UNCHANGED <<mem0, f, a, b, n, c, last, pc, ret>>,
         NEW p \in S!Addr, NEW byte \in Bytes, mem' = [mem EXCEPT ![p] = byte], i' \in 0..Size
  PROVE  S!TypeOK'
BY DEF S!TypeOK, S!Addr

LEMMA ReturnKeepsType ==
  ASSUME StringParams, S!TypeOK, UNCHANGED <<mem0, f, a, b, n, c, mem, i>>,
         pc' \in {"loop", "done"},
         NEW r \in -1 .. Size, ret' \in {<<>>, <<r>>},
         last' \in {<<>>} \cup {<<p>> : p \in S!Addr}
  PROVE  S!TypeOK'
BY DEF S!TypeOK, S!Addr

\* What C allows is said of the call and of the memory at the call.
LEMMA CallStays ==
  ASSUME CallOK, UNCHANGED S!call
  PROVE  CallOK'
BY DEF CallOK, S!call, S!IsString, S!EndsAt, S!StringLength, S!Apart

LEMMA MemcpyStep ==
  ASSUME StringParams, StringInv, S!memcpy
  PROVE  StringInv'
<1>1. f = "memcpy" /\ pc = "loop" /\ S!TypeOK /\ CallOK /\ i <= n /\ mem = Moved(0, i)
  BY DEF StringInv, Looping, S!memcpy, S!Running
<1>2. /\ Size \in Nat /\ {a, b, n, i} \subseteq Nat /\ i <= Size
      /\ mem \in [S!Addr -> Bytes] /\ mem0 \in [S!Addr -> Bytes]
      /\ \A x : x \in S!Addr <=> x \in Nat /\ x < Size
  BY <1>1, StringTypes
<1>3. a + n <= Size /\ b + n <= Size /\ (a + n <= b \/ b + n <= a)
  BY <1>1 DEF CallOK, S!Apart
<1>4. UNCHANGED S!call /\ CallOK'
  BY <1>1, CallStays DEF S!memcpy, S!Store, S!Return
<1>5. CASE i < n
  <2>1. mem' = [mem EXCEPT ![a + i] = mem[b + i]] /\ i' = i + 1 /\ UNCHANGED <<last, pc, ret>>
    BY <1>5 DEF S!memcpy, S!Store
  <2>2. a + i \in S!Addr /\ b + i \in S!Addr /\ b + i \notin (a + 0) .. (a + i - 1) /\ a + i < Size
    BY <1>2, <1>3, <1>5
  <2>3. mem[b + i] = mem0[b + i]
    BY <1>1, <2>2, NotMoved
  <2>4. mem' = Moved(0, i + 1)
    BY <1>1, <1>2, <1>4, <2>1, <2>2, <2>3, MovedOne, SMTT(30) DEF S!call
  <2>5. S!TypeOK'
    <3>1. i' \in 0..Size /\ mem[b + i] \in Bytes
      BY <2>1, <2>2, <1>2, <1>3, <1>5
    <3> QED BY <3>1, <1>1, <1>4, <2>1, <2>2, StoreKeepsType DEF S!call
  <2>6. i' <= n' /\ mem' = Moved(0, i)' /\ f' = "memcpy" /\ pc' = "loop"
    <3>1. i' <= n' /\ f' = "memcpy" /\ pc' = "loop"
      BY <1>1, <1>2, <1>4, <1>5, <2>1 DEF S!call
    <3>2. mem' = Moved(0, i)'
      BY <1>4, <2>1, <2>4, MovedNext DEF S!call
    <3> QED BY <3>1, <3>2
  <2> QED BY <1>4, <2>5, <2>6 DEF StringInv, Looping
<1>6. CASE ~(i < n)
  <2>1. pc' = "done" /\ ret' = <<a>> /\ UNCHANGED <<mem, i, last>>
    BY <1>6 DEF S!memcpy, S!Return
  <2>2. i = n
    BY <1>1, <1>2, <1>6
  <2>3. S!TypeOK'
    <3>1. a \in -1 .. Size /\ last' \in {<<>>} \cup {<<p>> : p \in S!Addr}
      BY <1>1, <1>2, <1>3, <2>1 DEF S!TypeOK
    <3> QED BY <3>1, <1>1, <1>4, <2>1, ReturnKeepsType DEF S!call
  <2>4. mem' = S!Copied(n)' /\ ret' = <<a'>> /\ f' = "memcpy"
    BY <1>1, <1>2, <1>4, <2>1, <2>2 DEF S!call, S!Copied, Moved
  <2> QED BY <1>4, <2>1, <2>3, <2>4 DEF StringInv, Mandated
<1> QED BY <1>5, <1>6

LEMMA MemsetStep ==
  ASSUME StringParams, StringInv, S!memset
  PROVE  StringInv'
<1>1. f = "memset" /\ pc = "loop" /\ S!TypeOK /\ CallOK /\ i <= n /\ mem = Filled(i)
  BY DEF StringInv, Looping, S!memset, S!Running
<1>2. /\ Size \in Nat /\ {a, b, n, i} \subseteq Nat /\ i <= Size
      /\ mem \in [S!Addr -> Bytes] /\ mem0 \in [S!Addr -> Bytes]
      /\ \A x : x \in S!Addr <=> x \in Nat /\ x < Size
  BY <1>1, StringTypes
<1>3. a + n <= Size
  BY <1>1 DEF CallOK
<1>4. UNCHANGED S!call /\ CallOK'
  BY <1>1, CallStays DEF S!memset, S!Store, S!Return
<1>5. CASE i < n
  <2>1. mem' = [mem EXCEPT ![a + i] = Sought] /\ i' = i + 1 /\ UNCHANGED <<last, pc, ret>>
    BY <1>5 DEF S!memset, S!Store, S!Byte, Sought
  <2>2. a + i \in S!Addr
    BY <1>2, <1>3, <1>5
  <2>3. mem' = Filled(i + 1)
    <3>1. ASSUME NEW p \in S!Addr
          PROVE  mem'[p] = IF p \in a .. (a + (i + 1) - 1) THEN Sought ELSE mem0[p]
      <4>1. p \in Nat
        BY <1>2
      <4>2. mem[p] = IF p \in a .. (a + i - 1) THEN Sought ELSE mem0[p]
        BY <1>1 DEF Filled
      <4>3. CASE p = a + i
        <5>1. p \in a .. (a + (i + 1) - 1)
          BY <4>3, <1>2
        <5> QED BY <5>1, <4>3, <2>1, <1>2
      <4>4. CASE p # a + i
        <5>1. p \in a .. (a + (i + 1) - 1) <=> p \in a .. (a + i - 1)
          BY <4>4, <4>1, <1>2
        <5>2. mem'[p] = mem[p]
          BY <4>4, <2>1, <1>2
        <5> QED BY <5>1, <5>2, <4>2
      <4> QED BY <4>3, <4>4
    <3>2. mem' = [p \in S!Addr |-> mem'[p]]
      BY <2>1, <1>2
    <3>3. UNCHANGED <<a, c, mem0>>
      BY <1>4 DEF S!call
    <3> QED BY <3>1, <3>2, <3>3 DEF Filled
  <2>4. S!TypeOK'
    <3>1. i' \in 0..Size /\ Sought \in Bytes
      BY <2>1, <1>1, <1>2, <1>3, <1>5, StringTypes DEF S!TypeOK
    <3> QED BY <3>1, <1>1, <1>4, <2>1, <2>2, StoreKeepsType DEF S!call
  <2>5. i' <= n' /\ mem' = Filled(i)' /\ f' = "memset" /\ pc' = "loop"
    <3>1. i' <= n' /\ f' = "memset" /\ pc' = "loop"
      BY <1>1, <1>2, <1>4, <1>5, <2>1 DEF S!call
    <3>2. mem' = Filled(i)'
      BY <1>4, <2>1, <2>3, FilledNext DEF S!call
    <3> QED BY <3>1, <3>2
  <2> QED BY <1>4, <2>4, <2>5 DEF StringInv, Looping
<1>6. CASE ~(i < n)
  <2>1. pc' = "done" /\ ret' = <<a>> /\ UNCHANGED <<mem, i, last>>
    BY <1>6 DEF S!memset, S!Return
  <2>2. i = n
    BY <1>1, <1>2, <1>6
  <2>3. S!TypeOK'
    <3>1. a \in -1 .. Size /\ last' \in {<<>>} \cup {<<p>> : p \in S!Addr}
      BY <1>1, <1>2, <1>3, <2>1 DEF S!TypeOK
    <3> QED BY <3>1, <1>1, <1>4, <2>1, ReturnKeepsType DEF S!call
  <2>4. mem' = Filled(n)' /\ ret' = <<a'>> /\ f' = "memset"
    BY <1>1, <1>2, <1>4, <2>1, <2>2, FilledNext DEF S!call
  <2> QED BY <1>4, <2>1, <2>3, <2>4 DEF StringInv, Mandated
<1> QED BY <1>5, <1>6

\* Upwards the byte read is above all that are written, downwards below.
LEMMA MemmoveStep ==
  ASSUME StringParams, StringInv, S!memmove
  PROVE  StringInv'
<1>1. /\ f = "memmove" /\ pc = "loop" /\ S!TypeOK /\ CallOK /\ i <= n
      /\ mem = IF b < a THEN Moved(i, n) ELSE Moved(0, i)
  BY DEF StringInv, Looping, S!memmove, S!Running
<1>2. /\ Size \in Nat /\ {a, b, n, i} \subseteq Nat /\ i <= Size
      /\ mem \in [S!Addr -> Bytes] /\ mem0 \in [S!Addr -> Bytes]
      /\ \A x : x \in S!Addr <=> x \in Nat /\ x < Size
  BY <1>1, StringTypes
<1>3. a + n <= Size /\ b + n <= Size
  BY <1>1 DEF CallOK
<1>4. UNCHANGED S!call /\ CallOK'
  BY <1>1, CallStays DEF S!memmove, S!Store, S!Return
<1>5. CASE b > a /\ i < n /\ S!Store(a + i, mem[b + i], i + 1)
  <2>1. mem' = [mem EXCEPT ![a + i] = mem[b + i]] /\ i' = i + 1 /\ UNCHANGED <<last, pc, ret>>
    BY <1>5 DEF S!Store
  <2>2. /\ a + i \in S!Addr /\ b + i \in S!Addr /\ b + i \notin (a + 0) .. (a + i - 1)
        /\ a + i < Size /\ ~(b < a)
    BY <1>2, <1>3, <1>5
  <2>3. mem[b + i] = mem0[b + i] /\ mem = Moved(0, i)
    BY <1>1, <2>2, NotMoved
  <2>4. mem' = Moved(0, i + 1)
    <3>1. 0 \in Nat /\ i \in Nat /\ 0 <= i /\ UNCHANGED <<mem0, a, b>>
      BY <1>2, <1>4 DEF S!call
    <3>2. mem' = [mem EXCEPT ![a + i] = mem0[b + i]]
      BY <2>1, <2>3
    <3> QED BY <1>1, <2>2, <2>3, <3>1, <3>2, MovedOne
  <2>5. S!TypeOK'
    <3>1. i' \in 0..Size /\ mem[b + i] \in Bytes
      BY <2>1, <2>2, <1>2, <1>3, <1>5
    <3> QED BY <3>1, <1>1, <1>4, <2>1, <2>2, StoreKeepsType DEF S!call
  <2>6. i' <= n' /\ mem' = Moved(0, i)' /\ f' = "memmove" /\ pc' = "loop" /\ ~(b' < a')
    <3>1. i' <= n' /\ f' = "memmove" /\ pc' = "loop" /\ ~(b' < a')
      BY <1>1, <1>2, <1>4, <1>5, <2>1, <2>2 DEF S!call
    <3>2. mem' = Moved(0, i)'
      BY <1>4, <2>1, <2>4, MovedNext DEF S!call
    <3> QED BY <3>1, <3>2
  <2> QED BY <1>4, <2>5, <2>6 DEF StringInv, Looping
<1>6. CASE b < a /\ i > 0 /\ S!Store(a + i - 1, mem[b + i - 1], i - 1)
  <2> DEFINE k == i - 1
  <2>0. k \in Nat /\ k + 1 = i /\ a + i - 1 = a + k /\ b + i - 1 = b + k
    BY <1>2, <1>6
  <2>1. mem' = [mem EXCEPT ![a + k] = mem[b + k]] /\ i' = k /\ UNCHANGED <<last, pc, ret>>
    BY <1>6, <2>0 DEF S!Store
  <2> HIDE DEF k
  <2>2. /\ a + k \in S!Addr /\ b + k \in S!Addr /\ b + k \notin (a + i) .. (a + n - 1)
        /\ a + k < Size
    BY <1>1, <1>2, <1>3, <1>6, <2>0
  <2>3. mem[b + k] = mem0[b + k] /\ mem = Moved(i, n)
    BY <1>1, <1>6, <2>2, NotMoved
  <2>4. mem' = Moved(k, n)
    BY <1>1, <1>2, <1>4, <2>0, <2>1, <2>2, <2>3, MovedOne DEF S!call
  <2>5. S!TypeOK'
    <3>1. i' \in 0..Size /\ mem[b + k] \in Bytes
      BY <2>0, <2>1, <2>2, <1>2, <1>3, <1>6
    <3> QED BY <3>1, <1>1, <1>4, <2>1, <2>2, StoreKeepsType DEF S!call
  <2>6. i' <= n' /\ mem' = Moved(i, n)' /\ f' = "memmove" /\ pc' = "loop" /\ b' < a'
    <3>1. i' <= n' /\ f' = "memmove" /\ pc' = "loop" /\ b' < a'
      BY <1>1, <1>2, <1>4, <1>6, <2>0, <2>1 DEF S!call
    <3>2. mem' = Moved(i, n)'
      BY <1>4, <2>1, <2>4, MovedNext DEF S!call
    <3> QED BY <3>1, <3>2
  <2> QED BY <1>4, <2>5, <2>6 DEF StringInv, Looping
<1>7. CASE (b = a \/ (b > a /\ i >= n) \/ (b < a /\ i = 0)) /\ S!Return(<<a>>)
  <2>1. pc' = "done" /\ ret' = <<a>> /\ UNCHANGED <<mem, i, last>>
    BY <1>7 DEF S!Return
  <2>2. mem = S!Copied(n)
    <3>1. CASE b = a
      <4>1. ~(b < a)
        BY <3>1, <1>2
      <4>2. ASSUME NEW p \in S!Addr
            PROVE  /\ p - a + b = p
                   /\ mem[p] = IF p \in (a + 0) .. (a + i - 1) THEN mem0[p - a + b] ELSE mem0[p]
        BY <3>1, <1>1, <1>2, <4>1 DEF Moved
      <4>3. mem = [p \in S!Addr |-> mem0[p]]
        BY <4>2, <1>2
      <4> QED BY <4>2, <4>3 DEF S!Copied
    <3>2. CASE b > a /\ i >= n
      <4>1. i = n /\ mem = Moved(0, n)
        BY <3>2, <1>1, <1>2
      <4> QED BY <4>1, <1>2 DEF S!Copied, Moved
    <3>3. CASE b < a /\ i = 0
      BY <3>3, <1>1, <1>2 DEF S!Copied, Moved
    <3> QED BY <1>7, <3>1, <3>2, <3>3
  <2>3. S!TypeOK'
    <3>1. a \in -1 .. Size /\ last' \in {<<>>} \cup {<<p>> : p \in S!Addr}
      BY <1>1, <1>2, <1>3, <2>1 DEF S!TypeOK
    <3> QED BY <3>1, <1>1, <1>4, <2>1, ReturnKeepsType DEF S!call
  <2>4. mem' = S!Copied(n)' /\ ret' = <<a'>> /\ f' = "memmove"
    BY <1>1, <1>4, <2>1, <2>2 DEF S!call, S!Copied
  <2> QED BY <1>4, <2>1, <2>3, <2>4 DEF StringInv, Mandated
<1> QED BY <1>5, <1>6, <1>7 DEF S!memmove

\* The order of two byte strings is that of the first bytes that differ.
LEMMA OrderOf ==
  ASSUME StringParams, S!TypeOK, NEW len \in Nat
  PROVE  /\ SameBelow(len) => S!Order(len) = 0
         /\ \A k \in 0 .. (len - 1) :
              SameBelow(k) /\ mem0[a + k] # mem0[b + k]
                => S!Order(len) = S!Compare(mem0[a + k], mem0[b + k])
<1> DEFINE diff == {j \in 0 .. (len - 1) : mem0[a + j] # mem0[b + j]}
           first == CHOOSE j \in diff : \A h \in diff : j <= h
<1>1. S!Order(len) = IF diff = {} THEN 0 ELSE IF mem0[a + first] < mem0[b + first] THEN -1 ELSE 1
  BY DEF S!Order
<1>2. SameBelow(len) => diff = {}
  BY DEF SameBelow
<1>3. ASSUME NEW k \in 0 .. (len - 1), SameBelow(k), mem0[a + k] # mem0[b + k]
      PROVE  S!Order(len) = S!Compare(mem0[a + k], mem0[b + k])
  <2>1. k \in diff
    BY <1>3
  <2>2. ASSUME NEW h \in diff PROVE k <= h
    <3>1. h \in Nat /\ k \in Nat /\ mem0[a + h] # mem0[b + h]
      OBVIOUS
    <3>2. h \in 0 .. (k - 1) => FALSE
      BY <3>1, <1>3 DEF SameBelow
    <3> QED BY <3>1, <3>2
  <2>3. first \in diff /\ \A h \in diff : first <= h
    BY <2>1, <2>2
  <2>4. first = k
    <3>1. first <= k /\ k <= first /\ first \in Nat /\ k \in Nat
      BY <2>1, <2>2, <2>3
    <3> HIDE DEF first
    <3> QED BY <3>1
  <2> HIDE DEF first
  <2> QED BY <1>1, <2>1, <2>4 DEF S!Compare
<1> HIDE DEF diff, first
<1> QED BY <1>1, <1>2, <1>3

LEMMA LengthNext ==
  UNCHANGED <<mem0, a, b>> =>
    /\ S!StringLength(mem0, a)' = S!StringLength(mem0, a)
    /\ S!StringLength(mem0, b)' = S!StringLength(mem0, b)
    /\ S!Shorter' = S!Shorter
<1> SUFFICES ASSUME UNCHANGED <<mem0, a, b>>
             PROVE  /\ S!StringLength(mem0, a)' = S!StringLength(mem0, a)
                    /\ S!StringLength(mem0, b)' = S!StringLength(mem0, b)
                    /\ S!Shorter' = S!Shorter
  OBVIOUS
<1>1. mem0' = mem0 /\ a' = a /\ b' = b
  OBVIOUS
<1>2. S!StringLength(mem0, a)' = S!StringLength(mem0, a)
  BY <1>1 DEF S!StringLength, S!EndsAt
<1>3. S!StringLength(mem0, b)' = S!StringLength(mem0, b)
  BY <1>1 DEF S!StringLength, S!EndsAt
<1>4. S!Shorter' = S!Shorter
  BY <1>2, <1>3 DEF S!Shorter
<1> QED BY <1>2, <1>3, <1>4

LEMMA MemcmpStep ==
  ASSUME StringParams, StringInv, S!memcmp
  PROVE  StringInv'
<1>1. f = "memcmp" /\ pc = "loop" /\ S!TypeOK /\ CallOK /\ i <= n /\ mem = mem0 /\ SameBelow(i)
  BY DEF StringInv, Looping, S!memcmp, S!Running
<1>2. Size \in Nat /\ {a, b, n, i} \subseteq Nat /\ i <= Size /\ n <= Size
  BY <1>1, StringTypes
<1>4. UNCHANGED S!call /\ CallOK' /\ mem' = mem /\ last' = last
  BY <1>1, CallStays DEF S!memcmp, S!Skip, S!Return
<1>5. last' \in {<<>>} \cup {<<p>> : p \in S!Addr}
  BY <1>1, <1>4 DEF S!TypeOK
<1>6. CASE i = n
  <2>1. pc' = "done" /\ ret' = <<0>> /\ UNCHANGED i
    BY <1>6 DEF S!memcmp, S!Return
  <2>2. S!TypeOK'
    <3>1. 0 \in -1 .. Size
      BY <1>2
    <3> QED BY <3>1, <1>1, <1>4, <1>5, <2>1, ReturnKeepsType DEF S!call
  <2>3. S!Order(n) = 0
    BY <1>1, <1>2, <1>6, OrderOf
  <2>4. ret' = <<S!Order(n)'>> /\ mem' = mem0' /\ f' = "memcmp"
    BY <1>1, <1>4, <2>1, <2>3 DEF S!call, S!Order
  <2> QED BY <1>4, <2>1, <2>2, <2>4 DEF StringInv, Mandated
<1>7. CASE i # n /\ mem[a + i] # mem[b + i]
  <2>1. pc' = "done" /\ ret' = <<S!Compare(mem[a + i], mem[b + i])>> /\ UNCHANGED i
    BY <1>7 DEF S!memcmp, S!Return
  <2>2. S!TypeOK'
    <3>1. S!Compare(mem[a + i], mem[b + i]) \in -1 .. Size
      BY <1>2 DEF S!Compare, StringParams
    <3> QED BY <3>1, <1>1, <1>4, <1>5, <2>1, ReturnKeepsType DEF S!call
  <2>3. S!Order(n) = S!Compare(mem[a + i], mem[b + i])
    <3>1. i \in 0 .. (n - 1)
      <4>1. i # n /\ i <= n
        BY <1>1, <1>7
      <4> QED BY <4>1, <1>2
    <3> QED BY <3>1, <1>1, <1>2, <1>7, OrderOf
  <2>4. ret' = <<S!Order(n)'>> /\ mem' = mem0' /\ f' = "memcmp"
    BY <1>1, <1>4, <2>1, <2>3 DEF S!call, S!Order
  <2> QED BY <1>4, <2>1, <2>2, <2>4 DEF StringInv, Mandated
<1>8. CASE i # n /\ mem[a + i] = mem[b + i]
  <2>1. i' = i + 1 /\ UNCHANGED <<pc, ret>>
    BY <1>8 DEF S!memcmp, S!Skip
  <2>2. i + 1 <= n /\ i + 1 \in 0..Size
    BY <1>1, <1>2, <1>8
  <2>3. S!TypeOK'
    BY <1>1, <1>4, <2>1, <2>2 DEF S!TypeOK, S!call
  <2>4. SameBelow(i + 1)
    BY <1>1, <1>2, <1>8 DEF SameBelow
  <2>5. i' <= n' /\ f' = "memcmp" /\ pc' = "loop" /\ mem' = mem0'
    BY <1>1, <1>4, <2>1, <2>2 DEF S!call
  <2>6. SameBelow(i)'
    BY <1>4, <2>1, <2>4, Zenon DEF SameBelow, S!call
  <2> QED BY <1>4, <2>3, <2>5, <2>6 DEF StringInv, Looping
<1> QED BY <1>6, <1>7, <1>8

\* Two equal beginnings without a 0 end in neither string.
LEMMA StrcmpStep ==
  ASSUME StringParams, StringInv, S!strcmp
  PROVE  StringInv'
<1>1. /\ f = "strcmp" /\ pc = "loop" /\ S!TypeOK /\ CallOK
      /\ mem = mem0 /\ SameBelow(i) /\ NoEndBelow(a, i)
  BY DEF StringInv, Looping, S!strcmp, S!Running
<1>2. /\ Size \in Nat /\ i \in Nat /\ a \in S!Addr /\ b \in S!Addr
      /\ mem0 \in [S!Addr -> Bytes]
  BY <1>1, StringTypes
<1>3. S!IsString(mem0, a) /\ S!IsString(mem0, b)
  BY <1>1 DEF CallOK
<1>4. UNCHANGED S!call /\ CallOK' /\ mem' = mem /\ last' = last
  BY <1>1, CallStays DEF S!strcmp, S!Skip, S!Return
<1>5. last' \in {<<>>} \cup {<<p>> : p \in S!Addr}
  BY <1>1, <1>4 DEF S!TypeOK
<1> DEFINE la == S!StringLength(mem0, a)
           lb == S!StringLength(mem0, b)
           sh == S!Shorter
<1>6. /\ la \in 0 .. (Size - 1) /\ lb \in 0 .. (Size - 1) /\ i <= la /\ i <= lb
      /\ mem0[a + i] = 0 => i = la
      /\ mem0[b + i] = 0 => i = lb
  <2>1. \A j \in 0 .. (i - 1) : mem0[a + j] # 0 /\ mem0[b + j] # 0
    BY <1>1 DEF SameBelow, NoEndBelow
  <2>2. la \in 0 .. (Size - 1) /\ i <= la
    BY <1>2, <1>3, <2>1, StringEnds
  <2>3. lb \in 0 .. (Size - 1) /\ i <= lb
    BY <1>2, <1>3, <2>1, StringEnds
  <2>4. mem0[a + i] = 0 => i = la
    <3>1. i \in 0..la
      BY <1>2, <2>2
    <3> QED BY <3>1, <1>2, <1>3, StringEnds
  <2>5. mem0[b + i] = 0 => i = lb
    <3>1. i \in 0..lb
      BY <1>2, <2>3
    <3> QED BY <3>1, <1>2, <1>3, StringEnds
  <2> QED BY <2>2, <2>3, <2>4, <2>5
<1>7. sh = IF la < lb THEN la ELSE lb
  BY DEF S!Shorter
<1> HIDE DEF la, lb, sh
<1>8. sh \in Nat /\ sh < Size /\ i <= sh /\ i \in 0 .. ((sh + 1) - 1) /\ sh' = sh
  <2>1. sh \in Nat /\ sh < Size /\ i <= sh
    BY <1>2, <1>6, <1>7
  <2>2. sh' = sh
    BY <1>4, LengthNext DEF S!call, sh
  <2> QED BY <1>2, <2>1, <2>2
<1>9. CASE mem[a + i] # mem[b + i]
  <2>1. pc' = "done" /\ ret' = <<S!Compare(mem[a + i], mem[b + i])>> /\ UNCHANGED i
    BY <1>9 DEF S!strcmp, S!Return
  <2>2. S!TypeOK'
    <3>1. S!Compare(mem[a + i], mem[b + i]) \in -1 .. Size
      BY <1>2 DEF S!Compare, StringParams
    <3> QED BY <3>1, <1>1, <1>4, <1>5, <2>1, ReturnKeepsType DEF S!call
  <2>3. S!Order(sh + 1) = S!Compare(mem[a + i], mem[b + i])
    BY <1>1, <1>8, <1>9, OrderOf
  <2>4. ret' = <<S!Order(S!Shorter + 1)'>> /\ mem' = mem0' /\ f' = "strcmp"
    BY <1>1, <1>4, <1>8, <2>1, <2>3 DEF S!call, S!Order, sh
  <2> QED BY <1>4, <2>1, <2>2, <2>4 DEF StringInv, Mandated
<1>10. CASE mem[a + i] = mem[b + i] /\ mem[a + i] = 0
  <2>1. pc' = "done" /\ ret' = <<0>> /\ UNCHANGED i
    BY <1>10 DEF S!strcmp, S!Return
  <2>2. S!TypeOK'
    <3>1. 0 \in -1 .. Size
      BY <1>2
    <3> QED BY <3>1, <1>1, <1>4, <1>5, <2>1, ReturnKeepsType DEF S!call
  <2>3. S!Order(sh + 1) = 0
    <3>1. sh = i
      BY <1>1, <1>6, <1>7, <1>10
    <3>2. SameBelow(i + 1)
      <4>1. \A j \in 0 .. ((i + 1) - 1) : j = i \/ j \in 0 .. (i - 1)
        BY <1>2
      <4>2. mem0[a + i] = mem0[b + i]
        BY <1>1, <1>10
      <4>3. \A j \in 0 .. (i - 1) : mem0[a + j] = mem0[b + j]
        BY <1>1 DEF SameBelow
      <4> QED BY <4>1, <4>2, <4>3, Zenon DEF SameBelow
    <3> QED BY <3>1, <3>2, <1>1, <1>8, OrderOf
  <2>4. ret' = <<S!Order(S!Shorter + 1)'>> /\ mem' = mem0' /\ f' = "strcmp"
    BY <1>1, <1>4, <1>8, <2>1, <2>3 DEF S!call, S!Order, sh
  <2> QED BY <1>4, <2>1, <2>2, <2>4 DEF StringInv, Mandated
<1>11. CASE mem[a + i] = mem[b + i] /\ mem[a + i] # 0
  <2>1. i' = i + 1 /\ UNCHANGED <<pc, ret>>
    BY <1>11 DEF S!strcmp, S!Skip
  <2>2. i + 1 \in 0..Size
    BY <1>2, <1>8
  <2>3. S!TypeOK'
    BY <1>1, <1>4, <2>1, <2>2 DEF S!TypeOK, S!call
  <2>4. SameBelow(i + 1) /\ NoEndBelow(a, i + 1)
    BY <1>1, <1>2, <1>11 DEF SameBelow, NoEndBelow
  <2>5. f' = "strcmp" /\ pc' = "loop" /\ mem' = mem0'
    BY <1>1, <1>4, <2>1 DEF S!call
  <2>6. SameBelow(i)' /\ NoEndBelow(a, i)'
    BY <1>4, <2>1, <2>4, Zenon DEF SameBelow, NoEndBelow, S!call
  <2> QED BY <1>4, <2>3, <2>5, <2>6 DEF StringInv, Looping
<1> QED BY <1>9, <1>10, <1>11

LEMMA StrlenStep ==
  ASSUME StringParams, StringInv, S!strlen
  PROVE  StringInv'
<1>1. f = "strlen" /\ pc = "loop" /\ S!TypeOK /\ CallOK /\ mem = mem0 /\ NoEndBelow(a, i)
  BY DEF StringInv, Looping, S!strlen, S!Running
<1>2. Size \in Nat /\ i \in Nat /\ a \in S!Addr /\ mem0 \in [S!Addr -> Bytes]
  BY <1>1, StringTypes
<1>3. S!IsString(mem0, a)
  BY <1>1 DEF CallOK
<1>4. UNCHANGED S!call /\ CallOK' /\ mem' = mem /\ last' = last
  BY <1>1, CallStays DEF S!strlen, S!Skip, S!Return
<1>5. last' \in {<<>>} \cup {<<p>> : p \in S!Addr}
  BY <1>1, <1>4 DEF S!TypeOK
<1> DEFINE la == S!StringLength(mem0, a)
<1>6. la \in 0 .. (Size - 1) /\ i <= la /\ (mem0[a + i] = 0 => i = la)
  <2>1. la \in 0 .. (Size - 1) /\ i <= la
    BY <1>1, <1>2, <1>3, StringEnds DEF NoEndBelow
  <2>2. i \in 0..la
    BY <1>2, <2>1
  <2> QED BY <2>1, <2>2, <1>2, <1>3, StringEnds
<1> HIDE DEF la
<1>7. CASE mem[a + i] = 0
  <2>1. pc' = "done" /\ ret' = <<i>> /\ UNCHANGED i
    BY <1>7 DEF S!strlen, S!Return
  <2>2. S!TypeOK'
    <3>1. i \in -1 .. Size
      BY <1>2, <1>6
    <3> QED BY <3>1, <1>1, <1>4, <1>5, <2>1, ReturnKeepsType DEF S!call
  <2>3. ret' = <<S!StringLength(mem0, a)'>> /\ mem' = mem0' /\ f' = "strlen"
    BY <1>1, <1>4, <1>6, <1>7, <2>1, LengthNext DEF S!call, la
  <2> QED BY <1>4, <2>1, <2>2, <2>3 DEF StringInv, Mandated
<1>8. CASE mem[a + i] # 0
  <2>1. i' = i + 1 /\ UNCHANGED <<pc, ret>>
    BY <1>8 DEF S!strlen, S!Skip
  <2>2. i + 1 \in 0..Size
    BY <1>2, <1>6
  <2>3. S!TypeOK'
    BY <1>1, <1>4, <2>1, <2>2 DEF S!TypeOK, S!call
  <2>4. NoEndBelow(a, i + 1)
    BY <1>1, <1>2, <1>8 DEF NoEndBelow
  <2>5. f' = "strlen" /\ pc' = "loop" /\ mem' = mem0'
    BY <1>1, <1>4, <2>1 DEF S!call
  <2>6. NoEndBelow(a, i)'
    BY <1>4, <2>1, <2>4, Zenon DEF NoEndBelow, S!call
  <2> QED BY <1>4, <2>3, <2>5, <2>6 DEF StringInv, Looping
<1> QED BY <1>7, <1>8

\* The 0 is copied last: what is read is not yet overwritten.
LEMMA StrcpyStep ==
  ASSUME StringParams, StringInv, S!strcpy
  PROVE  StringInv'
<1>1. f = "strcpy" /\ pc = "loop" /\ S!TypeOK /\ CallOK /\ mem = Moved(0, i) /\ NoEndBelow(b, i)
  BY DEF StringInv, Looping, S!strcpy, S!Running
<1>2. /\ Size \in Nat /\ {a, b, i} \subseteq Nat /\ a \in S!Addr /\ b \in S!Addr
      /\ mem \in [S!Addr -> Bytes] /\ mem0 \in [S!Addr -> Bytes]
      /\ \A x : x \in S!Addr <=> x \in Nat /\ x < Size
  BY <1>1, StringTypes
<1> DEFINE lb == S!StringLength(mem0, b)
<1>3. S!IsString(mem0, b) /\ a + (lb + 1) <= Size /\ (a + (lb + 1) <= b \/ b + (lb + 1) <= a)
  BY <1>1 DEF CallOK, S!Apart
<1>4. UNCHANGED S!call /\ CallOK'
  BY <1>1, CallStays DEF S!strcpy
<1>5. /\ lb \in 0 .. (Size - 1) /\ b + lb < Size /\ i <= lb
      /\ mem0[b + i] = 0 <=> i = lb
  <2>1. lb \in 0 .. (Size - 1) /\ i <= lb /\ b + lb \in S!Addr /\ mem0[b + lb] = 0
    BY <1>1, <1>2, <1>3, StringEnds DEF NoEndBelow, S!EndsAt
  <2>2. i \in 0..lb
    BY <1>2, <2>1
  <2>3. mem0[b + i] = 0 => i = lb
    BY <2>1, <2>2, <1>2, <1>3, StringEnds
  <2> QED BY <2>1, <2>3, <1>2
<1> HIDE DEF lb
<1>6. a + i \in S!Addr /\ b + i \in S!Addr /\ b + i \notin (a + 0) .. (a + i - 1) /\ a + i < Size
  BY <1>2, <1>3, <1>5
<1>7. mem[b + i] = mem0[b + i] /\ mem' = [mem EXCEPT ![a + i] = mem0[b + i]]
  BY <1>1, <1>6, NotMoved DEF S!strcpy
<1>8. mem' = Moved(0, i + 1)
  <2>1. 0 \in Nat /\ i \in Nat /\ 0 <= i /\ UNCHANGED <<mem0, a, b>>
    BY <1>2, <1>4 DEF S!call
  <2> QED BY <1>1, <1>6, <1>7, <2>1, MovedOne
<1>9. mem0[b + i] \in Bytes /\ mem' \in [S!Addr -> Bytes]
  BY <1>2, <1>6, <1>7
<1>10. last' = last /\ last \in {<<>>} \cup {<<p>> : p \in S!Addr}
  BY <1>1 DEF S!strcpy, S!TypeOK
<1>11. CASE mem0[b + i] = 0
  <2>1. pc' = "done" /\ ret' = <<a>> /\ UNCHANGED i
    BY <1>7, <1>11 DEF S!strcpy
  <2>2. S!TypeOK'
    <3>1. a \in -1 .. Size
      BY <1>2
    <3>2. ret' \in {<<>>} \cup {<<r>> : r \in -1 .. Size}
      BY <2>1, <3>1
    <3> QED BY <3>2, <1>1, <1>4, <1>9, <1>10, <2>1 DEF S!TypeOK, S!call
  <2>3. mem' = S!Copied(lb + 1)
    <3>1. mem' = Moved(0, lb + 1)
      BY <1>5, <1>8, <1>11
    <3>2. a + 0 = a
      BY <1>2
    <3> QED BY <3>1, <3>2 DEF S!Copied, Moved
  <2>4. lb' = lb
    BY <1>4, LengthNext DEF S!call, lb
  <2>5. S!Copied(S!StringLength(mem0, b) + 1)' = S!Copied(lb + 1)
    BY <1>4, <2>4 DEF S!Copied, S!call, lb
  <2>6. ret' = <<a'>> /\ f' = "strcpy"
    BY <1>1, <1>4, <2>1 DEF S!call
  <2> QED BY <1>4, <2>1, <2>2, <2>3, <2>5, <2>6 DEF StringInv, Mandated
<1>12. CASE mem0[b + i] # 0
  <2>1. i' = i + 1 /\ UNCHANGED <<pc, ret>>
    BY <1>7, <1>12 DEF S!strcpy
  <2>2. S!TypeOK'
    <3>1. i' \in 0..Size
      BY <1>2, <1>3, <1>5, <2>1
    <3> QED BY <3>1, <1>1, <1>4, <1>6, <1>7, <1>9, <1>10, <2>1, StoreKeepsType DEF S!call
  <2>3. mem' = Moved(0, i)'
    BY <1>4, <1>8, <2>1, MovedNext DEF S!call
  <2>4. NoEndBelow(b, i + 1)
    BY <1>1, <1>2, <1>12 DEF NoEndBelow
  <2>5. NoEndBelow(b, i)'
    BY <1>4, <2>1, <2>4, Zenon DEF NoEndBelow, S!call
  <2>6. f' = "strcpy" /\ pc' = "loop"
    BY <1>1, <1>4, <2>1 DEF S!call
  <2> QED BY <1>4, <2>2, <2>3, <2>5, <2>6 DEF StringInv, Looping
<1> QED BY <1>11, <1>12

\* last is the last place of c that the loop has passed, and at the end all of the
\* string and its 0 are passed.
LEMMA StrrchrStep ==
  ASSUME StringParams, StringInv, S!strrchr
  PROVE  StringInv'
<1>1. /\ f = "strrchr" /\ pc = "loop" /\ S!TypeOK /\ CallOK /\ mem = mem0
      /\ NoEndBelow(a, i) /\ LastBelow(i)
  BY DEF StringInv, Looping, S!strrchr, S!Running
<1>2. /\ Size \in Nat /\ i \in Nat /\ a \in Nat /\ a \in S!Addr /\ mem0 \in [S!Addr -> Bytes]
      /\ \A x : x \in S!Addr <=> x \in Nat /\ x < Size
  BY <1>1, StringTypes
<1>3. S!IsString(mem0, a)
  BY <1>1 DEF CallOK
<1>4. UNCHANGED S!call /\ CallOK' /\ mem' = mem
  BY <1>1, CallStays DEF S!strrchr
<1> DEFINE la == S!StringLength(mem0, a)
<1>5. la \in 0 .. (Size - 1) /\ i <= la /\ a + la < Size /\ (mem0[a + i] = 0 <=> i = la)
  <2>1. la \in 0 .. (Size - 1) /\ i <= la /\ a + la \in S!Addr /\ mem0[a + la] = 0
    BY <1>1, <1>2, <1>3, StringEnds DEF NoEndBelow, S!EndsAt
  <2>2. i \in 0..la
    BY <1>2, <2>1
  <2>3. mem0[a + i] = 0 => i = la
    BY <2>1, <2>2, <1>2, <1>3, StringEnds
  <2> QED BY <2>1, <2>3, <1>2
<1> HIDE DEF la
<1>6. a + i \in S!Addr
  BY <1>2, <1>5
<1>7. last' = IF mem0[a + i] = Sought THEN <<a + i>> ELSE last
  BY <1>1 DEF S!strrchr, S!Byte, Sought
<1>8. last' \in {<<>>} \cup {<<p>> : p \in S!Addr}
  BY <1>1, <1>6, <1>7 DEF S!TypeOK
<1>9. \/ last' = <<>> /\ \A j \in 0..i : mem0[a + j] # Sought
      \/ \E j \in 0..i : /\ last' = <<a + j>> /\ mem0[a + j] = Sought
                         /\ \A h \in (j + 1) .. i : mem0[a + h] # Sought
  <2>1. CASE mem0[a + i] = Sought
    <3>1. i \in 0..i /\ (i + 1) .. i = {}
      BY <1>2
    <3> QED BY <3>1, <2>1, <1>7
  <2>2. CASE mem0[a + i] # Sought
    <3>1. \A j \in 0..i : j = i \/ j \in 0 .. (i - 1)
      BY <1>2
    <3>2. \A j \in Nat : \A h \in (j + 1) .. i : h = i \/ h \in (j + 1) .. (i - 1)
      BY <1>2
    <3>3. last' = last
      BY <1>7, <2>2
    <3>4. CASE last = <<>> /\ \A j \in 0 .. (i - 1) : mem0[a + j] # Sought
      BY <3>1, <3>3, <3>4, <2>2
    <3>5. CASE \E j \in 0 .. (i - 1) : /\ last = <<a + j>> /\ mem0[a + j] = Sought
                                       /\ \A h \in (j + 1) .. (i - 1) : mem0[a + h] # Sought
      <4>1. PICK j \in 0 .. (i - 1) : /\ last = <<a + j>> /\ mem0[a + j] = Sought
                                      /\ \A h \in (j + 1) .. (i - 1) : mem0[a + h] # Sought
        BY <3>5
      <4>2. j \in Nat /\ j \in 0..i
        BY <1>2
      <4>3. \A h \in (j + 1) .. i : mem0[a + h] # Sought
        BY <4>1, <4>2, <3>2, <2>2
      <4> QED BY <4>1, <4>2, <4>3, <3>3
    <3> QED BY <1>1, <3>4, <3>5 DEF LastBelow
  <2> QED BY <2>1, <2>2
<1>10. CASE mem0[a + i] = 0
  <2>1. pc' = "done" /\ ret' = last' /\ UNCHANGED i
    BY <1>1, <1>10 DEF S!strrchr
  <2>2. S!TypeOK'
    <3>1. ret' \in {<<>>} \cup {<<r>> : r \in -1 .. Size}
      <4>1. S!Addr \subseteq -1 .. Size
        BY <1>2
      <4> QED BY <4>1, <1>8, <2>1
    <3> QED BY <3>1, <1>1, <1>4, <1>8, <2>1 DEF S!TypeOK, S!call
  <2>3. i = la
    BY <1>5, <1>10
  <2> DEFINE F == S!Found
  <2>4. F = {p \in a .. (a + i) : mem0[p] = Sought}
    BY <2>3, Zenon DEF S!Found, la, Sought
  <2>5. \A p \in a .. (a + i) : p - a \in 0..i /\ a + (p - a) = p
    BY <1>2
  <2>6. \A j \in 0..i : a + j \in a .. (a + i)
    BY <1>2
  <2> DEFINE greatest(P) == CHOOSE p \in P : \A q \in P : q <= p
  <2> HIDE DEF F, greatest
  <2>7. last' = IF F = {} THEN <<>> ELSE <<greatest(F)>>
    <3>1. CASE last' = <<>> /\ \A j \in 0..i : mem0[a + j] # Sought
      <4>1. F = {}
        <5>1. ASSUME NEW p \in a .. (a + i), mem0[p] = Sought PROVE FALSE
          BY <5>1, <2>5, <3>1
        <5> QED BY <5>1, <2>4
      <4> QED BY <4>1, <3>1
    <3>2. CASE \E j \in 0..i : /\ last' = <<a + j>> /\ mem0[a + j] = Sought
                               /\ \A h \in (j + 1) .. i : mem0[a + h] # Sought
      <4>1. PICK j \in 0..i : /\ last' = <<a + j>> /\ mem0[a + j] = Sought
                              /\ \A h \in (j + 1) .. i : mem0[a + h] # Sought
        BY <3>2
      <4> DEFINE r == a + j
      <4>2. r \in F /\ r \in Nat
        BY <4>1, <2>4, <2>6, <1>2
      <4>3. ASSUME NEW q \in F PROVE q \in Nat /\ q <= r
        <5>1. q \in a .. (a + i) /\ mem0[q] = Sought
          BY <2>4
        <5>2. q - a \in (j + 1) .. i => FALSE
          BY <5>1, <4>1, <2>5
        <5> QED BY <5>1, <5>2, <1>2
      <4> HIDE DEF r
      <4>4. \A p \in F : (\A q \in F : q <= p) => p = r
        <5>1. \A p \in Nat : p <= r /\ r <= p => p = r
          BY <4>2
        <5> QED BY <4>2, <4>3, <5>1
      <4>5. greatest(F) = r
        BY <4>2, <4>3, <4>4 DEF greatest
      <4>6. last' = <<r>>
        BY <4>1 DEF r
      <4>7. F # {}
        BY <4>2
      <4> QED BY <4>5, <4>6, <4>7
    <3> QED BY <1>9, <3>1, <3>2
  <2>8. F' = F
    <3>1. mem0' = mem0 /\ a' = a /\ c' = c
      BY <1>4 DEF S!call
    <3>2. S!StringLength(mem0, a)' = S!StringLength(mem0, a)
      BY <1>4, LengthNext DEF S!call
    <3> QED BY <3>1, <3>2 DEF F, S!Found
  <2>9. ret' = IF S!Found' = {} THEN <<>>
               ELSE <<CHOOSE p \in S!Found' : \A q \in S!Found' : q <= p>>
    <3>1. F = S!Found /\ F' = S!Found'
      BY DEF F
    <3>2. S!Found' = F
      BY <3>1, <2>8, Zenon
    <3>3. ret' = IF S!Found' = {} THEN <<>> ELSE <<greatest(S!Found')>>
      BY <2>1, <2>7, <3>2
    <3> QED BY <3>3, Zenon DEF greatest
  <2>10. mem' = mem0' /\ f' = "strrchr"
    BY <1>1, <1>4 DEF S!call
  <2> QED BY <1>4, <2>1, <2>2, <2>9, <2>10 DEF StringInv, Mandated
<1>11. CASE mem0[a + i] # 0
  <2>1. i' = i + 1 /\ UNCHANGED <<pc, ret>>
    BY <1>1, <1>11 DEF S!strrchr
  <2>2. i + 1 \in 0..Size
    BY <1>2, <1>5
  <2>3. S!TypeOK'
    BY <1>1, <1>4, <1>8, <2>1, <2>2 DEF S!TypeOK, S!call
  <2>4. NoEndBelow(a, i + 1)
    BY <1>1, <1>2, <1>11 DEF NoEndBelow
  <2>5. NoEndBelow(a, i)'
    BY <1>4, <2>1, <2>4, Zenon DEF NoEndBelow, S!call
  <2>6. LastBelow(i)'
    <3>1. i' - 1 = i /\ a' = a /\ c' = c /\ mem0' = mem0
      BY <1>2, <1>4, <2>1 DEF S!call
    <3>2. Sought' = Sought
      BY <3>1, Zenon DEF Sought
    <3> QED BY <1>9, <3>1, <3>2, Zenon DEF LastBelow
  <2>7. f' = "strrchr" /\ pc' = "loop" /\ mem' = mem0'
    BY <1>1, <1>4, <2>1 DEF S!call
  <2> QED BY <1>4, <2>3, <2>5, <2>6, <2>7 DEF StringInv, Looping
<1> QED BY <1>10, <1>11

LEMMA StringInit ==
  ASSUME StringParams, S!Init
  PROVE  StringInv
<1>1. S!TypeOK
  <2>1. Size \in Nat /\ 0 \in Bytes
    BY DEF StringParams
  <2>2. c \in Ints \cup {0} /\ i \in 0..Size
    BY <2>1 DEF S!Init
  <2>3. pc = "loop" /\ last = <<>> /\ ret = <<>>
    BY DEF S!Init
  <2> QED BY <2>1, <2>2, <2>3 DEF S!Init, S!TypeOK
<1>2. mem = mem0 /\ pc = "loop" /\ last = <<>> /\ S!Allowed /\ f \in S!Functions
      /\ i = (IF f = "memmove" /\ b < a THEN n ELSE 0)
  BY DEF S!Init
<1>3. CallOK
  BY <1>2 DEF S!Allowed, CallOK, S!Functions
<1>4. Size \in Nat /\ {a, b, n, i} \subseteq Nat /\ mem0 \in [S!Addr -> Bytes]
  BY <1>1, StringTypes
<1>5. ASSUME NEW l \in Nat PROVE mem0 = Moved(l, l) /\ mem0 = Filled(0)
  <2>1. (a + l) .. (a + l - 1) = {} /\ a .. (a + 0 - 1) = {}
    BY <1>4
  <2>2. mem0 = [p \in S!Addr |-> mem0[p]]
    BY <1>4
  <2> QED BY <2>1, <2>2 DEF Moved, Filled
<1>6. (~(f = "memmove" /\ b < a) => i = 0) /\ (f = "memmove" /\ b < a => i = n)
  BY <1>2
<1>7. i = 0 => SameBelow(i) /\ NoEndBelow(a, i) /\ NoEndBelow(b, i) /\ LastBelow(i)
  <2>1. 0 .. (0 - 1) = {}
    OBVIOUS
  <2> QED BY <2>1, <1>2 DEF SameBelow, NoEndBelow, LastBelow
<1>8. i <= n
  BY <1>4, <1>6
<1>9. Looping
  BY <1>2, <1>4, <1>5, <1>6, <1>7, <1>8 DEF Looping
<1> QED BY <1>1, <1>2, <1>3, <1>9 DEF StringInv

LEMMA StringIsMandated ==
  ASSUME StringParams, StringInv
  PROVE  S!AsTheStandardMandates
<1>1. S!TypeOK /\ CallOK /\ f \in S!Functions
  BY DEF StringInv, S!TypeOK
<1>2. /\ i \in Nat /\ a \in S!Addr /\ b \in S!Addr /\ mem0 \in [S!Addr -> Bytes]
  BY <1>1, StringTypes
<1>3. S!StaysInside
  <2> SUFFICES ASSUME pc = "loop" PROVE S!StaysInside
    BY DEF S!StaysInside
  <2>1. Looping
    BY DEF StringInv
  <2>2. CASE f \in {"memcpy", "memset", "memmove", "memcmp"}
    BY <2>1, <2>2 DEF Looping, S!StaysInside
  <2>3. CASE f = "strcmp"
    <3>1. S!IsString(mem0, a) /\ S!IsString(mem0, b)
      BY <1>1, <2>3 DEF CallOK
    <3>2. \A j \in 0 .. (i - 1) : mem0[a + j] # 0 /\ mem0[b + j] # 0
      BY <2>1, <2>3 DEF Looping, SameBelow, NoEndBelow
    <3>3. i <= S!StringLength(mem0, a)
      BY <1>2, <3>1, <3>2, StringEnds
    <3>4. i <= S!StringLength(mem0, b)
      BY <1>2, <3>1, <3>2, StringEnds
    <3> QED BY <2>3, <3>3, <3>4 DEF S!StaysInside, S!Shorter
  <2>4. CASE f = "strcpy"
    <3>1. S!IsString(mem0, b) /\ NoEndBelow(b, i)
      BY <1>1, <2>1, <2>4 DEF CallOK, Looping
    <3>2. i <= S!StringLength(mem0, b)
      BY <1>2, <3>1, StringEnds DEF NoEndBelow
    <3> QED BY <2>4, <3>2 DEF S!StaysInside
  <2>5. CASE f \in {"strrchr", "strlen"}
    <3>1. S!IsString(mem0, a) /\ NoEndBelow(a, i)
      BY <1>1, <2>1, <2>5 DEF CallOK, Looping
    <3>2. i <= S!StringLength(mem0, a)
      BY <1>2, <3>1, StringEnds DEF NoEndBelow
    <3> QED BY <2>5, <3>2 DEF S!StaysInside
  <2> QED BY <1>1, <2>2, <2>3, <2>4, <2>5 DEF S!Functions
<1>4. ASSUME pc = "done"
      PROVE  CASE f \in {"memcpy", "memmove"} -> mem = S!Copied(n) /\ ret = <<a>>
               [] f = "memset"  -> mem = Filled(n) /\ ret = <<a>>
               [] f = "memcmp"  -> mem = mem0 /\ ret = <<S!Order(n)>>
               [] f = "strcmp"  -> mem = mem0 /\ ret = <<S!Order(S!Shorter + 1)>>
               [] f = "strcpy"  -> mem = S!Copied(S!StringLength(mem0, b) + 1) /\ ret = <<a>>
               [] f = "strrchr" -> /\ mem = mem0
                                   /\ ret = IF S!Found = {} THEN <<>>
                                            ELSE <<CHOOSE p \in S!Found : \A q \in S!Found : q <= p>>
               [] f = "strlen"  -> mem = mem0 /\ ret = <<S!StringLength(mem0, a)>>
  <2>1. Mandated
    BY <1>4 DEF StringInv
  <2> QED BY <1>1, <2>1 DEF Mandated, S!Functions
<1> QED BY <1>1, <1>3, <1>4 DEF S!AsTheStandardMandates, Filled, Sought

LEMMA StringStutter ==
  ASSUME StringInv, UNCHANGED S!vars
  PROVE  StringInv'
<1>1. UNCHANGED <<mem, mem0, f, a, b, n, c, i, last, pc, ret>>
  BY DEF S!vars
<1>2. S!TypeOK'
  BY <1>1 DEF StringInv, S!TypeOK
<1>3. CallOK'
  BY <1>1, CallStays DEF StringInv, S!call
<1>4. (pc = "loop" => Looping)'
  <2>1. Moved(0, i)' = Moved(0, i) /\ Moved(i, n)' = Moved(i, n) /\ Filled(i)' = Filled(i)
    BY <1>1, MovedNext, FilledNext, Zenon
  <2>2. /\ SameBelow(i)' = SameBelow(i) /\ LastBelow(i)' = LastBelow(i)
        /\ NoEndBelow(a, i)' = NoEndBelow(a, i) /\ NoEndBelow(b, i)' = NoEndBelow(b, i)
    <3>1. Sought' = Sought
      BY <1>1, Zenon DEF Sought
    <3>2. LastBelow(i)' = LastBelow(i)
      BY <1>1, <3>1, ZenonT(40) DEF LastBelow
    <3>3. SameBelow(i)' = SameBelow(i)
      BY <1>1, Zenon DEF SameBelow
    <3>4. NoEndBelow(a, i)' = NoEndBelow(a, i) /\ NoEndBelow(b, i)' = NoEndBelow(b, i)
      BY <1>1, Zenon DEF NoEndBelow
    <3> QED BY <3>2, <3>3, <3>4, Zenon
  <2>3. Looping' = Looping
    BY <1>1, <2>1, <2>2, ZenonT(40) DEF Looping
  <2> QED BY <1>1, <2>3 DEF StringInv
<1>5. (pc = "done" => Mandated)'
  <2>1. S!Order(n)' = S!Order(n) /\ S!Copied(n)' = S!Copied(n) /\ Filled(n)' = Filled(n)
    BY <1>1, Zenon DEF S!Order, S!Copied, Filled, Sought
  <2>2. /\ S!StringLength(mem0, a)' = S!StringLength(mem0, a)
        /\ S!StringLength(mem0, b)' = S!StringLength(mem0, b)
        /\ S!Shorter' = S!Shorter
    BY <1>1, LengthNext
  <2>3. S!Order(S!Shorter + 1)' = S!Order(S!Shorter + 1)
    BY <1>1, <2>2, Zenon DEF S!Order
  <2>4. S!Copied(S!StringLength(mem0, b) + 1)' = S!Copied(S!StringLength(mem0, b) + 1)
    BY <1>1, <2>2, Zenon DEF S!Copied
  <2>5. S!Found' = S!Found
    BY <1>1, <2>2, Zenon DEF S!Found
  <2>6. Mandated' = Mandated
    BY <1>1, <2>1, <2>2, <2>3, <2>4, <2>5, Zenon DEF Mandated
  <2> QED BY <1>1, <2>6 DEF StringInv
<1> QED BY <1>2, <1>3, <1>4, <1>5 DEF StringInv

\* memcpy, memset, memmove, memcmp, strcmp, strcpy, strrchr and strlen do what the
\* C standard says on every memory and for every call it allows: whatever the size
\* and the bytes, they return what it says, leave the memory it says and read and
\* write inside the objects of the call.
THEOREM StringsAreStandard ==
  StringParams => (S!Spec => []S!AsTheStandardMandates)
<1> SUFFICES ASSUME StringParams PROVE S!Spec => []S!AsTheStandardMandates
  OBVIOUS
<1>1. S!Init => StringInv
  BY StringInit
<1>2. StringInv /\ [S!Next]_(S!vars) => StringInv'
  <2> SUFFICES ASSUME StringInv, [S!Next]_(S!vars) PROVE StringInv'
    OBVIOUS
  <2>1. CASE UNCHANGED S!vars
    BY <2>1, StringStutter
  <2> QED BY <2>1, MemcpyStep, MemsetStep, MemmoveStep, MemcmpStep, StrcmpStep, StrcpyStep,
             StrrchrStep, StrlenStep DEF S!Next
<1>3. StringInv => S!AsTheStandardMandates
  BY StringIsMandated
<1> QED BY <1>1, <1>2, <1>3, PTL DEF S!Spec
=============================================================================
