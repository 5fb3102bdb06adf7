----------------------------- MODULE FileSystem -----------------------------
(***************************************************************************)
(* The file system: fs/tmpfs.c keeps the tree, fs/vfs.c walks it through   *)
(* vnodes, fs/initrd.c fills it from a tar archive at boot.  kmain is the  *)
(* only caller and interrupt handlers stay away, so a call is one action.  *)
(*                                                                         *)
(* Data abstractions:                                                      *)
(*  - a path is the sequence of the strings between its slashes:           *)
(*    "/etc//x" is <<"", "etc", "", "x">>, "" is <<"">>;                   *)
(*  - the archive is a sequence of 512-byte blocks, so offset counts       *)
(*    blocks; it is a file that tar made, whatever its members;            *)
(*  - a header has the fields name and prefix of struct tar_header; full   *)
(*    says that name takes all of its 100 bytes and has no NUL, and tail   *)
(*    is then its last component with the mode that follows it;            *)
(*  - kmalloc may fail at every call; no caller here checks, so that the   *)
(*    memset or memcpy that follows faults and stops the CPU.              *)
(***************************************************************************)
EXTENDS Naturals, Sequences, FiniteSets, SequencesExt, FiniteSetsExt

CONSTANTS
  BLOCK,       \* bytes of a tar block, 512
  WORD,        \* 2^64, the modulus of uint64_t
  Archives,    \* the archives the bootloader may pass, as sequences of blocks
  Lookups,     \* the paths kmain looks up, shorter than 256 characters, the range of
               \* cursor (vfs.c:18)
  Vnodes,      \* the vnodes the heap has room for; 1 is vfs_root
  Contents,    \* the contents of the files in the archives
  Offsets      \* the offsets and sizes of vfs_read

ASSUME BlockAssumption ==
  /\ BLOCK \in Nat \ {0} /\ WORD \in Nat \ {0}
  /\ Vnodes \subseteq Nat /\ 1 \in Vnodes
ASSUME PathsAssumption == \A path \in Lookups : path \in Seq(STRING) \ {<<>>}
ASSUME BytesAssumption ==                        \* lengths and offsets are uint64_t
  /\ <<>> \in Contents /\ \A data \in Contents : data \in Seq(Nat) /\ Len(data) < WORD
  /\ Offsets \subseteq 0 .. (WORD - 1)

VARIABLES
  phase,     \* "boot", "loading" the initrd, "up", or "halted" by a fault
  archive,   \* modules[0] of the bootloader
  offset,    \* the local offset of initrd_init, in blocks
  nodes,     \* the tmpfs_node objects; 1 is root_internal
  children,  \* per directory node, its list of children, first to last
  vnodes,    \* per vnode, the node behind it, 0 while it is not allocated
  open,      \* the vnodes that vfs_find_path has given to kmain
  call,      \* the last call of vfs_find_path or tmpfs_add_entry: path, node or 0
  got        \* the last vfs_read since: its node and arguments, and its result

vars == <<phase, archive, offset, nodes, children, vnodes, open, call, got>>
treeVars == <<nodes, children>>
callVars == <<call, got>>

NoRead == [node |-> 0, offset |-> 0, size |-> 0, ret |-> 0]

Init ==
  /\ phase = "boot"
  /\ archive \in Archives
  /\ offset = 0
  /\ nodes = <<>> /\ children = <<>>
  /\ vnodes = [v \in Vnodes |-> 0]
  /\ open = {}
  /\ call = [path |-> <<"">>, node |-> 0]
  /\ got = NoRead

Halts ==
  /\ phase' = "halted"
  /\ UNCHANGED <<archive, offset, treeVars, vnodes, open, callVars>>

\* root_internal and vfs_root
tmpfs_init ==
  /\ phase = "boot"
  /\ phase' = "loading"
  /\ nodes' = <<[name |-> "/", dir |-> TRUE, data |-> <<>>]>>
  /\ children' = << <<>> >>
  /\ vnodes' = [vnodes EXCEPT ![1] = 1]
  /\ UNCHANGED <<archive, offset, open, callVars>>

TmpfsInitFaults ==
  /\ phase = "boot"
  /\ Halts

-----------------------------------------------------------------------------
(***************************************************************************)
(* vfs_find_path and tmpfs_finddir.                                        *)
(***************************************************************************)

\* Mutant of Named: the last match of the list, not the first.
NamedLast(node, name) ==
  LET hits == {k \in 1..Len(children[node]) : nodes[children[node][k]].name = name}
  IN  IF hits = {} THEN 0 ELSE children[node][Max(hits)]

\* tmpfs_finddir: the first child with this name, 0 if there is none.
Named(node, name) ==
  LET hits == {k \in 1..Len(children[node]) : nodes[children[node][k]].name = name}
  IN  IF hits = {} THEN 0 ELSE children[node][Min(hits)]

\* Mutant of WalkStep: a component that is not found is returned from without
\* vfs_close.
WalkStepKeepsVnode(w, name) ==
  CASE w.node = 0           -> w
    [] w.node # 0 /\ ~nodes[w.node].dir -> [node |-> 0, lost |-> w.node]
    [] OTHER                ->
         [node |-> Named(w.node, name),
          lost |-> IF Named(w.node, name) = 0 /\ w.node # 1 THEN w.node ELSE 0]

\* One component of the walk: w.node is current_node, 0 once NULL is returned,
\* and w.lost the vnode of a file that is dropped without vfs_close.
WalkStep(w, name) ==
  CASE w.node = 0           -> w
    [] w.node # 0 /\ ~nodes[w.node].dir -> [node |-> 0, lost |-> w.node]
    [] OTHER                -> [w EXCEPT !.node = Named(w.node, name)]

\* What vfs_find_path returns (node) and loses; empty components are skipped,
\* so that a path of slashes alone is the root.  A component is cut at 127
\* characters, more than any name of a node has: it is not found either way.
Walk(path) ==
  LET after[k \in 0..Len(path)] ==
        IF k = 0 THEN [node |-> 1, lost |-> 0]
        ELSE IF path[k] = "" THEN after[k - 1]
        ELSE WalkStep(after[k - 1], path[k])
  IN  IF path = <<"">> THEN [node |-> 0, lost |-> 0] ELSE after[Len(path)]

\* The first component is found: kmalloc is called for its vnode.
NeedsVnode(path) ==
  \E k \in 1..Len(path) :
    path[k] # "" /\ (\A j \in 1 .. (k - 1) : path[j] = "") /\ Named(1, path[k]) # 0

Unused == {v \in Vnodes : vnodes[v] = 0}

\* The vnodes after the walk: those of the directories it passed are closed
\* again, the one it returns stays (vfs_root has its own), a lost one too.
VnodeFor(node) == IF node = 1 THEN 1 ELSE Min(Unused)

AfterWalk(w) ==
  IF w.node > 1 \/ w.lost # 0
  THEN [vnodes EXCEPT ![Min(Unused)] = IF w.node # 0 THEN w.node ELSE w.lost]
  ELSE vnodes

vfs_find_path(path) ==
  /\ phase = "up"
  /\ NeedsVnode(path) => Unused # {}
  /\ vnodes' = AfterWalk(Walk(path))
  /\ open' = IF Walk(path).node = 0 THEN open ELSE open \cup {VnodeFor(Walk(path).node)}
  /\ call' = [path |-> path, node |-> Walk(path).node]
  /\ got' = NoRead
  /\ UNCHANGED <<phase, archive, offset, treeVars>>

FindPathFaults(path) ==
  /\ phase = "up"
  /\ NeedsVnode(path)
  /\ Halts

\* Mutant of vfs_close: the test for vfs_root is missing.
VfsCloseRoot(v) ==
  /\ phase = "up"
  /\ v \in open
  /\ open' = open \ {v}
  /\ vnodes' = [vnodes EXCEPT ![v] = 0]
  /\ got' = NoRead
  /\ UNCHANGED <<phase, archive, offset, treeVars, call>>

vfs_close(v) ==
  /\ phase = "up"
  /\ v \in open
  /\ open' = open \ {v}
  /\ vnodes' = IF v = 1 THEN vnodes ELSE [vnodes EXCEPT ![v] = 0]
  /\ got' = NoRead
  /\ UNCHANGED <<phase, archive, offset, treeVars, call>>

\* Mutant of ReadLength: the size is not cut at the end of the file.
ReadUncut(len, off, size) == IF off >= len THEN 0 ELSE size

\* tmpfs_read: how much memcpy copies; offset + size is a uint64_t.
ReadLength(len, off, size) ==
  IF off >= len THEN 0
  ELSE IF (off + size) % WORD > len THEN len - off ELSE size

vfs_read(v, off, size) ==
  /\ phase = "up"
  /\ v \in open
  /\ got' = [node |-> vnodes[v], offset |-> off, size |-> size,
             ret |-> ReadLength(Len(nodes[vnodes[v]].data), off, size)]
  /\ UNCHANGED <<phase, archive, offset, treeVars, vnodes, open, call>>

-----------------------------------------------------------------------------
(***************************************************************************)
(* initrd_init and tmpfs_add_entry.                                        *)
(***************************************************************************)

\* The node that becomes the parent: the root when there is no slash, and when
\* what precedes the last slash is not a directory.
Parent(path) ==
  LET w == Walk(Front(path))
  IN  IF Len(path) > 1 /\ w.node # 0 /\ nodes[w.node].dir THEN w.node ELSE 1

\* tmpfs_create_file and tmpfs_create_dir: a directory has no data.
NewNode(name, dir, data) == [name |-> name, dir |-> dir, data |-> IF dir THEN <<>> ELSE data]

\* Mutant of tmpfs_add_entry: the new node replaces the list.
AddEntryOverwrites(path, dir, data) ==
  /\ nodes' = Append(nodes, NewNode(Last(path), dir, data))
  /\ children' = Append([children EXCEPT ![Parent(path)] = <<Len(nodes) + 1>>], <<>>)
  /\ vnodes' = IF Len(path) > 1 THEN AfterWalk(Walk(Front(path))) ELSE vnodes
  /\ call' = [path |-> path, node |-> Len(nodes) + 1]

\* The vnode of the parent is not closed (tmpfs.c:123).
tmpfs_add_entry(path, dir, data) ==
  /\ nodes' = Append(nodes, NewNode(Last(path), dir, data))
  /\ children' = Append([children EXCEPT ![Parent(path)] = <<Len(nodes) + 1>> \o @], <<>>)
  /\ vnodes' = IF Len(path) > 1 THEN AfterWalk(Walk(Front(path))) ELSE vnodes
  /\ call' = [path |-> path, node |-> Len(nodes) + 1]

Header == archive[offset + 1]

\* The string at header->name.  The code does not look at prefix, and strlen and
\* strcpy go on into mode when name has no NUL.
HeaderName(h) == IF h.full THEN Append(Front(h.name), h.tail) ELSE h.name

\* The loop has another member: it stops at the end of the archive, at a block
\* of zeros, where name[0] is 0, and at a header that is not "ustar".
AtMember ==
  /\ offset < Len(archive)
  /\ Header.kind = "header"
  /\ Header.ustar

Blocks(size) == (size + BLOCK - 1) \div BLOCK

\* Mutant of NextOffset: the size is rounded down to blocks.
NextOffsetRoundedDown == offset + 1 + (Header.size \div BLOCK)

NextOffset == offset + 1 + Blocks(Header.size)

\* The bytes that follow the header in block i of an archive, as many as it says.
ContentAt(a, i) ==
  [b \in 1..a[i].size |-> a[i + 1 + ((b - 1) \div BLOCK)].bytes[((b - 1) % BLOCK) + 1]]

\* The archive is one that tar made: the data of a file follow its header, and
\* zeros the last of them.
ASSUME ArchivesAssumption ==
  \A a \in Archives :
    /\ a \in Seq(ToSet(a))
    /\ \A i \in 1..Len(a) :
         \/ /\ a[i].kind = "header"
            /\ a[i].name \in Seq(STRING) \ {<<>>, <<"">>} /\ a[i].prefix \in Seq(STRING)
            /\ a[i].full \in BOOLEAN /\ a[i].tail \in STRING
            /\ a[i].dir \in BOOLEAN /\ a[i].size \in Nat
            /\ i + Blocks(a[i].size) =< Len(a)
            /\ \A j \in (i + 1) .. (i + Blocks(a[i].size)) : a[j].kind = "data"
            /\ ContentAt(a, i) \in Contents
         \/ /\ a[i].kind = "data"
            /\ \E h \in 1 .. (i - 1) : a[h].kind = "header" /\ i =< h + Blocks(a[h].size)
         \/ \A j \in i..Len(a) : a[j].kind = "zero"

\* The name without "./" in front.
Unprefixed(path) == IF Len(path) > 1 /\ Head(path) = "." THEN Tail(path) ELSE path

\* What is left of it without a slash at its end.
EntryPath(path) ==
  LET name == Unprefixed(path)
  IN  IF Len(name) > 1 /\ Last(name) = "" THEN Front(name) ELSE name

InitrdLoads ==
  /\ phase = "loading"
  /\ AtMember
  /\ Unprefixed(HeaderName(Header)) # <<"">>
  /\ LET path == EntryPath(HeaderName(Header))
     IN  /\ Len(path) > 1 /\ NeedsVnode(Front(path)) => Unused # {}
         /\ tmpfs_add_entry(path, Header.dir, ContentAt(archive, offset + 1))
  /\ offset' = NextOffset
  /\ UNCHANGED <<phase, archive, open, got>>

\* "./" itself
InitrdSkips ==
  /\ phase = "loading"
  /\ AtMember
  /\ Unprefixed(HeaderName(Header)) = <<"">>
  /\ offset' = NextOffset
  /\ UNCHANGED <<phase, archive, treeVars, vnodes, open, callVars>>

InitrdEnds ==
  /\ phase = "loading"
  /\ ~AtMember
  /\ phase' = "up"
  /\ UNCHANGED <<archive, offset, treeVars, vnodes, open, callVars>>

InitrdFaults ==
  /\ phase = "loading"
  /\ AtMember
  /\ Unprefixed(HeaderName(Header)) # <<"">>
  /\ Halts

Next ==
  \/ tmpfs_init
  \/ TmpfsInitFaults
  \/ InitrdLoads
  \/ InitrdSkips
  \/ InitrdEnds
  \/ InitrdFaults
  \/ \E path \in Lookups : vfs_find_path(path) \/ FindPathFaults(path)
  \/ \E v \in Vnodes : vfs_close(v)
  \/ \E v \in Vnodes, off, size \in Offsets : vfs_read(v, off, size)

Spec == Init /\ [][Next]_vars

-----------------------------------------------------------------------------
(***************************************************************************)
(* Properties.                                                             *)
(***************************************************************************)

Headers(a) == {b \in ToSet(a) : b.kind = "header"}

GivenPaths == Lookups \cup UNION {{HeaderName(b) : b \in Headers(a)} : a \in Archives}

\* A path without the empty components that slashes too many make.
Components(path) ==
  LET upto[k \in 0..Len(path)] ==
        IF k = 0 THEN <<>>
        ELSE IF path[k] = "" THEN upto[k - 1] ELSE Append(upto[k - 1], path[k])
  IN  upto[Len(path)]

\* The paths that an archive or a lookup names, the directories on the way, and
\* the paths of members that end up in the root.
AllPaths ==
  LET proper == {Components(path) : path \in Lookups \cup {EntryPath(p) : p \in GivenPaths}}
  IN  (UNION {{SubSeq(p, 1, n) : n \in 0..Len(p)} : p \in proper})
        \cup {<<Last(p)>> : p \in proper \ {<<>>}}

AllMembers == [dir : BOOLEAN, data : Contents]

TypeOK ==
  /\ phase \in {"boot", "loading", "up", "halted"}
  /\ archive \in Archives /\ offset \in 0..Len(archive)
  /\ nodes \in Seq([name : {"/"} \cup UNION {ToSet(path) : path \in GivenPaths},
                    dir : BOOLEAN, data : Contents])
  /\ children \in Seq(Seq(1..Len(nodes)))
  /\ vnodes \in [Vnodes -> 0..Len(nodes)]
  /\ open \in SUBSET Vnodes
  /\ call.path \in {<<"">>} \cup {EntryPath(path) : path \in GivenPaths} \cup Lookups
  /\ call.node \in 0..Len(nodes)
  /\ got \in [node : 0..Len(nodes), offset : {0} \cup Offsets, size : {0} \cup Offsets,
             ret : 0 .. (WORD - 1)]

Public(node) == [dir |-> nodes[node].dir, data |-> nodes[node].data]

\* What a walk can reach, by path.
Tree ==
  [path \in {p \in AllPaths : nodes # <<>> /\ p # <<>> /\ Walk(p).node # 0} |->
     Public(Walk(path).node)]

\* NULL, seen from outside: no member is a directory with data.
Nothing == [dir |-> TRUE, data |-> <<0>>]

\* The last call was with the empty string, or made a node whose name is empty.
Unnamed == call.path = <<"">> \/ (call.node # 0 /\ nodes[call.node].name = "")

Promise == INSTANCE PathMap WITH
  Paths <- AllPaths, Members <- AllMembers, None <- Nothing, NoPath <- <<"">>,
  tree <- Tree,
  added <- IF nodes = <<>> THEN 0 ELSE Len(nodes) - 1,
  asked <- IF Unnamed THEN <<"">> ELSE Components(call.path),
  found <- IF call.node = 0 THEN Nothing ELSE Public(call.node)

\* The tree of tmpfs.c seen through vfs_find_path is a map from paths: an entry
\* changes its own path and what it shadows and nothing else, wherever in the
\* lists it is put, and slashes too many make no difference to a lookup; one whose
\* name ends in two slashes, or is "/", is put where no lookup finds it.
ImplementsPathMap == Promise!Spec

\* The members of an archive, read off its blocks without initrd_init: their places,
\* and their paths, which begin in prefix, without "./" in front and a slash at the
\* end.
Positions == {i \in 1..Len(archive) : archive[i].kind = "header"}
MemberPath(i) ==
  LET path == archive[i].prefix \o archive[i].name
  IN  SubSeq(path, IF Len(path) > 1 /\ path[1] = "." THEN 2 ELSE 1,
                   IF path[Len(path)] = "" THEN Len(path) - 1 ELSE Len(path))
Members == {i \in Positions : MemberPath(i) # <<>>}

\* An archive of a directory tree: all headers are ustar, no component is empty, no
\* path comes twice, and a directory comes before what is in it.
Orderly ==
  /\ \A i \in Positions : archive[i].ustar /\ \A n \in 1..Len(MemberPath(i)) : MemberPath(i)[n] # ""
  /\ \A i, j \in Positions : i # j => MemberPath(i) # MemberPath(j)
  /\ \A j \in Positions : Len(MemberPath(j)) > 1 =>
       \E i \in Positions : i < j /\ archive[i].dir /\ MemberPath(i) = Front(MemberPath(j))

\* Every path has less than 100 characters: tar puts it into name, with a NUL.
NamesFit == \A i \in Positions : archive[i].prefix = <<>> /\ ~archive[i].full

\* Every member is found at its path with its own bytes, and nothing else is there.
MembersAreThere ==
  /\ Len(nodes) = Cardinality(Members) + 1
  /\ \A i \in Members :
       LET node == Walk(MemberPath(i)).node
       IN  /\ node # 0
           /\ nodes[node].dir = archive[i].dir
           /\ nodes[node].data = IF archive[i].dir THEN <<>> ELSE ContentAt(archive, i)

\* Once initrd_init is done with an archive of a directory tree whose paths have less
\* than 100 characters, its members are there: the walk over the archive
\* (initrd.c:84) is never off by a block, and no "./" or slash at the end is taken for
\* a part of a name.
ArchiveIsLoaded == phase = "up" /\ Orderly /\ NamesFit => MembersAreThere

\* A node is in one list, once, of a directory, or it is the root: whatever the
\* paths of the archive, no node is lost and none can contain itself.
TreeIsSound ==
  /\ \A node \in 2..Len(nodes) :
       \E dir \in 1 .. (node - 1) :
         /\ nodes[dir].dir
         /\ \A d \in 1..Len(nodes) : node \in ToSet(children[d]) <=> d = dir
  /\ \A d \in 1..Len(nodes) : IsInjective(children[d]) /\ 1 \notin ToSet(children[d])

\* vfs_close never frees what somebody may still use: vfs_root, where every walk
\* begins, and the vnodes kmain holds.
HandlesStayValid ==
  /\ TypeOK
  /\ phase \in {"loading", "up"} =>
       vnodes[1] = 1 /\ \A v \in open : vnodes[v] # 0

\* Vnodes that nobody holds and nobody will free.
Leaked == {v \in Vnodes \ (open \cup {1}) : vnodes[v] # 0}

\* A file stands in the path where a component follows.
ThroughFile(path) ==
  \E m, n \in 1..Len(path) :
    /\ m < n /\ path[n] # ""
    /\ LET node == Walk(SubSeq(path, 1, m)).node IN node # 0 /\ ~nodes[node].dir

\* Whatever a lookup finds or misses, the vnodes it makes on its way are closed
\* again, except that of a file in the place of a directory (vfs.c:42-45).
LookupsBalance ==
  [][phase = "up" =>
       Leaked' = Leaked \/ (call'.node = 0 /\ ThroughFile(call'.path))]_vars

\* tmpfs_read returns the bytes that the file has in the requested range, as long
\* as offset + size does not wrap around (tmpfs.c:41).
ReadIsExact ==
  got.node # 0 /\ got.offset + got.size < WORD =>
    got.ret = Cardinality({k \in got.offset .. (got.offset + got.size - 1) :
                             k < Len(nodes[got.node].data)})
=============================================================================
