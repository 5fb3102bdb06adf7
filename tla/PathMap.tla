------------------------------ MODULE PathMap ------------------------------
(***************************************************************************)
(* What the file system promises: a map from paths to files and            *)
(* directories.  A member that is added under an existing path replaces    *)
(* what was there, with everything below it; one whose parent is not a     *)
(* directory is added to the root.                                         *)
(***************************************************************************)
EXTENDS Naturals, Sequences, SequencesExt

CONSTANTS
  Paths,     \* sequences of names, <<>> for the root
  Members,   \* the files and directories there can be
  None,      \* the answer when there is nothing at a path
  NoPath     \* stands for the path of a call that names none

VARIABLES
  tree,    \* the members, by path; the root is not in the domain
  added,   \* how many members have been added
  asked,   \* the path of the last call
  found    \* the member it returned: what is there, or what was added

treeVars == <<tree, added, asked, found>>

Root == [dir |-> TRUE, data |-> <<>>]

Lookup(path) ==
  IF path = <<>> THEN Root
  ELSE IF path \in DOMAIN tree THEN tree[path] ELSE None

Init == DOMAIN tree = {} /\ added = 0 /\ found = None

\* The path under which a member is added.
Target(path) ==
  LET parent == Lookup(Front(path))
  IN  IF parent # None /\ parent.dir THEN path ELSE <<Last(path)>>

Add(path) ==
  LET target == Target(path)
      kept == {p \in DOMAIN tree : ~IsPrefix(target, p)}
  IN  /\ added' = added + 1
      /\ DOMAIN tree' = kept \cup {target}
      /\ tree'[target] \in Members
      /\ asked' = path /\ found' = tree'[target]
      /\ \A p \in kept : tree'[p] = tree[p]

\* A member without a name: no path leads to it.
AddUnnamed ==
  /\ added' = added + 1
  /\ asked' = NoPath /\ found' \in Members
  /\ tree' = tree

Find(path) ==
  /\ asked' = path
  /\ found' = Lookup(path)
  /\ UNCHANGED <<tree, added>>

Next ==
  \/ \E path \in Paths \cup {NoPath} : Find(path)
  \/ AddUnnamed
  \/ \E path \in Paths \ {<<>>} : Add(path)

Spec == Init /\ [][Next]_treeVars
=============================================================================
