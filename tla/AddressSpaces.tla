---------------------------- MODULE AddressSpaces ----------------------------
(***************************************************************************)
(* What the virtual memory manager promises: every pagemap is a function   *)
(* from virtual pages to what is mapped there.  A change concerns one page *)
(* of one pagemap, and of the others at most where the page belongs to the *)
(* kernel's half, which a new pagemap takes over from the current one.     *)
(***************************************************************************)
EXTENDS Naturals

CONSTANTS
  Virts, KernelVirts, Unmapped,
  Fallback     \* the pagemap that every request without memory gets

VARIABLES
  space,    \* per pagemap that exists, what its virtual pages are mapped to
  current   \* the pagemap the CPU uses

spaceVars == <<space, current>>

\* One page changes, in one pagemap or alike in several that share it.
Change(virt) ==
  LET before == space
      after == space'
      changed == {q \in DOMAIN before : after[q] # before[q]}
  IN  /\ DOMAIN after = DOMAIN before
      /\ \A q \in changed : \A w \in Virts \ {virt} : after[q][w] = before[q][w]
      /\ \A p, q \in changed : p = q \/ (virt \in KernelVirts /\ after[p][virt] = after[q][virt])
      /\ UNCHANGED current

New ==
  \E pm \in DOMAIN space' :
    /\ DOMAIN space' = DOMAIN space \cup {pm}
    /\ pm \notin DOMAIN space \/ pm = Fallback
    /\ \A q \in DOMAIN space \ {pm} : space'[q] = space[q]
    /\ space'[pm] = [v \in Virts |-> IF v \in KernelVirts THEN space[current][v] ELSE Unmapped]
    /\ UNCHANGED current

Switch ==
  /\ current' \in DOMAIN space
  /\ UNCHANGED space

Next ==
  \/ Switch
  \/ New
  \/ \E virt \in Virts : Change(virt)

Spec == [][Next]_spaceVars
=============================================================================
