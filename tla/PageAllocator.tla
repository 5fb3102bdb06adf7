---------------------------- MODULE PageAllocator ----------------------------
(***************************************************************************)
(* What the physical memory manager promises to its callers (heap.c and    *)
(* vmm.c): pmm_alloc hands out some page that nobody holds, and answers 0  *)
(* only when there is none; pmm_free takes a page back.                    *)
(***************************************************************************)
EXTENDS Naturals

VARIABLES
  avail,   \* the pages pmm_alloc may hand out
  held,    \* the pages the callers hold
  ret      \* the last result of pmm_alloc, as a page number

allocVars == <<avail, held, ret>>

Init == avail = {} /\ held = {} /\ ret = 0

\* pmm_init, once: it never offers page 0, whose address means failure.
Populate ==
  /\ held = {} /\ avail = {}
  /\ avail' \in SUBSET (Nat \ {0})
  /\ UNCHANGED <<held, ret>>

Alloc ==
  \E p \in avail :
    /\ avail' = avail \ {p}
    /\ held' = held \cup {p}
    /\ ret' = p

AllocFails ==
  /\ avail = {}
  /\ ret' = 0
  /\ UNCHANGED <<avail, held>>

Free ==
  \E p \in held :
    /\ avail' = avail \cup {p}
    /\ held' = held \ {p}
    /\ UNCHANGED ret

Next == Populate \/ Alloc \/ AllocFails \/ Free

Spec == Init /\ [][Next]_allocVars
=============================================================================
