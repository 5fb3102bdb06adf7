------------------------------- MODULE MCPmm -------------------------------
(***************************************************************************)
(* Memory maps for Pmm: the bitmap in the first and in a later entry, on   *)
(* one page and on two, below page 0, without room, and no memory at all.  *)
(***************************************************************************)
EXTENDS Pmm

use(base, length) == [usable |-> TRUE, base |-> base, length |-> length]
reserved(base, length) == [usable |-> FALSE, base |-> base, length |-> length]

MCMemMaps == {
  <<reserved(0, 1), use(1, 5)>>,
  <<use(1, 2), reserved(3, 11), use(14, 5)>>,
  <<use(1, 1), reserved(2, 10), use(12, 6)>>,
  <<use(0, 3), reserved(3, 1), use(4, 3)>>,
  <<use(1, 1), reserved(2, 30), use(32, 1)>>,
  <<reserved(0, 4)>> }
=============================================================================
