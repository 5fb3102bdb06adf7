------------------------------- MODULE MCHeap -------------------------------
(***************************************************************************)
(* Two caches: two objects to a page of 16 bytes, and one.  Sizes 1 and    *)
(* 5 go to them, 10 to neither, 13 takes a page and 14 two.                *)
(***************************************************************************)
EXTENDS Heap

MCSlabSizes == <<6, 12>>
=============================================================================
