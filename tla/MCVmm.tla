------------------------------- MODULE MCVmm -------------------------------
(***************************************************************************)
(* One page of the user half; in the kernel half two that share a page     *)
(* table under the bootloader's PML4 entry, one in a table of its own and  *)
(* one under a PML4 entry that is still to be made.                        *)
(***************************************************************************)
EXTENDS Vmm

MCVirts == { <<0, 0, 0, 0>>, <<1, 0, 0, 0>>, <<1, 0, 0, 2>>, <<2, 0, 0, 0>> }
=============================================================================
