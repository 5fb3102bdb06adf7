------------------------------ MODULE MCTraps -------------------------------
(* A byte has two values, an address eight bytes: every address of tss, and   *)
(* stubs spread over all addresses.                                           *)
EXTENDS Traps

MCStubs == [v \in Vectors |-> (5 * v + 3) % 256]

=============================================================================
