------------------------------ MODULE CharQueue ------------------------------
(***************************************************************************)
(* What the keyboard buffer promises: a first-in first-out queue of at     *)
(* most Capacity characters that refuses a character only when it is full. *)
(***************************************************************************)
EXTENDS Naturals, Sequences

CONSTANTS Chars, Capacity

VARIABLES
  queue,   \* the characters typed and not yet read
  got,     \* the result of the last read, <<>> while there is none
  dropped  \* the last character typed was refused

queueVars == <<queue, got, dropped>>

Init == queue = <<>> /\ got = <<>> /\ dropped = FALSE

Put(c) ==
  /\ Len(queue) < Capacity
  /\ queue' = Append(queue, c)
  /\ dropped' = FALSE
  /\ UNCHANGED got

Refuse ==
  /\ Len(queue) = Capacity
  /\ dropped' = TRUE
  /\ UNCHANGED <<queue, got>>

Get ==
  /\ queue # <<>>
  /\ queue' = Tail(queue)
  /\ got' = <<Head(queue)>>
  /\ UNCHANGED dropped

\* A new read begins.
Call ==
  /\ got' = <<>>
  /\ UNCHANGED <<queue, dropped>>

Next == Get \/ Call \/ Refuse \/ \E c \in Chars : Put(c)

Spec == Init /\ [][Next]_queueVars
=============================================================================
