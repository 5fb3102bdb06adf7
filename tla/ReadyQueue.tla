----------------------------- MODULE ReadyQueue -----------------------------
(***************************************************************************)
(* What a tick does to the queue of threads, the queue being a sequence,   *)
(* as module Scheduler has it: the promise of the list in scheduler.c.     *)
(***************************************************************************)
EXTENDS Naturals, Sequences, SequencesExt

CONSTANTS Threads, IDLE

VARIABLES queue, state, current

vars == <<queue, state, current>>

Init ==
  /\ queue = <<>> /\ current = IDLE
  /\ state = [t \in Threads \cup {IDLE} |-> "running"]

\* A new thread comes to the front.
Add(t) ==
  /\ t # current /\ t \notin ToSet(queue)
  /\ queue' = <<t>> \o queue
  /\ state' = [state EXCEPT ![t] = "ready"]
  /\ UNCHANGED current

\* The thread that runs goes to sleep or exits.
Leave(s) ==
  /\ current # IDLE
  /\ state' = [state EXCEPT ![current] = s]
  /\ UNCHANGED <<queue, current>>

\* The threads of due are ready; if the quantum is used up the first ready thread,
\* or else IDLE, runs, and the old one, unless dead or IDLE, goes to the front.
Tick(due, expired) ==
  LET woken  == [t \in DOMAIN state |->
                   IF t \in due \cap ToSet(queue) /\ state[t] = "blocked" THEN "ready" ELSE state[t]]
      live   == IF \A t \in ToSet(queue) : state[t] # "dead" THEN queue
                ELSE SelectSeq(queue, LAMBDA t : state[t] # "dead")
      ready  == {j \in DOMAIN live : woken[live[j]] = "ready"}
      first  == CHOOSE j \in ready : \A h \in ready : j <= h
      picked == IF ready = {} THEN IDLE ELSE live[first]
      rest   == IF ready = {} THEN live ELSE RemoveAt(live, first)
      stays  == current # IDLE /\ woken[current] # "dead"
  IN IF ~expired THEN queue' = live /\ state' = woken /\ UNCHANGED current
     ELSE /\ queue' = (IF stays THEN <<current>> ELSE <<>>) \o rest
          /\ current' = picked
          /\ state' = [t \in DOMAIN state |->
               IF t = picked THEN "running"
               ELSE IF t = current /\ stays /\ woken[t] = "running" THEN "ready" ELSE woken[t]]

Next ==
  \/ \E t \in Threads : Add(t)
  \/ \E s \in {"blocked", "dead"} : Leave(s)
  \/ \E due \in SUBSET Threads, expired \in BOOLEAN : Tick(due, expired)

Spec == Init /\ [][Next]_vars
=============================================================================
