------------------------------ MODULE RunQueue ------------------------------
(***************************************************************************)
(* scheduler_tick_irq on the list itself (scheduler.c:69-150): run_queue   *)
(* and thread_t.next are pointers, and each turn of the three loops is a   *)
(* step.  Module Scheduler takes the list for a sequence and the tick for  *)
(* one action; here it is shown to be what the loops come to.              *)
(***************************************************************************)
EXTENDS Naturals, Sequences, FiniteSets

CONSTANTS
  Threads,      \* the objects of thread_create
  IDLE,         \* &idle_thread
  NULL

ASSUME PointersAssumption ==
  IsFiniteSet(Threads) /\ IDLE \notin Threads /\ NULL \notin Threads \cup {IDLE}

VARIABLES
  run_queue, next, state, current,
  created,            \* the threads that exist
  pc, t, prev,        \* the loop the tick is in and its pointers
  due, expired,       \* inputs of the tick: whose wake_tick has come, and the quantum
  picked,             \* the local next of the tick
  before              \* history: queue, states and current before the tick

vars == <<run_queue, next, state, current, created, pc, t, prev, due, expired, picked, before>>

Objects == Threads \cup {IDLE}

\* The list from a pointer, if it ends: at most as long as there are threads.
ListFrom(p) ==
  LET walk[k \in 0 .. Cardinality(Threads)] ==
        IF k = 0 THEN <<p>>
        ELSE IF walk[k - 1][Len(walk[k - 1])] = NULL THEN walk[k - 1]
        ELSE Append(walk[k - 1], next[walk[k - 1][Len(walk[k - 1])]])
      all == walk[Cardinality(Threads)]
  IN IF all[Len(all)] = NULL THEN SubSeq(all, 1, Len(all) - 1) ELSE all

TypeOK ==
  /\ run_queue \in Threads \cup {NULL} /\ next \in [Threads -> Threads \cup {NULL}]
  /\ state \in [Objects -> {"ready", "running", "blocked", "dead"}]
  /\ current \in Objects /\ created \subseteq Threads
  /\ pc \in {"out", "wake", "reap", "pick", "switch"}
  /\ {t, prev} \subseteq Threads \cup {NULL}
  /\ due \subseteq Threads /\ expired \in BOOLEAN
  /\ picked \in Objects \cup {NULL}

Init ==
  /\ run_queue = NULL /\ next = [x \in Threads |-> NULL]
  /\ state = [x \in Objects |-> "running"] /\ current = IDLE /\ created = {}
  /\ pc = "out" /\ t = NULL /\ prev = NULL /\ due = {} /\ expired = FALSE /\ picked = NULL
  /\ before = <<>>

loopVars == <<pc, t, prev, due, expired, picked, before>>

-----------------------------------------------------------------------------

\* thread_create and scheduler_add_thread; kmain holds the lock (module Scheduler
\* has the two stores one by one).
scheduler_add_thread(th) ==
  /\ pc = "out" /\ th \notin created
  /\ created' = created \cup {th}
  /\ state' = [state EXCEPT ![th] = "ready"]
  /\ next' = [next EXCEPT ![th] = run_queue]
  /\ run_queue' = th
  /\ UNCHANGED <<current, loopVars>>

\* thread_sleep and thread_exit.
Leave(s) ==
  /\ pc = "out" /\ current # IDLE /\ state[current] = "running"
  /\ state' = [state EXCEPT ![current] = s]
  /\ UNCHANGED <<run_queue, next, current, created, loopVars>>

TickBegins ==
  /\ pc = "out" /\ pc' = "wake"
  /\ due' \in SUBSET {x \in Threads : state[x] = "blocked"}
  /\ expired' \in BOOLEAN
  /\ t' = run_queue /\ prev' = NULL /\ picked' = NULL
  /\ before' = <<ListFrom(run_queue), state, current>>
  /\ UNCHANGED <<run_queue, next, state, current, created>>

\* The end of a loop: t is NULL and the next loop begins at the head.
LoopEnds(loop, then) ==
  /\ pc = loop /\ t = NULL
  /\ pc' = then /\ t' = run_queue /\ prev' = NULL
  /\ UNCHANGED <<run_queue, next, state, current, created, due, expired, picked, before>>

WakeTurn ==
  /\ pc = "wake" /\ t # NULL
  /\ state' = [state EXCEPT ![t] = IF @ = "blocked" /\ t \in due THEN "ready" ELSE @]
  /\ t' = next[t]
  /\ UNCHANGED <<run_queue, next, current, created, pc, prev, due, expired, picked, before>>

\* Unlinks x, which follows prev or is the head.
Unlink(x) ==
  IF prev # NULL
  THEN next' = [next EXCEPT ![prev] = next[x]] /\ UNCHANGED run_queue
  ELSE run_queue' = next[x] /\ UNCHANGED next

\* A dead thread is unlinked and destroyed; none is ever in the list, since a
\* thread dies while it is current and is not put back.
ReapTurn ==
  /\ pc = "reap" /\ t # NULL
  /\ t' = next[t]
  /\ IF state[t] = "dead"
     THEN Unlink(t) /\ created' = created \ {t} /\ UNCHANGED prev
     ELSE prev' = t /\ UNCHANGED <<run_queue, next, created>>
  /\ UNCHANGED <<state, current, pc, due, expired, picked, before>>

\* if (current->quantum > 0) return
TickReturns ==
  /\ pc = "reap" /\ t = NULL /\ ~expired
  /\ pc' = "out"
  /\ UNCHANGED <<run_queue, next, state, current, created, t, prev, due, expired, picked, before>>

\* Mutant of Taken: the candidate is always taken for the head.
TakenFromHead(x) == run_queue' = next[x] /\ UNCHANGED next

Taken(x) == Unlink(x)

PickTurn ==
  /\ pc = "pick" /\ t # NULL
  /\ IF state[t] = "ready"
     THEN Taken(t) /\ picked' = t /\ pc' = "switch" /\ UNCHANGED <<t, prev>>
     ELSE prev' = t /\ t' = next[t] /\ UNCHANGED <<run_queue, next, picked, pc>>
  /\ UNCHANGED <<state, current, created, due, expired, before>>

PickNone ==
  /\ pc = "pick" /\ t = NULL
  /\ picked' = IDLE /\ pc' = "switch"
  /\ UNCHANGED <<run_queue, next, state, current, created, t, prev, due, expired, before>>

\* Mutant of Pushed: run_queue = current comes before current->next = run_queue.
PushedSwapped(x) ==
  next' = [next EXCEPT ![x] = x] /\ run_queue' = x

Pushed(x) ==
  next' = [next EXCEPT ![x] = run_queue] /\ run_queue' = x

\* current is put in front, except the idle thread and a dead one; current = next.
Switch ==
  LET stays == current # IDLE /\ state[current] # "dead" IN
  /\ pc = "switch" /\ pc' = "out"
  /\ IF stays THEN Pushed(current) ELSE UNCHANGED <<next, run_queue>>
  /\ state' = [[state EXCEPT ![current] = IF stays /\ @ = "running" THEN "ready" ELSE @]
                 EXCEPT ![picked] = "running"]
  /\ current' = picked
  /\ UNCHANGED <<created, t, prev, due, expired, picked, before>>

Turn ==
  \/ WakeTurn \/ LoopEnds("wake", "reap") \/ ReapTurn
  \/ TickReturns \/ (expired /\ LoopEnds("reap", "pick"))
  \/ PickTurn \/ PickNone \/ Switch

Next ==
  \/ \E th \in Threads : scheduler_add_thread(th)
  \/ \E s \in {"blocked", "dead"} : Leave(s)
  \/ TickBegins
  \/ Turn

Spec == Init /\ [][Next]_vars

-----------------------------------------------------------------------------
(***************************************************************************)
(* Properties.                                                             *)
(***************************************************************************)

\* The list ends, no thread is in it twice, and neither the running thread nor one
\* that has been destroyed is: at each turn, also between an unlink and a link.
ListIsSound ==
  LET list == ListFrom(run_queue) IN
  /\ TypeOK
  /\ Len(list) <= Cardinality(created)
  /\ \A j, k \in DOMAIN list : list[j] = list[k] => j = k
  /\ \A j \in DOMAIN list : list[j] \in created \ {current, picked}

Seen == IF pc = "out" THEN <<ListFrom(run_queue), state, current>> ELSE before

Promise == INSTANCE ReadyQueue WITH queue <- Seen[1], state <- Seen[2], current <- Seen[3]

\* From outside, a tick is one step on a sequence: wake, reap, take the first ready
\* thread, put the old one in front.
ImplementsReadyQueue == Promise!Spec
=============================================================================
