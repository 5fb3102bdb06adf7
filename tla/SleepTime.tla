------------------------------ MODULE SleepTime ------------------------------
(***************************************************************************)
(* How long thread_sleep(ms) lasts, in periods of the LAPIC timer.  The    *)
(* behaviours are those of Scheduler; the history variable due counts what *)
(* timer_ticks should count, the interrupts of the timer alone.            *)
(***************************************************************************)
EXTENDS Scheduler

VARIABLE due    \* timer periods missing until the last thread_sleep is over

timeVars == <<vars, due>>

PeriodsLeft == [t \in Threads |-> IF due[t] > 0 THEN due[t] - 1 ELSE 0]

InitTime == Init /\ due = [t \in Threads |-> 0]

NextTime ==
  \/ TimerInterrupt /\ due' = PeriodsLeft
  \/ \E ms \in 0..MaxSleep : ThreadSleep(ms) /\ due' = [due EXCEPT ![current] = ms]
  \/ /\ ThreadExit \/ CallYield \/ YieldClearsQuantum \/ YieldInterrupt \/ KmainStep
     /\ UNCHANGED due

SpecTime == InitTime /\ [][NextTime]_timeVars

\* thread_sleep(ms) (thread.h:33) returns after ms interrupts of the 1 kHz
\* timer, the only thing isr.c:40 takes vector 32 for ("// timer tick").
SleepLastsItsMs ==
  current \in Threads /\ cpu.rip = "run" => due[current] = 0
=============================================================================
