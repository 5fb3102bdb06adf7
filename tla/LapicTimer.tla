----------------------------- MODULE LapicTimer -----------------------------
(***************************************************************************)
(* lapic_timer_init and lapic_timer_calibrate (lapic_timer.c): the local   *)
(* APIC timer runs while channel 0 of the PIT counts down 10 ms in mode 0; *)
(* the loop polls the PIT, a byte at a time, until its counter has grown.  *)
(* Time is the clock of the PIT, which ticks between any two accesses.     *)
(***************************************************************************)
EXTENDS Naturals

CONSTANTS
  BYTE,         \* the values of a byte, 256
  PIT_TICKS,    \* 10 ms of the PIT, 11931
  RATE,         \* how often the APIC timer, divided by 16, ticks in a PIT clock
  MaxGap        \* bound: PIT clocks from one poll to the next

WRAP == BYTE * BYTE       \* the counter is a uint16_t

VARIABLES
  tpc,
  counter, loading,   \* the counter, and whether the count written waits for the clock
  latched,            \* the count held by the latch command
  lo, last,           \* the locals of the loop
  count,              \* the initial count of the periodic timer
  gap,                \* clocks since the last poll
  elapsed,            \* history: clocks since the count was loaded
  since,              \* clocks since the APIC timer was started
  stale               \* history: a poll came before the count was loaded

vars == <<tpc, counter, loading, latched, lo, last, count, gap, elapsed, since, stale>>

Clocks == 0 .. (2 * WRAP)       \* the clocks are counted up to two turns of the PIT
CountUp(x) == IF x = 2 * WRAP THEN x ELSE x + 1

TypeOK ==
  /\ tpc \in {"start", "load", "latch", "low", "high", "read", "done"}
  /\ {counter, latched, last} \subseteq 0 .. (WRAP - 1) /\ lo \in 0 .. (BYTE - 1)
  /\ {loading, stale} \subseteq BOOLEAN
  /\ count \in Nat
  /\ gap \in 0..MaxGap /\ {elapsed, since} \subseteq Clocks

Init ==
  /\ tpc = "start"
  /\ counter = 0 /\ loading = FALSE /\ latched = 0
  /\ lo = 0 /\ last = 0 /\ count = 0
  /\ gap = 0 /\ elapsed = 0 /\ since = 0 /\ stale = FALSE

-----------------------------------------------------------------------------

\* The PIT (external): a count is loaded by the clock after its second byte, and
\* goes on from 0 to the highest value.
Clock ==
  /\ tpc \notin {"start", "done"} /\ gap < MaxGap
  /\ gap' = gap + 1 /\ since' = CountUp(since)
  /\ loading' = FALSE
  /\ counter' = IF loading THEN PIT_TICKS ELSE (counter + WRAP - 1) % WRAP
  /\ elapsed' = IF loading \/ tpc = "load" THEN 0 ELSE CountUp(elapsed)
  /\ UNCHANGED <<tpc, latched, lo, last, count, stale>>

\* LAPIC_TIMER_DIV, LAPIC_TIMER masked, LAPIC_TIMER_INIT: the timer runs; the
\* counter of the PIT, which has been running all along, is anywhere.
StartTimer ==
  /\ tpc = "start" /\ tpc' = "load"
  /\ counter' \in 0 .. (WRAP - 1)
  /\ since' = 0 /\ gap' = 0
  /\ UNCHANGED <<loading, latched, lo, last, count, elapsed, stale>>

\* The three outb: mode 0, then the two bytes of the count.
WriteCount ==
  /\ tpc = "load" /\ tpc' = "latch"
  /\ loading' = TRUE /\ gap' = 0
  /\ last' = WRAP - 1      \* 0xFFFF
  /\ UNCHANGED <<counter, latched, lo, count, elapsed, since, stale>>

Latch ==
  /\ tpc = "latch" /\ tpc' = "low"
  /\ latched' = counter /\ gap' = 0
  /\ stale' = (stale \/ loading)
  /\ UNCHANGED <<counter, loading, lo, last, count, elapsed, since>>

\* Mutant of Held: the bytes are read without the latch.
HeldNot == counter

\* What the two inb return the bytes of.
Held == latched

ReadLow ==
  /\ tpc = "low" /\ tpc' = "high"
  /\ lo' = Held % BYTE
  /\ UNCHANGED <<counter, loading, latched, last, count, gap, elapsed, since, stale>>

ReadHigh ==
  /\ tpc = "high"
  /\ LET curr == BYTE * (Held \div BYTE) + lo IN
       \/ curr > last /\ tpc' = "read" /\ UNCHANGED last
       \/ curr <= last /\ tpc' = "latch" /\ last' = curr
  /\ UNCHANGED <<counter, loading, latched, lo, count, gap, elapsed, since, stale>>

\* 0xFFFFFFFF - LAPIC_TIMER_CURR
Measured == RATE * since

\* lapic_freq is ticks * 16 * 100, the periodic timer is loaded with 1 ms of it;
\* the locals are gone, and the counter is not looked at again.
lapic_timer_init ==
  /\ tpc = "read" /\ tpc' = "done"
  /\ count' = ((Measured * 16 * 100) \div 16) \div 1000
  /\ counter' = 0 /\ loading' = FALSE /\ latched' = 0 /\ lo' = 0 /\ last' = 0
  /\ gap' = 0 /\ elapsed' = 0 /\ since' = 0
  /\ UNCHANGED stale

-----------------------------------------------------------------------------
(***************************************************************************)
(* Properties.                                                             *)
(***************************************************************************)

\* The loop ends when the counter has passed 0 (lapic_timer.c:45), and at the first
\* poll after: never because the two bytes are from two counts.  A first poll that
\* comes before the count is loaded may end it too soon.
LoopEndsAtWrap ==
  (tpc = "read" /\ ~stale) => elapsed \in (PIT_TICKS + 1) .. (PIT_TICKS + 2 * MaxGap)

\* The timer is loaded with 1 ms of its own ticks, a tenth of what PIT_TICKS clocks
\* are worth, up to the three polls' gaps before, in and after the loop.
PeriodIsOneMs ==
  (tpc = "done" /\ ~stale) =>
    /\ 10 * count + 10 > RATE * PIT_TICKS
    /\ 10 * count <= RATE * (PIT_TICKS + 1 + 3 * MaxGap)
=============================================================================
