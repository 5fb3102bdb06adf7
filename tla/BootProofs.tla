----------------------------- MODULE BootProofs -----------------------------
(***************************************************************************)
(* TLAPS proofs about Boot, for every machine, every rate of the timer and *)
(* every time between two polls of the calibration.                        *)
(***************************************************************************)
EXTENDS Boot, Lemmas

-----------------------------------------------------------------------------
(***************************************************************************)
(* The inductive invariant.                                                *)
(***************************************************************************)

\* kmain runs with interrupts off; a handler too, and what it works on is in
\* service.  Only the two vectors of the kernel are ever requested.
Handled ==
  /\ step <= 11 => ~intr /\ handling = <<>>
  /\ intr => handling = <<>>
  /\ EoiMatches
  /\ irr \subseteq {TIMER, KEY}

\* What the calls of kmain before this one have set up.
SetUp ==
  /\ step > 1 => gates = (0..31) \cup (32..47) /\ pic_base = 32
  /\ step > 3 => lvt0_masked
  /\ step > 6 => pic_masked
  /\ step > 5 <=> lvt_timer = "periodic"

\* ioapic_init: nothing is written before the version is read, the index does not
\* wrap on an I/O APIC, and the destinations below it are 0.
Index ==
  /\ (step < 4 \/ max_redir = -1) => i = 0 /\ ~half /\ chip = "memory"
  /\ step < 4 => max_redir = -1
  /\ chip # "memory" => max_redir \in 2 .. (UINT8 - 2)
  /\ (step = 4 /\ half) => i <= max_redir
  /\ step > 4 => (i > max_redir /\ max_redir # -1)
  /\ (chip = "isa" /\ step >= 4) => i <= UINT8 - 1 /\ \A p \in 0 .. (i - 1) : redtbl[p].dest = 0
  /\ step \in {5, 6} => ~half

\* An input is opened by its ioapic_redirect, on the I/O APIC of the ISA lines
\* only, and has the vector from then on.
Opened(p, at) == chip = "isa" /\ ((step = at /\ half) \/ step > at)

Inputs ==
  /\ Opened(1, 7) => redtbl[1].vector = KEY
  /\ Opened(0, 9) => redtbl[0].vector = TIMER
  /\ \A p \in Pins : ~redtbl[p].masked => (p = 1 /\ Opened(1, 7)) \/ (p = 0 /\ Opened(0, 9))

\* The PIT counts down from PIT_TICKS, once, and its output rises when it comes to
\* 0: in the loop, or after it if the loop has ended too soon.
PitCounts ==
  /\ (step < 5 \/ (step = 5 /\ tpc \in {"start", "load"})) <=> pit = "periodic"
  /\ step < 5 => tpc = "start"
  /\ step > 5 <=> tpc = "done"
  /\ (step = 5 /\ pit = "counting" /\ ~loading) => counter >= 1 /\ counter + elapsed = PIT_TICKS
  /\ (step > 5 /\ ~stale) => pit = "expired"

\* The ticks counted, and those on their way: a request for the timer's vector, and a
\* handler that has not counted yet.  The PIT adds one at most, and late.
Pending == IF TIMER \in irr THEN 1 ELSE 0
InBody  == IF handling # <<>> /\ handling[1] = TIMER /\ handling[3] = "body" THEN 1 ELSE 0
Late    == IF stale /\ pit = "expired" THEN 1 ELSE 0

Ticks == timer_ticks + Pending + InBody <= periods + yields + Late

\* The counter, by the clocks since the count was loaded.
CountedDown(n) == IF n <= PIT_TICKS THEN PIT_TICKS - n ELSE PIT_TICKS + T!WRAP - n

\* The last poll was gap clocks ago: the loop goes on if the counter had not passed
\* 0 by then, and each poll but the first comes at most MaxGap clocks after one
\* that had not seen it pass.
Polled == elapsed - gap

InLoop ==
  /\ loading => tpc = "latch" /\ gap = 0 /\ since <= MaxGap /\ last = T!WRAP - 1
  /\ ~loading =>
       /\ elapsed <= since /\ since <= elapsed + MaxGap + 1
       /\ counter = CountedDown(elapsed)
       /\ tpc = "latch" => \/ last = T!WRAP - 1 /\ elapsed + 1 = gap
                           \/ Polled \in 0..PIT_TICKS /\ last = PIT_TICKS - Polled
       /\ tpc \in {"low", "high"} =>
            /\ latched = CountedDown(Polled)
            /\ \/ Polled \in 0..PIT_TICKS /\ latched <= last
               \/ Polled \in (PIT_TICKS + 1) .. (PIT_TICKS + MaxGap) /\ latched > last
       /\ tpc = "high" => lo = latched % BYTE
       /\ tpc = "read" => Polled \in (PIT_TICKS + 1) .. (PIT_TICKS + MaxGap)

Calibrated ==
  /\ tpc = "load" => since <= gap
  /\ (tpc \in {"latch", "low", "high", "read"} /\ ~stale) => InLoop
  /\ T!PeriodIsOneMs

Inv ==
  /\ InterruptsTypeOK /\ Handled /\ SetUp /\ Index /\ Inputs
  /\ T!TypeOK /\ Calibrated /\ PitCounts /\ Ticks

-----------------------------------------------------------------------------
(***************************************************************************)
(* The places of the calls of kmain.                                       *)
(***************************************************************************)

\* The calls of kmain, in the order of main.c:137-164.
LEMMA KmainCalls ==
  /\ Len(Kmain) = 11
  /\ Kmain[1] = <<"idt_init">> /\ Kmain[2] = <<"acpi">> /\ Kmain[3] = <<"lapic_init">>
  /\ Kmain[4] = <<"ioapic_init">> /\ Kmain[5] = <<"lapic_timer_init">> /\ Kmain[6] = <<"pic_disable">>
  /\ Kmain[7] = <<"redirect", 1>> /\ Kmain[8] = <<"unmask", 1>>
  /\ Kmain[9] = <<"redirect", 0>> /\ Kmain[10] = <<"unmask", 0>> /\ Kmain[11] = <<"sti">>
BY DEF Kmain

\* Which call is at which place of the sequence.
LEMMA Place ==
  ASSUME step \in 1..12
  PROVE  /\ At(<<"idt_init">>) => step = 1
         /\ At(<<"acpi">>) => step = 2
         /\ At(<<"lapic_init">>) => step = 3
         /\ At(<<"ioapic_init">>) => step = 4
         /\ At(<<"lapic_timer_init">>) => step = 5
         /\ At(<<"pic_disable">>) => step = 6
         /\ At(<<"redirect", 1>>) => step = 7
         /\ At(<<"unmask", 1>>) => step = 8
         /\ At(<<"redirect", 0>>) => step = 9
         /\ At(<<"unmask", 0>>) => step = 10
         /\ At(<<"sti">>) => step = 11
BY KmainCalls DEF At

-----------------------------------------------------------------------------
(***************************************************************************)
(* Types of the controllers.                                               *)
(***************************************************************************)

Entry == [vector : Vectors, masked : BOOLEAN, dest : 0..1]

\* The inputs of the keyboard and of the PIT are among those of the I/O APIC.
LEMMA PinFacts == UINT8 \in Nat /\ UINT8 >= 4 /\ {0, 1, 2} \subseteq Pins
BY Uint8Assumption DEF Pins

\* A write of the low half leaves every destination as it was.
LEMMA WriteLowKeeps ==
  ASSUME redtbl \in [Pins -> Entry], NEW p \in Pins, NEW v, NEW m, WriteLow(p, v, m)
  PROVE  \A r \in Pins : redtbl'[r].dest = redtbl[r].dest
<1> SUFFICES ASSUME NEW r \in Pins PROVE redtbl'[r].dest = redtbl[r].dest
  OBVIOUS
<1>1. redtbl[r] \in Entry
  OBVIOUS
<1> QED BY <1>1 DEF WriteLow, Entry

\* A write of half an entry leaves an entry.
LEMMA WriteLowType ==
  ASSUME redtbl \in [Pins -> Entry], NEW p \in Pins, NEW v \in Vectors, NEW m \in BOOLEAN,
         WriteLow(p, v, m)
  PROVE  redtbl' \in [Pins -> Entry]
BY DEF WriteLow, Entry

\* The upper half of an entry keeps the table a table.
LEMMA WriteHighType ==
  ASSUME redtbl \in [Pins -> Entry], NEW p \in Pins, WriteHigh(p)
  PROVE  redtbl' \in [Pins -> Entry]
BY DEF WriteHigh, Entry

\* An edge requests vectors only.
LEMMA EdgeType ==
  ASSUME redtbl \in [Pins -> Entry], irr \subseteq Vectors, NEW p \in Pins, Edge(p)
  PROVE  irr' \subseteq Vectors
BY DEF Edge, Entry

\* Every step keeps the types of the controllers.
LEMMA TypeStep == Inv /\ [Next]_bootVars => InterruptsTypeOK'
<1> SUFFICES ASSUME Inv, [Next]_bootVars PROVE InterruptsTypeOK'
  OBVIOUS
<1> USE DEF kmainVars, ioapicVars, picVars, lapicVars, cpuVars, machine, counts, interruptVars, Return
<1>1. /\ InterruptsTypeOK /\ step \in 1..12 /\ Len(Kmain) = 11
      /\ redtbl \in [Pins -> Entry]
  BY KmainCalls DEF Inv, InterruptsTypeOK, Entry
<1>2. CASE AcpiSteps \/ AcpiReturns
  <2>1. CASE AcpiSteps
    BY <1>1, <2>1 DEF InterruptsTypeOK, AcpiSteps
  <2>2. CASE AcpiReturns
    <3>1. step' \in 1..12
      BY <1>1, <2>2, Place DEF AcpiReturns
    <3> QED BY <1>1, <2>2, <3>1 DEF InterruptsTypeOK, AcpiReturns
  <2> QED BY <1>2, <2>1, <2>2
<1>3. CASE idt_init \/ lapic_init \/ pic_disable \/ sti
  <2>1. step' \in 1..12
    BY <1>1, <1>3, Place DEF idt_init, lapic_init, pic_disable, sti
  <2>2. CASE idt_init
    <3>1. gates' \subseteq Vectors /\ pic_base' = 32
      BY <2>2 DEF idt_init, pic_init, Vectors
    <3>2. {pic_masked, lvt0_masked, svr_enabled, intr, obf, early}' \subseteq BOOLEAN
      BY <1>1, <2>2 DEF InterruptsTypeOK, idt_init, pic_init
    <3>3. handling' \in {<<>>} \cup ({TIMER, KEY} \X {"hard", "soft"} \X {"body", "eoi"})
      BY <1>1, <2>2 DEF InterruptsTypeOK, idt_init
    <3>4. /\ chip' \in {"isa", "other", "memory"} /\ max_redir' \in {-1} \cup Pins /\ i' \in Pins
          /\ half' \in BOOLEAN /\ irr' \subseteq Vectors /\ isr' \subseteq Vectors
      BY <1>1, <2>2 DEF InterruptsTypeOK, idt_init
    <3>5. /\ lvt_timer' \in {"masked", "periodic"} /\ timer_ticks' \in Nat
          /\ pit' \in {"periodic", "counting", "expired"} /\ bsp_id' \in 0..1 /\ pit_pin' \in {0, 2}
          /\ keys' \in 0..MaxKeys /\ periods' \in 0..MaxPeriods
          /\ yields' \in 0..MaxYields /\ clis' \in 0..MaxClis
      BY <1>1, <2>2 DEF InterruptsTypeOK, idt_init
    <3>6. redtbl' \in [Pins -> Entry]
      BY <1>1, <2>2 DEF idt_init
    <3> QED BY <1>1, <2>1, <3>1, <3>2, <3>3, <3>4, <3>5, <3>6 DEF InterruptsTypeOK, Entry
  <2>3. CASE lapic_init
    BY <1>1, <2>1, <2>3 DEF InterruptsTypeOK, lapic_init
  <2>4. CASE pic_disable
    BY <1>1, <2>1, <2>4 DEF InterruptsTypeOK, pic_disable
  <2>5. CASE sti
    BY <1>1, <2>1, <2>5 DEF InterruptsTypeOK, sti
  <2> QED BY <1>3, <2>2, <2>3, <2>4, <2>5
<1>4. CASE IoapicVersion(IoapicBase)
  <2>1. IoapicBase \in {"isa", "other", "memory"}
    BY DEF IoapicBase
  <2>2. max_redir' \in Pins
    BY <1>4, PinFacts DEF IoapicVersion, Pins
  <2> QED BY <1>1, <1>4, <2>1, <2>2 DEF InterruptsTypeOK, IoapicVersion
<1>5. CASE IoapicInitLow
  <2>1. redtbl' \in [Pins -> Entry]
    <3>1. i \in Pins /\ 0 \in Vectors
      BY <1>1 DEF InterruptsTypeOK, Vectors
    <3>2. WriteLow(i, 0, TRUE)
      BY <1>5 DEF IoapicInitLow
    <3> QED BY <1>1, <3>1, <3>2 DEF WriteLow, Entry
  <2> QED BY <1>1, <1>5, <2>1 DEF InterruptsTypeOK, IoapicInitLow, Entry
<1>6. CASE IoapicInitHigh
  <2>1. redtbl' \in [Pins -> Entry]
    BY <1>1, <1>6, WriteHighType DEF InterruptsTypeOK, IoapicInitHigh
  <2>2. i' \in Pins
    BY <1>1, <1>6, PinFacts DEF InterruptsTypeOK, IoapicInitHigh, NextIndex, Pins
  <2> QED BY <1>1, <1>6, <2>1, <2>2, ZenonT(40) DEF InterruptsTypeOK, IoapicInitHigh, Entry
<1>7. CASE IoapicInitReturn
  BY <1>1, <1>7, Place DEF InterruptsTypeOK, IoapicInitReturn
<1>8. CASE RedirectLow(1, KEY) \/ RedirectLow(0, TIMER) \/ \E p \in 0..1 : UnmaskLow(p)
  <2>1. redtbl' \in [Pins -> Entry]
    <3>1. \A p \in 0..1 : p \in Pins /\ redtbl[p].vector \in Vectors
      BY <1>1, PinFacts DEF Entry
    <3>2. KEY \in Vectors /\ TIMER \in Vectors /\ FALSE \in BOOLEAN /\ 0 \in Pins /\ 1 \in Pins
      BY PinFacts DEF KEY, TIMER, Vectors
    <3>3. CASE RedirectLow(1, KEY)
      BY <1>1, <3>2, <3>3, WriteLowType DEF RedirectLow
    <3>4. CASE RedirectLow(0, TIMER)
      BY <1>1, <3>2, <3>4, WriteLowType DEF RedirectLow
    <3>5. CASE \E p \in 0..1 : UnmaskLow(p)
      BY <1>1, <3>1, <3>2, <3>5, WriteLowType DEF UnmaskLow
    <3> QED BY <1>8, <3>3, <3>4, <3>5
  <2> QED BY <1>1, <1>8, <2>1, ZenonT(40) DEF InterruptsTypeOK, RedirectLow, UnmaskLow, Entry
<1>9. CASE \E p \in 0..1 : WriteRedirHigh(p)
  <2>1. redtbl' \in [Pins -> Entry]
    BY <1>1, <1>9, PinFacts, WriteHighType DEF WriteRedirHigh
  <2>2. step' \in 1..12
    BY <1>1, <1>9 DEF WriteRedirHigh, At
  <2>3. {pic_masked, lvt0_masked, svr_enabled, intr, obf, early}' \subseteq BOOLEAN
    BY <1>1, <1>9 DEF InterruptsTypeOK, WriteRedirHigh
  <2>4. handling' \in {<<>>} \cup ({TIMER, KEY} \X {"hard", "soft"} \X {"body", "eoi"})
    BY <1>1, <1>9 DEF InterruptsTypeOK, WriteRedirHigh
  <2>5. /\ chip' \in {"isa", "other", "memory"} /\ max_redir' \in {-1} \cup Pins /\ i' \in Pins
        /\ half' \in BOOLEAN /\ irr' \subseteq Vectors /\ isr' \subseteq Vectors
    BY <1>1, <1>9 DEF InterruptsTypeOK, WriteRedirHigh
  <2>6. /\ lvt_timer' \in {"masked", "periodic"} /\ timer_ticks' \in Nat
        /\ pit' \in {"periodic", "counting", "expired"} /\ bsp_id' \in 0..1 /\ pit_pin' \in {0, 2}
        /\ keys' \in 0..MaxKeys /\ periods' \in 0..MaxPeriods
        /\ yields' \in 0..MaxYields /\ clis' \in 0..MaxClis
    BY <1>1, <1>9 DEF InterruptsTypeOK, WriteRedirHigh
  <2>7. gates' \subseteq Vectors /\ pic_base' \in {8, 32}
    BY <1>1, <1>9 DEF InterruptsTypeOK, WriteRedirHigh
  <2> QED BY <1>1, <2>1, <2>2, <2>3, <2>4, <2>5, <2>6, <2>7 DEF InterruptsTypeOK, Entry
<1>10. CASE CalibrateLoads \/ CalibratePolls
  <2>1. CASE CalibrateLoads
    BY <1>1, <2>1 DEF InterruptsTypeOK, CalibrateLoads
  <2>2. CASE CalibratePolls
    BY <1>1, <2>2 DEF InterruptsTypeOK, CalibratePolls
  <2> QED BY <1>10, <2>1, <2>2
<1>11. CASE CalibrateEnds
  <2>1. step' \in 1..12
    BY <1>1, <1>11, Place DEF CalibrateEnds, TimerStarts
  <2> QED BY <1>1, <1>11, <2>1 DEF InterruptsTypeOK, CalibrateEnds, TimerStarts
<1>12. CASE PitClock \/ PitRises
  <2>1. irr' \subseteq Vectors /\ pit' \in {"periodic", "counting", "expired"}
    BY <1>1, <1>12, PinFacts, EdgeType DEF InterruptsTypeOK, PitClock, PitRises
  <2> QED BY <1>1, <1>12, <2>1, ZenonT(40) DEF InterruptsTypeOK, PitClock, PitRises
<1>13. CASE KeyArrives
  <2>1. irr' \subseteq Vectors
    BY <1>1, <1>13, PinFacts, EdgeType DEF InterruptsTypeOK, KeyArrives
  <2>2. keys' \in 0..MaxKeys
    BY <1>1, <1>13, BoundsAssumption DEF InterruptsTypeOK, KeyArrives
  <2> QED BY <1>1, <1>13, <2>1, <2>2 DEF InterruptsTypeOK, KeyArrives
<1>14. CASE TimerExpires \/ Yield \/ Cli
  <2>1. CASE TimerExpires
    <3>1. periods' \in 0..MaxPeriods
      BY <1>1, <2>1, BoundsAssumption DEF InterruptsTypeOK, TimerExpires
    <3> QED BY <1>1, <2>1, <3>1 DEF InterruptsTypeOK, TimerExpires, TIMER, Vectors
  <2>2. CASE Yield
    <3>1. yields' \in 0..MaxYields
      BY <1>1, <2>2, BoundsAssumption DEF InterruptsTypeOK, Yield
    <3> QED BY <1>1, <2>2, <3>1 DEF InterruptsTypeOK, Yield
  <2>3. CASE Cli
    <3>1. clis' \in 0..MaxClis
      BY <1>1, <2>3, BoundsAssumption DEF InterruptsTypeOK, Cli
    <3>2. {pic_masked, lvt0_masked, svr_enabled, intr, obf, early}' \subseteq BOOLEAN
      BY <1>1, <2>3 DEF InterruptsTypeOK, Cli
    <3>3. handling' \in {<<>>} \cup ({TIMER, KEY} \X {"hard", "soft"} \X {"body", "eoi"})
      BY <1>1, <2>3 DEF InterruptsTypeOK, Cli
    <3> QED BY <1>1, <2>3, <3>1, <3>2, <3>3 DEF InterruptsTypeOK, Cli
  <2> QED BY <1>14, <2>1, <2>2, <2>3
<1>15. CASE \E v \in gates : Accept(v)
  <2>1. PICK v \in gates : Accept(v)
    BY <1>15
  <2>2. v \in {TIMER, KEY}
    BY <2>1 DEF Inv, Handled, Accept, Deliverable
  <2> QED BY <1>1, <2>1, <2>2, ZenonT(40) DEF InterruptsTypeOK, Accept, Deliverable
<1>16. CASE isr_handler
  <2>1. handling' \in {<<>>} \cup ({TIMER, KEY} \X {"hard", "soft"} \X {"body", "eoi"})
    BY <1>1, <1>16 DEF InterruptsTypeOK, isr_handler
  <2>2. timer_ticks' \in Nat
    BY <1>1, <1>16 DEF InterruptsTypeOK, isr_handler, HandlerBody
  <2>3. obf' \in BOOLEAN
    BY <1>1, <1>16 DEF InterruptsTypeOK, isr_handler, HandlerBody
  <2> QED BY <1>1, <1>16, <2>1, <2>2, <2>3 DEF InterruptsTypeOK, isr_handler
<1>17. CASE EoiAndReturn \/ Sti
  BY <1>1, <1>17, ZenonT(40) DEF InterruptsTypeOK, EoiAndReturn, Sti
<1>18. CASE UNCHANGED bootVars
  BY <1>1, <1>18 DEF InterruptsTypeOK, bootVars
<1> QED BY <1>2, <1>3, <1>4, <1>5, <1>6, <1>7, <1>8, <1>9, <1>10, <1>11, <1>12, <1>13, <1>14, <1>15,
           <1>16, <1>17, <1>18
        DEF Next, Code, KmainSteps, Controllers, Handlers, Handling, Around, Devices

-----------------------------------------------------------------------------
(***************************************************************************)
(* The handler and the flag, and what kmain sets up.                       *)
(***************************************************************************)

\* An edge requests a vector of an open input, one of the kernel's.
LEMMA EdgeIsOurs ==
  ASSUME Inv, NEW p \in Pins, Edge(p)
  PROVE  /\ irr' \subseteq {TIMER, KEY}
         /\ step < 7 => irr' = irr
         /\ p # 0 => (TIMER \in irr' <=> TIMER \in irr)
<1>1. CASE redtbl[p].masked
  BY <1>1 DEF Edge, Inv, Handled
<1>2. CASE ~redtbl[p].masked
  <2>1. (p = 1 /\ Opened(1, 7)) \/ (p = 0 /\ Opened(0, 9))
    BY <1>2 DEF Inv, Inputs
  <2>2. step \in 1..12
    BY KmainCalls DEF Inv, InterruptsTypeOK
  <2>3. redtbl[p].vector \in {TIMER, KEY} /\ step >= 7 /\ (p # 0 => redtbl[p].vector = KEY)
    BY <2>1, <2>2 DEF Opened, Inv, Inputs
  <2>4. irr' = irr \/ irr' = irr \cup {redtbl[p].vector}
    BY DEF Edge
  <2>5. irr \subseteq {TIMER, KEY} /\ TIMER # KEY
    BY DEF Inv, Handled, TIMER, KEY
  <2>6. irr' \subseteq {TIMER, KEY}
    BY <2>3, <2>4, <2>5
  <2>7. p # 0 => (TIMER \in irr' <=> TIMER \in irr)
    BY <2>3, <2>4, <2>5
  <2> QED BY <2>2, <2>3, <2>6, <2>7
<1> QED BY <1>1, <1>2

\* Accepting, handling and acknowledging keep one interrupt in service.
LEMMA HandledStep == Inv /\ [Next]_bootVars => Handled'
<1> SUFFICES ASSUME Inv, [Next]_bootVars PROVE Handled'
  OBVIOUS
<1> USE DEF kmainVars, ioapicVars, picVars, lapicVars, cpuVars, machine, counts, interruptVars, Return
<1>1. /\ Handled /\ step \in 1..12 /\ Len(Kmain) = 11
      /\ pit_pin \in Pins /\ 1 \in Pins
      /\ handling \in {<<>>} \cup ({TIMER, KEY} \X {"hard", "soft"} \X {"body", "eoi"})
  BY KmainCalls, PinFacts DEF Inv, InterruptsTypeOK
<1>2. CASE AcpiSteps \/ AcpiReturns \/ CalibrateLoads \/ CalibratePolls \/ CalibrateEnds
  <2>1. CASE AcpiSteps \/ CalibrateLoads \/ CalibratePolls
    BY <1>1, <2>1 DEF Handled, EoiMatches, AcpiSteps, CalibrateLoads, CalibratePolls
  <2>2. CASE AcpiReturns
    BY <1>1, <2>2, Place DEF Handled, EoiMatches, AcpiReturns
  <2>3. CASE CalibrateEnds
    BY <1>1, <2>3, Place DEF Handled, EoiMatches, CalibrateEnds, TimerStarts
  <2> QED BY <1>2, <2>1, <2>2, <2>3
<1>3. CASE idt_init \/ lapic_init \/ pic_disable \/ IoapicVersion(IoapicBase) \/ IoapicInitLow
           \/ IoapicInitHigh \/ IoapicInitReturn
  <2>1. CASE idt_init
    BY <1>1, <2>1, Place DEF Handled, EoiMatches, idt_init
  <2>2. CASE lapic_init
    BY <1>1, <2>2, Place DEF Handled, EoiMatches, lapic_init
  <2>3. CASE pic_disable
    BY <1>1, <2>3, Place DEF Handled, EoiMatches, pic_disable
  <2>4. CASE IoapicVersion(IoapicBase) \/ IoapicInitLow \/ IoapicInitHigh
    <3>1. UNCHANGED <<step, intr, handling, irr, isr>>
      BY <2>4 DEF IoapicVersion, IoapicInitLow, IoapicInitHigh
    <3> QED BY <1>1, <3>1 DEF Handled, EoiMatches
  <2>5. CASE IoapicInitReturn
    BY <1>1, <2>5, Place DEF Handled, EoiMatches, IoapicInitReturn
  <2> QED BY <1>3, <2>1, <2>2, <2>3, <2>4, <2>5
<1>4. CASE RedirectLow(1, KEY) \/ RedirectLow(0, TIMER) \/ \E p \in 0..1 : UnmaskLow(p)
  <2>1. UNCHANGED <<step, intr, handling, irr, isr>>
    BY <1>4 DEF RedirectLow, UnmaskLow
  <2> QED BY <1>1, <2>1 DEF Handled, EoiMatches
<1>5. CASE \E p \in 0..1 : WriteRedirHigh(p)
  BY <1>1, <1>5 DEF Handled, EoiMatches, WriteRedirHigh, At
<1>6. CASE sti
  BY <1>1, <1>6, Place DEF Handled, EoiMatches, sti
<1>7. CASE PitClock \/ KeyArrives \/ PitRises
  <2>1. irr' \subseteq {TIMER, KEY}
    BY <1>1, <1>7, EdgeIsOurs DEF Handled, PitClock, KeyArrives, PitRises
  <2> QED BY <1>1, <1>7, <2>1 DEF Handled, EoiMatches, PitClock, KeyArrives, PitRises
<1>8. CASE TimerExpires
  BY <1>1, <1>8 DEF Handled, EoiMatches, TimerExpires
<1>9. CASE \E v \in gates : Accept(v)
  BY <1>1, <1>9 DEF Handled, EoiMatches, Accept
<1>10. CASE Yield
  BY <1>1, <1>10 DEF Handled, EoiMatches, Yield
<1>11. CASE isr_handler
  BY <1>1, <1>11 DEF Handled, EoiMatches, isr_handler
<1>12. CASE EoiAndReturn
  <2>1. EoiClears = isr
    BY <1>1, <1>12 DEF Handled, EoiMatches, EoiClears, EoiAndReturn, TIMER, KEY
  <2> QED BY <1>1, <1>12, <2>1 DEF Handled, EoiMatches, EoiAndReturn
<1>13. CASE Cli \/ Sti
  BY <1>1, <1>13 DEF Handled, EoiMatches, Cli, Sti
<1>14. CASE UNCHANGED bootVars
  BY <1>1, <1>14 DEF Handled, EoiMatches, bootVars
<1> QED BY <1>2, <1>3, <1>4, <1>5, <1>6, <1>7, <1>8, <1>9, <1>10, <1>11, <1>12, <1>13, <1>14
        DEF Next, Code, KmainSteps, Controllers, Handlers, Handling, Around, Devices

\* Every call of kmain leaves what the later ones and the interrupts rely on.
LEMMA SetUpStep == Inv /\ [Next]_bootVars => SetUp'
<1> SUFFICES ASSUME Inv, [Next]_bootVars PROVE SetUp'
  OBVIOUS
<1> USE DEF kmainVars, ioapicVars, picVars, lapicVars, cpuVars, machine, counts, interruptVars, Return
<1>1. SetUp /\ step \in 1..12
  BY KmainCalls DEF Inv, InterruptsTypeOK
<1>2. CASE AcpiReturns
  BY <1>1, <1>2, Place DEF SetUp, AcpiReturns
<1>3. CASE idt_init
  BY <1>1, <1>3, Place DEF SetUp, idt_init, pic_init
<1>4. CASE lapic_init
  BY <1>1, <1>4, Place DEF SetUp, lapic_init
<1>5. CASE IoapicInitReturn
  BY <1>1, <1>5, Place DEF SetUp, IoapicInitReturn
<1>6. CASE CalibrateEnds
  BY <1>1, <1>6, Place DEF SetUp, CalibrateEnds, TimerStarts
<1>7. CASE pic_disable
  BY <1>1, <1>7, Place DEF SetUp, pic_disable
<1>8. CASE \E p \in 0..1 : WriteRedirHigh(p)
  <2>1. step >= 7
    BY <1>1, <1>8, Place DEF WriteRedirHigh
  <2> QED BY <1>1, <1>8, <2>1 DEF SetUp, WriteRedirHigh
<1>9. CASE sti
  BY <1>1, <1>9, Place DEF SetUp, sti
<1>10. CASE AcpiSteps \/ IoapicVersion(IoapicBase) \/ IoapicInitLow \/ IoapicInitHigh
           \/ RedirectLow(1, KEY) \/ RedirectLow(0, TIMER) \/ \E p \in 0..1 : UnmaskLow(p)
  BY <1>1, <1>10
  DEF SetUp, AcpiSteps, IoapicVersion, IoapicInitLow, IoapicInitHigh, RedirectLow, UnmaskLow
<1>11. CASE CalibrateLoads \/ CalibratePolls \/ PitClock \/ KeyArrives \/ PitRises \/ TimerExpires
  BY <1>1, <1>11 DEF SetUp, CalibrateLoads, CalibratePolls, PitClock, KeyArrives, PitRises, TimerExpires
<1>12. CASE (\E v \in gates : Accept(v)) \/ Yield \/ isr_handler \/ EoiAndReturn \/ Cli \/ Sti
           \/ UNCHANGED bootVars
  BY <1>1, <1>12 DEF SetUp, Accept, Yield, isr_handler, EoiAndReturn, Cli, Sti, bootVars
<1> QED BY <1>2, <1>3, <1>4, <1>5, <1>6, <1>7, <1>8, <1>9, <1>10, <1>11, <1>12
        DEF Next, Code, KmainSteps, Controllers, Handlers, Handling, Around, Devices

-----------------------------------------------------------------------------
(***************************************************************************)
(* The I/O APIC.                                                           *)
(***************************************************************************)

\* Every step either leaves the I/O APIC and the loop of ioapic_init alone, or is
\* one of those that write to them.
LEMMA IndexStep == Inv /\ [Next]_bootVars => Index'
<1> SUFFICES ASSUME Inv, [Next]_bootVars PROVE Index'
  OBVIOUS
<1> USE DEF kmainVars, ioapicVars, picVars, lapicVars, cpuVars, machine, counts, interruptVars, Return
<1>1. /\ Index /\ step \in 1..12 /\ i \in 0 .. (UINT8 - 1) /\ half \in BOOLEAN
      /\ max_redir \in {-1} \cup (0 .. (UINT8 - 1)) /\ UINT8 \in Nat /\ UINT8 >= 4
      /\ redtbl \in [Pins -> Entry] /\ chip \in {"isa", "other", "memory"}
  BY KmainCalls, PinFacts DEF Inv, InterruptsTypeOK, Entry, Pins
<1>2. CASE AcpiReturns \/ idt_init \/ lapic_init
  BY <1>1, <1>2, Place DEF Index, AcpiReturns, idt_init, lapic_init
<1>3. CASE CalibrateEnds \/ pic_disable \/ sti
  BY <1>1, <1>3, Place DEF Index, CalibrateEnds, TimerStarts, pic_disable, sti
<1>4. CASE IoapicVersion(IoapicBase)
  BY <1>1, <1>4, Place DEF Index, IoapicVersion, IoapicBase, Pins
<1>5. CASE IoapicInitLow
  <2>1. step = 4 /\ max_redir # -1
    BY <1>1, <1>5, Place DEF IoapicInitLow
  <2>2. \A p \in 0 .. (i - 1) : p \in Pins /\ redtbl'[p].dest = redtbl[p].dest
    BY <1>1, <1>5 DEF IoapicInitLow, WriteLow, Pins, Entry
  <2> QED BY <1>1, <1>5, <2>1, <2>2 DEF Index, IoapicInitLow
<1>6. CASE IoapicInitHigh
  <2>1. step = 4 /\ i <= max_redir /\ max_redir # -1
    BY <1>1, <1>6, Place DEF Index, IoapicInitHigh
  <2>2. CASE chip = "isa"
    <3>1. i <= UINT8 - 2 /\ i' = i + 1
      BY <1>1, <1>6, <2>1, <2>2 DEF Index, IoapicInitHigh, NextIndex
    <3>2. \A p \in 0..i : p \in Pins /\ redtbl'[p].dest = 0
      BY <1>1, <1>6, <2>1, <2>2, <3>1 DEF Index, IoapicInitHigh, WriteHigh, Pins, Entry
    <3> QED BY <1>1, <1>6, <2>1, <3>1, <3>2 DEF Index, IoapicInitHigh
  <2>3. CASE chip # "isa"
    BY <1>1, <1>6, <2>1, <2>3 DEF Index, IoapicInitHigh
  <2> QED BY <2>2, <2>3
<1>7. CASE IoapicInitReturn
  BY <1>1, <1>7, Place DEF Index, IoapicInitReturn
<1>8. CASE RedirectLow(1, KEY) \/ RedirectLow(0, TIMER) \/ \E p \in 0..1 : UnmaskLow(p)
  <2>1. PICK p \in 0..1 : RedirectLow(1, KEY) \/ RedirectLow(0, TIMER) \/ UnmaskLow(p)
    BY <1>8
  <2>2. step >= 7 /\ UNCHANGED <<step, chip, max_redir, i>>
    <3>1. At(<<"redirect", 1>>) \/ At(<<"redirect", 0>>) \/ At(<<"unmask", p>>)
      BY <2>1 DEF RedirectLow, UnmaskLow
    <3>2. p = 0 \/ p = 1
      OBVIOUS
    <3>3. step >= 7
      BY <1>1, <3>1, <3>2, Place
    <3> QED BY <2>1, <3>3 DEF RedirectLow, UnmaskLow
  <2>3. WriteLow(1, KEY, FALSE) \/ WriteLow(0, TIMER, FALSE) \/ WriteLow(p, redtbl[p].vector, FALSE)
    BY <2>1 DEF RedirectLow, UnmaskLow
  <2>4. \A r \in 0 .. (i - 1) : r \in Pins /\ redtbl'[r].dest = redtbl[r].dest
    <3>1. \A r \in 0 .. (i - 1) : r \in Pins
      BY <1>1 DEF Pins
    <3>2. \A r \in Pins : redtbl'[r].dest = redtbl[r].dest
      <4>1. 0 \in Pins /\ 1 \in Pins /\ p \in Pins
        BY PinFacts
      <4> QED BY <1>1, <2>3, <4>1, WriteLowKeeps, Zenon
    <3> QED BY <3>1, <3>2, Zenon
  <2> QED BY <1>1, <2>2, <2>4 DEF Index
<1>9. CASE \E p \in 0..1 : WriteRedirHigh(p)
  <2>1. step >= 7
    BY <1>1, <1>9, Place DEF WriteRedirHigh
  <2>2. \A p \in 0 .. (i - 1) : p \in Pins /\ (redtbl'[p].dest = redtbl[p].dest \/ redtbl'[p].dest = 0)
    BY <1>1, <1>9 DEF WriteRedirHigh, WriteHigh, Pins, Entry
  <2> QED BY <1>1, <1>9, <2>1, <2>2 DEF Index, WriteRedirHigh
<1>10. CASE AcpiSteps \/ CalibrateLoads \/ CalibratePolls \/ PitClock \/ KeyArrives \/ PitRises \/ TimerExpires
  BY <1>1, <1>10
  DEF Index, AcpiSteps, CalibrateLoads, CalibratePolls, PitClock, KeyArrives, PitRises, TimerExpires
<1>11. CASE (\E v \in gates : Accept(v)) \/ Yield \/ isr_handler \/ EoiAndReturn \/ Cli \/ Sti
           \/ UNCHANGED bootVars
  BY <1>1, <1>11 DEF Index, Accept, Yield, isr_handler, EoiAndReturn, Cli, Sti, bootVars
<1> QED BY <1>2, <1>3, <1>4, <1>5, <1>6, <1>7, <1>8, <1>9, <1>10, <1>11
        DEF Next, Code, KmainSteps, Controllers, Handlers, Handling, Around, Devices

\* Entries are opened one by one, each with its vector, and not written after that
\* but with the same one.
LEMMA InputsStep == Inv /\ [Next]_bootVars => Inputs'
<1> SUFFICES ASSUME Inv, [Next]_bootVars PROVE Inputs'
  OBVIOUS
<1> USE DEF kmainVars, ioapicVars, picVars, lapicVars, cpuVars, machine, counts, interruptVars, Return
<1>1. /\ Inputs /\ step \in 1..12 /\ half \in BOOLEAN /\ redtbl \in [Pins -> Entry]
      /\ step \in {5, 6} => ~half
      /\ step < 4 => ~half
      /\ i \in Pins /\ {0, 1} \subseteq Pins
  BY KmainCalls, PinFacts DEF Inv, Index, InterruptsTypeOK, Entry
<1>2. CASE AcpiReturns \/ idt_init \/ lapic_init
  <2>1. step < 4 /\ step' = step + 1 /\ UNCHANGED <<half, chip, redtbl>>
    BY <1>1, <1>2, Place DEF AcpiReturns, idt_init, lapic_init
  <2> QED BY <1>1, <2>1 DEF Inputs, Opened
<1>3. CASE CalibrateEnds \/ pic_disable \/ sti
  <2>1. step \in {5, 6, 11} /\ step' = step + 1 /\ UNCHANGED <<half, chip, redtbl>>
    BY <1>1, <1>3, Place DEF CalibrateEnds, TimerStarts, pic_disable, sti
  <2> QED BY <1>1, <2>1 DEF Inputs, Opened
<1>4. CASE IoapicVersion(IoapicBase)
  <2>1. step = 4 /\ UNCHANGED <<step, redtbl>>
    BY <1>1, <1>4, Place DEF IoapicVersion
  <2> QED BY <1>1, <2>1 DEF Inputs, Opened
<1>5. CASE IoapicInitLow \/ IoapicInitHigh
  <2>1. step = 4 /\ UNCHANGED <<step, chip>>
    BY <1>1, <1>5, Place DEF IoapicInitLow, IoapicInitHigh
  <2>2. \A p \in Pins : redtbl'[p].masked \/ redtbl'[p].masked = redtbl[p].masked
    BY <1>1, <1>5 DEF IoapicInitLow, IoapicInitHigh, WriteLow, WriteHigh, Entry
  <2> QED BY <1>1, <2>1, <2>2 DEF Inputs, Opened
<1>6. CASE IoapicInitReturn
  <2>1. step = 4 /\ step' = 5 /\ UNCHANGED <<half, chip, redtbl>>
    BY <1>1, <1>6, Place DEF IoapicInitReturn
  <2> QED BY <1>1, <2>1 DEF Inputs, Opened
<1>7. CASE RedirectLow(1, KEY)
  <2>1. step = 7 /\ ~half /\ half' /\ UNCHANGED <<step, chip>> /\ WriteLow(1, KEY, FALSE)
    BY <1>1, <1>7, Place DEF RedirectLow
  <2>2. chip # "isa" => redtbl' = redtbl
    BY <2>1 DEF WriteLow
  <2>3. chip = "isa" => /\ redtbl'[1].vector = KEY
                        /\ \A p \in Pins : p # 1 => redtbl'[p] = redtbl[p]
    BY <1>1, <2>1 DEF WriteLow, Entry
  <2> QED BY <1>1, <2>1, <2>2, <2>3 DEF Inputs, Opened
<1>8. CASE RedirectLow(0, TIMER)
  <2>1. step = 9 /\ ~half /\ half' /\ UNCHANGED <<step, chip>> /\ WriteLow(0, TIMER, FALSE)
    BY <1>1, <1>8, Place DEF RedirectLow
  <2>2. chip # "isa" => redtbl' = redtbl
    BY <2>1 DEF WriteLow
  <2>3. chip = "isa" => /\ redtbl'[0].vector = TIMER
                        /\ \A p \in Pins : p # 0 => redtbl'[p] = redtbl[p]
    BY <1>1, <2>1 DEF WriteLow, Entry
  <2> QED BY <1>1, <2>1, <2>2, <2>3 DEF Inputs, Opened
<1>9. CASE \E p \in 0..1 : UnmaskLow(p)
  <2>1. PICK p \in 0..1 : UnmaskLow(p)
    BY <1>9
  <2>2. (p = 1 /\ step = 8) \/ (p = 0 /\ step = 10)
    <3>1. p = 0 \/ p = 1
      OBVIOUS
    <3> QED BY <1>1, <2>1, <3>1, Place DEF UnmaskLow
  <2>3. UNCHANGED <<step, chip>> /\ WriteLow(p, redtbl[p].vector, FALSE)
    BY <2>1 DEF UnmaskLow
  <2>4. chip # "isa" => redtbl' = redtbl
    BY <2>3 DEF WriteLow
  <2>5. \A q \in Pins : redtbl'[q].vector = redtbl[q].vector /\ (q # p => redtbl'[q] = redtbl[q])
    BY <1>1, <2>3 DEF WriteLow, Entry
  <2> QED BY <1>1, <2>2, <2>3, <2>4, <2>5 DEF Inputs, Opened
<1>10. CASE \E p \in 0..1 : WriteRedirHigh(p)
  <2>1. PICK p \in 0..1 : WriteRedirHigh(p)
    BY <1>10
  <2>2. half /\ ~half' /\ step \in 7..10 /\ step' = step + 1 /\ UNCHANGED chip
    <3>1. p = 0 \/ p = 1
      OBVIOUS
    <3> QED BY <1>1, <2>1, <3>1, Place DEF WriteRedirHigh
  <2>3. \A q \in Pins : redtbl'[q].vector = redtbl[q].vector /\ redtbl'[q].masked = redtbl[q].masked
    BY <1>1, <2>1 DEF WriteRedirHigh, WriteHigh, Entry
  <2> QED BY <1>1, <2>2, <2>3 DEF Inputs, Opened
<1>11. CASE AcpiSteps \/ CalibrateLoads \/ CalibratePolls \/ PitClock \/ KeyArrives \/ PitRises \/ TimerExpires
  <2>1. UNCHANGED <<step, chip, half, redtbl>>
    BY <1>11 DEF AcpiSteps, CalibrateLoads, CalibratePolls, PitClock, KeyArrives, PitRises, TimerExpires
  <2> QED BY <1>1, <2>1 DEF Inputs, Opened
<1>12. CASE (\E v \in gates : Accept(v)) \/ Yield \/ isr_handler \/ EoiAndReturn \/ Cli \/ Sti
           \/ UNCHANGED bootVars
  <2>1. UNCHANGED <<step, chip, half, redtbl>>
    BY <1>12 DEF Accept, Yield, isr_handler, EoiAndReturn, Cli, Sti, bootVars
  <2> QED BY <1>1, <2>1 DEF Inputs, Opened
<1> QED BY <1>2, <1>3, <1>4, <1>5, <1>6, <1>7, <1>8, <1>9, <1>10, <1>11, <1>12
        DEF Next, Code, KmainSteps, Controllers, Handlers, Handling, Around, Devices

-----------------------------------------------------------------------------
(***************************************************************************)
(* The calibration.                                                        *)
(***************************************************************************)

\* The clock and the count of the PIT as numbers.
LEMMA ClockFacts ==
  /\ BYTE \in Nat /\ BYTE > 0 /\ PIT_TICKS \in Nat /\ PIT_TICKS > 0 /\ RATE \in Nat /\ RATE > 0
  /\ MaxGap \in Nat /\ MaxGap > 0 /\ MaxGap <= PIT_TICKS
  /\ T!WRAP \in Nat /\ PIT_TICKS + MaxGap < T!WRAP
<1>1. BYTE \in Nat /\ PIT_TICKS \in Nat /\ RATE \in Nat /\ MaxGap \in Nat /\ BYTE * BYTE \in Nat
  BY CountAssumption
<1> QED BY <1>1, CountAssumption DEF T!WRAP

\* The two bytes of a count are put together again.
LEMMA BytesOf ==
  ASSUME NEW x \in Nat
  PROVE  /\ x % BYTE \in 0 .. (BYTE - 1)
         /\ BYTE * (x \div BYTE) + (x % BYTE) = x
BY ClockFacts, Z3

\* One clock back, around 0.
LEMMA Downwards ==
  ASSUME NEW x \in 0 .. (T!WRAP - 1)
  PROVE  (x + T!WRAP - 1) % T!WRAP = IF x = 0 THEN T!WRAP - 1 ELSE x - 1
<1> DEFINE N == T!WRAP
           y == x + N - 1
           q == y \div N
           r == y % N
<1>1. N \in Nat /\ N > 0 /\ y \in Nat /\ y < 2 * N
  BY ClockFacts
<1> HIDE DEF N, y
<1>2. q \in Nat /\ r \in 0 .. (N - 1) /\ y = N * q + r
  BY <1>1, Z3
<1> HIDE DEF q, r
<1>3. q = 0 \/ q = 1
  <2>1. SUFFICES ASSUME q >= 2 PROVE FALSE
    BY <1>2
  <2>2. N * q >= N * 2
    BY <2>1, <1>1, <1>2, Z3
  <2> QED BY <2>2, <1>1, <1>2
<1>4. r = IF y < N THEN y ELSE y - N
  BY <1>1, <1>2, <1>3
<1> QED BY <1>1, <1>4, ClockFacts DEF y, r, N

\* What a longer time is worth in ticks of the timer is more.
LEMMA RateGrows ==
  ASSUME NEW m \in Nat, NEW n \in Nat, m <= n
  PROVE  RATE * m \in Nat /\ RATE * n \in Nat /\ RATE * m <= RATE * n
BY ClockFacts, Z3

\* A tenth of a measure between two bounds.
LEMMA Tenth ==
  ASSUME NEW least \in Nat, NEW most \in Nat, NEW m \in Nat, NEW c \in Nat,
         least <= m, m <= most, 10 * c <= m, m < 10 * c + 10
  PROVE  10 * c + 10 > least /\ 10 * c <= most
OBVIOUS

\* Every step keeps the types of the timer.
LEMMA TimerTypeStep == Inv /\ [Next]_bootVars => T!TypeOK'
<1> SUFFICES ASSUME Inv, [Next]_bootVars PROVE T!TypeOK'
  OBVIOUS
<1>1. T!TypeOK /\ T!WRAP \in Nat /\ T!WRAP > 0 /\ PIT_TICKS \in 0 .. (T!WRAP - 1)
  BY ClockFacts DEF Inv
<1>2. CASE PitClock
  <2>1. T!Clock
    BY <1>2 DEF PitClock
  <2>2. counter' \in 0 .. (T!WRAP - 1)
    BY <1>1, <2>1, Downwards DEF T!TypeOK, T!Clock
  <2>3. gap' \in 0..MaxGap /\ since' \in T!Clocks /\ elapsed' \in T!Clocks
    BY <1>1, <2>1, ClockFacts DEF T!TypeOK, T!Clock, T!CountUp, T!Clocks
  <2> QED BY <1>1, <2>1, <2>2, <2>3 DEF T!TypeOK, T!Clock
<1>3. CASE CalibrateLoads
  BY <1>1, <1>3, ClockFacts DEF T!TypeOK, CalibrateLoads, T!WriteCount, T!Clocks
<1>4. CASE T!StartTimer
  BY <1>1, <1>4, ClockFacts DEF T!TypeOK, T!StartTimer, T!Clocks
<1>5. CASE T!Latch
  BY <1>1, <1>5, ClockFacts DEF T!TypeOK, T!Latch
<1>6. CASE T!ReadLow
  <2>1. latched \in Nat
    BY <1>1 DEF T!TypeOK
  <2>2. lo' \in 0 .. (BYTE - 1)
    BY <1>6, <2>1, BytesOf DEF T!ReadLow, T!Held
  <2> QED BY <1>1, <1>6, <2>2 DEF T!TypeOK, T!ReadLow
<1>7. CASE T!ReadHigh
  <2>1. /\ last' \in 0 .. (T!WRAP - 1) /\ tpc' \in {"read", "latch"}
        /\ UNCHANGED <<counter, loading, latched, lo, count, gap, elapsed, since, stale>>
    <3> DEFINE curr == BYTE * (latched \div BYTE) + lo
    <3>1. curr \in Nat
      <4>1. latched \in Nat /\ lo \in Nat
        BY <1>1, ClockFacts DEF T!TypeOK
      <4>2. latched \div BYTE \in Nat
        BY <4>1, ClockFacts, Z3
      <4>3. BYTE * (latched \div BYTE) \in Nat
        BY <4>2, ClockFacts
      <4> QED BY <4>1, <4>3
    <3> HIDE DEF curr
    <3>2. \/ curr > last /\ tpc' = "read" /\ last' = last
          \/ curr <= last /\ tpc' = "latch" /\ last' = curr
      BY <1>7 DEF T!ReadHigh, T!Held, curr
    <3>3. last \in 0 .. (T!WRAP - 1)
      BY <1>1 DEF T!TypeOK
    <3>4. last' \in 0 .. (T!WRAP - 1) /\ tpc' \in {"read", "latch"}
      BY <1>1, <3>1, <3>2, <3>3
    <3> QED BY <1>7, <3>4 DEF T!ReadHigh
  <2> QED BY <1>1, <2>1 DEF T!TypeOK
<1>8. CASE CalibrateEnds
  <2>1. count' \in Nat
    <3>1. since \in Nat
      BY <1>1, ClockFacts DEF T!TypeOK, T!Clocks
    <3>2. RATE * since \in Nat
      BY <3>1, ClockFacts
    <3> DEFINE m == RATE * since
    <3> HIDE DEF m
    <3>3. m \in Nat => ((m * 16 * 100) \div 16) \div 1000 \in Nat
      OBVIOUS
    <3>4. count' = ((m * 16 * 100) \div 16) \div 1000
      BY <1>8 DEF CalibrateEnds, T!lapic_timer_init, T!Measured, m
    <3> QED BY <3>2, <3>3, <3>4 DEF m
  <2>2. 0 \in 0 .. (T!WRAP - 1) /\ 0 \in 0 .. (BYTE - 1) /\ 0 \in 0..MaxGap /\ 0 \in T!Clocks
    BY ClockFacts DEF T!Clocks
  <2>3. /\ tpc' = "done" /\ counter' = 0 /\ loading' = FALSE /\ latched' = 0 /\ lo' = 0 /\ last' = 0
        /\ gap' = 0 /\ elapsed' = 0 /\ since' = 0 /\ stale' = stale
    BY <1>8 DEF CalibrateEnds, T!lapic_timer_init
  <2> QED BY <1>1, <2>1, <2>2, <2>3 DEF T!TypeOK
<1>9. CASE UNCHANGED timerVars
  BY <1>1, <1>9 DEF T!TypeOK, timerVars
<1> QED BY <1>2, <1>3, <1>4, <1>5, <1>6, <1>7, <1>8, <1>9
        DEF Next, Code, KmainSteps, Handlers, Around, AcpiSteps, AcpiReturns, CalibratePolls, bootVars

\* The loop of the calibration keeps what it has seen of the count.
LEMMA CalibratedStep == Inv /\ [Next]_bootVars => Calibrated'
<1> SUFFICES ASSUME Inv, [Next]_bootVars PROVE Calibrated'
  OBVIOUS
<1>1. /\ T!TypeOK /\ Calibrated
      /\ {counter, latched, last} \subseteq 0 .. (T!WRAP - 1) /\ lo \in 0 .. (BYTE - 1)
      /\ gap \in 0..MaxGap /\ {elapsed, since} \subseteq 0 .. (2 * T!WRAP)
  BY DEF Inv, T!TypeOK, T!Clocks
<1>2. CASE PitClock
  <2>1. /\ tpc \notin {"start", "done"} /\ gap < MaxGap
        /\ gap' = gap + 1 /\ since' = T!CountUp(since) /\ ~loading'
        /\ counter' = IF loading THEN PIT_TICKS ELSE (counter + T!WRAP - 1) % T!WRAP
        /\ elapsed' = IF loading \/ tpc = "load" THEN 0 ELSE T!CountUp(elapsed)
        /\ UNCHANGED <<tpc, latched, lo, last, count, stale>>
    BY <1>2 DEF PitClock, T!Clock
  <2>2. tpc = "load" => since' <= gap'
    BY <1>1, <2>1, ClockFacts DEF Calibrated, T!CountUp
  <2>3. ASSUME tpc \in {"latch", "low", "high", "read"}, ~stale PROVE InLoop'
    <3>1. InLoop
      BY <1>1, <2>3 DEF Calibrated
    <3>2. CASE loading
      <4>1. tpc = "latch" /\ gap = 0 /\ since <= MaxGap /\ last = T!WRAP - 1
        BY <3>1, <3>2 DEF InLoop
      <4>2. counter' = PIT_TICKS /\ elapsed' = 0 /\ gap' = 1 /\ since' = since + 1
        BY <1>1, <2>1, <3>2, <4>1, ClockFacts DEF T!CountUp
      <4> QED BY <1>1, <2>1, <4>1, <4>2, ClockFacts DEF InLoop, CountedDown, Polled
    <3>3. CASE ~loading
      <4>1. /\ elapsed <= since /\ since <= elapsed + MaxGap + 1
            /\ counter = CountedDown(elapsed)
        BY <3>1, <3>3 DEF InLoop
      <4>2. elapsed < PIT_TICKS + 2 * MaxGap
        BY <1>1, <2>1, <2>3, <3>1, <3>3, ClockFacts DEF InLoop, Polled
      <4>3. elapsed' = elapsed + 1 /\ since' = since + 1 /\ Polled' = Polled
        BY <1>1, <2>1, <2>3, <3>3, <4>1, <4>2, ClockFacts DEF T!CountUp, Polled
      <4>4. counter' = IF counter = 0 THEN T!WRAP - 1 ELSE counter - 1
        BY <1>1, <2>1, <3>3, Downwards
      <4>5. counter' = CountedDown(elapsed)'
        BY <1>1, <4>1, <4>2, <4>3, <4>4, ClockFacts DEF CountedDown
      <4>6. CountedDown(Polled)' = CountedDown(Polled)
        BY <4>3 DEF CountedDown
      <4>7. tpc = "latch" => \/ last = T!WRAP - 1 /\ elapsed' + 1 = gap'
                             \/ Polled \in 0..PIT_TICKS /\ last = PIT_TICKS - Polled
        BY <1>1, <2>1, <3>1, <3>3, <4>3 DEF InLoop
      <4>8. elapsed' <= since' /\ since' <= elapsed' + MaxGap + 1
        BY <1>1, <4>1, <4>3, ClockFacts
      <4> QED BY <2>1, <3>1, <3>3, <4>3, <4>5, <4>6, <4>7, <4>8 DEF InLoop
    <3> QED BY <3>2, <3>3
  <2>4. T!PeriodIsOneMs'
    BY <2>1 DEF T!PeriodIsOneMs
  <2> QED BY <2>1, <2>2, <2>3, <2>4 DEF Calibrated
<1>3. CASE T!StartTimer
  BY <1>1, <1>3, ClockFacts DEF Calibrated, T!StartTimer, T!PeriodIsOneMs
<1>4. CASE CalibrateLoads
  <2>1. /\ tpc = "load" /\ tpc' = "latch" /\ loading' /\ gap' = 0 /\ last' = T!WRAP - 1
        /\ since' = since
    BY <1>4 DEF CalibrateLoads, T!WriteCount
  <2>2. since' <= MaxGap
    BY <1>1, <2>1, ClockFacts DEF Calibrated
  <2> QED BY <2>1, <2>2 DEF Calibrated, InLoop, T!PeriodIsOneMs
<1>5. CASE T!Latch
  <2>1. /\ tpc = "latch" /\ tpc' = "low" /\ latched' = counter /\ gap' = 0
        /\ stale' = (stale \/ loading)
        /\ UNCHANGED <<counter, loading, lo, last, count, elapsed, since>>
    BY <1>5 DEF T!Latch
  <2>2. ASSUME ~stale' PROVE InLoop'
    <3>1. InLoop /\ ~loading
      BY <1>1, <2>1, <2>2 DEF Calibrated
    <3>2. Polled' = elapsed /\ latched' = CountedDown(elapsed) /\ counter = CountedDown(elapsed)
      BY <1>1, <2>1, <3>1 DEF InLoop, Polled
    <3>3. \/ last = T!WRAP - 1 /\ elapsed + 1 = gap
          \/ Polled \in 0..PIT_TICKS /\ last = PIT_TICKS - Polled
      BY <2>1, <3>1 DEF InLoop
    <3>4. \/ elapsed \in 0..PIT_TICKS /\ latched' <= last
          \/ elapsed \in (PIT_TICKS + 1) .. (PIT_TICKS + MaxGap) /\ latched' > last
      BY <1>1, <3>2, <3>3, ClockFacts DEF Polled, CountedDown
    <3>5. CountedDown(Polled)' = CountedDown(elapsed) /\ CountedDown(elapsed)' = CountedDown(elapsed)
      BY <2>1, <3>2 DEF CountedDown
    <3> QED BY <2>1, <3>1, <3>2, <3>4, <3>5 DEF InLoop
  <2> QED BY <2>1, <2>2 DEF Calibrated, T!PeriodIsOneMs
<1>6. CASE T!ReadLow
  <2>1. /\ tpc = "low" /\ tpc' = "high" /\ lo' = latched % BYTE
        /\ UNCHANGED <<counter, loading, latched, last, count, gap, elapsed, since, stale>>
    BY <1>6 DEF T!ReadLow, T!Held
  <2>2. ASSUME ~stale PROVE InLoop'
    <3>1. InLoop
      BY <1>1, <2>1, <2>2 DEF Calibrated
    <3> QED BY <2>1, <3>1 DEF InLoop, Polled, CountedDown
  <2> QED BY <2>1, <2>2 DEF Calibrated, T!PeriodIsOneMs
<1>7. CASE T!ReadHigh
  <2>1. /\ tpc = "high"
        /\ UNCHANGED <<counter, loading, latched, lo, count, gap, elapsed, since, stale>>
        /\ \/ BYTE * (latched \div BYTE) + lo > last /\ tpc' = "read" /\ UNCHANGED last
           \/ /\ BYTE * (latched \div BYTE) + lo <= last
              /\ tpc' = "latch" /\ last' = BYTE * (latched \div BYTE) + lo
    BY <1>7 DEF T!ReadHigh, T!Held
  <2>2. ASSUME ~stale PROVE InLoop'
    <3>1. InLoop /\ ~loading
      BY <1>1, <2>1, <2>2 DEF Calibrated, InLoop
    <3>2. lo = latched % BYTE
      BY <2>1, <3>1 DEF InLoop
    <3>3. BYTE * (latched \div BYTE) + lo = latched
      BY <1>1, <3>2, BytesOf
    <3>4. \/ latched > last /\ tpc' = "read" /\ UNCHANGED last
          \/ latched <= last /\ tpc' = "latch" /\ last' = latched
      BY <2>1, <3>3
    <3>5. Polled' = Polled /\ CountedDown(Polled)' = CountedDown(Polled)
          /\ CountedDown(elapsed)' = CountedDown(elapsed)
      BY <2>1 DEF Polled, CountedDown
    <3>6. /\ latched = CountedDown(Polled)
          /\ \/ Polled \in 0..PIT_TICKS /\ latched <= last
             \/ Polled \in (PIT_TICKS + 1) .. (PIT_TICKS + MaxGap) /\ latched > last
      BY <2>1, <3>1 DEF InLoop
    <3>7. CASE tpc' = "read"
      <4>1. Polled \in (PIT_TICKS + 1) .. (PIT_TICKS + MaxGap)
        BY <1>1, <3>4, <3>6, <3>7
      <4> QED BY <2>1, <3>1, <3>5, <3>7, <4>1 DEF InLoop
    <3>8. CASE tpc' = "latch"
      <4>1. Polled \in 0..PIT_TICKS /\ last' = PIT_TICKS - Polled
        BY <1>1, <3>4, <3>6, <3>8 DEF CountedDown
      <4> QED BY <2>1, <3>1, <3>5, <3>8, <4>1 DEF InLoop
    <3> QED BY <3>4, <3>7, <3>8
  <2> QED BY <2>1, <2>2 DEF Calibrated, T!PeriodIsOneMs
<1>8. CASE CalibrateEnds
  <2>1. /\ tpc = "read" /\ tpc' = "done" /\ stale' = stale
        /\ count' = ((RATE * since * 16 * 100) \div 16) \div 1000
    BY <1>8 DEF CalibrateEnds, T!lapic_timer_init, T!Measured
  <2>2. ASSUME ~stale
        PROVE  /\ 10 * count' + 10 > RATE * PIT_TICKS
               /\ 10 * count' <= RATE * (PIT_TICKS + 1 + 3 * MaxGap)
    <3>1. InLoop /\ ~loading
      BY <1>1, <2>1, <2>2 DEF Calibrated, InLoop
    <3>2. /\ PIT_TICKS <= since /\ since <= PIT_TICKS + 1 + 3 * MaxGap /\ since \in Nat
      BY <1>1, <2>1, <3>1, ClockFacts DEF InLoop, Polled
    <3> DEFINE m == RATE * since
               top == PIT_TICKS + 1 + 3 * MaxGap
    <3>3. top \in Nat
      BY ClockFacts
    <3>4. m \in Nat /\ RATE * PIT_TICKS \in Nat /\ RATE * PIT_TICKS <= m
      BY <3>2, RateGrows, ClockFacts
    <3>5. RATE * top \in Nat /\ m <= RATE * top
      <4> HIDE DEF top
      <4>1. since <= top
        BY <3>2 DEF top
      <4> QED BY <3>2, <3>3, <4>1, RateGrows
    <3> HIDE DEF m
    <3>6. m \in Nat => LET c == ((m * 16 * 100) \div 16) \div 1000
                       IN c \in Nat /\ 10 * c <= m /\ m < 10 * c + 10
      OBVIOUS
    <3>7. count' = ((m * 16 * 100) \div 16) \div 1000
      BY <2>1 DEF m
    <3>8. count' \in Nat /\ 10 * count' <= m /\ m < 10 * count' + 10
      BY <3>4, <3>6, <3>7
    <3>9. 10 * count' + 10 > RATE * PIT_TICKS /\ 10 * count' <= RATE * top
      BY <3>4, <3>5, <3>8, Tenth
    <3> QED BY <3>9
  <2> QED BY <2>1, <2>2 DEF Calibrated, T!PeriodIsOneMs
<1>9. CASE UNCHANGED timerVars
  BY <1>1, <1>9 DEF Calibrated, InLoop, Polled, CountedDown, T!PeriodIsOneMs, timerVars
<1> QED BY <1>2, <1>3, <1>4, <1>5, <1>6, <1>7, <1>8, <1>9
        DEF Next, Code, KmainSteps, Handlers, Around, AcpiSteps, AcpiReturns, CalibratePolls, bootVars

-----------------------------------------------------------------------------
(***************************************************************************)
(* The PIT and the ticks.                                                  *)
(***************************************************************************)

\* The PIT counts as its mode says.
LEMMA PitStep == Inv /\ [Next]_bootVars => PitCounts'
<1> SUFFICES ASSUME Inv, [Next]_bootVars PROVE PitCounts'
  OBVIOUS
<1> USE DEF kmainVars, ioapicVars, picVars, lapicVars, cpuVars, machine, counts, interruptVars,
            timerVars, Return
<1>1. /\ PitCounts /\ SetUp /\ step \in 1..12
      /\ counter \in 0 .. (T!WRAP - 1) /\ elapsed \in 0 .. (2 * T!WRAP)
      /\ pit \in {"periodic", "counting", "expired"}
      /\ tpc \in {"start", "load", "latch", "low", "high", "read", "done"}
  BY KmainCalls DEF Inv, InterruptsTypeOK, T!TypeOK, T!Clocks
<1>2. CASE PitClock
  <2>1. /\ tpc \notin {"start", "done"} /\ ~loading'
        /\ counter' = IF loading THEN PIT_TICKS ELSE (counter + T!WRAP - 1) % T!WRAP
        /\ elapsed' = IF loading \/ tpc = "load" THEN 0 ELSE T!CountUp(elapsed)
        /\ UNCHANGED <<tpc, stale, step>>
        /\ pit' = IF pit = "counting" /\ ~loading /\ counter = 1 THEN "expired" ELSE pit
    BY <1>2 DEF PitClock, T!Clock
  <2>2. step = 5
    BY <1>1, <2>1 DEF PitCounts
  <2>3. ASSUME pit' = "counting" PROVE counter' >= 1 /\ counter' + elapsed' = PIT_TICKS
    <3>1. pit = "counting" /\ tpc # "load"
      BY <1>1, <2>1, <2>2, <2>3 DEF PitCounts
    <3>2. CASE loading
      BY <2>1, <3>2, ClockFacts
    <3>3. CASE ~loading
      <4>1. counter >= 1 /\ counter + elapsed = PIT_TICKS /\ counter # 1
        BY <1>1, <2>1, <2>2, <2>3, <3>1, <3>3 DEF PitCounts
      <4>2. elapsed' = elapsed + 1
        BY <1>1, <2>1, <3>1, <3>3, <4>1, ClockFacts DEF T!CountUp
      <4>3. counter' = counter - 1
        BY <1>1, <2>1, <3>3, <4>1, Downwards
      <4> QED BY <1>1, <4>1, <4>2, <4>3, ClockFacts
    <3> QED BY <3>2, <3>3
  <2> QED BY <1>1, <2>1, <2>2, <2>3 DEF PitCounts
<1>3. CASE CalibrateLoads
  <2>1. step = 5 /\ step' = 5 /\ tpc' = "latch" /\ loading' /\ pit' = "counting"
    BY <1>1, <1>3, Place DEF CalibrateLoads, T!WriteCount
  <2> QED BY <2>1 DEF PitCounts
<1>4. CASE CalibratePolls
  <2>1. step = 5 /\ UNCHANGED <<step, pit>>
    BY <1>1, <1>4, Place DEF CalibratePolls
  <2>2. CASE T!StartTimer
    <3>1. tpc = "start" /\ tpc' = "load"
      BY <2>2 DEF T!StartTimer
    <3> QED BY <1>1, <2>1, <3>1 DEF PitCounts
  <2>3. CASE T!Latch \/ T!ReadLow \/ T!ReadHigh
    <3>1. /\ tpc \in {"latch", "low", "high"} /\ tpc' \in {"latch", "low", "high", "read"}
          /\ UNCHANGED <<counter, loading, elapsed>>
      BY <2>3 DEF T!Latch, T!ReadLow, T!ReadHigh
    <3> QED BY <1>1, <2>1, <3>1 DEF PitCounts
  <2> QED BY <1>4, <2>2, <2>3 DEF CalibratePolls
<1>5. CASE CalibrateEnds
  <2>1. step = 5 /\ step' = 6 /\ tpc = "read" /\ tpc' = "done" /\ UNCHANGED <<pit, stale>>
    BY <1>1, <1>5, Place DEF CalibrateEnds, TimerStarts, T!lapic_timer_init
  <2>2. ASSUME ~stale PROVE pit = "expired"
    <3>1. ~loading /\ Polled \in (PIT_TICKS + 1) .. (PIT_TICKS + MaxGap) /\ gap \in 0..MaxGap
      BY <2>1, <2>2 DEF Inv, Calibrated, InLoop, T!TypeOK
    <3>2. elapsed > PIT_TICKS
      BY <1>1, <3>1, ClockFacts DEF Polled
    <3>3. pit # "counting"
      BY <1>1, <2>1, <3>1, <3>2, ClockFacts DEF PitCounts
    <3> QED BY <1>1, <2>1, <3>3 DEF PitCounts
  <2>3. pit # "periodic"
    BY <1>1, <2>1 DEF PitCounts
  <2> QED BY <2>1, <2>2, <2>3 DEF PitCounts
<1>6. CASE PitRises /\ UNCHANGED timerVars
  <2>1. step > 5 /\ pit' = "expired" /\ UNCHANGED <<step, tpc>>
    BY <1>1, <1>6 DEF PitRises, SetUp
  <2> QED BY <1>1, <2>1 DEF PitCounts
<1>7. CASE KmainSteps \/ AcpiReturns
  <2>1. UNCHANGED <<pit, tpc, counter, loading, elapsed, stale>>
    BY <1>7 DEF KmainSteps, AcpiReturns, Controllers, idt_init, lapic_init, IoapicInitLow, IoapicInitHigh,
                IoapicInitReturn, pic_disable, RedirectLow, UnmaskLow, WriteRedirHigh, sti, IoapicVersion
  <2>2. step' = step \/ (step' = step + 1 /\ step # 5)
    <3>1. CASE AcpiReturns \/ idt_init \/ lapic_init \/ IoapicInitReturn \/ pic_disable \/ sti
      BY <1>1, <3>1, Place DEF AcpiReturns, idt_init, lapic_init, IoapicInitReturn, pic_disable, sti
    <3>2. CASE \E p \in 0..1 : WriteRedirHigh(p)
      <4>1. PICK p \in 0..1 : WriteRedirHigh(p)
        BY <3>2
      <4>2. p = 0 \/ p = 1
        OBVIOUS
      <4> QED BY <1>1, <4>1, <4>2, Place DEF WriteRedirHigh
    <3>3. CASE IoapicVersion(IoapicBase) \/ IoapicInitLow \/ IoapicInitHigh \/ RedirectLow(1, KEY)
               \/ RedirectLow(0, TIMER) \/ \E p \in 0..1 : UnmaskLow(p)
      BY <3>3 DEF IoapicVersion, IoapicInitLow, IoapicInitHigh, RedirectLow, UnmaskLow
    <3> QED BY <1>7, <3>1, <3>2, <3>3 DEF KmainSteps, Controllers
  <2> QED BY <1>1, <2>1, <2>2 DEF PitCounts
<1>8. CASE UNCHANGED <<step, pit, tpc, counter, loading, elapsed, stale>>
  BY <1>1, <1>8 DEF PitCounts
<1>9. CASE AcpiSteps \/ Handlers \/ UNCHANGED bootVars
  <2>1. CASE AcpiSteps \/ UNCHANGED bootVars
    BY <1>8, <2>1 DEF AcpiSteps, bootVars
  <2>2. CASE Handlers
    <3>1. UNCHANGED <<step, pit>>
      BY <2>2 DEF Handlers, Handling, Accept, isr_handler, EoiAndReturn, Sti
    <3> QED BY <1>8, <2>2, <3>1 DEF Handlers
  <2> QED BY <1>9, <2>1, <2>2
<1>10. CASE Around
  BY <1>6, <1>8, <1>10 DEF Around, Devices, KeyArrives, TimerExpires, Yield, Cli
<1> QED BY <1>2, <1>3, <1>4, <1>5, <1>7, <1>9, <1>10 DEF Next, Code

\* Nothing is counted, requested or on its way that no period has given.
LEMMA TickStep == Inv /\ [Next]_bootVars => Ticks'
<1> SUFFICES ASSUME Inv, [Next]_bootVars PROVE Ticks'
  OBVIOUS
<1> USE DEF kmainVars, ioapicVars, picVars, lapicVars, cpuVars, machine, counts, interruptVars,
            timerVars, Return
<1>0. SUFFICES timer_ticks' + Pending' + InBody' <= periods' + yields' + Late'
  BY DEF Ticks
<1>1. /\ timer_ticks + Pending + InBody <= periods + yields + Late
      /\ timer_ticks \in Nat /\ periods \in Nat /\ yields \in Nat
      /\ Pending \in {0, 1} /\ InBody \in {0, 1} /\ Late \in {0, 1}
      /\ Pending' \in {0, 1} /\ InBody' \in {0, 1} /\ Late' \in {0, 1}
  BY BoundsAssumption DEF Inv, InterruptsTypeOK, Ticks, Pending, InBody, Late
<1>2. /\ handling \in {<<>>} \cup ({TIMER, KEY} \X {"hard", "soft"} \X {"body", "eoi"})
      /\ irr \subseteq {TIMER, KEY} /\ TIMER # KEY /\ (intr => handling = <<>>)
      /\ pit_pin \in Pins /\ 1 \in Pins /\ step \in 1..12
  BY KmainCalls, PinFacts DEF Inv, InterruptsTypeOK, Handled, TIMER, KEY
<1>3. CASE PitClock
  <2>1. UNCHANGED <<stale, handling, timer_ticks, periods, yields>>
    BY <1>3 DEF PitClock, T!Clock
  <2>2. irr' = irr
    <3>1. step < 7
      BY <1>2, <1>3 DEF PitClock, T!Clock, Inv, PitCounts
    <3> QED BY <1>2, <1>3, <3>1, EdgeIsOurs DEF PitClock
  <2>3. pit' = pit \/ pit' = "expired"
    BY <1>3 DEF PitClock
  <2>4. Pending' = Pending /\ InBody' = InBody /\ Late' >= Late
    BY <2>1, <2>2, <2>3 DEF Pending, InBody, Late
  <2> QED BY <1>1, <2>1, <2>4 DEF Pending, InBody, Late
<1>4. CASE CalibrateLoads \/ CalibratePolls \/ CalibrateEnds
  <2>1. UNCHANGED <<irr, handling, timer_ticks, periods, yields>>
    BY <1>4 DEF CalibrateLoads, CalibratePolls, CalibrateEnds, TimerStarts
  <2>2. Late' >= Late
    <3>1. CASE CalibrateLoads
      <4>1. pit = "periodic"
        BY <1>2, <3>1, Place DEF CalibrateLoads, T!WriteCount, Inv, PitCounts
      <4>2. Late = 0
        BY <4>1 DEF Late
      <4> QED BY <1>1, <4>2
    <3>2. CASE CalibratePolls \/ CalibrateEnds
      <4>1. pit' = pit /\ (stale => stale')
        <5>1. CASE CalibratePolls
          <6>1. stale' = stale \/ stale' = (stale \/ loading)
            BY <5>1 DEF CalibratePolls, T!StartTimer, T!Latch, T!ReadLow, T!ReadHigh
          <6>2. pit' = pit
            BY <5>1 DEF CalibratePolls
          <6>3. stale => stale'
            BY <6>1, Zenon
          <6> QED BY <6>2, <6>3
        <5>2. CASE CalibrateEnds
          <6>1. pit' = pit /\ stale' = stale
            BY <5>2 DEF CalibrateEnds, TimerStarts, T!lapic_timer_init
          <6> QED BY <6>1
        <5> QED BY <3>2, <5>1, <5>2
      <4> QED BY <4>1 DEF Late
    <3> QED BY <1>4, <3>1, <3>2
  <2>3. Pending' = Pending /\ InBody' = InBody
    BY <2>1 DEF Pending, InBody
  <2> QED BY <1>1, <2>1, <2>2, <2>3 DEF Pending, InBody, Late
<1>5. CASE PitRises /\ UNCHANGED timerVars
  <2>1. step > 5 /\ pit = "counting" /\ pit' = "expired"
        /\ UNCHANGED <<stale, handling, timer_ticks, periods, yields>>
    BY <1>2, <1>5 DEF PitRises, Inv, SetUp
  <2>2. stale
    BY <2>1 DEF Inv, PitCounts
  <2>3. Late = 0 /\ Late' = 1 /\ InBody' = InBody
    BY <2>1, <2>2 DEF Late, InBody
  <2> QED BY <1>1, <2>1, <2>3 DEF Pending, InBody, Late
<1>6. CASE KeyArrives /\ UNCHANGED timerVars
  <2>1. UNCHANGED <<stale, pit, handling, timer_ticks, periods, yields>> /\ Edge(1)
    BY <1>6 DEF KeyArrives
  <2>2. TIMER \in irr' <=> TIMER \in irr
    BY <1>2, <2>1, EdgeIsOurs
  <2>3. Pending' = Pending /\ InBody' = InBody /\ Late' = Late
    BY <2>1, <2>2 DEF Pending, InBody, Late
  <2> QED BY <1>1, <2>1, <2>3 DEF Pending, InBody, Late
<1>7. CASE TimerExpires /\ UNCHANGED timerVars
  <2>1. UNCHANGED <<stale, pit, handling, timer_ticks, yields>> /\ periods' = periods + 1
    BY <1>7 DEF TimerExpires
  <2>2. InBody' = InBody /\ Late' = Late
    BY <2>1 DEF InBody, Late
  <2> QED BY <1>1, <2>1, <2>2 DEF Pending, InBody, Late
<1>8. CASE (\E v \in gates : Accept(v)) /\ UNCHANGED timerVars
  <2>1. PICK v \in gates : Accept(v)
    BY <1>8
  <2>2. /\ v \in irr /\ handling = <<>> /\ irr' = irr \ {v} /\ handling' = <<v, "hard", "body">>
        /\ UNCHANGED <<stale, pit, timer_ticks, periods, yields>>
    BY <1>2, <1>8, <2>1 DEF Accept, Deliverable
  <2>3. InBody = 0 /\ Late' = Late
    BY <2>2 DEF InBody, Late
  <2>4. CASE v = TIMER
    <3>1. Pending = 1 /\ Pending' = 0
      BY <2>2, <2>4 DEF Pending
    <3> QED BY <1>1, <2>2, <2>3, <3>1 DEF Pending, InBody, Late
  <2>5. CASE v # TIMER
    <3>1. Pending' = Pending /\ InBody' = 0
      BY <2>2, <2>5 DEF Pending, InBody
    <3> QED BY <1>1, <2>2, <2>3, <3>1 DEF Pending, InBody, Late
  <2> QED BY <2>4, <2>5
<1>9. CASE Yield /\ UNCHANGED timerVars
  <2>1. /\ handling = <<>> /\ yields' = yields + 1
        /\ UNCHANGED <<stale, pit, irr, timer_ticks, periods>>
    BY <1>2, <1>9 DEF Yield
  <2>2. InBody = 0 /\ Pending' = Pending /\ Late' = Late
    BY <2>1 DEF InBody, Pending, Late
  <2> QED BY <1>1, <2>1, <2>2 DEF Pending, InBody, Late
<1>10. CASE isr_handler /\ UNCHANGED timerVars
  <2>1. /\ handling # <<>> /\ handling[3] = "body" /\ handling' = <<handling[1], handling[2], "eoi">>
        /\ timer_ticks' = IF handling[1] - 32 = 0 THEN timer_ticks + 1 ELSE timer_ticks
        /\ UNCHANGED <<stale, pit, irr, periods, yields>>
    BY <1>10 DEF isr_handler, HandlerBody
  <2>2. InBody' = 0 /\ Pending' = Pending /\ Late' = Late
    BY <2>1 DEF InBody, Pending, Late
  <2>3. timer_ticks' = timer_ticks + InBody
    BY <1>1, <1>2, <2>1 DEF InBody, TIMER, KEY
  <2> QED BY <1>1, <2>1, <2>2, <2>3 DEF Pending, InBody, Late
<1>11. CASE EoiAndReturn /\ UNCHANGED timerVars
  <2>1. handling' = <<>> /\ UNCHANGED <<stale, pit, irr, timer_ticks, periods, yields>>
    BY <1>11 DEF EoiAndReturn
  <2>2. InBody' = 0 /\ Pending' = Pending /\ Late' = Late
    BY <2>1 DEF InBody, Pending, Late
  <2> QED BY <1>1, <2>1, <2>2 DEF Pending, InBody, Late
<1>12. CASE UNCHANGED <<stale, pit, irr, handling, timer_ticks, periods, yields>>
  <2>1. InBody' = InBody /\ Pending' = Pending /\ Late' = Late
    BY <1>12 DEF InBody, Pending, Late
  <2> QED BY <1>1, <1>12, <2>1
<1>13. CASE KmainSteps
  BY <1>12, <1>13
  DEF KmainSteps, Controllers, idt_init, lapic_init, IoapicInitLow, IoapicInitHigh,
      IoapicInitReturn, pic_disable, RedirectLow, UnmaskLow, WriteRedirHigh, sti, IoapicVersion
<1>14. CASE AcpiSteps \/ AcpiReturns \/ UNCHANGED bootVars
  BY <1>12, <1>14 DEF AcpiSteps, AcpiReturns, bootVars
<1>15. CASE Handlers
  BY <1>8, <1>10, <1>11, <1>12, <1>15 DEF Handlers, Handling, Sti
<1>16. CASE Around
  BY <1>5, <1>6, <1>7, <1>9, <1>12, <1>16 DEF Around, Devices, Cli
<1> QED BY <1>3, <1>4, <1>13, <1>14, <1>15, <1>16 DEF Next, Code

-----------------------------------------------------------------------------
(***************************************************************************)
(* The theorems.                                                           *)
(***************************************************************************)

\* The invariant holds when kmain starts.
LEMMA InitInv == Init => Inv
<1> SUFFICES ASSUME Init PROVE Inv
  OBVIOUS
<1>1. PICK m \in Machines : fw = m.fw /\ InterruptsInit(m.dest, m.pic, m.bsp, m.pin)
  BY DEF Init
<1>2. m.dest \in 0..1 /\ m.pic \in BOOLEAN /\ m.bsp \in 0..1 /\ m.pin \in {0, 2}
  BY MachinesAssumption
<1>3. T!Init
  BY DEF Init
<1>4. InterruptsTypeOK
  <2>1. redtbl \in [Pins -> [vector : Vectors, masked : BOOLEAN, dest : 0..1]]
    BY <1>1, <1>2 DEF InterruptsInit, Vectors
  <2>2. {pic_masked, lvt0_masked, svr_enabled, intr, obf, early} \subseteq BOOLEAN /\ half \in BOOLEAN
    BY <1>1, <1>2 DEF InterruptsInit
  <2>3. keys \in 0..MaxKeys /\ periods \in 0..MaxPeriods /\ yields \in 0..MaxYields /\ clis \in 0..MaxClis
    BY <1>1, BoundsAssumption DEF InterruptsInit
  <2>4. step \in 1 .. (Len(Kmain) + 1) /\ i \in Pins /\ max_redir \in {-1} \cup Pins
    BY <1>1, KmainCalls, PinFacts DEF InterruptsInit
  <2> QED BY <1>1, <1>2, <2>1, <2>2, <2>3, <2>4 DEF InterruptsInit, InterruptsTypeOK
<1>5. Handled /\ SetUp
  BY <1>1 DEF InterruptsInit, Handled, SetUp, EoiMatches
<1>6. Index /\ Inputs
  BY <1>1 DEF InterruptsInit, Index, Inputs, Opened
<1>7. T!TypeOK
  <2>1. 0 \in 0 .. (T!WRAP - 1) /\ 0 \in 0 .. (BYTE - 1) /\ 0 \in 0..MaxGap /\ 0 \in T!Clocks
    BY ClockFacts DEF T!Clocks
  <2> QED BY <1>3, <2>1 DEF T!Init, T!TypeOK
<1>8. Calibrated /\ PitCounts
  BY <1>1, <1>3 DEF InterruptsInit, T!Init, Calibrated, PitCounts, T!PeriodIsOneMs
<1>9. Ticks
  BY <1>1, <1>3 DEF InterruptsInit, T!Init, Ticks, Pending, InBody, Late
<1> QED BY <1>4, <1>5, <1>6, <1>7, <1>8, <1>9 DEF Inv

\* Every step keeps the invariant.
LEMMA NextInv == Inv /\ [Next]_bootVars => Inv'
BY TypeStep, HandledStep, SetUpStep, IndexStep, InputsStep, TimerTypeStep, CalibratedStep, PitStep, TickStep
DEF Inv

\* The calls of kmain, the state of the controllers they leave, the calibration loop
\* and the ticks on their way stay in step, whatever the devices do (main.c, isr.c,
\* ioapic.c, lapic_timer.c).
THEOREM BootInvariant == Spec => []Inv
BY InitInv, NextInv, PTL DEF Spec

\* Each path of isr_handler ends with one EOI (isr.c:57-77), and the EOI of a yield
\* ends no interrupt in service: for every interleaving of the devices.
THEOREM EoisMatch == Spec => []EoiMatches
<1>1. Inv => EoiMatches
  BY DEF Inv, Handled
<1> QED BY <1>1, BootInvariant, PTL

\* Only vectors the kernel handles come in, and from inputs it has opened itself,
\* with its own destination: on every machine, whatever destinations and masks the
\* firmware left and whatever ioapic_base points to.
THEOREM OnlyOurs == Spec => []OnlyOursComeIn
<1>1. Inv => OnlyOursComeIn
  <2> SUFFICES ASSUME Inv PROVE OnlyOursComeIn
    OBVIOUS
  <2>1. step \in 1..12 /\ i \in Int /\ max_redir \in Int /\ UINT8 \in Nat /\ UINT8 >= 4
    BY KmainCalls, PinFacts DEF Inv, InterruptsTypeOK, Pins
  <2>2. ASSUME NEW p \in Pins, ~redtbl[p].masked
        PROVE  redtbl[p].dest = 0 /\ redtbl[p].vector = (IF p = 0 THEN TIMER ELSE KEY)
    <3>1. (p = 1 /\ Opened(1, 7)) \/ (p = 0 /\ Opened(0, 9))
      BY <2>2 DEF Inv, Inputs
    <3>2. redtbl[p].vector = (IF p = 0 THEN TIMER ELSE KEY) /\ chip = "isa" /\ step >= 7
      BY <2>1, <3>1 DEF Inv, Inputs, Opened
    <3>3. i > 2 /\ (\A q \in 0 .. (i - 1) : redtbl[q].dest = 0)
      BY <2>1, <3>2 DEF Inv, Index
    <3>4. p \in 0 .. (i - 1)
      BY <2>1, <3>1, <3>3
    <3> QED BY <3>2, <3>3, <3>4
  <2>3. ASSUME intr PROVE irr \subseteq gates /\ pic_masked /\ lvt0_masked /\ pic_base = 32
    <3>1. step = 12 /\ irr \subseteq {TIMER, KEY}
      BY <2>1, <2>3 DEF Inv, Handled
    <3>2. gates = (0..31) \cup (32..47) /\ pic_base = 32 /\ lvt0_masked /\ pic_masked
      BY <3>1 DEF Inv, SetUp
    <3> QED BY <3>1, <3>2 DEF TIMER, KEY
  <2> QED BY <2>2, <2>3 DEF OnlyOursComeIn, Inv
<1> QED BY <1>1, BootInvariant, PTL

\* The loop of lapic_timer_calibrate ends at its first poll after the PIT has passed
\* 0 and the period is 1 ms up to the gaps, for every rate and length of the gaps: if
\* the first poll comes after the count is loaded.
THEOREM CalibrationRight == Spec => []CalibrationIsRight
<1>1. Inv => CalibrationIsRight
  <2> SUFFICES ASSUME Inv PROVE CalibrationIsRight
    OBVIOUS
  <2>1. gap \in 0..MaxGap /\ elapsed \in 0 .. (2 * T!WRAP)
    BY DEF Inv, T!TypeOK, T!Clocks
  <2>2. T!LoopEndsAtWrap
    <3> SUFFICES ASSUME tpc = "read", ~stale
                 PROVE  elapsed \in (PIT_TICKS + 1) .. (PIT_TICKS + 2 * MaxGap)
      BY DEF T!LoopEndsAtWrap
    <3>1. Polled \in (PIT_TICKS + 1) .. (PIT_TICKS + MaxGap)
      BY DEF Inv, Calibrated, InLoop
    <3> QED BY <2>1, <3>1, ClockFacts DEF Polled
  <2> QED BY <2>2 DEF Inv, Calibrated, CalibrationIsRight
<1> QED BY <1>1, BootInvariant, PTL

\* timer_ticks counts the periods of the timer and the yields: the PIT, whose output
\* rises once, adds a tick only when the calibration has ended too soon.
THEOREM TicksCounted == Spec => []TicksAreCounted
<1>1. Inv => TicksAreCounted
  <2> SUFFICES ASSUME Inv PROVE TicksAreCounted
    OBVIOUS
  <2>1. /\ Pending \in 0..1 /\ InBody \in 0..1 /\ Late \in 0..1 /\ Late <= (IF stale THEN 1 ELSE 0)
        /\ timer_ticks \in Nat /\ periods \in Nat /\ yields \in Nat
    BY BoundsAssumption DEF Pending, InBody, Late, Inv, InterruptsTypeOK
  <2> QED BY <2>1 DEF Inv, Ticks, TicksAreCounted
<1> QED BY <1>1, BootInvariant, PTL

-----------------------------------------------------------------------------
(***************************************************************************)
(* The reading of the MADT, for every firmware.                            *)
(***************************************************************************)

\* The ends of entries es, as the function the recursion of EndOf defines, and of the
\* first m of them.
IsEnds(f, m, es) ==
  f = [n \in 0..m |-> IF n = 0 THEN A!SIZEOF_MADT ELSE f[n - 1] + es[n].length]

Image(es) ==
  /\ Len(es) \in Nat /\ DOMAIN es = 1..Len(es)
  /\ \A n \in 1..Len(es) : es[n].length \in Nat

LEMMA EndsExist ==
  ASSUME NEW es, Image(es)
  PROVE  \E f : IsEnds(f, Len(es), es)
<1> DEFINE N == Len(es)
           bad == {m \in 0..N : ~ \E f : IsEnds(f, m, es)}
           m == Min(bad)
<1>1. N \in Nat /\ N \in 0..N
  BY DEF Image
<1>2. SUFFICES bad = {}
  BY <1>1
<1>3. SUFFICES ASSUME bad # {} PROVE FALSE
  OBVIOUS
<1>4. m \in bad /\ \A y \in bad : m =< y
  <2>1. bad \in SUBSET Nat
    BY <1>1
  <2> HIDE DEF bad
  <2> QED BY <1>3, <2>1, MinIsMember
<1>5. m \in 0..N /\ ~ \E f : IsEnds(f, m, es)
  BY <1>4
<1> HIDE DEF m
<1>6. m # 0
  <2> DEFINE g == [n \in 0..0 |-> A!SIZEOF_MADT]
  <2>1. g = [n \in 0..0 |-> IF n = 0 THEN A!SIZEOF_MADT ELSE g[n - 1] + es[n].length]
    OBVIOUS
  <2>2. IsEnds(g, 0, es)
    BY <2>1, Zenon DEF IsEnds
  <2> QED BY <1>5, <2>2
<1>7. m - 1 \in 0..N /\ ~(m =< m - 1) /\ m - 1 \in Nat /\ m \in Nat
  BY <1>1, <1>5, <1>6
<1>8. PICK f : IsEnds(f, m - 1, es)
  BY <1>4, <1>7
<1> DEFINE g == [n \in 0..m |-> IF n = m THEN f[m - 1] + es[m].length ELSE f[n]]
           v(n) == IF n = 0 THEN A!SIZEOF_MADT ELSE g[n - 1] + es[n].length
<1>9. \A n \in 0 .. (m - 1) : f[n] = IF n = 0 THEN A!SIZEOF_MADT ELSE f[n - 1] + es[n].length
  BY <1>8, Zenon DEF IsEnds
<1>10. ASSUME NEW n \in 0..m PROVE g[n] = v(n)
  <2>1. CASE n = m
    <3>1. g[n - 1] = f[m - 1]
      BY <1>7, <2>1
    <3> QED BY <1>6, <2>1, <3>1
  <2>2. CASE n # m
    <3>1. n \in 0 .. (m - 1) /\ g[n] = f[n]
      BY <1>7, <2>2
    <3>2. n # 0 => n - 1 \in 0..m /\ n - 1 # m
      BY <1>7, <3>1
    <3>3. n # 0 => g[n - 1] = f[n - 1]
      BY <3>2
    <3> QED BY <1>9, <3>1, <3>3
  <2> QED BY <2>1, <2>2
<1>11. g = [n \in 0..m |-> v(n)]
  <2>1. g = [n \in 0..m |-> g[n]]
    OBVIOUS
  <2> HIDE DEF g, v
  <2> QED BY <1>10, <2>1
<1>12. IsEnds(g, m, es)
  <2> HIDE DEF g
  <2> QED BY <1>11, Zenon DEF IsEnds
<1> QED BY <1>5, <1>12

\* EndOf is such a function.
LEMMA EndOfFacts ==
  ASSUME Image(fw.entries)
  PROVE  /\ A!EndOf[0] = A!SIZEOF_MADT
         /\ \A n \in 1..Len(fw.entries) : A!EndOf[n] = A!EndOf[n - 1] + fw.entries[n].length
<1> DEFINE N == Len(fw.entries)
           e == CHOOSE f : IsEnds(f, N, fw.entries)
<1>1. IsEnds(e, N, fw.entries)
  BY EndsExist
<1>2. A!EndOf = e
  BY Zenon DEF A!EndOf, IsEnds
<1> HIDE DEF e
<1>3. N \in Nat /\ 0 \in 0..N /\ \A n \in 1..N : n \in 0..N /\ n # 0
  BY DEF Image
<1>4. \A n \in 0..N : e[n] = IF n = 0 THEN A!SIZEOF_MADT ELSE e[n - 1] + fw.entries[n].length
  BY <1>1, Zenon DEF IsEnds
<1> QED BY <1>2, <1>3, <1>4

\* Entries with a length end one behind the other.
LEMMA EndsGrow ==
  ASSUME NEW N \in Nat, NEW f, NEW l, f[0] \in Nat,
         \A n \in 1..N : l[n] \in Nat /\ l[n] > 0 /\ f[n] = f[n - 1] + l[n]
  PROVE  \A n \in 0..N : f[n] \in Nat /\ \A m \in 0..N : m < n => f[m] < f[n]
<1> DEFINE Grown(n) == f[n] \in Nat /\ \A m \in 0..N : m < n => f[m] < f[n]
           bad == {n \in 0..N : ~Grown(n)}
           b == Min(bad)
<1>1. SUFFICES ASSUME bad # {} PROVE FALSE
  OBVIOUS
<1>2. b \in bad /\ \A y \in bad : b =< y
  <2>1. bad \in SUBSET Nat
    OBVIOUS
  <2> HIDE DEF bad
  <2> QED BY <1>1, <2>1, MinIsMember
<1>3. b \in 0..N /\ ~Grown(b)
  BY <1>2
<1> HIDE DEF b
<1>4. b # 0
  <2>1. \A m \in 0..N : ~(m < 0)
    OBVIOUS
  <2> QED BY <1>3, <2>1
<1>5. b \in 1..N /\ b - 1 \in 0..N /\ ~(b =< b - 1)
  BY <1>3, <1>4
<1>6. Grown(b - 1)
  BY <1>2, <1>5
<1>7. f[b] = f[b - 1] + l[b] /\ l[b] \in Nat /\ l[b] > 0 /\ f[b - 1] \in Nat
  BY <1>5, <1>6
<1>8. f[b] \in Nat /\ f[b - 1] < f[b]
  BY <1>7
<1>9. ASSUME NEW m \in 0..N, m < b PROVE f[m] < f[b]
  <2>1. m = b - 1 \/ m < b - 1
    BY <1>5, <1>9
  <2>2. CASE m = b - 1
    BY <1>8, <2>2
  <2>3. CASE m < b - 1
    <3>1. f[m] < f[b - 1]
      BY <1>6, <2>3
    <3>2. m \notin bad
      BY <1>2, <1>9, <1>3
    <3>3. f[m] \in Nat
      BY <3>2
    <3> QED BY <1>7, <1>8, <3>1, <3>3
  <2> QED BY <2>1, <2>2, <2>3
<1> QED BY <1>3, <1>8, <1>9

\* Lists for the values of a function, and the operator it stands for.
Listing(seq, max, places, f) == A!Lists(seq, max, places, LAMBDA j : f[j])

LEMMA ListingIs ==
  ASSUME NEW seq, NEW max, NEW places, NEW f
  PROVE  Listing(seq, max, places, f) <=>
           \E at \in [1 .. Len(seq) -> places] :
             /\ \A m, n \in 1 .. Len(seq) : m < n => at[m] < at[n]
             /\ \A n \in 1 .. Len(seq) : seq[n] = f[at[n]]
             /\ \A p \in places : \/ \E n \in 1 .. Len(seq) : at[n] = p
                                  \/ Len(seq) = max /\ \A n \in 1 .. Len(seq) : at[n] < p
BY Zenon DEF Listing, A!Lists

LEMMA ListsNone ==
  ASSUME NEW max, NEW f
  PROVE  Listing(<<>>, max, {}, f)
<1> DEFINE at == [n \in 1..0 |-> n]
<1>1. Len(<<>>) = 0 /\ at \in [1..0 -> {}] /\ \A n \in 1..0 : FALSE
  OBVIOUS
<1> HIDE DEF at
<1> QED BY <1>1, ListingIs

\* One more place behind the others: its value is appended, or there is no room.
LEMMA ListGrows ==
  ASSUME NEW S, NEW seq \in Seq(S), NEW max \in Nat, NEW f, NEW m \in Nat, f[m] \in S,
         NEW places \in SUBSET (1 .. (m - 1)), Listing(seq, max, places, f)
  PROVE  /\ Len(seq) < max => Listing(Append(seq, f[m]), max, places \union {m}, f)
         /\ Len(seq) = max => Listing(seq, max, places \union {m}, f)
<1> DEFINE N == Len(seq)
           more == places \union {m}
<1>1. PICK at \in [1..N -> places] :
        /\ \A h, n \in 1..N : h < n => at[h] < at[n]
        /\ \A n \in 1..N : seq[n] = f[at[n]]
        /\ \A p \in places : (\E n \in 1..N : at[n] = p) \/ (N = max /\ \A n \in 1..N : at[n] < p)
  BY ListingIs
<1>2. N \in Nat /\ \A p \in places : p \in Nat /\ p < m
  OBVIOUS
<1>3. \A n \in 1..N : at[n] \in places /\ at[n] < m
  BY <1>1, <1>2
<1>4. ASSUME N < max PROVE Listing(Append(seq, f[m]), max, more, f)
  <2> DEFINE s == Append(seq, f[m])
             on == [n \in 1 .. (N + 1) |-> IF n = N + 1 THEN m ELSE at[n]]
  <2>1. Len(s) = N + 1 /\ s[N + 1] = f[m] /\ \A n \in 1..N : s[n] = seq[n]
    BY <1>2
  <2>2. on[N + 1] = m /\ \A n \in 1..N : on[n] = at[n]
    BY <1>2
  <2>3. \A n \in 1 .. (N + 1) : n = N + 1 \/ n \in 1..N
    BY <1>2
  <2>4. on \in [1 .. (N + 1) -> more]
    BY <1>3, <2>3
  <2> HIDE DEF s, on
  <2>5. ASSUME NEW h \in 1 .. Len(s), NEW n \in 1 .. Len(s), h < n PROVE on[h] < on[n]
    <3>1. h \in 1..N
      BY <1>2, <2>1, <2>5
    <3> QED BY <1>1, <1>3, <2>1, <2>2, <2>3, <2>5, <3>1
  <2>6. ASSUME NEW n \in 1 .. Len(s) PROVE s[n] = f[on[n]]
    BY <1>1, <2>1, <2>2, <2>3
  <2>7. ASSUME NEW p \in more PROVE \E n \in 1 .. Len(s) : on[n] = p
    <3>1. CASE p = m
      <4>1. N + 1 \in 1 .. Len(s)
        BY <1>2, <2>1
      <4> QED BY <2>2, <3>1, <4>1
    <3>2. CASE p \in places
      <4>1. N # max
        BY <1>2, <1>4
      <4>2. PICK n \in 1..N : at[n] = p
        BY <1>1, <3>2, <4>1
      <4>3. n \in 1 .. Len(s)
        BY <1>2, <2>1
      <4> QED BY <2>2, <4>2, <4>3
    <3> QED BY <3>1, <3>2
  <2> HIDE DEF more
  <2>0. on \in [1 .. Len(s) -> more]
    BY <2>1, <2>4
  <2>8. \E to \in [1 .. Len(s) -> more] :
          /\ \A h, n \in 1 .. Len(s) : h < n => to[h] < to[n]
          /\ \A n \in 1 .. Len(s) : s[n] = f[to[n]]
          /\ \A p \in more : \/ \E n \in 1 .. Len(s) : to[n] = p
                             \/ Len(s) = max /\ \A n \in 1 .. Len(s) : to[n] < p
    BY <2>0, <2>5, <2>6, <2>7, Zenon
  <2>9. Listing(s, max, more, f)
    BY <2>8, ListingIs, Zenon
  <2> QED BY <2>9 DEF s
<1>5. ASSUME N = max PROVE Listing(seq, max, more, f)
  <2>1. at \in [1..N -> more]
    BY <1>1
  <2>2. ASSUME NEW p \in more
        PROVE  (\E n \in 1..N : at[n] = p) \/ (N = max /\ \A n \in 1..N : at[n] < p)
    BY <1>1, <1>3, <1>5
  <2> HIDE DEF more
  <2> QED BY <1>1, <2>1, <2>2, ListingIs
<1> QED BY <1>4, <1>5

\* The entries of a firmware.
Entries(es) ==
  /\ Image(es)
  /\ \A n \in 1..Len(es) :
       /\ es[n].type \in 0..255
       /\ es[n].type = 0 => es[n].id \in 0..255 /\ es[n].enabled \in BOOLEAN
       /\ es[n].type = 1 => {es[n].addr, es[n].gsi_base} \subseteq Nat

\* The places of the entries before entry n, by what the code takes of them.
Cpus(es, n) == {j \in DOMAIN es : j < n /\ es[j].type = 0 /\ es[j].enabled}
Overrides(es, n) == {j \in DOMAIN es : j < n /\ es[j].type = 2}
Ioapics(es, n) == {j \in DOMAIN es : j < n /\ es[j].type = 1}
Ids(es) == [j \in DOMAIN es |-> es[j].id]
Itself(es) == [j \in DOMAIN es |-> j]

LastIoapic(places, es, addr, base) ==
  IF places = {} THEN addr = 0 /\ base = 0
  ELSE \E j \in places : (\A h \in places : h <= j) /\ addr = es[j].addr /\ base = es[j].gsi_base

\* TakenBefore over the functions above.
Taken(es, n, ids, overrides, addr, base) ==
  /\ Listing(ids, MAX_CPUS, Cpus(es, n), Ids(es))
  /\ Listing(overrides, MAX_ISOS, Overrides(es, n), Itself(es))
  /\ LastIoapic(Ioapics(es, n), es, addr, base)

LEMMA ListsIds ==
  ASSUME NEW seq, NEW max, NEW es, NEW places \in SUBSET DOMAIN es
  PROVE  /\ A!Lists(seq, max, places, LAMBDA j : es[j].id) <=> Listing(seq, max, places, Ids(es))
         /\ A!Lists(seq, max, places, LAMBDA j : j) <=> Listing(seq, max, places, Itself(es))
<1> DEFINE N == 1 .. Len(seq)
           Rest(at) == /\ \A m, n \in N : m < n => at[m] < at[n]
                       /\ \A p \in places : \/ \E n \in N : at[n] = p
                                            \/ Len(seq) = max /\ \A n \in N : at[n] < p
<1>1. A!Lists(seq, max, places, LAMBDA j : es[j].id) <=>
        \E at \in [N -> places] : Rest(at) /\ \A n \in N : seq[n] = es[at[n]].id
  BY Zenon DEF A!Lists
<1>2. A!Lists(seq, max, places, LAMBDA j : j) <=>
        \E at \in [N -> places] : Rest(at) /\ \A n \in N : seq[n] = at[n]
  BY Zenon DEF A!Lists
<1>3. \A f : Listing(seq, max, places, f) <=>
        \E at \in [N -> places] : Rest(at) /\ \A n \in N : seq[n] = f[at[n]]
  BY Zenon DEF A!Lists, Listing
<1>4. ASSUME NEW at \in [N -> places], NEW n \in N
      PROVE  Ids(es)[at[n]] = es[at[n]].id /\ Itself(es)[at[n]] = at[n]
  <2>1. at[n] \in DOMAIN es
    BY <1>4
  <2> QED BY <2>1, Zenon DEF Ids, Itself
<1> HIDE DEF Rest
<1>5. ASSUME NEW at \in [N -> places]
      PROVE  /\ (\A n \in N : seq[n] = Ids(es)[at[n]]) <=> (\A n \in N : seq[n] = es[at[n]].id)
             /\ (\A n \in N : seq[n] = Itself(es)[at[n]]) <=> (\A n \in N : seq[n] = at[n])
  BY <1>4, Zenon
<1>6. A!Lists(seq, max, places, LAMBDA j : es[j].id) <=> Listing(seq, max, places, Ids(es))
  <2>1. Listing(seq, max, places, Ids(es)) <=>
          \E at \in [N -> places] : Rest(at) /\ \A n \in N : seq[n] = Ids(es)[at[n]]
    BY <1>3, Zenon
  <2> QED BY <1>1, <1>5, <2>1, Zenon
<1>7. A!Lists(seq, max, places, LAMBDA j : j) <=> Listing(seq, max, places, Itself(es))
  <2>1. Listing(seq, max, places, Itself(es)) <=>
          \E at \in [N -> places] : Rest(at) /\ \A n \in N : seq[n] = Itself(es)[at[n]]
    BY <1>3, Zenon
  <2> QED BY <1>2, <1>5, <2>1, Zenon
<1> QED BY <1>6, <1>7

LEMMA TakenIs ==
  ASSUME NEW n
  PROVE  A!TakenBefore(n) <=>
           Taken(fw.entries, n, lapic_ids, isos, ioapic_addr, ioapic_gsi_base)
<1> DEFINE es == fw.entries
           before == {j \in DOMAIN es : j < n}
<1>1. /\ {j \in before : es[j].type = 0 /\ es[j].enabled} = Cpus(es, n)
      /\ {j \in before : es[j].type = 2} = Overrides(es, n)
      /\ {j \in before : es[j].type = 1} = Ioapics(es, n)
  BY Zenon DEF Cpus, Overrides, Ioapics
<1>2. Cpus(es, n) \in SUBSET DOMAIN es /\ Overrides(es, n) \in SUBSET DOMAIN es
  BY DEF Cpus, Overrides
<1>3. /\ A!Lists(lapic_ids, MAX_CPUS, Cpus(es, n), LAMBDA j : es[j].id)
           <=> Listing(lapic_ids, MAX_CPUS, Cpus(es, n), Ids(es))
      /\ A!Lists(isos, MAX_ISOS, Overrides(es, n), LAMBDA j : j)
           <=> Listing(isos, MAX_ISOS, Overrides(es, n), Itself(es))
  BY <1>2, ListsIds
<1>4. A!TakenBefore(n) <=>
        /\ A!Lists(lapic_ids, MAX_CPUS, Cpus(es, n), LAMBDA j : es[j].id)
        /\ A!Lists(isos, MAX_ISOS, Overrides(es, n), LAMBDA j : j)
        /\ LastIoapic(Ioapics(es, n), es, ioapic_addr, ioapic_gsi_base)
  BY <1>1, Zenon DEF A!TakenBefore, LastIoapic
<1> QED BY <1>3, <1>4, Zenon DEF Taken

\* A turn of the loop takes entry n.
LEMMA TakenStep ==
  ASSUME NEW es, Entries(es), NEW n \in 1..Len(es),
         NEW ids \in Seq(0..255), Len(ids) <= MAX_CPUS,
         NEW overrides \in Seq(1..Len(es)), Len(overrides) <= MAX_ISOS, NEW addr, NEW base,
         Taken(es, n, ids, overrides, addr, base)
  PROVE  Taken(es, n + 1,
               IF es[n].type = 0 /\ es[n].enabled /\ Len(ids) < MAX_CPUS
               THEN Append(ids, es[n].id) ELSE ids,
               IF es[n].type = 2 /\ Len(overrides) < MAX_ISOS THEN Append(overrides, n) ELSE overrides,
               IF es[n].type = 1 THEN es[n].addr ELSE addr,
               IF es[n].type = 1 THEN es[n].gsi_base ELSE base)
<1>1. MAX_CPUS \in Nat /\ MAX_ISOS \in Nat
  <2>1. MAX_CPUS \in 1..255 /\ MAX_ISOS \in 1..255
    BY FirmwaresAssumption, Zenon
  <2> QED BY <2>1
<1>2. Len(es) \in Nat /\ DOMAIN es = 1..Len(es) /\ n \in Nat
  BY DEF Entries, Image
<1>3. \A j \in DOMAIN es : j < n + 1 <=> (j < n \/ j = n)
  BY <1>2
<1>4. ~(n < n)
  BY <1>2
<1>5. /\ Cpus(es, n + 1) = IF es[n].type = 0 /\ es[n].enabled THEN Cpus(es, n) \union {n} ELSE Cpus(es, n)
      /\ Overrides(es, n + 1) = IF es[n].type = 2 THEN Overrides(es, n) \union {n} ELSE Overrides(es, n)
      /\ Ioapics(es, n + 1) = IF es[n].type = 1 THEN Ioapics(es, n) \union {n} ELSE Ioapics(es, n)
  BY <1>2, <1>3 DEF Cpus, Overrides, Ioapics
<1>6. /\ Cpus(es, n) \in SUBSET (1 .. (n - 1)) /\ Overrides(es, n) \in SUBSET (1 .. (n - 1))
      /\ Ioapics(es, n) \in SUBSET (1 .. (n - 1))
  BY <1>2 DEF Cpus, Overrides, Ioapics
<1>7. Listing(IF es[n].type = 0 /\ es[n].enabled /\ Len(ids) < MAX_CPUS
              THEN Append(ids, es[n].id) ELSE ids, MAX_CPUS, Cpus(es, n + 1), Ids(es))
  <2>1. Listing(ids, MAX_CPUS, Cpus(es, n), Ids(es))
    BY Zenon DEF Taken
  <2>2. CASE es[n].type = 0 /\ es[n].enabled
    <3>1. Ids(es)[n] = es[n].id /\ es[n].id \in 0..255
      BY <1>2, <2>2 DEF Ids, Entries
    <3>2. /\ Len(ids) < MAX_CPUS => Listing(Append(ids, es[n].id), MAX_CPUS, Cpus(es, n) \union {n}, Ids(es))
          /\ Len(ids) = MAX_CPUS => Listing(ids, MAX_CPUS, Cpus(es, n) \union {n}, Ids(es))
      BY <1>1, <1>2, <1>6, <2>1, <3>1, ListGrows, ZenonT(40)
    <3>3. Len(ids) < MAX_CPUS \/ Len(ids) = MAX_CPUS
      BY <1>1
    <3>4. Len(ids) < MAX_CPUS => Len(ids) # MAX_CPUS
      BY <1>1
    <3> QED BY <1>5, <2>2, <3>2, <3>3, <3>4
  <2> QED BY <1>5, <2>1, <2>2
<1>8. Listing(IF es[n].type = 2 /\ Len(overrides) < MAX_ISOS
              THEN Append(overrides, n) ELSE overrides, MAX_ISOS, Overrides(es, n + 1), Itself(es))
  <2>1. Listing(overrides, MAX_ISOS, Overrides(es, n), Itself(es))
    BY Zenon DEF Taken
  <2>2. CASE es[n].type = 2
    <3>1. Itself(es)[n] = n
      BY <1>2 DEF Itself
    <3>2. /\ Len(overrides) < MAX_ISOS
               => Listing(Append(overrides, n), MAX_ISOS, Overrides(es, n) \union {n}, Itself(es))
          /\ Len(overrides) = MAX_ISOS
               => Listing(overrides, MAX_ISOS, Overrides(es, n) \union {n}, Itself(es))
      BY <1>1, <1>2, <1>6, <2>1, <3>1, ListGrows
    <3>3. Len(overrides) < MAX_ISOS \/ Len(overrides) = MAX_ISOS
      BY <1>1
    <3> QED BY <1>5, <2>2, <3>2, <3>3
  <2> QED BY <1>5, <2>1, <2>2
<1>9. LastIoapic(Ioapics(es, n + 1), es, IF es[n].type = 1 THEN es[n].addr ELSE addr,
                 IF es[n].type = 1 THEN es[n].gsi_base ELSE base)
  <2>1. LastIoapic(Ioapics(es, n), es, addr, base)
    BY Zenon DEF Taken
  <2>2. CASE es[n].type = 1
    <3>1. Ioapics(es, n + 1) = Ioapics(es, n) \union {n}
      BY <1>5, <2>2
    <3>2. \A h \in Ioapics(es, n) \union {n} : h <= n
      BY <1>2, <1>6
    <3> QED BY <2>2, <3>1, <3>2 DEF LastIoapic
  <2> QED BY <1>5, <2>1, <2>2
<1> QED BY <1>7, <1>8, <1>9, Zenon DEF Taken

\* Before the first entry nothing is taken.
LEMMA TakenNone ==
  ASSUME NEW es, Entries(es)
  PROVE  Taken(es, 1, <<>>, <<>>, 0, 0)
<1>1. Cpus(es, 1) = {} /\ Overrides(es, 1) = {} /\ Ioapics(es, 1) = {}
  BY DEF Entries, Image, Cpus, Overrides, Ioapics
<1> QED BY <1>1, ListsNone DEF Taken, LastIoapic

\* What the assumption says of the firmware found.
LEMMA FirmwareFacts ==
  ASSUME fw \in Firmwares
  PROVE  /\ Entries(fw.entries) /\ fw.length \in Nat /\ fw.revision \in {0, 2} /\ fw.identity \in BOOLEAN
         /\ Len(fw.tables) \in Nat /\ DOMAIN fw.tables = 1 .. Len(fw.tables)
<1>1. /\ fw.revision \in {0, 2} /\ fw.identity \in BOOLEAN /\ fw.length \in Nat
      /\ Len(fw.tables) \in Nat /\ DOMAIN fw.tables = 1 .. Len(fw.tables)
      /\ Len(fw.entries) \in Nat /\ DOMAIN fw.entries = 1 .. Len(fw.entries)
      /\ \A n \in DOMAIN fw.entries :
            /\ fw.entries[n].type \in 0..255 /\ fw.entries[n].length \in 0..255
            /\ fw.entries[n].type = 0 => fw.entries[n].id \in 0..255 /\ fw.entries[n].enabled \in BOOLEAN
            /\ fw.entries[n].type = 1 => {fw.entries[n].addr, fw.entries[n].gsi_base} \subseteq Nat
  BY FirmwaresAssumption, Zenon
<1>2. \A n \in 1 .. Len(fw.entries) : fw.entries[n].length \in Nat
  <2>1. \A n \in 1 .. Len(fw.entries) : fw.entries[n].length \in 0..255
    BY <1>1, Zenon
  <2>2. \A x \in 0..255 : x \in Nat
    OBVIOUS
  <2> QED BY <2>1, <2>2, Zenon
<1> QED BY <1>1, <1>2, ZenonT(40) DEF Entries, Image

\* The entries are being read, or have been.
Scanned == mpc = "parse" \/ (mpc = "done" /\ A!HasMadt)

\* The search has passed no MADT and leaves the results alone; from the first entry
\* on, ptr is the end of the entry before and the results are what was taken so far.
MadtInv ==
  /\ fw \in Firmwares /\ A!TypeOK /\ A!FaultsOnXsdtOnly
  /\ mpc \in {"acpi_init", "find"} => \A j \in 1 .. (t - 1) : fw.tables[j] # "APIC"
  /\ mpc = "parse" => A!HasMadt
  /\ ~Scanned => A!results = <<0, <<>>, <<>>, 0, 0>> /\ k = 1
  /\ Scanned => lapic_addr = A!LAPIC_ADDRESS
  /\ Scanned /\ A!WellFormed =>
       ptr = A!EndOf[k - 1] /\ Taken(fw.entries, k, lapic_ids, isos, ioapic_addr, ioapic_gsi_base)
  /\ mpc = "done" /\ A!HasMadt /\ A!WellFormed => k = Len(fw.entries) + 1

\* The ends of a correct table: within an entry before the end of the table, and only there.
LEMMA EndsOfTable ==
  ASSUME fw \in Firmwares, A!WellFormed
  PROVE  /\ \A n \in 0..Len(fw.entries) : A!EndOf[n] \in Nat /\ (A!EndOf[n] < fw.length <=> n < Len(fw.entries))
         /\ \A n \in 1..Len(fw.entries) : /\ A!EndOf[n] = A!EndOf[n - 1] + fw.entries[n].length
                                          /\ fw.entries[n].length \in Nat \ {0}
                                          /\ A!EndOf[n - 1] + A!SizeOf(fw.entries[n]) <= fw.length
<1> DEFINE es == fw.entries
           N == Len(es)
           l == [n \in 1..N |-> es[n].length]
           f == A!EndOf
<1>1. Entries(es) /\ N \in Nat /\ DOMAIN es = 1..N
  BY FirmwareFacts DEF Entries, Image
<1>2. f[0] = A!SIZEOF_MADT /\ \A n \in 1..N : f[n] = f[n - 1] + es[n].length
  BY <1>1, EndOfFacts DEF Entries
<1>3. ASSUME NEW n \in 1..N
      PROVE  es[n].length \in Nat /\ A!SizeOf(es[n]) \in Nat \ {0} /\ es[n].length >= A!SizeOf(es[n])
  <2>1. es[n].type \in 0..255 /\ es[n].length \in Nat
    BY <1>1 DEF Entries, Image
  <2>2. A!SizeOf(es[n]) \in Nat \ {0}
    <3>1. /\ A!EntrySize[0 + 1] = 8 /\ A!EntrySize[1 + 1] = 12 /\ A!EntrySize[2 + 1] = 10
          /\ A!EntrySize[4 + 1] = 6
      BY DEF A!EntrySize
    <3>2. A!SizeOf(es[n]) \in {8, 12, 10, 6, 2}
      BY <3>1, Zenon DEF A!SizeOf
    <3> HIDE DEF es
    <3> QED BY <3>2
  <2>3. es[n].length >= A!SizeOf(es[n])
    BY <1>1, Zenon DEF A!WellFormed
  <2> QED BY <2>1, <2>2, <2>3, SMTT(30)
<1>4. fw.length = f[N]
  BY Zenon DEF A!WellFormed
<1> HIDE DEF f
<1>5. \A n \in 1..N : l[n] \in Nat /\ l[n] > 0 /\ f[n] = f[n - 1] + l[n]
  <2> SUFFICES ASSUME NEW n \in 1..N PROVE l[n] \in Nat /\ l[n] > 0 /\ f[n] = f[n - 1] + l[n]
    OBVIOUS
  <2>1. l[n] = es[n].length
    OBVIOUS
  <2> HIDE DEF l
  <2> QED BY <1>2, <1>3, <2>1
<1>6. f[0] \in Nat
  BY <1>2 DEF A!SIZEOF_MADT
<1> HIDE DEF l
<1>7. \A n \in 0..N : f[n] \in Nat /\ \A m \in 0..N : m < n => f[m] < f[n]
  BY <1>1, <1>5, <1>6, EndsGrow
<1>8. ASSUME NEW n \in 0..N PROVE f[n] \in Nat /\ (f[n] < fw.length <=> n < N)
  <2>1. N \in 0..N /\ (n < N \/ n = N)
    BY <1>1
  <2> QED BY <1>4, <1>7, <1>8, <2>1
<1>9. ASSUME NEW n \in 1..N PROVE f[n - 1] + A!SizeOf(es[n]) <= fw.length
  <2>1. n - 1 \in 0..N /\ n \in 0..N /\ N \in 0..N /\ (n < N \/ n = N)
    BY <1>1
  <2>2. f[n] = f[n - 1] + es[n].length /\ f[n] <= fw.length /\ f[n - 1] \in Nat /\ f[n] \in Nat /\ fw.length \in Nat
    <3>1. f[n] \in Nat /\ f[n - 1] \in Nat /\ f[N] \in Nat
      BY <1>7, <2>1
    <3>2. n < N => f[n] < f[N]
      BY <1>7, <2>1
    <3>3. f[n] = f[n - 1] + es[n].length
      BY <1>2
    <3> HIDE DEF N, es
    <3>4. f[n] <= f[N]
      BY <2>1, <3>1, <3>2
    <3> QED BY <1>4, <3>1, <3>3, <3>4
  <2>3. es[n].length \in Nat /\ A!SizeOf(es[n]) \in Nat \ {0} /\ es[n].length >= A!SizeOf(es[n])
    BY <1>3
  <2> QED BY <2>2, <2>3
<1>10. \A n \in 1..N : es[n].length \in Nat \ {0}
  BY <1>3
<1> QED BY <1>2, <1>8, <1>9, <1>10, SMTT(30) DEF f

\* The invariant says that the table is read as it should be.
LEMMA MadtInvReads ==
  ASSUME MadtInv
  PROVE  A!TypeOK /\ A!ScanIsFaithful /\ A!ReadsStayInside /\ A!FaultsOnXsdtOnly
<1>1. A!ScanIsFaithful
  <2>1. ASSUME NEW n, n = k, Taken(fw.entries, k, lapic_ids, isos, ioapic_addr, ioapic_gsi_base)
        PROVE  A!TakenBefore(n)
    BY <2>1, TakenIs
  <2>2. ASSUME mpc = "done", A!WellFormed, A!HasMadt
        PROVE  lapic_addr = A!LAPIC_ADDRESS /\ A!TakenBefore(Len(fw.entries) + 1)
    BY <2>1, <2>2 DEF MadtInv, Scanned
  <2>3. ASSUME mpc = "done", ~A!HasMadt
        PROVE  A!results = <<0, <<>>, <<>>, 0, 0>>
    BY <2>3 DEF MadtInv, Scanned
  <2> QED BY <2>2, <2>3, Zenon DEF A!ScanIsFaithful
<1>2. ASSUME mpc = "parse", A!WellFormed, A!MoreEntries
      PROVE  k <= Len(fw.entries) /\ ptr + A!SizeOf(fw.entries[k]) <= fw.length
  <2>1. k \in 1 .. (Len(fw.entries) + 1) /\ fw \in Firmwares /\ ptr = A!EndOf[k - 1] /\ ptr < fw.length
    BY <1>2 DEF MadtInv, Scanned, A!TypeOK, A!MoreEntries
  <2>2. Len(fw.entries) \in Nat
    BY <2>1, FirmwareFacts DEF Entries, Image
  <2>3. k - 1 \in 0..Len(fw.entries)
    BY <2>1, <2>2
  <2>4. k - 1 < Len(fw.entries)
    BY <1>2, <2>1, <2>3, EndsOfTable
  <2>5. k \in 1..Len(fw.entries)
    BY <2>1, <2>2, <2>4
  <2>6. ptr + A!SizeOf(fw.entries[k]) <= fw.length
    BY <1>2, <2>1, <2>5, EndsOfTable
  <2> QED BY <2>2, <2>5, <2>6
<1> QED BY <1>1, <1>2 DEF MadtInv, A!ReadsStayInside

LEMMA MadtInit == A!Init => MadtInv
<1> SUFFICES ASSUME A!Init PROVE MadtInv
  OBVIOUS
<1>1. fw \in Firmwares
  BY Zenon DEF A!Init
<1>2. Len(fw.tables) \in Nat /\ Len(fw.entries) \in Nat
  BY <1>1, FirmwareFacts DEF Entries, Image
<1>3. MAX_CPUS \in Nat /\ MAX_ISOS \in Nat
  <2>1. MAX_CPUS \in 1..255 /\ MAX_ISOS \in 1..255
    BY FirmwaresAssumption, Zenon
  <2> QED BY <2>1
<1>4. A!TypeOK
  BY <1>2, <1>3 DEF A!Init, A!TypeOK
<1> QED BY <1>1, <1>4 DEF A!Init, MadtInv, Scanned, A!results, A!FaultsOnXsdtOnly

\* What depends on the tables alone stays when they do.
LEMMA TablesStay ==
  ASSUME fw' = fw
  PROVE  /\ A!HasMadt' = A!HasMadt /\ A!WellFormed' = A!WellFormed /\ A!EndOf' = A!EndOf
         /\ A!HeaderIsMapped' = A!HeaderIsMapped
BY ZenonT(40) DEF A!HasMadt, A!WellFormed, A!EndOf, A!HeaderIsMapped

LEMMA AcpiKeeps ==
  ASSUME MadtInv, A!acpi_init
  PROVE  MadtInv'
<1>1. fw' = fw /\ UNCHANGED <<caller, t, ptr, k, lapic_addr, lapic_ids, isos, ioapic_addr, ioapic_gsi_base>>
  BY DEF A!acpi_init, A!results
<1>2. A!HasMadt' = A!HasMadt /\ A!WellFormed' = A!WellFormed /\ A!EndOf' = A!EndOf
  BY <1>1, TablesStay
<1>3. mpc = "acpi_init" /\ mpc' = "find"
  BY DEF A!acpi_init
<1>4. A!TypeOK'
  BY <1>1, <1>3 DEF MadtInv, A!TypeOK
<1> QED BY <1>1, <1>2, <1>3, <1>4 DEF MadtInv, Scanned, A!results, A!FaultsOnXsdtOnly

LEMMA SearchKeeps ==
  ASSUME MadtInv, A!FindReads
  PROVE  MadtInv'
<1>1. fw' = fw /\ UNCHANGED <<k, lapic_ids, isos, ioapic_addr, ioapic_gsi_base>> /\ mpc = "find"
  BY DEF A!FindReads
<1>2. /\ A!HasMadt' = A!HasMadt /\ A!WellFormed' = A!WellFormed /\ A!EndOf' = A!EndOf
      /\ A!HeaderIsMapped' = A!HeaderIsMapped
  BY <1>1, TablesStay
<1>3. t \in 1..Len(fw.tables) /\ Len(fw.tables) \in Nat /\ DOMAIN fw.tables = 1..Len(fw.tables)
  <2>1. Len(fw.tables) \in Nat /\ DOMAIN fw.tables = 1..Len(fw.tables)
    BY FirmwareFacts DEF MadtInv
  <2> QED BY <2>1 DEF MadtInv, A!TypeOK, A!FindReads
<1>4. /\ fw \in Firmwares /\ A!TypeOK /\ k = 1 /\ lapic_addr = 0 /\ lapic_ids = <<>> /\ isos = <<>>
      /\ ioapic_addr = 0 /\ ioapic_gsi_base = 0
      /\ \A j \in 1 .. (t - 1) : fw.tables[j] # "APIC"
  BY <1>1 DEF MadtInv, Scanned, A!results
<1>5. CASE ~A!HeaderIsMapped /\ mpc' = "fault" /\ UNCHANGED <<t, ptr, caller, lapic_addr>>
  <2>1. A!TypeOK'
    BY <1>1, <1>4, <1>5 DEF A!TypeOK
  <2>2. fw.revision >= 2 /\ ~fw.identity
    <3>1. fw.revision \in {0, 2}
      BY <1>4, FirmwareFacts
    <3> QED BY <1>5, <3>1 DEF A!HeaderIsMapped
  <2> QED BY <1>1, <1>2, <1>4, <1>5, <2>1, <2>2 DEF MadtInv, Scanned, A!results, A!FaultsOnXsdtOnly
<1>6. CASE fw.tables[t] # "APIC" /\ t' = t + 1 /\ UNCHANGED <<mpc, ptr, caller, lapic_addr>>
  <2>1. A!TypeOK'
    BY <1>1, <1>3, <1>4, <1>6 DEF A!TypeOK
  <2>2. ASSUME NEW j \in 1 .. (t' - 1) PROVE fw.tables[j] # "APIC"
    <3>1. j = t \/ j \in 1 .. (t - 1)
      BY <1>3, <1>6, <2>2
    <3> QED BY <1>4, <1>6, <3>1
  <2> QED BY <1>1, <1>2, <1>4, <1>6, <2>1, <2>2 DEF MadtInv, Scanned, A!results, A!FaultsOnXsdtOnly
<1>7. CASE t' = 1 /\ caller' = "madt_init" /\ UNCHANGED <<mpc, ptr, lapic_addr>>
  <2>1. A!TypeOK'
    BY <1>1, <1>3, <1>4, <1>7 DEF A!TypeOK
  <2>2. \A j \in 1 .. (t' - 1) : FALSE
    BY <1>7
  <2> QED BY <1>1, <1>2, <1>4, <1>7, <2>1, <2>2 DEF MadtInv, Scanned, A!results, A!FaultsOnXsdtOnly
<1>8. CASE /\ fw.tables[t] = "APIC" /\ mpc' = "parse" /\ ptr' = A!SIZEOF_MADT
           /\ lapic_addr' = A!LAPIC_ADDRESS /\ UNCHANGED <<t, caller>>
  <2>1. A!TypeOK'
    BY <1>1, <1>4, <1>8 DEF A!TypeOK, A!SIZEOF_MADT
  <2>2. A!HasMadt
    BY <1>3, <1>8, SMTT(30) DEF A!HasMadt
  <2>3. Entries(fw.entries) /\ Image(fw.entries)
    BY <1>4, FirmwareFacts DEF Entries
  <2>4. Taken(fw.entries, 1, <<>>, <<>>, 0, 0) /\ A!EndOf[0] = A!SIZEOF_MADT /\ 1 - 1 = 0
    BY <2>3, TakenNone, EndOfFacts
  <2> QED BY <1>1, <1>2, <1>4, <1>8, <2>1, <2>2, <2>4 DEF MadtInv, Scanned, A!FaultsOnXsdtOnly
<1> QED BY <1>5, <1>6, <1>7, <1>8 DEF A!FindReads

LEMMA NotFoundKeeps ==
  ASSUME MadtInv, A!FindEnds
  PROVE  MadtInv'
<1>1. /\ fw' = fw /\ UNCHANGED <<ptr, k, lapic_addr, lapic_ids, isos, ioapic_addr, ioapic_gsi_base>>
      /\ mpc = "find" /\ t > Len(fw.tables) /\ t' = 1 /\ caller' = "madt_init" /\ mpc' \in {"find", "done"}
  BY DEF A!FindEnds, A!results
<1>2. A!HasMadt' = A!HasMadt /\ A!WellFormed' = A!WellFormed /\ A!EndOf' = A!EndOf
  BY <1>1, TablesStay
<1>3. Len(fw.tables) \in Nat /\ DOMAIN fw.tables = 1..Len(fw.tables)
  BY FirmwareFacts DEF MadtInv
<1>4. ~A!HasMadt
  <2>1. \A j \in 1 .. (t - 1) : fw.tables[j] # "APIC"
    BY <1>1 DEF MadtInv
  <2>2. t \in 1 .. (Len(fw.tables) + 1)
    BY Zenon DEF MadtInv, A!TypeOK
  <2>3. t - 1 = Len(fw.tables)
    BY <1>1, <1>3, <2>2
  <2> QED BY <1>3, <2>1, <2>3, Zenon DEF A!HasMadt
<1>5. A!TypeOK'
  BY <1>1, <1>3 DEF MadtInv, A!TypeOK
<1>6. \A j \in 1 .. (t' - 1) : FALSE
  BY <1>1
<1> QED BY <1>1, <1>2, <1>4, <1>5, <1>6 DEF MadtInv, Scanned, A!results, A!FaultsOnXsdtOnly

LEMMA ReturnKeeps ==
  ASSUME MadtInv, A!madt_return
  PROVE  MadtInv'
<1>1. /\ fw' = fw /\ UNCHANGED <<caller, t, ptr, k, lapic_addr, lapic_ids, isos, ioapic_addr, ioapic_gsi_base>>
      /\ mpc = "parse" /\ mpc' = "done" /\ ~A!MoreEntries
  BY DEF A!madt_return, A!results
<1>2. A!HasMadt' = A!HasMadt /\ A!WellFormed' = A!WellFormed /\ A!EndOf' = A!EndOf
  BY <1>1, TablesStay
<1>3. A!HasMadt /\ Scanned /\ fw \in Firmwares /\ k \in 1 .. (Len(fw.entries) + 1)
  BY <1>1 DEF MadtInv, Scanned, A!TypeOK
<1>4. ASSUME A!WellFormed PROVE k = Len(fw.entries) + 1
  <2>1. Len(fw.entries) \in Nat /\ fw.length \in Nat
    BY <1>3, FirmwareFacts DEF Entries, Image
  <2>2. k - 1 \in 0..Len(fw.entries)
    BY <1>3, <2>1
  <2>3. ptr = A!EndOf[k - 1]
    BY <1>3, <1>4 DEF MadtInv
  <2>4. ~(k - 1 < Len(fw.entries))
    BY <1>1, <1>3, <1>4, <2>2, <2>3, EndsOfTable DEF A!MoreEntries
  <2> QED BY <1>3, <2>1, <2>4
<1>5. A!TypeOK'
  BY <1>1 DEF MadtInv, A!TypeOK
<1> QED BY <1>1, <1>2, <1>3, <1>4, <1>5 DEF MadtInv, Scanned, A!FaultsOnXsdtOnly

LEMMA EntryKeeps ==
  ASSUME MadtInv, A!madt_entry
  PROVE  MadtInv'
<1> DEFINE es == fw.entries
           e == fw.entries[k]
           ids == IF e.type = 0 /\ e.enabled /\ Len(lapic_ids) < MAX_CPUS
                  THEN Append(lapic_ids, e.id) ELSE lapic_ids
           overrides == IF e.type = 2 /\ Len(isos) < MAX_ISOS THEN Append(isos, k) ELSE isos
<1>1. /\ fw' = fw /\ UNCHANGED <<mpc, caller, t, lapic_addr>>
      /\ mpc = "parse" /\ k <= Len(es)
  BY DEF A!madt_entry
<1>2. /\ ioapic_addr' = IF e.type = 1 THEN e.addr ELSE ioapic_addr
      /\ ioapic_gsi_base' = IF e.type = 1 THEN e.gsi_base ELSE ioapic_gsi_base
      /\ ptr' = ptr + e.length /\ k' = IF e.length = 0 THEN k ELSE k + 1
  BY DEF A!madt_entry
<1>3. lapic_ids' = ids /\ isos' = overrides
  BY SMTT(30) DEF A!madt_entry, A!CpuAdded
<1>4. A!HasMadt' = A!HasMadt /\ A!WellFormed' = A!WellFormed /\ A!EndOf' = A!EndOf
  BY <1>1, TablesStay
<1>5. fw \in Firmwares /\ Entries(es) /\ Len(es) \in Nat
  BY FirmwareFacts DEF MadtInv, Entries, Image
<1>6. k \in 1..Len(es) /\ k \in Nat
  BY <1>1, <1>5, SMTT(30) DEF MadtInv, A!TypeOK
<1>7. /\ e.length \in Nat /\ e.type \in 0..255 /\ (e.type = 0 => e.id \in 0..255)
      /\ (e.type = 1 => e.addr \in Nat /\ e.gsi_base \in Nat)
  BY <1>5, <1>6 DEF Entries, Image
<1>8. /\ lapic_ids \in Seq(0..255) /\ Len(lapic_ids) <= MAX_CPUS
      /\ isos \in Seq(1..Len(es)) /\ Len(isos) <= MAX_ISOS
      /\ ioapic_addr \in Nat /\ ioapic_gsi_base \in Nat /\ ptr \in Nat
  BY DEF MadtInv, A!TypeOK
<1>9. MAX_CPUS \in Nat /\ MAX_ISOS \in Nat
  <2>1. MAX_CPUS \in 1..255 /\ MAX_ISOS \in 1..255
    BY FirmwaresAssumption, Zenon
  <2> QED BY <2>1
<1>10. ids \in Seq(0..255) /\ Len(ids) <= MAX_CPUS
  <2>1. CASE e.type = 0 /\ e.enabled /\ Len(lapic_ids) < MAX_CPUS
    <3>1. e.id \in 0..255
      BY <1>7, <2>1
    <3>2. ids = Append(lapic_ids, e.id)
      BY <2>1
    <3> HIDE DEF ids, e
    <3> QED BY <1>8, <1>9, <2>1, <3>1, <3>2
  <2> QED BY <1>8, <2>1
<1>11. overrides \in Seq(1..Len(es)) /\ Len(overrides) <= MAX_ISOS
  <2>1. CASE e.type = 2 /\ Len(isos) < MAX_ISOS
    <3>1. overrides = Append(isos, k)
      BY <2>1
    <3> HIDE DEF overrides, e, es
    <3> QED BY <1>6, <1>8, <1>9, <2>1, <3>1
  <2> QED BY <1>8, <2>1
<1>12. k' \in 1 .. (Len(es) + 1) /\ ptr' \in Nat /\ ioapic_addr' \in Nat /\ ioapic_gsi_base' \in Nat
  <2> HIDE DEF e, es
  <2> QED BY <1>2, <1>5, <1>6, <1>7, <1>8, SMTT(30)
<1>13. A!TypeOK'
  <2>1. /\ mpc \in {"acpi_init", "find", "parse", "done", "fault"} /\ caller \in {"kmain", "madt_init"}
        /\ t \in 1 .. (Len(fw.tables) + 1) /\ lapic_addr \in {0, A!LAPIC_ADDRESS}
    BY DEF MadtInv, A!TypeOK
  <2> HIDE DEF ids, overrides
  <2> QED BY <1>1, <1>3, <1>10, <1>11, <1>12, <2>1 DEF A!TypeOK
<1>14. ASSUME A!WellFormed
       PROVE  (ptr = A!EndOf[k - 1] /\ Taken(es, k, lapic_ids, isos, ioapic_addr, ioapic_gsi_base))'
  <2>1. ptr = A!EndOf[k - 1] /\ Taken(es, k, lapic_ids, isos, ioapic_addr, ioapic_gsi_base)
    BY <1>1, <1>14 DEF MadtInv, Scanned
  <2>2. A!EndOf[k] = A!EndOf[k - 1] + e.length /\ e.length # 0
    <3>1. \A n \in 1..Len(es) : A!EndOf[n] = A!EndOf[n - 1] + es[n].length /\ es[n].length \in Nat \ {0}
      BY <1>5, <1>14, EndsOfTable
    <3> QED BY <1>6, <3>1
  <2>3. k' = k + 1 /\ k' - 1 = k
    BY <1>2, <1>6, <2>2
  <2>4. Taken(es, k + 1, ids, overrides, IF e.type = 1 THEN e.addr ELSE ioapic_addr,
              IF e.type = 1 THEN e.gsi_base ELSE ioapic_gsi_base)
    BY <1>5, <1>6, <1>8, <2>1, TakenStep
  <2>5. Taken(es', k', lapic_ids', isos', ioapic_addr', ioapic_gsi_base')
    <3> HIDE DEF ids, overrides
    <3> QED BY <1>1, <1>2, <1>3, <2>3, <2>4
  <2>6. ptr' = A!EndOf'[k' - 1]
    BY <1>2, <1>4, <2>1, <2>2, <2>3
  <2> QED BY <2>5, <2>6
<1> HIDE DEF es, e, ids, overrides
<1>15. Scanned /\ Scanned' /\ mpc' = "parse" /\ A!HasMadt'
  BY <1>1, <1>4 DEF Scanned, MadtInv
<1>16. lapic_addr' = A!LAPIC_ADDRESS
  BY <1>1, <1>15 DEF MadtInv
<1> QED BY <1>1, <1>4, <1>5, <1>13, <1>14, <1>15, <1>16 DEF MadtInv, A!FaultsOnXsdtOnly, es

LEMMA MadtStep == MadtInv /\ [Next]_bootVars => MadtInv'
<1> SUFFICES ASSUME MadtInv, [Next]_bootVars PROVE MadtInv'
  OBVIOUS
<1>1. CASE UNCHANGED acpiVars
  <2>1. fw' = fw /\ UNCHANGED <<mpc, caller, t, ptr, k, lapic_addr, lapic_ids, isos, ioapic_addr, ioapic_gsi_base>>
    BY <1>1 DEF acpiVars
  <2>2. A!HasMadt' = A!HasMadt /\ A!WellFormed' = A!WellFormed /\ A!EndOf' = A!EndOf
    BY <2>1, TablesStay
  <2>3. A!TypeOK'
    BY <2>1 DEF MadtInv, A!TypeOK
  <2> QED BY <2>1, <2>2, <2>3 DEF MadtInv, Scanned, A!results, A!FaultsOnXsdtOnly
<1>2. CASE A!Next
  BY <1>2, AcpiKeeps, SearchKeeps, NotFoundKeeps, EntryKeeps, ReturnKeeps, Zenon DEF A!Next
<1>3. UNCHANGED acpiVars \/ A!Next
  <2>1. CASE UNCHANGED bootVars
    BY <2>1, Zenon DEF bootVars
  <2>2. CASE Code
    BY <2>2, Zenon DEF Code, AcpiSteps, AcpiReturns, KmainSteps, CalibrateLoads, CalibratePolls, CalibrateEnds
  <2>3. CASE PitClock \/ Handlers \/ Around
    BY <2>3, Zenon DEF PitClock, Handlers, Around
  <2> QED BY <2>1, <2>2, <2>3, Zenon DEF Next
<1> QED BY <1>1, <1>2, <1>3

\* Of every correct table, whatever its entries and their number, madt_init takes
\* the first MAX_CPUS enabled processors, the first MAX_ISOS overrides and the last
\* I/O APIC, reads no byte behind it, and acpi_find_table faults on an XSDT only.
THEOREM MadtRead == Spec => []MadtIsRead
<1>1. Init => MadtInv
  BY MadtInit, Zenon DEF Init
<1>2. MadtInv => MadtIsRead
  BY MadtInvReads, Zenon DEF MadtIsRead
<1> QED BY <1>1, <1>2, MadtStep, PTL DEF Spec

-----------------------------------------------------------------------------
(***************************************************************************)
(* The descriptor tables and the entry to isr_handler: module Traps, for   *)
(* every address of tss and of the stubs, and every width of a byte.       *)
(***************************************************************************)

CONSTANTS SIZEOF_TSS, Stubs
VARIABLES tss, gdt, tr, idt, pc, vec, regs, stack, resumed

D == INSTANCE Traps

\* What Traps assumes of its constants.
Descriptors ==
  /\ BYTE \in Nat \ {0, 1} /\ SIZEOF_TSS \in 1 .. D!U16
  /\ Stubs \in [D!Vectors -> D!Addresses]
  /\ \A v, w \in D!Vectors : Stubs[v] = Stubs[w] => v = w

\* Two fields, the lower of n values and the upper of m, give the number back.
LEMMA CutOnce ==
  ASSUME NEW n \in Nat, n > 0, NEW x \in Nat
  PROVE  x \div n \in Nat /\ x % n \in 0 .. (n - 1) /\ x = (x % n) + (x \div n) * n
BY Z3

\* A quotient is the only one with its remainder.
LEMMA OneQuotient ==
  ASSUME NEW n \in Nat, n > 0, NEW q \in Nat, NEW r \in 0 .. (n - 1), NEW x \in Nat, x = q * n + r
  PROVE  x \div n = q /\ x % n = r
<1> DEFINE p == x \div n
           s == x % n
<1>1. p \in Nat /\ s \in 0 .. (n - 1) /\ x = s + p * n
  BY CutOnce
<1> HIDE DEF p, s
<1>2. p = q
  <2>1. ASSUME p < q PROVE FALSE
    <3>1. (p + 1) * n <= q * n /\ (p + 1) * n = p * n + n
      BY <1>1, <2>1, Z3
    <3>2. p * n \in Nat /\ q * n \in Nat
      BY <1>1, Z3
    <3> QED BY <1>1, <3>1, <3>2
  <2>2. ASSUME q < p PROVE FALSE
    <3>1. (q + 1) * n <= p * n /\ (q + 1) * n = q * n + n
      BY <1>1, <2>2, Z3
    <3>2. p * n \in Nat /\ q * n \in Nat
      BY <1>1, Z3
    <3> QED BY <1>1, <3>1, <3>2
  <2> QED BY <1>1, <2>1, <2>2
<1>3. s = r
  <2>1. p * n \in Nat /\ q * n \in Nat /\ p * n = q * n
    BY <1>1, <1>2, Z3
  <2> QED BY <1>1, <2>1
<1> QED BY <1>2, <1>3 DEF p, s

\* Dividing twice is dividing by the product.
LEMMA CutTwice ==
  ASSUME NEW n \in Nat, n > 0, NEW m \in Nat, m > 0, NEW x \in Nat
  PROVE  n * m \in Nat /\ n * m > 0 /\ x \div (n * m) = (x \div n) \div m
<1> DEFINE y == x \div n
           r == x % n
           z == y \div m
           s == y % m
<1>1. y \in Nat /\ r \in 0 .. (n - 1) /\ x = r + y * n
  BY CutOnce
<1>2. z \in Nat /\ s \in 0 .. (m - 1) /\ y = s + z * m
  BY <1>1, CutOnce
<1>3. n * m \in Nat /\ n * m > 0
  BY Z3
<1> HIDE DEF y, r, z, s
<1>4. r + s * n \in 0 .. (n * m - 1)
  <2>1. s * n <= (m - 1) * n /\ s * n \in Nat
    BY <1>2, Z3
  <2>2. (m - 1) * n = n * m - n
    BY Z3
  <2> QED BY <1>1, <1>3, <2>1, <2>2
<1>5. x = z * (n * m) + (r + s * n)
  <2>1. y * n = (s + z * m) * n
    BY <1>2
  <2>2. (s + z * m) * n = s * n + z * (n * m)
    BY <1>2, Z3
  <2>3. s * n \in Nat /\ z * (n * m) \in Nat /\ y * n \in Nat
    BY <1>1, <1>2, <1>3, Z3
  <2> QED BY <1>1, <2>1, <2>2, <2>3
<1>6. x \div (n * m) = z
  BY <1>2, <1>3, <1>4, <1>5, OneQuotient
<1> QED BY <1>3, <1>6 DEF z, y

\* Less than n * m: the quotient by n is less than m.
LEMMA CutBound ==
  ASSUME NEW n \in Nat, n > 0, NEW m \in Nat, m > 0, NEW x \in Nat, x < n * m
  PROVE  x \div n \in 0 .. (m - 1) /\ (x \div n) % m = x \div n
<1> DEFINE y == x \div n
<1>1. y \in Nat /\ x % n \in 0 .. (n - 1) /\ x = (x % n) + y * n
  BY CutOnce
<1> HIDE DEF y
<1>2. y < m
  <2>1. SUFFICES ASSUME y >= m PROVE FALSE
    BY <1>1
  <2>2. y * n >= n * m /\ y * n \in Nat /\ n * m \in Nat
    BY <1>1, <2>1, Z3
  <2> QED BY <1>1, <2>2
<1>3. y = 0 * m + y /\ y \in 0 .. (m - 1)
  BY <1>1, <1>2
<1>4. y % m = y
  BY <1>1, <1>3, OneQuotient
<1> QED BY <1>3, <1>4 DEF y

LEMMA Widths ==
  ASSUME Descriptors
  PROVE  /\ BYTE \in Nat /\ BYTE > 0 /\ D!U16 \in Nat /\ D!U16 > 0 /\ D!U24 \in Nat /\ D!U24 > 0
         /\ D!U32 \in Nat /\ D!U32 > 0 /\ D!U16 = BYTE * BYTE /\ D!U24 = D!U16 * BYTE
         /\ D!U32 = D!U16 * D!U16 /\ D!U24 * BYTE = D!U32 /\ D!U64 = D!U32 * D!U32
<1>1. BYTE \in Nat /\ BYTE > 0
  BY DEF Descriptors
<1>2. D!U16 \in Nat /\ D!U16 > 0 /\ D!U16 = BYTE * BYTE
  BY <1>1, Z3 DEF D!U16
<1>3. D!U24 \in Nat /\ D!U24 > 0 /\ D!U24 = D!U16 * BYTE
  BY <1>1, <1>2, Z3 DEF D!U24
<1>4. D!U32 \in Nat /\ D!U32 > 0 /\ D!U32 = D!U16 * D!U16
  BY <1>2, Z3 DEF D!U32
<1>5. D!U24 * BYTE = D!U32
  <2>1. (D!U16 * BYTE) * BYTE = D!U16 * (BYTE * BYTE)
    BY <1>1, <1>2, Z3
  <2> QED BY <1>2, <1>3, <1>4, <2>1
<1> QED BY <1>1, <1>2, <1>3, <1>4, <1>5 DEF D!U64

\* A field from the first byte on.
LEMMA LowField ==
  ASSUME NEW x \in Nat, NEW n \in Nat, n > 0
  PROVE  D!Field(x, 1, n) = x % n
<1>1. x \div 1 = x
  BY Z3
<1> QED BY <1>1 DEF D!Field

\* The three fields of a gate.
LEMMA GateDecodes ==
  ASSUME Descriptors, NEW x \in D!Addresses
  PROVE  D!HandlerOf(D!Gate(x)) = x
<1> DEFINE a == D!U16
           b == D!U32
           y == x \div a
           z == x \div b
<1>1. x \in Nat /\ x < b * b /\ a \in Nat /\ a > 0 /\ b \in Nat /\ b > 0 /\ b = a * a
  BY Widths DEF D!Addresses
<1> HIDE DEF a, b
<1>2. y \in Nat /\ x % a \in Nat /\ x = (x % a) + y * a
  BY <1>1, CutOnce
<1>3. y \div a = z
  BY <1>1, CutTwice
<1>4. y % a \in Nat /\ y = (y % a) + (y \div a) * a
  BY <1>1, <1>2, CutOnce
<1>5. z \in Nat /\ z % b = z
  BY <1>1, CutBound
<1> DEFINE r == x % a
           s == y % a
<1>6. /\ D!HandlerOf(D!Gate(x)) = r + s * a + z * b
  <2>1. D!Field(x, 1, a) = r /\ D!Field(x, a, a) = s /\ D!Field(x, b, b) = z
    BY <1>1, <1>5, LowField DEF D!Field
  <2> QED BY <2>1 DEF D!HandlerOf, D!Gate, a, b
<1> HIDE DEF y, z, r, s
<1>7. y = s + z * a /\ x = r + y * a
  BY <1>2, <1>3, <1>4 DEF r, s
<1>8. (s + z * a) * a = s * a + z * b
  BY <1>1, <1>4, <1>5, Z3 DEF s
<1>9. r \in Nat /\ s * a \in Nat /\ z * b \in Nat
  BY <1>1, <1>2, <1>4, <1>5, Z3 DEF r, s
<1> QED BY <1>6, <1>7, <1>8, <1>9

\* The four fields of the address of tss, and its size.
LEMMA TssDecodes ==
  ASSUME Descriptors, NEW x \in D!Addresses
  PROVE  LET d == D!Ltr(D!TssLow(x, SIZEOF_TSS - 1)) IN
         /\ d.base_low + d.base_mid * D!U16 + d.base_high * D!U24 + D!Field(x, D!U32, D!U32) * D!U32 = x
         /\ d.limit_low + d.granularity * D!U16 = SIZEOF_TSS - 1 /\ d.access = 139
<1> DEFINE a == D!U16
           c == D!U24
           b == D!U32
           y == x \div a
           u == x \div c
           z == x \div b
           l == SIZEOF_TSS - 1
           low == D!TssLow(x, l)
           d == D!Ltr(low)
<1>1. /\ x \in Nat /\ x < b * b /\ a \in Nat /\ a > 0 /\ b \in Nat /\ b > 0 /\ c \in Nat /\ c > 0
      /\ BYTE \in Nat /\ BYTE > 0 /\ c = a * BYTE /\ b = c * BYTE
  BY Widths DEF D!Addresses
<1>l. l \in 0 .. (a - 1)
  BY <1>1 DEF Descriptors
<1>d. d = [low EXCEPT !.access = 139]
  <2>1. low.access = 137 /\ 137 % 16 = 9 /\ 137 + 2 = 139
    BY Z3 DEF D!TssLow
  <2>2. d = [low EXCEPT !.access = low.access + 2]
    BY <2>1, Zenon DEF D!Ltr
  <2> QED BY <2>1, <2>2, Zenon
<1> HIDE DEF a, b, c, l
<1>2. y \in Nat /\ x % a \in Nat /\ x = (x % a) + y * a
  BY <1>1, CutOnce
<1>3. y \div BYTE = u
  BY <1>1, CutTwice
<1>4. y % BYTE \in Nat /\ y = (y % BYTE) + (y \div BYTE) * BYTE /\ y \div BYTE \in Nat
  BY <1>1, <1>2, CutOnce
<1>5. u \div BYTE = z
  BY <1>1, CutTwice
<1>6. u % BYTE \in Nat /\ u = (u % BYTE) + (u \div BYTE) * BYTE
  BY <1>1, <1>3, <1>4, CutOnce
<1>7. z \in Nat /\ z % b = z
  BY <1>1, CutBound
<1> DEFINE r == x % a
           s == y % BYTE
           v == u % BYTE
<1>8. /\ d.base_low = r /\ d.base_mid = s /\ d.base_high = v /\ D!Field(x, b, b) = z
  <2>1. D!Field(x, 1, a) = r /\ D!Field(x, a, BYTE) = s /\ D!Field(x, c, BYTE) = v /\ D!Field(x, b, b) = z
    BY <1>1, <1>7, LowField DEF D!Field
  <2> QED BY <1>d, <2>1 DEF D!TssLow, a, b, c
<1>9. d.limit_low = l /\ d.granularity = 0 /\ d.access = 139
  <2>1. l \in Nat /\ l < a * 1 /\ l = 0 * a + l
    BY <1>1, <1>l
  <2>2. l \div a = 0 /\ l % a = l
    BY <1>1, <1>l, <2>1, OneQuotient
  <2>3. 0 % BYTE = 0 /\ 0 % 16 = 0
    BY <1>1, Z3
  <2>4. D!Field(l, 1, a) = l /\ D!Field(l, a, BYTE) % 16 = 0
    BY <1>1, <2>1, <2>2, <2>3, LowField DEF D!Field
  <2> QED BY <1>d, <2>4 DEF D!TssLow, a, b, c
<1>10. d.limit_low + d.granularity * a = l
  <2>1. l + 0 * a = l
    BY <1>1, <1>l
  <2> QED BY <1>9, <2>1
<1> HIDE DEF y, z, u, r, s, v, d
<1>11. u = v + z * BYTE /\ y = s + u * BYTE /\ x = r + y * a
  BY <1>2, <1>3, <1>4, <1>5, <1>6 DEF r, s, v
<1>12. u * c = v * c + z * b
  <2>1. (v + z * BYTE) * c = v * c + z * (c * BYTE)
    BY <1>1, <1>6, <1>7, Z3 DEF v
  <2> QED BY <1>1, <1>11, <2>1
<1>13. y * a = s * a + u * c
  <2>1. (s + u * BYTE) * a = s * a + u * (a * BYTE)
    BY <1>1, <1>3, <1>4, Z3 DEF s
  <2> QED BY <1>1, <1>11, <2>1
<1>14. r \in Nat /\ s * a \in Nat /\ v * c \in Nat /\ z * b \in Nat /\ u * c \in Nat
  <2>1. r \in Nat /\ s \in Nat /\ v \in Nat /\ z \in Nat /\ u \in Nat
    BY <1>2, <1>3, <1>4, <1>6, <1>7 DEF r, s, v
  <2> QED BY <1>1, <2>1, Z3
<1>15. r + s * a + v * c + z * b = x
  BY <1>11, <1>12, <1>13, <1>14
<1>16. d.base_low + d.base_mid * a + d.base_high * c + D!Field(x, b, b) * b = x
  BY <1>8, <1>15
<1> QED BY <1>9, <1>10, <1>16 DEF a, b, c, d, l

\* No two fields of registers_t have a name in common.
LEMMA FieldsDiffer ==
  /\ DOMAIN D!Fields = 1..22
  /\ \A j, h \in 1..22 : D!Fields[j] = D!Fields[h] => j = h
BY DEF D!Fields

\* The field of a name is the one at its place from the top of the stack.
LEMMA FrameAt ==
  ASSUME NEW j \in 1..22
  PROVE  D!Frame(D!Fields[j]) = stack[Len(stack) - j + 1]
<1>1. (CHOOSE h \in DOMAIN D!Fields : D!Fields[h] = D!Fields[j]) = j
  BY FieldsDiffer
<1> QED BY <1>1, Zenon DEF D!Frame, D!FromTop, D!Place

\* isr_common pops into the fields of registers_t, from the lowest address on.
LEMMA PopsAreFields ==
  ASSUME NEW j \in 1..15
  PROVE  D!Place(D!Fields[j], D!PopOrder) = j
<1>1. DOMAIN D!PopOrder = 1..15 /\ \A h \in 1..15 : D!PopOrder[h] = D!Fields[h]
  BY DEF D!PopOrder, D!Fields
<1>2. \A h \in 1..15 : D!Fields[h] = D!Fields[j] => h = j
  BY FieldsDiffer
<1>3. (CHOOSE h \in DOMAIN D!PopOrder : D!PopOrder[h] = D!Fields[j]) = j
  BY <1>1, <1>2
<1> QED BY <1>3, Zenon DEF D!Place

LEMMA SavedNames ==
  /\ D!Saved = {D!Fields[j] : j \in 1..15}
  /\ D!Fields[16] = "vector" /\ D!Fields[17] = "error_code"
  /\ D!Fields[18] = "rip" /\ D!Fields[19] = "cs" /\ D!Fields[20] = "rflags"
  /\ D!Fields[21] = "rsp" /\ D!Fields[22] = "ss"
BY DEF D!Saved, D!Fields

\* What is on the stack of a trap with vector v: at its stub, at isr_common, from
\* isr_handler on.
CodeOf(v) == IF v \in D!ErrorCode THEN v ELSE 0
AtStub(v) == D!Interrupted \o (IF v \in D!ErrorCode THEN <<<<"error_code", v>>>> ELSE <<>>)
AtCommon(v) ==
  <<<<"ss">>, <<"rsp">>, <<"rflags">>, <<"cs">>, <<"rip">>, <<"error_code", CodeOf(v)>>, <<"vector", v>>>>
AtHandler(v) == AtCommon(v) \o [j \in 1..15 |-> <<D!Fields[16 - j]>>]

LEMMA StackAtHandler ==
  ASSUME NEW v
  PROVE  /\ Len(AtHandler(v)) = 22
         /\ \A j \in 1..15 : AtHandler(v)[22 - j + 1] = <<D!Fields[j]>>
         /\ AtHandler(v)[7] = <<"vector", v>> /\ AtHandler(v)[6] = <<"error_code", CodeOf(v)>>
         /\ \A j \in 1..5 : AtHandler(v)[j] = AtCommon(v)[j]
<1> DEFINE a == AtCommon(v)
           b == [j \in 1..15 |-> <<D!Fields[16 - j]>>]
           E == {a[j] : j \in 1..7} \cup {b[j] : j \in 1..15}
<1>1. /\ Len(a) = 7 /\ a[6] = <<"error_code", CodeOf(v)>> /\ a[7] = <<"vector", v>>
      /\ a \in Seq(E)
  BY DEF AtCommon
<1>2. b \in [1..15 -> E]
  OBVIOUS
<1>3. b \in Seq(E) /\ Len(b) = 15 /\ \A j \in 1..15 : b[j] = <<D!Fields[16 - j]>>
  BY <1>2
<1> HIDE DEF a, b, E
<1> DEFINE c == a \o b
<1>4. /\ Len(c) = 22 /\ \A j \in 1..7 : c[j] = a[j]
      /\ \A j \in 8..22 : c[j] = b[j - 7]
  <2>1. /\ Len(c) = Len(a) + Len(b)
        /\ \A j \in 1 .. Len(a) + Len(b) : c[j] = IF j <= Len(a) THEN a[j] ELSE b[j - Len(a)]
    BY <1>1, <1>3, ConcatProperties
  <2>2. Len(a) = 7 /\ Len(a) + Len(b) = 22
    BY <1>1, <1>3
  <2>3. \A j \in 1..22 : c[j] = IF j <= 7 THEN a[j] ELSE b[j - 7]
    BY <2>1, <2>2, Zenon
  <2>4. Len(c) = 22
    BY <2>1, <2>2, Zenon
  <2> HIDE DEF c
  <2> QED BY <2>3, <2>4
<1>5. AtHandler(v) = c
  BY DEF AtHandler, a, b
<1> HIDE DEF c
<1>6. ASSUME NEW j \in 1..15 PROVE c[22 - j + 1] = <<D!Fields[j]>>
  <2>1. 22 - j + 1 \in 8..22 /\ (22 - j + 1) - 7 = 16 - j /\ 16 - j \in 1..15 /\ 16 - (16 - j) = j
    OBVIOUS
  <2>2. c[22 - j + 1] = b[(22 - j + 1) - 7]
    BY <1>4, <2>1, Zenon
  <2>3. b[16 - j] = <<D!Fields[16 - (16 - j)]>>
    BY <1>3, <2>1, Zenon
  <2> QED BY <2>1, <2>2, <2>3, Zenon
<1> QED BY <1>1, <1>4, <1>5, <1>6, SMTT(30) DEF a

-----------------------------------------------------------------------------
\* The tables are as they were made, and what is on the stack follows from where the
\* trap is.
TrapInv ==
  /\ tss \in D!Addresses /\ vec \in D!Raised
  /\ pc \in {"gdt_init", "idt_init", "run", "stub", "isr_common", "isr_handler", "pop", "halt"}
  /\ pc = "gdt_init" => tr = 0
  /\ pc # "gdt_init" =>
       /\ tr = 40 /\ gdt[5] = D!Ltr(D!TssLow(tss, SIZEOF_TSS - 1))
       /\ gdt[6] = [base_upper |-> D!Field(tss, D!U32, D!U32)]
       /\ gdt[1] = D!Segment(D!PRESENT + D!CODE, D!LONG)
       /\ gdt[2] = D!Segment(D!PRESENT + D!DATA, 0)
  /\ pc \notin {"gdt_init", "idt_init"} => idt = [v \in D!Vectors |-> D!Gate(Stubs[v])]
  /\ pc \in {"gdt_init", "idt_init", "run"} => stack = <<>> /\ resumed = D!Interrupted
  /\ pc = "stub" => stack = AtStub(vec)
  /\ pc = "isr_common" => stack = AtCommon(vec)
  /\ pc \in {"isr_handler", "pop", "halt"} => stack = AtHandler(vec)
  /\ pc \in {"gdt_init", "idt_init", "run", "stub", "isr_common"} => regs = D!Untouched
  /\ DOMAIN regs = D!Saved

\* isr_handler's frame: each field is what it is named for.
LEMMA HandlerFrame ==
  ASSUME NEW v, stack = AtHandler(v)
  PROVE  /\ D!Frame("vector") = <<"vector", v>> /\ D!Frame("error_code") = <<"error_code", CodeOf(v)>>
         /\ \A r \in D!Saved \cup {"rip", "cs", "rflags", "rsp", "ss"} : D!Frame(r) = <<r>>
<1>1. Len(stack) = 22
  BY StackAtHandler
<1>2. \A j \in 1..22 : D!Frame(D!Fields[j]) = stack[22 - j + 1]
  BY <1>1, FrameAt
<1>3. ASSUME NEW r \in D!Saved PROVE D!Frame(r) = <<r>>
  <2>1. PICK j \in 1..15 : r = D!Fields[j]
    BY SavedNames
  <2>2. j \in 1..22
    OBVIOUS
  <2>3. D!Frame(D!Fields[j]) = stack[22 - j + 1]
    BY <1>2, <2>2
  <2>4. stack[22 - j + 1] = <<D!Fields[j]>>
    BY StackAtHandler
  <2> QED BY <2>1, <2>3, <2>4
<1>4. D!Frame("vector") = stack[7] /\ D!Frame("error_code") = stack[6]
  <2>1. 16 \in 1..22 /\ 22 - 16 + 1 = 7 /\ 17 \in 1..22 /\ 22 - 17 + 1 = 6
    OBVIOUS
  <2>2. D!Frame(D!Fields[16]) = stack[22 - 16 + 1] /\ D!Frame(D!Fields[17]) = stack[22 - 17 + 1]
    BY <1>2, <2>1
  <2> QED BY <2>1, <2>2, SavedNames
<1>5. /\ D!Frame("rip") = stack[5] /\ D!Frame("cs") = stack[4] /\ D!Frame("rflags") = stack[3]
      /\ D!Frame("rsp") = stack[2] /\ D!Frame("ss") = stack[1]
  <2>1. /\ {18, 19, 20, 21, 22} \subseteq 1..22 /\ 22 - 18 + 1 = 5 /\ 22 - 19 + 1 = 4
        /\ 22 - 20 + 1 = 3 /\ 22 - 21 + 1 = 2 /\ 22 - 22 + 1 = 1
    OBVIOUS
  <2>2. /\ D!Frame(D!Fields[18]) = stack[22 - 18 + 1] /\ D!Frame(D!Fields[19]) = stack[22 - 19 + 1]
        /\ D!Frame(D!Fields[20]) = stack[22 - 20 + 1] /\ D!Frame(D!Fields[21]) = stack[22 - 21 + 1]
        /\ D!Frame(D!Fields[22]) = stack[22 - 22 + 1]
    BY <1>2, <2>1
  <2> QED BY <2>1, <2>2, SavedNames
<1>6. /\ stack[7] = <<"vector", v>> /\ stack[6] = <<"error_code", CodeOf(v)>>
      /\ \A j \in 1..5 : stack[j] = AtCommon(v)[j]
  BY StackAtHandler
<1>7. /\ stack[5] = <<"rip">> /\ stack[4] = <<"cs">> /\ stack[3] = <<"rflags">>
      /\ stack[2] = <<"rsp">> /\ stack[1] = <<"ss">>
  BY <1>6 DEF AtCommon
<1> QED BY <1>3, <1>4, <1>5, <1>6, <1>7

LEMMA TrapInvIsTransparent ==
  ASSUME Descriptors, TrapInv
  PROVE  D!TrapsAreTransparent
<1>1. D!TypeOK
  <2>1. vec \in D!Vectors /\ tr \in {0, 40} /\ DOMAIN regs = D!Saved
    BY DEF TrapInv, D!Raised
  <2>2. Len(stack) \in {0, 5, 6, 7, 22}
    <3>1. Len(AtHandler(vec)) = 22
      BY StackAtHandler
    <3>2. Len(AtCommon(vec)) = 7
      BY DEF AtCommon
    <3>3. Len(AtStub(vec)) \in {5, 6}
      BY DEF AtStub, D!Interrupted
    <3>4. Len(<<>>) = 0
      OBVIOUS
    <3> QED BY <3>1, <3>2, <3>3, <3>4 DEF TrapInv
  <2> QED BY <2>1, <2>2 DEF TrapInv, D!TypeOK
<1>2. D!DescriptorsDecode
  <2> SUFFICES ASSUME pc \notin {"gdt_init", "idt_init"}
               PROVE  LET d == gdt[tr \div 8] IN
    /\ d.base_low + d.base_mid * D!U16 + d.base_high * D!U24
         + gdt[tr \div 8 + 1].base_upper * D!U32 = tss
    /\ d.limit_low + d.granularity * D!U16 = SIZEOF_TSS - 1
    /\ d.access = 139
    /\ \A v \in D!Vectors :
         LET s == gdt[idt[v].kernel_cs \div 8] IN
         /\ D!HandlerOf(idt[v]) = Stubs[v] /\ idt[v].ist = 0
         /\ idt[v].attributes \div 128 = 1 /\ idt[v].attributes % 32 = 14
         /\ s.access \div 128 = 1 /\ (s.access \div 32) % 4 = 0 /\ (s.access \div 8) % 4 = 3
         /\ (s.granularity \div 32) % 4 = 1
    /\ (gdt[2].access \div 2) % 64 = 9
    BY Zenon DEF D!DescriptorsDecode
  <2>1. /\ tr = 40 /\ gdt[5] = D!Ltr(D!TssLow(tss, SIZEOF_TSS - 1))
        /\ gdt[6] = [base_upper |-> D!Field(tss, D!U32, D!U32)]
        /\ gdt[1] = D!Segment(D!PRESENT + D!CODE, D!LONG)
        /\ gdt[2] = D!Segment(D!PRESENT + D!DATA, 0)
        /\ idt = [v \in D!Vectors |-> D!Gate(Stubs[v])] /\ tss \in D!Addresses
    BY DEF TrapInv
  <2>2. tr \div 8 = 5 /\ tr \div 8 + 1 = 6
    BY <2>1, Z3
  <2>3. gdt[6].base_upper = D!Field(tss, D!U32, D!U32)
    BY <2>1
  <2> DEFINE d == gdt[5]
  <2>4. /\ d.base_low + d.base_mid * D!U16 + d.base_high * D!U24 + gdt[6].base_upper * D!U32 = tss
        /\ d.limit_low + d.granularity * D!U16 = SIZEOF_TSS - 1 /\ d.access = 139
    BY <2>1, <2>3, TssDecodes
  <2>5. gdt[1].access = 152 /\ gdt[1].granularity = 160 /\ gdt[2].access = 146
    BY <2>1 DEF D!Segment, D!PRESENT, D!CODE, D!DATA, D!LONG
  <2>6. /\ 152 \div 128 = 1 /\ (152 \div 32) % 4 = 0 /\ (152 \div 8) % 4 = 3
        /\ (160 \div 32) % 4 = 1 /\ (146 \div 2) % 64 = 9 /\ 8 \div 8 = 1
        /\ 142 \div 128 = 1 /\ 142 % 32 = 14
    BY Z3
  <2>7. ASSUME NEW v \in D!Vectors
        PROVE  /\ D!HandlerOf(idt[v]) = Stubs[v] /\ idt[v].kernel_cs = 8
               /\ idt[v].ist = 0 /\ idt[v].attributes = 142
    <3>1. idt[v] = D!Gate(Stubs[v]) /\ Stubs[v] \in D!Addresses
      BY <2>1 DEF Descriptors
    <3>2. D!HandlerOf(idt[v]) = Stubs[v]
      BY <3>1, GateDecodes
    <3>3. LET g == D!Gate(Stubs[v]) IN g.kernel_cs = 8 /\ g.ist = 0 /\ g.attributes = 142
      BY DEF D!Gate
    <3> QED BY <3>1, <3>2, <3>3
  <2>8. \A v \in D!Vectors :
         LET s == gdt[idt[v].kernel_cs \div 8] IN
         /\ D!HandlerOf(idt[v]) = Stubs[v] /\ idt[v].ist = 0
         /\ idt[v].attributes \div 128 = 1 /\ idt[v].attributes % 32 = 14
         /\ s.access \div 128 = 1 /\ (s.access \div 32) % 4 = 0 /\ (s.access \div 8) % 4 = 3
         /\ (s.granularity \div 32) % 4 = 1
    <3> TAKE v \in D!Vectors
    <3>1. idt[v].kernel_cs \div 8 = 1
      BY <2>6, <2>7, Zenon
    <3> DEFINE s == gdt[idt[v].kernel_cs \div 8]
    <3>2. s.access = 152 /\ s.granularity = 160
      BY <2>5, <3>1, ZenonT(40)
    <3>3. /\ s.access \div 128 = 1 /\ (s.access \div 32) % 4 = 0 /\ (s.access \div 8) % 4 = 3
          /\ (s.granularity \div 32) % 4 = 1
      <4> HIDE DEF s
      <4> QED BY <2>6, <3>2, Zenon
    <3>4. idt[v].attributes \div 128 = 1 /\ idt[v].attributes % 32 = 14
      BY <2>6, <2>7, Zenon
    <3> QED BY <2>7, <3>3, <3>4, Zenon
  <2>9. (gdt[2].access \div 2) % 64 = 9
    BY <2>5, <2>6, Zenon
  <2> QED BY <2>2, <2>4, <2>8, <2>9, Zenon
<1>3. D!FrameIsRight
  <2>1. pc = "isr_handler" => stack = AtHandler(vec)
    BY DEF TrapInv
  <2> QED BY <2>1, HandlerFrame, Zenon DEF D!FrameIsRight, CodeOf
<1>4. D!ReturnIsExact
  BY DEF TrapInv, D!ReturnIsExact
<1> QED BY <1>1, <1>2, <1>3, <1>4 DEF D!TrapsAreTransparent

LEMMA TrapInit ==
  ASSUME D!Init
  PROVE  TrapInv
<1>1. 0 \in D!Raised
  BY DEF D!Raised, D!Vectors
<1>2. DOMAIN regs = D!Saved
  BY DEF D!Init, D!Untouched
<1> QED BY <1>1, <1>2 DEF D!Init, TrapInv

LEMMA TablesKeepTrap ==
  ASSUME TrapInv, D!gdt_init \/ D!idt_init
  PROVE  TrapInv'
<1>1. CASE D!gdt_init
  <2>1. /\ pc = "gdt_init" /\ pc' = "idt_init" /\ tr' = 40 /\ UNCHANGED <<tss, idt, vec, regs, stack, resumed>>
    BY <1>1 DEF D!gdt_init
  <2>2. /\ gdt'[5] = D!Ltr(D!TssLow(tss, SIZEOF_TSS - 1))
        /\ gdt'[6] = [base_upper |-> D!Field(tss, D!U32, D!U32)]
        /\ gdt'[1] = D!Segment(D!PRESENT + D!CODE, D!LONG)
        /\ gdt'[2] = D!Segment(D!PRESENT + D!DATA, 0)
    BY <1>1 DEF D!gdt_init
  <2> QED BY <2>1, <2>2 DEF TrapInv
<1>2. CASE D!idt_init
  <2>1. /\ pc = "idt_init" /\ pc' = "run" /\ idt' = [v \in D!Vectors |-> D!Gate(Stubs[v])]
        /\ UNCHANGED <<tss, gdt, tr, vec, regs, stack, resumed>>
    BY <1>2 DEF D!idt_init
  <2> QED BY <2>1 DEF TrapInv
<1> QED BY <1>1, <1>2

LEMMA PushOnto ==
  ASSUME NEW E, NEW s \in Seq(E), NEW u \in Seq(E), NEW x \in E, Len(u) = Len(s) + 1,
         \A j \in 1..Len(s) : u[j] = s[j], u[Len(s) + 1] = x
  PROVE  s \o <<x>> = u
<1> DEFINE c == s \o <<x>>
<1>1. <<x>> \in Seq(E) /\ Len(<<x>>) = 1 /\ <<x>>[1] = x
  OBVIOUS
<1>2. /\ c \in Seq(E) /\ Len(c) = Len(s) + Len(<<x>>)
      /\ \A j \in 1 .. Len(s) + Len(<<x>>) : c[j] = IF j <= Len(s) THEN s[j] ELSE <<x>>[j - Len(s)]
  BY <1>1, ConcatProperties
<1> HIDE DEF c
<1>3. Len(c) = Len(u)
  BY <1>1, <1>2
<1>4. \A j \in 1..Len(c) : c[j] = u[j]
  <2> TAKE j \in 1..Len(c)
  <2>1. CASE j <= Len(s)
    BY <1>1, <1>2, <2>1
  <2>2. CASE j = Len(s) + 1
    BY <1>1, <1>2, <2>2
  <2> QED BY <1>1, <1>2, <2>1, <2>2
<1>5. c = u
  BY <1>2, <1>3, <1>4, SeqEqual
<1> QED BY <1>5 DEF c

LEMMA Pushes ==
  ASSUME NEW a, NEW b, NEW c, NEW d, NEW e, NEW f, NEW g
  PROVE  /\ <<a, b, c, d, e>> \o <<>> = <<a, b, c, d, e>>
         /\ <<a, b, c, d, e>> \o <<f>> = <<a, b, c, d, e, f>>
         /\ <<a, b, c, d, e, f>> \o <<>> = <<a, b, c, d, e, f>>
         /\ <<a, b, c, d, e, f>> \o <<g>> = <<a, b, c, d, e, f, g>>
<1>1. <<a, b, c, d, e>> \o <<>> = <<a, b, c, d, e>>
  OBVIOUS
<1> DEFINE E == {a, b, c, d, e, f, g}
           s5 == <<a, b, c, d, e>>
           s6 == <<a, b, c, d, e, f>>
           s7 == <<a, b, c, d, e, f, g>>
<1>2. s5 \o <<f>> = s6
  <2>1. /\ s5 \in Seq(E) /\ s6 \in Seq(E) /\ f \in E /\ Len(s5) = 5 /\ Len(s6) = Len(s5) + 1
        /\ s6[Len(s5) + 1] = f /\ \A j \in 1..Len(s5) : s6[j] = s5[j]
    OBVIOUS
  <2> HIDE DEF s5, s6, E
  <2> QED BY <2>1, PushOnto, ZenonT(40)
<1>3. <<a, b, c, d, e, f>> \o <<>> = <<a, b, c, d, e, f>>
  OBVIOUS
<1>4. s6 \o <<g>> = s7
  <2>1. /\ s6 \in Seq(E) /\ s7 \in Seq(E) /\ g \in E /\ Len(s6) = 6 /\ Len(s7) = Len(s6) + 1
        /\ s7[Len(s6) + 1] = g /\ \A j \in 1..Len(s6) : s7[j] = s6[j]
    OBVIOUS
  <2> HIDE DEF s6, s7, E
  <2> QED BY <2>1, PushOnto, ZenonT(40)
<1> QED BY <1>1, <1>2, <1>3, <1>4

\* The processor and the stub push: one error code, the processor's or the 0 of the stub.
LEMMA EntryKeepsTrap ==
  ASSUME Descriptors, TrapInv, (\E v \in D!Raised : D!Trap(v)) \/ D!Enter
  PROVE  TrapInv'
<1>1. CASE \E v \in D!Raised : D!Trap(v)
  <2>1. PICK v \in D!Raised : D!Trap(v)
    BY <1>1
  <2>2. /\ pc = "run" /\ pc' = "stub" /\ vec' = v /\ stack' = AtStub(v)
        /\ UNCHANGED <<tss, gdt, tr, idt, regs>>
    BY <2>1 DEF D!Trap, AtStub
  <2>3. stack' = AtStub(vec')
    BY <2>2
  <2> QED BY <2>2, <2>3 DEF TrapInv
<1>2. CASE D!Enter
  <2>1. /\ pc = "stub" /\ pc' = "isr_common" /\ UNCHANGED <<tss, gdt, tr, idt, vec, regs, resumed>>
    BY <1>2 DEF D!Enter
  <2>2. PICK v \in D!Vectors :
          /\ Stubs[v] = D!HandlerOf(idt[vec])
          /\ stack' = stack \o (IF D!IsErrStub(v) THEN <<>> ELSE <<<<"error_code", 0>>>>) \o <<<<"vector", v>>>>
    BY <1>2 DEF D!Enter
  <2>3. vec \in D!Raised /\ vec \in D!Vectors /\ stack = AtStub(vec) /\ idt[vec] = D!Gate(Stubs[vec])
    BY <2>1 DEF TrapInv, D!Raised
  <2>4. v = vec
    <3>1. Stubs[vec] \in D!Addresses
      BY <2>3 DEF Descriptors
    <3>2. Stubs[v] = Stubs[vec]
      BY <2>2, <2>3, <3>1, GateDecodes
    <3> QED BY <2>2, <2>3, <3>2 DEF Descriptors
  <2>5. D!IsErrStub(vec) <=> vec \in D!ErrorCode
    BY <2>3 DEF D!IsErrStub, D!ErrorCode, D!Raised
  <2>6. stack' = AtCommon(vec)
    <3>1. CASE vec \in D!ErrorCode
      <4>1. stack' = (<<<<"ss">>, <<"rsp">>, <<"rflags">>, <<"cs">>, <<"rip">>>> \o <<<<"error_code", vec>>>>)
                       \o <<>> \o <<<<"vector", vec>>>>
        BY <2>2, <2>3, <2>4, <2>5, <3>1 DEF AtStub, D!Interrupted
      <4> QED BY <3>1, <4>1, Pushes, ZenonT(40) DEF AtCommon, CodeOf
    <3>2. CASE vec \notin D!ErrorCode
      <4>1. stack' = (<<<<"ss">>, <<"rsp">>, <<"rflags">>, <<"cs">>, <<"rip">>>> \o <<>>)
                       \o <<<<"error_code", 0>>>> \o <<<<"vector", vec>>>>
        BY <2>2, <2>3, <2>4, <2>5, <3>2 DEF AtStub, D!Interrupted
      <4> QED BY <3>2, <4>1, Pushes, ZenonT(40) DEF AtCommon, CodeOf
    <3> QED BY <3>1, <3>2
  <2>7. stack' = AtCommon(vec')
    BY <2>1, <2>6
  <2> QED BY <2>1, <2>7 DEF TrapInv
<1> QED BY <1>1, <1>2

LEMMA HandlerKeepsTrap ==
  ASSUME TrapInv, D!isr_common \/ D!isr_handler
  PROVE  TrapInv'
<1>1. CASE D!isr_common
  <2>1. /\ pc = "isr_common" /\ pc' = "isr_handler" /\ UNCHANGED <<tss, gdt, tr, idt, vec, resumed>>
        /\ stack' = stack \o [j \in 1..15 |-> regs[D!PushOrder[j]]]
        /\ regs' = [r \in D!Saved |-> <<"changed">>]
    BY <1>1 DEF D!isr_common
  <2>2. stack = AtCommon(vec) /\ regs = D!Untouched
    BY <2>1 DEF TrapInv
  <2>3. \A j \in 1..15 : regs[D!PushOrder[j]] = <<D!Fields[16 - j]>>
    <3> TAKE j \in 1..15
    <3>1. D!PushOrder[j] = D!Fields[16 - j] /\ 16 - j \in 1..15
      BY DEF D!PushOrder, D!Fields
    <3>2. D!Fields[16 - j] \in D!Saved
      BY <3>1, SavedNames
    <3> QED BY <2>2, <3>1, <3>2 DEF D!Untouched
  <2>4. [j \in 1..15 |-> regs[D!PushOrder[j]]] = [j \in 1..15 |-> <<D!Fields[16 - j]>>]
    BY <2>3, Zenon
  <2>5. stack' = AtHandler(vec')
    BY <2>1, <2>2, <2>4, Zenon DEF AtHandler
  <2>6. DOMAIN regs' = D!Saved
    BY <2>1
  <2> QED BY <2>1, <2>5, <2>6 DEF TrapInv
<1>2. CASE D!isr_handler
  <2>1. /\ pc = "isr_handler" /\ pc' \in {"halt", "pop"}
        /\ UNCHANGED <<tss, gdt, tr, idt, vec, regs, stack, resumed>>
    BY <1>2 DEF D!isr_handler
  <2> QED BY <2>1 DEF TrapInv
<1> QED BY <1>1, <1>2

\* What is popped is what was saved.
LEMMA ReturnKeepsTrap ==
  ASSUME TrapInv, D!PopAndReturn
  PROVE  TrapInv'
<1>1. /\ pc = "pop" /\ pc' = "run" /\ UNCHANGED <<tss, gdt, tr, idt, vec>>
      /\ regs' = [r \in D!Saved |-> D!FromTop(D!Place(r, D!PopOrder))]
      /\ resumed' = SubSeq(stack, Len(stack) - 17 - 4, Len(stack) - 17)
      /\ stack' = SubSeq(stack, 1, Len(stack) - 17 - 5)
  BY DEF D!PopAndReturn
<1>2. stack = AtHandler(vec)
  BY <1>1 DEF TrapInv
<1>3. Len(stack) = 22 /\ \A j \in 1..5 : stack[j] = AtCommon(vec)[j]
  BY <1>2, StackAtHandler
<1>4. regs' = D!Untouched
  <2>1. ASSUME NEW r \in D!Saved PROVE D!FromTop(D!Place(r, D!PopOrder)) = <<r>>
    <3>1. PICK j \in 1..15 : r = D!Fields[j]
      BY SavedNames
    <3>2. D!Place(r, D!PopOrder) = j
      BY <3>1, PopsAreFields
    <3>3. stack[22 - j + 1] = <<D!Fields[j]>>
      BY <1>2, StackAtHandler
    <3> QED BY <1>3, <3>1, <3>2, <3>3 DEF D!FromTop
  <2> QED BY <1>1, <2>1, Zenon DEF D!Untouched
<1>5. stack' = <<>>
  BY <1>1, <1>3
<1>6. resumed' = D!Interrupted
  <2> DEFINE I == D!Interrupted
             E == {I[j] : j \in 1..5}
             s == SubSeq(stack, 1, 5)
  <2>1. resumed' = s
    BY <1>1, <1>3
  <2>2. I \in Seq(E) /\ Len(I) = 5 /\ \A j \in 1..5 : stack[j] = I[j]
    BY <1>3 DEF D!Interrupted, AtCommon
  <2>3. \A j \in 1..5 : stack[j] \in E
    BY <2>2
  <2> HIDE DEF I, E
  <2>4. s \in Seq(E) /\ Len(s) = 5 /\ \A j \in 1..5 : s[j] = stack[j]
    <3>1. /\ s \in Seq(E) /\ Len(s) = IF 1 <= 5 THEN 5 - 1 + 1 ELSE 0
          /\ \A j \in 1 .. (5 - 1 + 1) : s[j] = stack[1 + j - 1]
      BY <2>3, SubSeqProperties
    <3> HIDE DEF s
    <3> QED BY <3>1
  <2> HIDE DEF s
  <2>5. s = I
    BY <2>2, <2>4
  <2> QED BY <2>1, <2>5 DEF I
<1>7. DOMAIN regs' = D!Saved
  BY <1>1
<1> QED BY <1>1, <1>4, <1>5, <1>6, <1>7 DEF TrapInv

\* gdt.c, idt.c and isr.asm for every address of tss and of the stubs and every width
\* of a byte: the processor reads the descriptors as they were meant, a trap comes to
\* its own stub, isr_handler sees what was saved, and iretq restores all of it.
THEOREM TrapsTransparent == Descriptors => (D!Spec => []D!TrapsAreTransparent)
<1> SUFFICES ASSUME Descriptors PROVE D!Spec => []D!TrapsAreTransparent
  OBVIOUS
<1>1. D!Init => TrapInv
  BY TrapInit
<1>2. TrapInv /\ [D!Next]_(D!vars) => TrapInv'
  <2> SUFFICES ASSUME TrapInv, [D!Next]_(D!vars) PROVE TrapInv'
    OBVIOUS
  <2>1. CASE D!gdt_init \/ D!idt_init
    BY <2>1, TablesKeepTrap
  <2>2. CASE (\E v \in D!Raised : D!Trap(v)) \/ D!Enter
    BY <2>2, EntryKeepsTrap
  <2>3. CASE D!isr_common \/ D!isr_handler
    BY <2>3, HandlerKeepsTrap
  <2>4. CASE D!PopAndReturn
    BY <2>4, ReturnKeepsTrap
  <2>5. CASE UNCHANGED D!vars
    BY <2>5 DEF D!vars, TrapInv
  <2> QED BY <2>1, <2>2, <2>3, <2>4, <2>5 DEF D!Next
<1>3. TrapInv => D!TrapsAreTransparent
  BY TrapInvIsTransparent
<1> QED BY <1>1, <1>2, <1>3, PTL DEF D!Spec
=============================================================================
