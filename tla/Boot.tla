-------------------------------- MODULE Boot --------------------------------
(***************************************************************************)
(* The boot of the processor from idt_init to the sti of kmain (main.c)    *)
(* and the interrupts that follow: module Interrupts with the reading of   *)
(* the MADT (Madt) and the calibration of the timer (LapicTimer) in their  *)
(* places.  They meet in ioapic_addr, which madt_init leaves and           *)
(* ioapic_init uses, and in channel 0 of the PIT, which the calibration    *)
(* leaves behind with its output about to rise.                            *)
(***************************************************************************)
EXTENDS Interrupts

CONSTANTS
  BYTE, PIT_TICKS, RATE, MaxGap,     \* of LapicTimer
  MAX_CPUS, MAX_ISOS,                \* of Madt
  Machines     \* [fw, dest, pic, bsp, pin, booted]: the firmware's tables, the destinations
               \* and PIC masks it left, the APIC id of the boot processor, the input the PIT
               \* is wired to; bound: whether the machine is followed past madt_init

Firmwares == {m.fw : m \in Machines}
Booted == {m.fw : m \in {m \in Machines : m.booted}}

ASSUME CountAssumption ==
  /\ {BYTE, PIT_TICKS, RATE, MaxGap} \subseteq Nat \ {0}
  /\ PIT_TICKS + MaxGap < BYTE * BYTE       \* a poll takes less than the rest of a turn
  /\ MaxGap <= PIT_TICKS                    \* and the first comes before the count is 0
ASSUME FirmwaresAssumption ==
  /\ {MAX_CPUS, MAX_ISOS} \subseteq 1..255
  /\ \A f \in Firmwares :
       /\ f.revision \in {0, 2} /\ f.identity \in BOOLEAN /\ f.length \in Nat
       /\ Len(f.tables) \in Nat /\ DOMAIN f.tables = 1 .. Len(f.tables)
       /\ Len(f.entries) \in Nat /\ DOMAIN f.entries = 1 .. Len(f.entries)
       /\ \A n \in DOMAIN f.entries :
            /\ f.entries[n].type \in 0..255 /\ f.entries[n].length \in 0..255
            /\ f.entries[n].type = 0 => f.entries[n].id \in 0..255 /\ f.entries[n].enabled \in BOOLEAN
            /\ f.entries[n].type = 1 => {f.entries[n].addr, f.entries[n].gsi_base} \subseteq Nat
\* A machine that is followed has a MADT: without one lapic_addr stays 0 and lapic_init
\* would write its registers over the start of memory (lapic.c:22).
ASSUME MachinesAssumption ==
  /\ \A m \in Machines : m.dest \in 0..1 /\ m.pic \in BOOLEAN /\ m.bsp \in 0..1 /\ m.pin \in {0, 2}
  /\ \A f \in Booted : \E n \in DOMAIN f.tables : f.tables[n] = "APIC"

VARIABLES
  tpc, counter, loading, latched, lo, last, count, gap, elapsed, since, stale,
  fw, mpc, caller, t, ptr, k, lapic_addr, lapic_ids, isos, ioapic_addr, ioapic_gsi_base

T == INSTANCE LapicTimer
A == INSTANCE Madt

timerVars == <<tpc, counter, loading, latched, lo, last, count, gap, elapsed, since, stale>>
acpiVars  == <<fw, mpc, caller, t, ptr, k, lapic_addr, lapic_ids, isos, ioapic_addr, ioapic_gsi_base>>
bootVars  == <<interruptVars, timerVars, acpiVars>>

Init ==
  /\ \E m \in Machines : fw = m.fw /\ InterruptsInit(m.dest, m.pic, m.bsp, m.pin)
  /\ T!Init /\ A!Init

-----------------------------------------------------------------------------

\* acpi_init, acpi_find_table and madt_init.
AcpiSteps ==
  /\ At(<<"acpi">>) /\ A!Next
  /\ UNCHANGED <<interruptVars, timerVars>>

AcpiReturns ==
  /\ At(<<"acpi">>) /\ mpc = "done" /\ fw \in Booted /\ Return
  /\ UNCHANGED <<ioapicVars, gates, picVars, lapicVars, redtbl, cpuVars, obf, pit, machine, counts,
                 timerVars, acpiVars>>

\* ioapic_base is the address madt_init left: that of the I/O APIC of the ISA lines,
\* of another, or, when there is none in the table, the start of memory.
IoapicBase ==
  IF ioapic_addr = 0 THEN "memory" ELSE IF ioapic_gsi_base = 0 THEN "isa" ELSE "other"

KmainSteps ==
  /\ Controllers \/ IoapicVersion(IoapicBase)
  /\ UNCHANGED <<timerVars, acpiVars>>

\* The calibration, which starts with the count in channel 0, and then polls it.
CalibrateLoads ==
  /\ At(<<"lapic_timer_init">>) /\ T!WriteCount
  /\ pit' = "counting"
  /\ UNCHANGED <<kmainVars, picVars, lapicVars, redtbl, cpuVars, obf, machine, counts, acpiVars>>

CalibratePolls ==
  /\ At(<<"lapic_timer_init">>)
  /\ T!StartTimer \/ T!Latch \/ T!ReadLow \/ T!ReadHigh
  /\ UNCHANGED <<interruptVars, acpiVars>>

CalibrateEnds ==
  /\ T!lapic_timer_init /\ TimerStarts
  /\ UNCHANGED acpiVars

\* The clock of the PIT (external); in mode 0 the output rises when the count is 0.
PitClock ==
  /\ T!Clock
  /\ IF pit = "counting" /\ ~loading /\ counter = 1
     THEN pit' = "expired" /\ Edge(pit_pin)
     ELSE UNCHANGED <<pit, irr>>
  /\ UNCHANGED <<kmainVars, picVars, lvt0_masked, svr_enabled, lvt_timer, isr, redtbl, cpuVars, obf,
                 machine, counts, acpiVars>>

Code == AcpiSteps \/ AcpiReturns \/ KmainSteps \/ CalibrateLoads \/ CalibratePolls \/ CalibrateEnds

Handlers == Handling /\ UNCHANGED <<timerVars, acpiVars>>

Around == Devices /\ UNCHANGED <<timerVars, acpiVars>>

Next == Code \/ PitClock \/ Handlers \/ Around

Spec == Init /\ [][Next]_bootVars

\* The processor goes on with kmain and takes the interrupts that are pending; the
\* PIT runs.  Keys, periods of the timer, yields and cli sections need not come.
FairSpec ==
  /\ Spec
  /\ WF_bootVars(Code) /\ WF_bootVars(PitClock)
  /\ WF_bootVars(Handlers) /\ WF_bootVars(PitRises /\ UNCHANGED <<timerVars, acpiVars>>)

-----------------------------------------------------------------------------
(***************************************************************************)
(* Properties; EoiMatches, OnlyOursComeIn and KeyIsRead are in Interrupts. *)
(***************************************************************************)

\* What madt_init leaves is what a correct table says, no read goes past its end,
\* and the search faults only where it uses an address of an XSDT as it is.
MadtIsRead == A!TypeOK /\ A!ScanIsFaithful /\ A!ReadsStayInside /\ A!FaultsOnXsdtOnly

\* The calibration loop ends when the PIT has passed 0 and the period of the timer
\* is then 1 ms, up to the gaps between polls and unless the first poll came too soon.
CalibrationIsRight == T!TypeOK /\ T!LoopEndsAtWrap /\ T!PeriodIsOneMs

\* timer_ticks counts periods of the timer and yields, and nothing else: the PIT,
\* whose count ends while its input is masked, adds no tick, but for the count that
\* goes on when the calibration has ended too soon.
TicksAreCounted ==
  timer_ticks <= periods + yields + (IF stale THEN 1 ELSE 0)

\* The boot comes to an end: the scan of every table whose entries have a length,
\* the calibration, and the loop of ioapic_init, whose index is a uint8_t, unless
\* the version register has the highest value a uint8_t holds.
BootEnds ==
  /\ A!ScanEnds
  /\ At(<<"lapic_init">>) ~> (intr \/ max_redir = UINT8 - 1)
=============================================================================
