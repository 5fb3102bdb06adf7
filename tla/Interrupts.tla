----------------------------- MODULE Interrupts -----------------------------
(***************************************************************************)
(* How an interrupt comes to be handled: the controllers that kmain sets   *)
(* up (idt.c, pic.c, lapic.c, ioapic.c), their devices, and isr_handler    *)
(* (isr.c) once interrupts are on.  Module Boot composes it with the       *)
(* reading of the MADT and the calibration of the timer.                   *)
(*                                                                         *)
(* The devices run beside the processor: the keyboard controller holds one *)
(* byte and raises IRQ 1 when it gets it, the PIT raises its line, the     *)
(* timer of the local APIC expires.  An edge on a masked input of the I/O  *)
(* APIC is lost; IRR keeps one request per vector.                         *)
(***************************************************************************)
EXTENDS Integers, Sequences

CONSTANTS
  UINT8,        \* the values of a uint8_t, 256
  MaxKeys, MaxPeriods, MaxYields, MaxClis  \* bounds: bytes typed, timer periods, int $0x20, cli sections

ASSUME Uint8Assumption == UINT8 \in Nat /\ UINT8 >= 4
ASSUME BoundsAssumption ==
  {MaxKeys, MaxPeriods, MaxYields, MaxClis} \subseteq Nat

VARIABLES
  step,         \* the next call of kmain
  chip,         \* what is at ioapic_base: the I/O APIC of the ISA lines, another, or memory
  max_redir, i, half,  \* ioapic_init: -1 before it, its index, one half of an entry written
  gates,        \* the vectors with an entry in the IDT
  pic_base, pic_masked, lvt0_masked,
  svr_enabled, lvt_timer, irr, isr,         \* the local APIC
  redtbl,       \* the redirection table of the I/O APIC of the ISA lines
  intr,         \* the interrupt flag of the processor
  handling,     \* the interrupt isr_handler is working on, <<>> if none
  timer_ticks,
  obf,          \* the keyboard controller holds a byte
  pit,          \* channel 0 of the PIT
  bsp_id, pit_pin,                          \* the machine, fixed at Init
  keys, periods, yields, clis,              \* history: what has happened so far
  early         \* history: a byte was waiting when input 1 was first unmasked

kmainVars  == <<step, chip, max_redir, i, half, gates>>
ioapicVars == <<chip, max_redir, i, half>>
picVars    == <<pic_base, pic_masked>>
lapicVars  == <<lvt0_masked, svr_enabled, lvt_timer, irr, isr>>
cpuVars    == <<intr, handling, timer_ticks>>
machine    == <<bsp_id, pit_pin>>
counts     == <<keys, periods, yields, clis, early>>
interruptVars == <<kmainVars, picVars, lapicVars, redtbl, cpuVars, obf, pit, machine, counts>>

Pins    == 0 .. (UINT8 - 1)
TIMER   == 32           \* LAPIC_TIMER_VECTOR, and the vector of int $0x20
KEY     == 33
Vectors == 0..255

\* The calls of kmain in their order.  Mutant: input 0 is opened before the
\* calibration.
KmainOpensEarly ==
  <<<<"idt_init">>, <<"acpi">>, <<"lapic_init">>, <<"ioapic_init">>, <<"redirect", 0>>, <<"unmask", 0>>,
    <<"lapic_timer_init">>, <<"pic_disable">>, <<"redirect", 1>>, <<"unmask", 1>>, <<"sti">>>>

Kmain ==
  <<<<"idt_init">>, <<"acpi">>, <<"lapic_init">>, <<"ioapic_init">>, <<"lapic_timer_init">>,
    <<"pic_disable">>, <<"redirect", 1>>, <<"unmask", 1>>, <<"redirect", 0>>, <<"unmask", 0>>, <<"sti">>>>

At(call) == step <= Len(Kmain) /\ Kmain[step] = call

InterruptsTypeOK ==
  /\ step \in 1 .. (Len(Kmain) + 1) /\ chip \in {"isa", "other", "memory"}
  /\ max_redir \in {-1} \cup Pins /\ i \in Pins /\ half \in BOOLEAN
  /\ gates \subseteq Vectors /\ irr \subseteq Vectors /\ isr \subseteq Vectors
  /\ pic_base \in {8, 32} /\ {pic_masked, lvt0_masked, svr_enabled, intr, obf, early} \subseteq BOOLEAN
  /\ lvt_timer \in {"masked", "periodic"}
  /\ redtbl \in [Pins -> [vector : Vectors, masked : BOOLEAN, dest : 0..1]]
  /\ handling \in {<<>>} \cup ({TIMER, KEY} \X {"hard", "soft"} \X {"body", "eoi"})
  /\ timer_ticks \in Nat
  /\ pit \in {"periodic", "counting", "expired"}
  /\ bsp_id \in 0..1 /\ pit_pin \in {0, 2}
  /\ keys \in 0..MaxKeys /\ periods \in 0..MaxPeriods
  /\ yields \in 0..MaxYields /\ clis \in 0..MaxClis

\* The bootloader hands over with interrupts off and every input of the I/O
\* APIC masked; the other fields, the PIC's masks and the PIT are the firmware's.
InterruptsInit(dest, pic, bsp, pin) ==
  /\ step = 1 /\ chip = "memory" /\ max_redir = -1 /\ i = 0 /\ half = FALSE /\ gates = {}
  /\ pic_base = 8 /\ pic_masked = pic
  /\ lvt0_masked = FALSE /\ svr_enabled = FALSE /\ lvt_timer = "masked"
  /\ irr = {} /\ isr = {}
  /\ redtbl = [p \in Pins |-> [vector |-> 0, masked |-> TRUE, dest |-> dest]]
  /\ intr = FALSE /\ handling = <<>> /\ timer_ticks = 0
  /\ obf = FALSE /\ pit = "periodic"
  /\ bsp_id = bsp /\ pit_pin = pin
  /\ keys = 0 /\ periods = 0 /\ yields = 0 /\ clis = 0 /\ early = FALSE

-----------------------------------------------------------------------------
(***************************************************************************)
(* kmain, with interrupts off.                                             *)
(***************************************************************************)

Return == step' = step + 1

\* Moves the PIC to vector 32 and puts its masks back.
pic_init == pic_base' = 32 /\ UNCHANGED pic_masked

\* Exceptions 0 to 31 and the sixteen IRQs.
idt_init ==
  /\ At(<<"idt_init">>) /\ Return
  /\ gates' = (0..31) \cup (32..47)
  /\ pic_init
  /\ UNCHANGED <<ioapicVars, lapicVars, redtbl, cpuVars, obf, pit, machine, counts>>

\* The registers of the local APIC at lapic_addr; its spurious vector, 0xFF, is left out.
lapic_init ==
  /\ At(<<"lapic_init">>) /\ Return
  /\ svr_enabled' = TRUE /\ lvt0_masked' = TRUE
  /\ UNCHANGED <<ioapicVars, gates, picVars, lvt_timer, irr, isr, redtbl, cpuVars, obf, pit, machine, counts>>

\* The low register of an entry: the vector and the mask.
WriteLow(p, v, m) ==
  redtbl' = IF chip = "isa" THEN [redtbl EXCEPT ![p].vector = v, ![p].masked = m] ELSE redtbl

\* Mutant of WriteHigh: the destination is left as it was.
WriteHighOmitted(p) == UNCHANGED redtbl

\* The high register: the destination, 0 in every entry the kernel writes.
WriteHigh(p) ==
  redtbl' = IF chip = "isa" THEN [redtbl EXCEPT ![p].dest = 0] ELSE redtbl

\* Mutant of NextIndex: i is a signed char and does not get above half of the range.
NextIndexSigned == IF i = (UINT8 - 1) \div 2 THEN 0 ELSE i + 1

\* i++ on a uint8_t.
NextIndex == (i + 1) % UINT8

\* ioapic_base is set and the version read: an I/O APIC has inputs 0, 1 and 2 at
\* least and less than 256 of them, memory holds any max_redir.
IoapicVersion(found) ==
  /\ At(<<"ioapic_init">>) /\ max_redir = -1
  /\ chip' = found
  /\ max_redir' \in (IF found = "memory" THEN Pins ELSE 2 .. (UINT8 - 2))
  /\ UNCHANGED <<step, i, half, gates, picVars, lapicVars, redtbl, cpuVars, obf, pit, machine, counts>>

IoapicInitLow ==
  /\ At(<<"ioapic_init">>) /\ ~half /\ i <= max_redir
  /\ WriteLow(i, 0, TRUE) /\ half' = TRUE
  /\ UNCHANGED <<step, chip, max_redir, i, gates, picVars, lapicVars, cpuVars, obf, pit, machine, counts>>

IoapicInitHigh ==
  /\ At(<<"ioapic_init">>) /\ half
  /\ WriteHigh(i) /\ half' = FALSE
  /\ i' = NextIndex
  /\ UNCHANGED <<step, chip, max_redir, gates, picVars, lapicVars, cpuVars, obf, pit, machine, counts>>

IoapicInitReturn ==
  /\ At(<<"ioapic_init">>) /\ ~half /\ max_redir # -1 /\ i > max_redir /\ Return
  /\ UNCHANGED <<ioapicVars, gates, picVars, lapicVars, redtbl, cpuVars, obf, pit, machine, counts>>

\* The end of lapic_timer_init, after the calibration (module LapicTimer).
TimerStarts ==
  /\ At(<<"lapic_timer_init">>) /\ Return
  /\ lvt_timer' = "periodic"
  /\ UNCHANGED <<ioapicVars, gates, picVars, lvt0_masked, svr_enabled, irr, isr, redtbl, cpuVars, obf, pit,
                 machine, counts>>

pic_disable ==
  /\ At(<<"pic_disable">>) /\ Return
  /\ pic_masked' = TRUE
  /\ UNCHANGED <<ioapicVars, gates, pic_base, lapicVars, redtbl, cpuVars, obf, pit, machine, counts>>

\* ioapic_redirect(irq, vector, 0) writes an entry without the mask bit.
RedirectLow(p, v) ==
  /\ At(<<"redirect", p>>) /\ ~half
  /\ WriteLow(p, v, FALSE) /\ half' = TRUE
  /\ early' = IF p = 1 THEN obf ELSE early
  /\ UNCHANGED <<step, chip, max_redir, i, gates, picVars, lapicVars, cpuVars, obf, pit, machine,
                 keys, periods, yields, clis>>

\* ioapic_unmask(irq) reads the entry and writes it back without the mask bit.
UnmaskLow(p) ==
  /\ At(<<"unmask", p>>) /\ ~half
  /\ WriteLow(p, redtbl[p].vector, FALSE) /\ half' = TRUE
  /\ UNCHANGED <<step, chip, max_redir, i, gates, picVars, lapicVars, cpuVars, obf, pit, machine, counts>>

WriteRedirHigh(p) ==
  /\ (At(<<"redirect", p>>) \/ At(<<"unmask", p>>)) /\ half /\ Return
  /\ WriteHigh(p) /\ half' = FALSE
  /\ UNCHANGED <<chip, max_redir, i, gates, picVars, lapicVars, cpuVars, obf, pit, machine, counts>>

\* keyboard_init, called before the sti, does nothing.
sti ==
  /\ At(<<"sti">>) /\ Return
  /\ intr' = TRUE
  /\ UNCHANGED <<ioapicVars, gates, picVars, lapicVars, redtbl, handling, timer_ticks, obf, pit, machine, counts>>

Controllers ==
  \/ idt_init \/ lapic_init
  \/ IoapicInitLow \/ IoapicInitHigh \/ IoapicInitReturn
  \/ pic_disable
  \/ RedirectLow(1, KEY) \/ RedirectLow(0, TIMER)
  \/ \E p \in 0..1 : UnmaskLow(p) \/ WriteRedirHigh(p)
  \/ sti

-----------------------------------------------------------------------------
(***************************************************************************)
(* The devices (external): only their effect on the code is modelled.      *)
(***************************************************************************)

\* An edge on input p of the I/O APIC.
Edge(p) ==
  LET e == redtbl[p] IN
  irr' = IF ~e.masked /\ e.dest = bsp_id /\ svr_enabled THEN irr \cup {e.vector} ELSE irr

\* The controller takes a byte from the keyboard when it has given the last one.
KeyArrives ==
  /\ keys < MaxKeys /\ ~obf
  /\ obf' = TRUE /\ keys' = keys + 1
  /\ Edge(1)
  /\ UNCHANGED <<kmainVars, picVars, lvt0_masked, svr_enabled, lvt_timer, isr, redtbl, cpuVars, pit,
                 machine, periods, yields, clis, early>>

\* The end of a one-shot count that the calibration did not wait for.
PitRises ==
  /\ pit = "counting" /\ lvt_timer = "periodic"
  /\ pit' = "expired"
  /\ Edge(pit_pin)
  /\ UNCHANGED <<kmainVars, picVars, lvt0_masked, svr_enabled, lvt_timer, isr, redtbl, cpuVars, obf,
                 machine, counts>>

TimerExpires ==
  /\ lvt_timer = "periodic" /\ periods < MaxPeriods
  /\ irr' = irr \cup {TIMER} /\ periods' = periods + 1
  /\ UNCHANGED <<kmainVars, picVars, lvt0_masked, svr_enabled, lvt_timer, isr, redtbl, cpuVars, obf,
                 pit, machine, keys, yields, clis, early>>

-----------------------------------------------------------------------------
(***************************************************************************)
(* isr_common and isr_handler: the gates turn interrupts off, iretq on.    *)
(***************************************************************************)

\* The local APIC offers its highest request above the class in service.
Deliverable(v) ==
  /\ v \in irr /\ v \in gates
  /\ \A w \in irr : w <= v
  /\ \A s \in isr : v \div 16 > s \div 16

Accept(v) ==
  /\ intr /\ Deliverable(v)
  /\ intr' = FALSE /\ irr' = irr \ {v} /\ isr' = isr \cup {v}
  /\ handling' = <<v, "hard", "body">>
  /\ UNCHANGED <<kmainVars, picVars, lvt0_masked, svr_enabled, lvt_timer, redtbl, timer_ticks, obf,
                 pit, machine, counts>>

\* int $0x20 in scheduler_yield: the same gate, nothing in service.
Yield ==
  /\ intr /\ yields < MaxYields
  /\ intr' = FALSE /\ yields' = yields + 1
  /\ handling' = <<TIMER, "soft", "body">>
  /\ UNCHANGED <<kmainVars, picVars, lapicVars, redtbl, timer_ticks, obf, pit, machine,
                 keys, periods, clis, early>>

\* Mutant of HandlerBody: the keyboard is looked for on another IRQ.
HandlerBodyIrq2(v) ==
  LET irq == v - 32 IN
  /\ timer_ticks' = IF irq = 0 THEN timer_ticks + 1 ELSE timer_ticks
  /\ obf' = IF irq = 2 THEN FALSE ELSE obf

\* The tick (module Scheduler), or keyboard_handler (module Keyboard), which
\* takes the byte from the controller.
HandlerBody(v) ==
  LET irq == v - 32 IN
  /\ timer_ticks' = IF irq = 0 THEN timer_ticks + 1 ELSE timer_ticks
  /\ obf' = IF irq = 1 THEN FALSE ELSE obf

isr_handler ==
  /\ handling # <<>> /\ handling[3] = "body"
  /\ HandlerBody(handling[1])
  /\ handling' = <<handling[1], handling[2], "eoi">>
  /\ UNCHANGED <<kmainVars, picVars, lapicVars, redtbl, intr, pit, machine, counts>>

\* Mutant of EoiClears: the keyboard path returns before lapic_eoi.
EoiClearsTimer == {v \in isr : v = TIMER}

\* An EOI ends the highest interrupt in service, if there is one.
EoiClears == {v \in isr : \A w \in isr : w <= v}

\* lapic_eoi, then isr_common returns.
EoiAndReturn ==
  /\ handling # <<>> /\ handling[3] = "eoi"
  /\ isr' = isr \ EoiClears
  /\ intr' = TRUE /\ handling' = <<>>
  /\ UNCHANGED <<kmainVars, picVars, lvt0_masked, svr_enabled, lvt_timer, irr, redtbl, timer_ticks, obf,
                 pit, machine, counts>>

\* thread_sleep and thread_exit turn interrupts off for a few assignments.
Cli ==
  /\ intr /\ clis < MaxClis
  /\ intr' = FALSE /\ clis' = clis + 1
  /\ UNCHANGED <<kmainVars, picVars, lapicVars, redtbl, handling, timer_ticks, obf, pit, machine,
                 keys, periods, yields, early>>

Sti ==
  /\ step > Len(Kmain) /\ ~intr /\ handling = <<>>
  /\ intr' = TRUE
  /\ UNCHANGED <<kmainVars, picVars, lapicVars, redtbl, handling, timer_ticks, obf, pit, machine,
                 counts>>

Handling == (\E v \in gates : Accept(v)) \/ isr_handler \/ EoiAndReturn \/ Sti

Devices == KeyArrives \/ PitRises \/ TimerExpires \/ Yield \/ Cli

-----------------------------------------------------------------------------
(***************************************************************************)
(* Properties.                                                             *)
(***************************************************************************)

\* What is in service is what isr_handler is working on: each path ends with one
\* EOI, and that of a yield, which has nothing in service, ends no other.
EoiMatches ==
  isr = IF handling # <<>> /\ handling[2] = "hard" THEN {handling[1]} ELSE {}

\* Nothing comes in that isr_handler could not handle or acknowledge.  An open input
\* of the I/O APIC has the vector and the destination the kernel gave it, also
\* between the two writes of an entry: none of the firmware's.  With interrupts on,
\* what is pending has a gate, and the PIC is moved, masked and cut off.
OnlyOursComeIn ==
  /\ InterruptsTypeOK
  /\ \A p \in Pins : ~redtbl[p].masked =>
       redtbl[p].dest = 0 /\ redtbl[p].vector = (IF p = 0 THEN TIMER ELSE KEY)
  /\ intr => irr \subseteq gates /\ pic_masked /\ lvt0_masked /\ pic_base = 32

\* A byte that comes to the controller with input 1 open is read, on a machine
\* whose boot processor has APIC id 0, the destination of every entry.  One that
\* came before stays there and keeps the later ones away.
KeyIsRead ==
  bsp_id = 0 => ((obf /\ ~redtbl[1].masked /\ ~early) ~> ~obf)
=============================================================================
