-------------------------------- MODULE Madt --------------------------------
(***************************************************************************)
(* The search for the MADT (acpi/acpi.c) and its reading (acpi/madt.c),    *)
(* over the tables a firmware may leave.  An entry of the MADT is its type *)
(* and length bytes and what the code takes of it; ptr and end are offsets *)
(* from the start of the table.                                            *)
(***************************************************************************)
EXTENDS Naturals, Sequences

CONSTANTS
  MAX_CPUS, MAX_ISOS,
  Firmwares      \* [revision, tables, entries, length, identity]: revision 0 has an
                 \* RSDT, 2 an XSDT; identity: physical addresses are mapped to
                 \* themselves (by the bootloader; external)

SIZEOF_MADT == 44
LAPIC_ADDRESS == 7      \* any address: madt->lapic_address

EntrySize == <<8, 12, 10, 2, 6>>      \* by type + 1; the code reads 2 bytes of the others
SizeOf(e) == IF e.type \in {0, 1, 2, 4} THEN EntrySize[e.type + 1] ELSE 2

VARIABLES
  fw,                             \* the firmware's tables
  mpc, caller, t,                  \* the loop of acpi_find_table, its caller and its index
  ptr, k,                         \* the loop of madt_init: offset and number of the entry
  lapic_addr, lapic_ids, isos,    \* the arrays with their counts
  ioapic_addr, ioapic_gsi_base

results == <<lapic_addr, lapic_ids, isos, ioapic_addr, ioapic_gsi_base>>
vars == <<fw, mpc, caller, t, ptr, k, results>>

TypeOK ==
  /\ mpc \in {"acpi_init", "find", "parse", "done", "fault"}
  /\ caller \in {"kmain", "madt_init"}
  /\ t \in 1 .. (Len(fw.tables) + 1)
  /\ ptr \in Nat /\ k \in 1 .. (Len(fw.entries) + 1)
  /\ lapic_addr \in {0, LAPIC_ADDRESS}
  /\ lapic_ids \in Seq(0..255) /\ Len(lapic_ids) <= MAX_CPUS
  /\ isos \in Seq(1 .. Len(fw.entries)) /\ Len(isos) <= MAX_ISOS
  /\ {ioapic_addr, ioapic_gsi_base} \subseteq Nat

Init ==
  /\ fw \in Firmwares
  /\ mpc = "acpi_init" /\ caller = "kmain" /\ t = 1 /\ ptr = 0 /\ k = 1
  /\ lapic_addr = 0 /\ lapic_ids = <<>> /\ isos = <<>>
  /\ ioapic_addr = 0 /\ ioapic_gsi_base = 0

-----------------------------------------------------------------------------

\* Chooses the list; both are reached through hhdm_offset.
acpi_init ==
  /\ mpc = "acpi_init"
  /\ mpc' = "find"
  /\ UNCHANGED <<fw, caller, t, ptr, k, results>>

\* The addresses in an RSDT are moved by hhdm_offset, those in an XSDT are not.
HeaderIsMapped == fw.revision < 2 \/ fw.identity

FindReads ==
  /\ mpc = "find" /\ t <= Len(fw.tables)
  /\ \/ ~HeaderIsMapped /\ mpc' = "fault" /\ UNCHANGED <<t, ptr, caller, lapic_addr>>
     \/ /\ HeaderIsMapped /\ fw.tables[t] # "APIC"
        /\ t' = t + 1
        /\ UNCHANGED <<mpc, ptr, caller, lapic_addr>>
     \/ /\ HeaderIsMapped /\ fw.tables[t] = "APIC" /\ caller = "kmain"
        /\ t' = 1 /\ caller' = "madt_init"
        /\ UNCHANGED <<mpc, ptr, lapic_addr>>
     \/ /\ HeaderIsMapped /\ fw.tables[t] = "APIC" /\ caller = "madt_init"
        /\ mpc' = "parse" /\ ptr' = SIZEOF_MADT /\ lapic_addr' = LAPIC_ADDRESS
        /\ UNCHANGED <<t, caller>>
  /\ UNCHANGED <<fw, k, lapic_ids, isos, ioapic_addr, ioapic_gsi_base>>

\* acpi_find_table returns NULL: kmain goes on, madt_init returns.
FindEnds ==
  /\ mpc = "find" /\ t > Len(fw.tables)
  /\ t' = 1 /\ caller' = "madt_init"
  /\ mpc' = IF caller = "kmain" THEN "find" ELSE "done"
  /\ UNCHANGED <<fw, ptr, k, results>>

\* Mutant of CpuAdded: disabled processors count.
CpuAddedDisabled(e) == IF Len(lapic_ids) < MAX_CPUS THEN Append(lapic_ids, e.id) ELSE lapic_ids

CpuAdded(e) ==
  IF e.enabled /\ Len(lapic_ids) < MAX_CPUS THEN Append(lapic_ids, e.id) ELSE lapic_ids

MoreEntries == ptr < fw.length

\* One turn of the loop; an entry of length 0 is read again.
madt_entry ==
  /\ mpc = "parse" /\ MoreEntries /\ k <= Len(fw.entries)
  /\ LET e == fw.entries[k] IN
       /\ lapic_ids' = IF e.type = 0 THEN CpuAdded(e) ELSE lapic_ids
       /\ IF e.type = 1
          THEN ioapic_addr' = e.addr /\ ioapic_gsi_base' = e.gsi_base
          ELSE UNCHANGED <<ioapic_addr, ioapic_gsi_base>>
       /\ isos' = IF e.type = 2 /\ Len(isos) < MAX_ISOS THEN Append(isos, k) ELSE isos
       /\ ptr' = ptr + e.length
       /\ k' = IF e.length = 0 THEN k ELSE k + 1
  /\ UNCHANGED <<fw, mpc, caller, t, lapic_addr>>

madt_return ==
  /\ mpc = "parse" /\ ~MoreEntries
  /\ mpc' = "done"
  /\ UNCHANGED <<fw, caller, t, ptr, k, results>>

Next == acpi_init \/ FindReads \/ FindEnds \/ madt_entry \/ madt_return

-----------------------------------------------------------------------------
(***************************************************************************)
(* Properties.                                                             *)
(***************************************************************************)

HasMadt == \E j \in DOMAIN fw.tables : fw.tables[j] = "APIC"

\* The offset of the end of each entry.
EndOf ==
  LET end[n \in 0 .. Len(fw.entries)] ==
        IF n = 0 THEN SIZEOF_MADT ELSE end[n - 1] + fw.entries[n].length
  IN end

\* The tables of a correct firmware: whole entries up to the end.
WellFormed ==
  /\ \A j \in DOMAIN fw.entries : fw.entries[j].length >= SizeOf(fw.entries[j])
  /\ fw.length = EndOf[Len(fw.entries)]

\* seq has the values of the first max of these places, in their order, or of all.
Lists(seq, max, places, Value(_)) ==
  \E at \in [1 .. Len(seq) -> places] :
    /\ \A m, n \in 1 .. Len(seq) : m < n => at[m] < at[n]
    /\ \A n \in 1 .. Len(seq) : seq[n] = Value(at[n])
    /\ \A p \in places : \/ \E n \in 1 .. Len(seq) : at[n] = p
                         \/ Len(seq) = max /\ \A n \in 1 .. Len(seq) : at[n] < p

\* What madt_init has taken of the entries before entry n.
TakenBefore(n) ==
  LET before == {j \in DOMAIN fw.entries : j < n}
      ioapics == {j \in before : fw.entries[j].type = 1}
  IN /\ Lists(lapic_ids, MAX_CPUS, {j \in before : fw.entries[j].type = 0 /\ fw.entries[j].enabled},
              LAMBDA j : fw.entries[j].id)
     /\ Lists(isos, MAX_ISOS, {j \in before : fw.entries[j].type = 2}, LAMBDA j : j)
     /\ IF ioapics = {} THEN ioapic_addr = 0 /\ ioapic_gsi_base = 0
        ELSE \E j \in ioapics :
               /\ \A h \in ioapics : h <= j
               /\ ioapic_addr = fw.entries[j].addr /\ ioapic_gsi_base = fw.entries[j].gsi_base

\* After madt_init the kernel knows the first MAX_CPUS enabled processors and the
\* first MAX_ISOS overrides in their order and one I/O APIC, the last; or, without
\* a MADT, nothing at all, and the boot goes on with the addresses 0.
ScanIsFaithful ==
  (mpc = "done" /\ WellFormed) =>
    IF HasMadt THEN lapic_addr = LAPIC_ADDRESS /\ TakenBefore(Len(fw.entries) + 1)
    ELSE results = <<0, <<>>, <<>>, 0, 0>>

\* No entry is read beyond the end of a correct table; the code itself only tests
\* the first byte of an entry, so it reads past a table cut short.
ReadsStayInside ==
  (mpc = "parse" /\ WellFormed /\ MoreEntries) =>
    k <= Len(fw.entries) /\ ptr + SizeOf(fw.entries[k]) <= fw.length

\* The search faults only on an XSDT, whose addresses are used as they are, where
\* the bootloader keeps no identity map: never through an RSDT.
FaultsOnXsdtOnly == mpc = "fault" => fw.revision >= 2 /\ ~fw.identity

\* The reading of the table ends, unless an entry has length 0.
ScanEnds ==
  (\A j \in DOMAIN fw.entries : fw.entries[j].length > 0) => <>(mpc \in {"done", "fault"})
=============================================================================
