------------------------------- MODULE MCBoot -------------------------------
(* Firmwares with up to three entries in the MADT, among them a disabled      *)
(* processor, two I/O APICs, entries of unknown types, of length 0, and a    *)
(* table that ends inside its last entry.                                    *)
EXTENDS Boot

Cpu(id, enabled) == [type |-> 0, length |-> 8, id |-> id, enabled |-> enabled]
Ioapic(addr, base) == [type |-> 1, length |-> 12, addr |-> addr, gsi_base |-> base]

Entries ==
  { Cpu(1, TRUE), Cpu(2, TRUE), Cpu(3, FALSE), Ioapic(1, 0), Ioapic(2, 24),
    [type |-> 2, length |-> 10], [type |-> 4, length |-> 6],
    [type |-> 5, length |-> 16], [type |-> 9, length |-> 0],
    [Cpu(4, TRUE) EXCEPT !.length = 0] }

Images == UNION {[1..n -> Entries] : n \in 0..3}

Total(es) ==
  LET sum[n \in 0 .. Len(es)] == IF n = 0 THEN 44 ELSE sum[n - 1] + es[n].length
  IN sum[Len(es)]

Behind(list, es) ==
  [revision |-> 0, identity |-> FALSE, tables |-> list, entries |-> es, length |-> Total(es)]

Machine(f, dest, pic, bsp, pin, booted) ==
  [fw |-> f, dest |-> dest, pic |-> pic, bsp |-> bsp, pin |-> pin, booted |-> booted]

\* Followed to the end: a table with the I/O APIC of the ISA lines, on machines that
\* differ in one thing or in all, one with a second I/O APIC after it, one with none.
MCBooted ==
  { Machine(Behind(<<"FACP", "APIC">>, <<Cpu(1, TRUE), Ioapic(1, 0)>>), m[1], m[2], m[3], m[4], TRUE) :
      m \in { <<0, FALSE, 0, 0>>, <<1, FALSE, 0, 0>>, <<0, TRUE, 0, 0>>, <<0, FALSE, 1, 0>>,
              <<0, FALSE, 0, 2>>, <<1, TRUE, 1, 2>> } }
  \cup
  { Machine(Behind(<<"FACP", "APIC">>, es), 0, FALSE, 0, 0, TRUE) :
      es \in {<<Ioapic(1, 0), Ioapic(2, 24)>>, <<Cpu(1, TRUE)>>} }

\* Followed through madt_init: all images behind an RSDT, and the other lists with
\* the short images.
MCFirmwares ==
  { Behind(<<"FACP", "APIC">>, es) : es \in Images }
  \cup
  { [revision |-> r, identity |-> id, tables |-> list, entries |-> es, length |-> Total(es) - cut] :
      r \in {0, 2}, id \in BOOLEAN, list \in {<<>>, <<"FACP">>, <<"APIC", "HPET", "APIC">>},
      es \in {[j \in 1..n |-> e] : n \in 0..1, e \in Entries}, cut \in {0, 3} }

MCMachines == MCBooted \cup {Machine(f, 0, FALSE, 0, 0, FALSE) : f \in MCFirmwares}
=============================================================================
