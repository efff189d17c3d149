---------------------------- MODULE MCKernelBoot ----------------------------
(* Small machines for KernelBoot. *)
EXTENDS KernelBoot

Tables == [address |-> "rsdt", sum |-> 512, tables |-> <<"FACP", "APIC", "HPET">>]

M(records, bsp) ==
  [records |-> records, after |-> <<Other(0)>>, bsp |-> bsp,
   tags |-> <<"MEMMAP", "TERMINAL", "RSDP">>, rsdt |-> Tables]

Same(n) == [k \in 1 .. n |-> LocalApic(k - 1, k - 1)] \o <<IoApicAt(1, 0)>>

One == M(Same(1), 0)
BspLast == M(<<IoApicAt(1, 0)>> \o [k \in 1 .. 3 |-> LocalApic(3 - k, 3 - k)], 0)

(* The boot processor is not APIC ID 0, and the numberings differ. *)
Crossed == M(<<LocalApic(0, 1), LocalApic(1, 0), IoApicAt(1, 0), LocalApic(2, 4)>>, 1)

(* More cores than acpi_cpuids has room for. *)
Large == M(Same(18), 0)

(* What looks like cores behind the table: one that both walks reach, and  *)
(* one that only parse_madt does.                                          *)
Littered ==
  [M(Same(2), 0) EXCEPT !.after =
     <<Other(250), LocalApic(1, 7), Other(250), Other(250), LocalApic(3, 3), Other(0)>>]

Incomplete == {
  [One EXCEPT !.tags = <<"MEMMAP", "RSDP">>],
  [One EXCEPT !.tags = <<"MEMMAP", "TERMINAL">>],
  [One EXCEPT !.rsdt.address = "NULL"],
  [One EXCEPT !.rsdt.sum = 511],
  [One EXCEPT !.rsdt.tables = <<"FACP">>],
  M(<<LocalApic(0, 0)>>, 0)}

NoMemoryMap == [One EXCEPT !.tags = <<"TERMINAL", "RSDP">>]

(* What follows the table looks like an I/O APIC: the last one wins. *)
Phantom == [One EXCEPT !.after = <<IoApicAt(9, 0), Other(0)>>]

MCMachines == {One, BspLast, Crossed, Large, Littered, NoMemoryMap, Phantom}
              \union Incomplete

MCStray == {0, 1}

(* Every exception vector, one without a gate, and the spurious one. *)
MCUpsets == 0 .. 15 \union {255}
=============================================================================
