-------------------------------- MODULE Madt --------------------------------
(***************************************************************************)
(* The ACPI table that lists processors and interrupt controllers, as      *)
(* parse_madt and acpi_remap_irq (power/acpi/acpi.c) and cpu_detect_cores  *)
(* (cpu/smp.c) walk it.                                                    *)
(*                                                                         *)
(* Memory from the first record of the table on is a sequence of records   *)
(* of different lengths: the table's own, then whatever happens to follow  *)
(* it.  A walk ends at a record of length 0, or at an end address that the *)
(* code computes with pointer arithmetic on the type of the table: in      *)
(* units of 44 bytes, far behind the table.                                *)
(***************************************************************************)
EXTENDS Sequences, FiniteSetsExt

CONSTANTS
  Machines  \* the machines the kernel may boot on: the records of the MADT,
            \* what memory holds after it, the APIC ID of the boot processor

MAX_NEEDED_CORES == 16

APIC_TYPE_LOCAL_APIC == 0
APIC_TYPE_IO_APIC == 1
APIC_TYPE_INTERRUPT_OVERRIDE == 2

SizeofMadt == 44

LocalApic(p, a) == [type |-> APIC_TYPE_LOCAL_APIC, length |-> 8,
                    processor_id |-> p, apic_id |-> a]

(* base is the chip's first global system interrupt.  The code logs it.    *)
IoApicAt(addr, base) == [type |-> APIC_TYPE_IO_APIC, length |-> 12,
                         io_apic_addr |-> addr, base |-> base]
Override(s, i) == [type |-> APIC_TYPE_INTERRUPT_OVERRIDE, length |-> 10,
                   source |-> s, interrupt |-> i]
Other(bytes) == [type |-> 255, length |-> bytes]

Byte == 0 .. 255

Entry ==
  [type : {APIC_TYPE_LOCAL_APIC}, length : {8}, processor_id : Byte, apic_id : Byte]
    \union [type : {APIC_TYPE_IO_APIC}, length : {12}, io_apic_addr : Nat, base : Nat]
    \union [type : {APIC_TYPE_INTERRUPT_OVERRIDE}, length : {10}, source : Byte, interrupt : Nat]
    \union [type : {255}, length : Byte]

IsLocalApic(r) == r.type = APIC_TYPE_LOCAL_APIC
IsIoApic(r) == r.type = APIC_TYPE_IO_APIC
IsOverride(r) == r.type = APIC_TYPE_INTERRUPT_OVERRIDE

(* The table's own records, of cores and of I/O APICs. *)
OwnCores(m) == {k \in DOMAIN m.records : IsLocalApic(m.records[k])}
OwnIoApics(m) == {k \in DOMAIN m.records : IsIoApic(m.records[k])}

(* The cores of a machine, by APIC ID. *)
ApicIds(m) == {m.records[k].apic_id : k \in OwnCores(m)}

ASSUME MachineAssumption ==
  \A m \in Machines :
    /\ m.records \in Seq(Entry) /\ m.after \in Seq(Entry)
    /\ \E k \in DOMAIN m.after : m.after[k].length = 0
    /\ \A k \in DOMAIN m.records : m.records[k].length > 0
    /\ m.bsp \in ApicIds(m)
    /\ \A k, l \in OwnCores(m) :
         k # l => /\ m.records[k].apic_id # m.records[l].apic_id
                  /\ m.records[k].processor_id # m.records[l].processor_id

-----------------------------------------------------------------------------
Memory(m) == m.records \o m.after

(* Where the records start, counted from the header of the table. *)
Offsets(m) ==
  LET memory == Memory(m)
      offset[k \in 1 .. Len(memory) + 1] ==
        IF k = 1 THEN SizeofMadt ELSE offset[k - 1] + memory[k - 1].length
  IN  offset

(* The header's length field. *)
Length(m) == Offsets(m)[Len(m.records) + 1]

(* The records that while (p < end) visits, with its break at length 0.    *)
Walk(m, end) ==
  LET memory == Memory(m)
      offset == Offsets(m)
  IN  {k \in DOMAIN memory :
         /\ offset[k] < end
         /\ \A j \in 1 .. k : memory[j].length # 0}

ParseEnd_Divided(m) == SizeofMadt * (Length(m) \div 16)

(* madt + madt->header.length, in parse_madt and acpi_remap_irq.           *)
ParseEnd(m) == SizeofMadt * Length(m)

(* madt + madt->header.length / 4, in cpu_detect_cores.                    *)
DetectEnd(m) == SizeofMadt * (Length(m) \div 4)

Found(m, end, type) ==
  LET memory == Memory(m)
  IN  {k \in Walk(m, end) : memory[k].type = type}

-----------------------------------------------------------------------------
(* The boundary that parse_madt tests: it lets one core too many through.  *)
MaxStored_Unbounded == 255
MaxStored == MAX_NEEDED_CORES + 1

StoredId_Apic(entry) == entry.apic_id

(* What parse_madt keeps of a Local APIC entry. *)
StoredId(entry) == entry.processor_id

(* The IDs parse_madt stores, the one past the end of acpi_cpuids included. *)
StoredIds(m) ==
  LET found == Found(m, ParseEnd(m), APIC_TYPE_LOCAL_APIC)
      Nth(n) == CHOOSE k \in found : Cardinality({l \in found : l < k}) = n
  IN  [n \in {l \in 0 .. MaxStored - 1 : l < Cardinality(found)} |->
         StoredId(Memory(m)[Nth(n)])]

(* The last I/O APIC wins; NULL stays if there is none. *)
NoIoApic == 0
io_apic_ptr(m) ==
  LET found == Found(m, ParseEnd(m), APIC_TYPE_IO_APIC)
  IN  IF found = {} THEN NoIoApic ELSE Memory(m)[Max(found)].io_apic_addr

U8(x) == x % 256

(* cpu_detect_cores counts in a uint8_t. *)
CoreCount(m) == U8(Cardinality(Found(m, DetectEnd(m), APIC_TYPE_LOCAL_APIC)))

Overrides(m, irq) ==
  {k \in Found(m, ParseEnd(m), APIC_TYPE_INTERRUPT_OVERRIDE) : Memory(m)[k].source = irq}

acpi_remap_irq_Last(m, irq) ==
  LET hits == Overrides(m, irq)
  IN  IF hits = {} THEN irq ELSE Memory(m)[Max(hits)].interrupt

(* The first override of an IRQ wins; without one it keeps its number.     *)
acpi_remap_irq(m, irq) ==
  LET hits == Overrides(m, irq)
  IN  IF hits = {} THEN irq ELSE Memory(m)[Min(hits)].interrupt

-----------------------------------------------------------------------------
(* Where the machine's timer is, by what the table itself says. *)
OwnOverrides(m, irq) ==
  {k \in DOMAIN m.records : IsOverride(m.records[k]) /\ m.records[k].source = irq}

TimerPin(m) ==
  IF OwnOverrides(m, 0) = {} THEN 0
  ELSE m.records[Min(OwnOverrides(m, 0))].interrupt

(* Does the kernel use one of the table's I/O APICs? *)
OwnChip(m) == \E k \in OwnIoApics(m) : m.records[k].io_apic_addr = io_apic_ptr(m)

(* The chip that the kernel uses is the one the timer is wired to. *)
TimerChip(m) ==
  \E k \in OwnIoApics(m) :
    /\ m.records[k].io_apic_addr = io_apic_ptr(m)
    /\ m.records[k].base = 0
    /\ \A l \in OwnIoApics(m) : m.records[l].base \notin 1 .. TimerPin(m)

(* Where the registers of an entry of the I/O APIC are.  ioapic_write      *)
(* numbers them with a byte.                                               *)
IOREDTBL == 16
Register(entry) == U8(IOREDTBL + 2 * entry)

(* setup_general_interrupts writes no destination, which is APIC ID 0.     *)
Destination == 0

(* Its entry makes the timer reach the boot processor (module IoApic).     *)
TimerReaches(m) ==
  /\ m.bsp = Destination
  /\ TimerChip(m)
  /\ Register(acpi_remap_irq(m, 0)) = IOREDTBL + 2 * TimerPin(m)

(* The IDs that parse_madt keeps are those that lapic_send_init needs: the *)
(* table's processor IDs are its APIC IDs, the array has room for its      *)
(* cores, and what lies behind it is not counted as one.                   *)
IdsAreApicIds(m) ==
  /\ \A k \in OwnCores(m) : m.records[k].processor_id = m.records[k].apic_id
  /\ Cardinality(OwnCores(m)) <= MAX_NEEDED_CORES
  /\ Found(m, DetectEnd(m), APIC_TYPE_LOCAL_APIC) \subseteq OwnCores(m)
=============================================================================
