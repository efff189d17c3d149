------------------------------- MODULE IoApic -------------------------------
(***************************************************************************)
(* Routing the timer: ioapic_init (pic/ioapic.c) masks the pins of the     *)
(* I/O APIC, and setup_general_interrupts (interrupts/IDT.c) opens the one *)
(* that acpi_remap_irq (acpi/acpi.c) finds for IRQ 0, to APIC ID 0.        *)
(*                                                                         *)
(* The chip is reached through a window: one store selects a register, the *)
(* next one writes it, and a redirection entry is two registers.  Devices  *)
(* may raise their pins between any two of these stores.                   *)
(***************************************************************************)
EXTENDS Madt

CONSTANTS
  Pins,         \* redirection entries of the chip
  FirmwareRows  \* what the firmware may have left in an entry

VERSION == 1
TimerVector == 32

ASSUME PinsAssumption ==
  /\ Pins \in 1 .. 120
  /\ FirmwareRows \subseteq [masked : BOOLEAN, vector : 0 .. 255, dest : 0 .. 255]

Pin == 0 .. Pins - 1
EntryRegisters == IOREDTBL .. IOREDTBL + 2 * Pins - 1
Registers == {0, VERSION, 2} \union EntryRegisters

VARIABLES
  machine,
  regsel,     \* the selected register
  redir,      \* the redirection table
  pc,
  count,      \* ioapic_init's count
  pin,        \* its loop index
  stores,     \* register writes still to do in ioapic_set_entry
  selected,   \* is the first of them selected already?
  delivered   \* history: interrupts sent to processors, with their pins

vars == <<machine, regsel, redir, pc, count, pin, stores, selected, delivered>>

-----------------------------------------------------------------------------
Bits16to23_Unshifted(reg) ==
  CASE reg = VERSION -> (Pins - 1) * 65536
    [] reg >= IOREDTBL /\ reg % 2 = 0
         -> IF redir[(reg - IOREDTBL) \div 2].masked THEN 65536 ELSE 0
    [] OTHER -> 0

(* Bits 16 to 23 of a register: the highest pin in the version register,   *)
(* the mask bit in the low half of an entry.                               *)
Bits16to23(reg) ==
  CASE reg = VERSION -> Pins - 1
    [] reg >= IOREDTBL /\ reg % 2 = 0
         -> IF redir[(reg - IOREDTBL) \div 2].masked THEN 1 ELSE 0
    [] OTHER -> 0

(* ioapic_read reads the window without storing its argument in IOREGSEL:  *)
(* it answers for the register that happens to be selected.                *)
ioapic_read(reg) == Bits16to23(regsel)

(* The low half of an entry holds the vector and the mask, the high half   *)
(* the destination.                                                        *)
Low(entry, masked, vector) ==
  [reg |-> Register(entry), masked |-> masked, vector |-> vector]
High(entry, dest) == [reg |-> Register(entry) + 1, dest |-> dest]

ioapic_set_entry_LowOnly(entry, masked, vector) ==
  <<Low(entry, masked, vector)>>

(* Neither caller of ioapic_set_entry sets a bit above 16: the destination *)
(* is APIC ID 0.                                                           *)
ioapic_set_entry(entry, masked, vector) ==
  <<Low(entry, masked, vector), High(entry, Destination)>>

MaskEntry_Open(n) == ioapic_set_entry(n, FALSE, 0)

(* What ioapic_init stores in entry n: 1 << 16. *)
MaskEntry(n) == ioapic_set_entry(n, TRUE, 0)

-----------------------------------------------------------------------------
(* ioapic_write, one store at a time. *)
SelectRegister ==
  /\ stores # <<>>
  /\ ~selected
  /\ regsel' = Head(stores).reg
  /\ selected' = TRUE
  /\ UNCHANGED <<machine, redir, pc, count, pin, stores, delivered>>

(* Of the other registers the chip has one that takes a store: its ID,     *)
(* which nothing here reads.                                               *)
WriteWindow ==
  /\ stores # <<>>
  /\ selected
  /\ LET w == Head(stores)
         n == (regsel - IOREDTBL) \div 2
     IN  redir' = IF regsel \notin EntryRegisters THEN redir
                  ELSE IF regsel % 2 = 0
                  THEN [redir EXCEPT ![n].masked = w.masked, ![n].vector = w.vector]
                  ELSE [redir EXCEPT ![n].dest = w.dest]
  /\ stores' = Tail(stores)
  /\ selected' = FALSE
  /\ UNCHANGED <<machine, regsel, pc, count, pin, delivered>>

ReadCount ==
  /\ pc = "count"
  /\ count' = ioapic_read(VERSION) + 1
  /\ pin' = 0
  /\ pc' = "mask"
  /\ UNCHANGED <<machine, regsel, redir, stores, selected, delivered>>

MaskNext ==
  /\ pc = "mask"
  /\ stores = <<>>
  /\ pin < count
  /\ stores' = MaskEntry(pin)
  /\ pin' = pin + 1
  /\ UNCHANGED <<machine, regsel, redir, pc, count, selected, delivered>>

InitDone ==
  /\ pc = "mask"
  /\ stores = <<>>
  /\ pin = count
  /\ pc' = "masked"
  /\ UNCHANGED <<machine, regsel, redir, count, pin, stores, selected, delivered>>

setup_general_interrupts ==
  /\ pc = "masked"
  /\ stores' = ioapic_set_entry(acpi_remap_irq(machine, 0), FALSE, TimerVector)
  /\ pc' = "route"
  /\ UNCHANGED <<machine, regsel, redir, count, pin, selected, delivered>>

SetupDone ==
  /\ pc = "route"
  /\ stores = <<>>
  /\ pc' = "done"
  /\ UNCHANGED <<machine, regsel, redir, count, pin, stores, selected, delivered>>

(* A device raises pin n. *)
Raise(n) ==
  /\ ~redir[n].masked
  /\ delivered' = delivered \union
       {[from |-> n, vector |-> redir[n].vector, dest |-> redir[n].dest, during |-> pc]}
  /\ UNCHANGED <<machine, regsel, redir, pc, count, pin, stores, selected>>

-----------------------------------------------------------------------------
Init ==
  /\ machine \in Machines
  /\ regsel \in Registers
  /\ redir \in [Pin -> FirmwareRows]
  /\ pc = "count"
  /\ count = 0
  /\ pin = 0
  /\ stores = <<>>
  /\ selected = FALSE
  /\ delivered = {}

Next ==
  \/ ReadCount \/ MaskNext \/ InitDone \/ setup_general_interrupts \/ SetupDone
  \/ SelectRegister \/ WriteWindow
  \/ \E n \in Pin : Raise(n)

Spec == Init /\ [][Next]_vars

-----------------------------------------------------------------------------
(* The entry that setup_general_interrupts opens, if the chip has it.      *)
RoutedEntry == (Register(acpi_remap_irq(machine, 0)) - IOREDTBL) \div 2

TimerRow(dest) == [masked |-> FALSE, vector |-> TimerVector, dest |-> dest]

Interrupt == [from : Pin, vector : 0 .. 255, dest : 0 .. 255,
              during : {"count", "mask", "masked", "route", "done"}]

TypeOK ==
  /\ machine \in Machines
  /\ regsel \in Byte
  /\ redir \in [Pin -> [masked : BOOLEAN, vector : 0 .. 255, dest : 0 .. 255]]
  /\ pc \in {"count", "mask", "masked", "route", "done"}
  /\ count \in 0 .. Pins + 1
  /\ pin \in 0 .. count
  /\ Len(stores) <= 2
  /\ selected \in BOOLEAN
  /\ delivered \subseteq Interrupt

(* Once the kernel enables interrupts one entry is open, on vector 0x20,   *)
(* whatever the firmware left there, and every other one that ioapic_init  *)
(* got to is masked.  The open one is the timer's where the table has an   *)
(* override for it, whatever lies behind the table.  It is the timer's and *)
(* of the boot processor on just those machines of which module KernelBoot *)
(* assumes that ticks arrive: where the boot processor has APIC ID 0 and   *)
(* nothing behind the table is taken for the override it lacks.            *)
TimerIsRouted ==
  pc = "done" =>
    /\ \A n \in Pin :
         /\ n = RoutedEntry => redir[n] = TimerRow(Destination)
         /\ n # RoutedEntry /\ n < count => redir[n].masked
    /\ (OwnOverrides(machine, 0) # {} /\ TimerPin(machine) \in Pin) =>
         redir[TimerPin(machine)] = TimerRow(Destination)
    /\ (TimerChip(machine) /\ TimerPin(machine) \in Pin) =>
         /\ TimerReaches(machine) => redir[TimerPin(machine)] = TimerRow(machine.bsp)
         /\ TimerPin(machine) < count /\ ~TimerReaches(machine) =>
              redir[TimerPin(machine)] # TimerRow(machine.bsp)

(* Between its two stores an open entry still has its old destination.     *)
(* That a masked pin goes through ioapic_init first keeps this harmless:   *)
(* from such pins the processors see the timer's vector and nothing else,  *)
(* no one but APIC ID 0 sees it, and where the timer reaches the boot      *)
(* processor it comes from the timer.                                      *)
NoStrayInterrupts ==
  \A d \in delivered :
    (d.from < count /\ d.during \in {"masked", "route", "done"}) =>
      /\ d.from = RoutedEntry
      /\ d.vector = TimerVector
      /\ d.dest = Destination
      /\ TimerReaches(machine) => d.from = TimerPin(machine) /\ d.dest = machine.bsp

(* The comment on ioapic.c, line 67: ioapic_init disables all redirection  *)
(* entries, those the version register counts (line 62).                   *)
DisablesAllEntries ==
  pc = "masked" => \A n \in Pin : redir[n].masked
=============================================================================
