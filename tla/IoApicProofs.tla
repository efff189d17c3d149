---------------------------- MODULE IoApicProofs ----------------------------
(***************************************************************************)
(* Proofs about routing the timer, for chips of every size, whatever the   *)
(* firmware left in their tables, and whichever register it left selected: *)
(* ioapic_read answers for that one, so that ioapic_init may take the chip *)
(* for smaller or, if it has one pin only, for larger than it is.          *)
(***************************************************************************)
EXTENDS IoApic, MadtProofs

MaskedRow == [masked |-> TRUE, vector |-> 0, dest |-> Destination]

(* The two stores to an entry, by the registers they reach.                *)
LowAt(e, masked, vector) ==
  [reg |-> IOREDTBL + 2 * e, masked |-> masked, vector |-> vector]
HighAt(e) == [reg |-> IOREDTBL + 2 * e + 1, dest |-> Destination]
Pair(e, masked, vector) == <<LowAt(e, masked, vector), HighAt(e)>>

(* ioapic_set_entry is about to write both halves of an entry, or one. *)
Both(e, masked, vector) == stores = Pair(e, masked, vector)
Half(e) == stores = <<HighAt(e)>>

(* The entries that a byte can number: eight of them are not there.        *)
Numbered == -8 .. 119

Types ==
  /\ machine \in Machines
  /\ regsel \in Byte
  /\ redir \in [Pin -> [masked : BOOLEAN, vector : 0 .. 255, dest : 0 .. 255]]
  /\ pc \in {"count", "mask", "masked", "route", "done"}
  /\ count \in 0 .. Pins + 1
  /\ pin \in 0 .. count
  /\ selected \in BOOLEAN

(* Where ioapic_init and setup_general_interrupts are. *)
Phases ==
  /\ pc = "count" => regsel \in Registers
  /\ pc # "count" => count \in 1 .. Pins \/ count = 2
  /\ pc \in {"count", "masked", "done"} => stores = <<>>
  /\ pc \in {"masked", "route", "done"} => pin = count
  /\ pc = "mask" => \/ stores = <<>>
                    \/ pin > 0 /\ (Both(pin - 1, TRUE, 0) \/ Half(pin - 1))
  /\ pc = "route" => \/ stores = <<>>
                     \/ Both(RoutedEntry, FALSE, TimerVector) \/ Half(RoutedEntry)
  /\ selected => stores # <<>> /\ regsel = Head(stores).reg

(* What is in the entries by then. *)
Masking ==
  pc = "mask" =>
    \A n \in Pin :
      n < pin =>
        /\ n < pin - 1 \/ stores = <<>> => redir[n] = MaskedRow
        /\ n = pin - 1 /\ Half(n) => redir[n].masked = TRUE /\ redir[n].vector = 0

Routing ==
  pc \in {"masked", "route", "done"} =>
    /\ \A n \in Pin : n < count /\ n # RoutedEntry => redir[n] = MaskedRow
    /\ RoutedEntry \in Pin =>
         /\ pc = "masked" \/ Both(RoutedEntry, FALSE, TimerVector) =>
              (RoutedEntry < count => redir[RoutedEntry] = MaskedRow)
         /\ pc # "masked" /\ Half(RoutedEntry) =>
              /\ redir[RoutedEntry].masked = FALSE
              /\ redir[RoutedEntry].vector = TimerVector
              /\ RoutedEntry < count => redir[RoutedEntry].dest = Destination
         /\ pc # "masked" /\ stores = <<>> =>
              redir[RoutedEntry] = TimerRow(Destination)

(* What the processors have seen. *)
Seen ==
  \A d \in delivered :
    /\ d \in Interrupt
    /\ d.during \in {"masked", "route", "done"} =>
         /\ pc \in {"masked", "route", "done"}
         /\ d.from < count =>
              d.from = RoutedEntry /\ d.vector = TimerVector /\ d.dest = Destination

(* The inductive invariant. *)
IInv ==
  /\ Types
  /\ Phases
  /\ Masking
  /\ Routing
  /\ Seen

-----------------------------------------------------------------------------
Row == [masked : BOOLEAN, vector : 0 .. 255, dest : 0 .. 255]

LEMMA RowIs ==
  ASSUME NEW r \in Row
  PROVE  /\ r.masked = TRUE /\ r.vector = 0 /\ r.dest = Destination => r = MaskedRow
         /\ r.masked = FALSE /\ r.vector = TimerVector /\ r.dest = Destination => r = TimerRow(Destination)
<1>1. r = [masked |-> r.masked, vector |-> r.vector, dest |-> r.dest]
  BY DEF Row
<1> QED
  BY <1>1 DEF MaskedRow, TimerRow

(* Pins are numbers, wherever they are read. *)
LEMMA LeastIs ==
  ASSUME NEW S \in SUBSET Nat, S # {}
  PROVE  Min(S) \in S
<1>1. PICK n \in S : \A k \in S : n <= k
  BY LeastNat
<1> QED
  BY <1>1 DEF Min

LEMMA RemappedIsNat ==
  ASSUME NEW m \in Machines
  PROVE  acpi_remap_irq(m, 0) \in Nat
<1> DEFINE H == Overrides(m, 0)
<1>1. H \in SUBSET (DOMAIN Memory(m)) /\ H \in SUBSET Nat
  BY FoundIs, MemoryIs DEF Overrides
<1>2. ASSUME NEW k \in H
      PROVE  Memory(m)[k].interrupt \in Nat
  <2>1. Memory(m)[k] \in Entry /\ Memory(m)[k].type = APIC_TYPE_INTERRUPT_OVERRIDE
    <3>1. k \in Found(m, ParseEnd(m), APIC_TYPE_INTERRUPT_OVERRIDE)
      BY <1>2 DEF Overrides
    <3>2. Memory(m)[k].type = APIC_TYPE_INTERRUPT_OVERRIDE
      BY <3>1, Zenon DEF Found
    <3>3. Memory(m) \in Seq(Entry) /\ k \in DOMAIN Memory(m)
      BY <1>1, <1>2, MemoryIs
    <3>4. \A s \in Seq(Entry) : \A i \in DOMAIN s : s[i] \in Entry
      OBVIOUS
    <3> QED
      BY <3>2, <3>3, <3>4, Zenon
  <2> QED
    BY <2>1 DEF Entry, APIC_TYPE_INTERRUPT_OVERRIDE, APIC_TYPE_LOCAL_APIC, APIC_TYPE_IO_APIC
<1>3. CASE H = {}
  BY <1>3 DEF acpi_remap_irq
<1>4. CASE H # {}
  BY <1>1, <1>2, <1>4, LeastIs DEF acpi_remap_irq
<1> QED
  BY <1>3, <1>4

LEMMA TimerPinIsNat ==
  ASSUME NEW m \in Machines
  PROVE  TimerPin(m) \in Nat
<1> DEFINE H == OwnOverrides(m, 0)
<1>0. m.records \in Seq(Entry) /\ DOMAIN m.records = 1 .. Len(m.records)
      /\ Len(m.records) \in Nat
  BY MachineAssumption
<1>1. H \in SUBSET (DOMAIN m.records) /\ H \in SUBSET Nat
  <2>1. H \in SUBSET (DOMAIN m.records)
    BY DEF OwnOverrides
  <2>2. 1 .. Len(m.records) \in SUBSET Nat
    OBVIOUS
  <2> QED
    BY <1>0, <2>1, <2>2
<1>2. ASSUME NEW k \in H
      PROVE  m.records[k].interrupt \in Nat
  <2>1. m.records \in Seq(Entry)
    BY MachineAssumption
  <2>2. m.records[k] \in Entry /\ m.records[k].type = APIC_TYPE_INTERRUPT_OVERRIDE
    BY <1>1, <2>1, MemoryIs DEF OwnOverrides, IsOverride
  <2> QED
    BY <2>2 DEF Entry, APIC_TYPE_INTERRUPT_OVERRIDE, APIC_TYPE_LOCAL_APIC, APIC_TYPE_IO_APIC
<1>3. CASE H = {}
  BY <1>3 DEF TimerPin
<1>4. CASE H # {}
  BY <1>1, <1>2, <1>4, LeastIs DEF TimerPin
<1> QED
  BY <1>3, <1>4

(* An override in the table comes before what lies behind the table.       *)
LEMMA OwnOverrideWins ==
  ASSUME NEW m \in Machines, OwnOverrides(m, 0) # {}
  PROVE  acpi_remap_irq(m, 0) = TimerPin(m)
<1> DEFINE O == OwnOverrides(m, 0)
           H == Overrides(m, 0)
           K == DOMAIN m.records
<1>1. /\ Len(m.records) \in Nat /\ K = 1 .. Len(m.records)
      /\ DOMAIN Memory(m) = 1 .. Len(Memory(m)) /\ Len(Memory(m)) \in Nat
      /\ Len(Memory(m)) = Len(m.records) + Len(m.after) /\ Len(m.after) \in Nat
      /\ \A k \in K : Memory(m)[k] = m.records[k]
  BY MemoryIs
<1>2. H \subseteq DOMAIN Memory(m) /\ O \subseteq K
  BY FoundIs DEF Overrides, OwnOverrides
<1>3. \A k \in K : k \in O <=> k \in H
  <2> SUFFICES ASSUME NEW k \in K
               PROVE  k \in O <=> k \in H
    OBVIOUS
  <2>1. k \in Walk(m, ParseEnd(m))
    BY TableIsWalked
  <2>2. k \in Found(m, ParseEnd(m), APIC_TYPE_INTERRUPT_OVERRIDE)
          <=> Memory(m)[k].type = APIC_TYPE_INTERRUPT_OVERRIDE
    BY <2>1, Zenon DEF Found
  <2> QED
    BY <1>1, <2>2 DEF Overrides, OwnOverrides, IsOverride
<1> HIDE DEF O, H
<1>4. O \in SUBSET Nat /\ H \in SUBSET Nat
  <2>1. \A n \in Nat : 1 .. n \in SUBSET Nat
    OBVIOUS
  <2>2. K \in SUBSET Nat /\ DOMAIN Memory(m) \in SUBSET Nat
    BY <1>1, <2>1
  <2> QED
    BY <1>2, <2>2
<1>5. PICK o \in O : \A k \in O : o <= k
  BY <1>4, LeastNat DEF O
<1>6. o \in H /\ \A k \in H : o <= k
  <2>1. o \in K /\ o \in H /\ o <= Len(m.records)
    BY <1>1, <1>2, <1>3
  <2>2. ASSUME NEW k \in H
        PROVE  o <= k
    <3>1. CASE k \in K
      BY <1>3, <1>5, <3>1
    <3>2. CASE k \notin K
      <4>1. k \in 1 .. Len(Memory(m)) /\ k \notin 1 .. Len(m.records)
        BY <1>1, <1>2, <3>2
      <4> QED
        BY <1>1, <1>4, <2>1, <4>1
    <3> QED
      BY <3>1, <3>2
  <2> QED
    BY <2>1, <2>2
<1>7. Min(O) = o /\ Min(H) = o
  <2>1. ASSUME NEW S \in SUBSET Nat, o \in S, \A k \in S : o <= k
        PROVE  Min(S) = o
    <3>1. \A x \in S : (\A y \in S : x <= y) => x = o
      BY <2>1
    <3> QED
      BY <2>1, <3>1 DEF Min
  <2> QED
    BY <1>4, <1>5, <1>6, <2>1
<1>8. Memory(m)[o] = m.records[o]
  BY <1>1, <1>2
<1> QED
  BY <1>6, <1>7, <1>8 DEF acpi_remap_irq, TimerPin, O, H

LEMMA StoresAre ==
  ASSUME NEW entry, NEW masked, NEW vector
  PROVE  /\ Both(entry, masked, vector) =>
              /\ stores # <<>> /\ Head(stores) = LowAt(entry, masked, vector)
              /\ Tail(stores) = <<HighAt(entry)>> /\ Len(stores) = 2
         /\ Half(entry) => /\ stores # <<>> /\ Head(stores) = HighAt(entry)
                           /\ Tail(stores) = <<>> /\ Len(stores) = 1
<1>1. \A a, b : /\ <<a, b>> # <<>> /\ Head(<<a, b>>) = a
                /\ Tail(<<a, b>>) = <<b>> /\ Len(<<a, b>>) = 2
  OBVIOUS
<1>2. \A a : /\ <<a>> # <<>> /\ Head(<<a>>) = a /\ Tail(<<a>>) = <<>> /\ Len(<<a>>) = 1
  OBVIOUS
<1> QED
  BY <1>1, <1>2, Zenon DEF Both, Half, Pair

(* How far a write of an entry is can be seen from what is left of it. *)
LEMMA StoresDiffer ==
  ASSUME NEW entry, NEW masked, NEW vector
  PROVE  /\ Pair(entry, masked, vector) # <<>>
         /\ <<HighAt(entry)>> # <<>>
         /\ \A n : Pair(entry, masked, vector) # <<HighAt(n)>>
<1>1. \A a, b, c : <<a, b>> # <<>> /\ <<a>> # <<>> /\ <<a, b>> # <<c>>
  OBVIOUS
<1> QED
  BY <1>1, Zenon DEF Pair

(* Which registers ioapic_set_entry reaches. *)
LEMMA Reaches ==
  ASSUME NEW entry \in Nat, NEW e \in Numbered, Register(entry) = IOREDTBL + 2 * e,
         NEW masked, NEW vector
  PROVE  ioapic_set_entry(entry, masked, vector) = Pair(e, masked, vector)
BY DEF ioapic_set_entry, Low, High, Pair, LowAt, HighAt

LEMMA Unwrapped ==
  ASSUME NEW e \in 0 .. 119
  PROVE  Register(e) = IOREDTBL + 2 * e
BY DEF Register, U8, IOREDTBL

LEMMA RoutedIs ==
  ASSUME machine \in Machines
  PROVE  /\ RoutedEntry \in Numbered
         /\ acpi_remap_irq(machine, 0) \in Nat
         /\ Register(acpi_remap_irq(machine, 0)) = IOREDTBL + 2 * RoutedEntry
<1>1. PICK a \in Nat : a = acpi_remap_irq(machine, 0)
  BY RemappedIsNat
<1>2. PICK r \in Nat : r = (16 + 2 * a) % 256
  OBVIOUS
<1>3. r \in 0 .. 255 /\ r % 2 = 0
  BY <1>2
<1>4. RoutedEntry = (r - 16) \div 2
  BY <1>1, <1>2 DEF RoutedEntry, Register, U8, IOREDTBL
<1>5. (r - 16) \div 2 \in -8 .. 119 /\ r = 16 + 2 * ((r - 16) \div 2)
  BY <1>3
<1>6. Register(a) = r
  BY <1>2 DEF Register, U8, IOREDTBL
<1> QED
  BY <1>1, <1>4, <1>5, <1>6 DEF Numbered, IOREDTBL

(* The low half of an entry is written. *)
LEMMA LowWritten ==
  ASSUME Types, Phases, WriteWindow,
         NEW e \in Numbered, NEW masked \in BOOLEAN, NEW vector \in 0 .. 255,
         Both(e, masked, vector)
  PROVE  /\ stores' = <<HighAt(e)>>
         /\ redir' \in [Pin -> Row]
         /\ \A n \in Pin : n # e => redir'[n] = redir[n]
         /\ e \in Pin => /\ redir'[e].masked = masked /\ redir'[e].vector = vector
                         /\ redir'[e].dest = redir[e].dest
<1>1. /\ Head(stores) = [reg |-> 16 + 2 * e, masked |-> masked, vector |-> vector]
      /\ Tail(stores) = <<HighAt(e)>>
  BY StoresAre DEF LowAt, IOREDTBL
<1>2. regsel = 16 + 2 * e
  BY <1>1 DEF WriteWindow, Phases
<1>3. (regsel - IOREDTBL) \div 2 = e /\ regsel % 2 = 0
  BY <1>2 DEF IOREDTBL, Numbered
<1>4. stores' = <<HighAt(e)>>
  BY <1>1 DEF WriteWindow
<1>5. Pins \in Nat
  BY PinsAssumption
<1>6. e \in Pin <=> regsel \in EntryRegisters
  BY <1>2, <1>5 DEF EntryRegisters, IOREDTBL, Pin, Numbered
<1>7. redir \in [Pin -> Row]
  BY DEF Types, Row
<1>8. CASE e \in Pin
  <2>1. redir' = [redir EXCEPT ![e].masked = masked, ![e].vector = vector]
    <3>1. /\ Head(stores).masked = masked /\ Head(stores).vector = vector
          /\ ~(regsel \notin EntryRegisters) /\ regsel % 2 = 0
      BY <1>1, <1>3, <1>6, <1>8
    <3> QED
      BY <1>3, <3>1, Zenon DEF WriteWindow
  <2>2. redir[e] \in Row
    BY <1>7, <1>8
  <2> QED
    BY <1>4, <1>7, <1>8, <2>1, <2>2 DEF Row
<1>9. CASE e \notin Pin
  BY <1>4, <1>6, <1>7, <1>9 DEF WriteWindow
<1> QED
  BY <1>8, <1>9

(* The high half of an entry is written. *)
LEMMA HighWritten ==
  ASSUME Types, Phases, WriteWindow, NEW e \in Numbered, Half(e)
  PROVE  /\ stores' = <<>>
         /\ redir' \in [Pin -> Row]
         /\ \A n \in Pin : n # e => redir'[n] = redir[n]
         /\ e \in Pin => /\ redir'[e].masked = redir[e].masked
                         /\ redir'[e].vector = redir[e].vector
                         /\ redir'[e].dest = Destination
<1>1. Head(stores) = [reg |-> 16 + 2 * e + 1, dest |-> 0] /\ Tail(stores) = <<>>
  BY StoresAre DEF HighAt, IOREDTBL, Destination
<1>2. regsel = 16 + 2 * e + 1
  BY <1>1 DEF WriteWindow, Phases
<1>3. (regsel - IOREDTBL) \div 2 = e /\ regsel % 2 # 0
  BY <1>2 DEF IOREDTBL, Numbered
<1>5. Pins \in Nat
  BY PinsAssumption
<1>6. e \in Pin <=> regsel \in EntryRegisters
  BY <1>2, <1>5 DEF EntryRegisters, IOREDTBL, Pin, Numbered
<1>7. redir \in [Pin -> Row]
  BY DEF Types, Row
<1>8. CASE e \in Pin
  <2>1. redir' = [redir EXCEPT ![e].dest = 0]
    <3>1. Head(stores).dest = 0 /\ ~(regsel \notin EntryRegisters) /\ ~(regsel % 2 = 0)
      BY <1>1, <1>3, <1>6, <1>8
    <3> QED
      BY <1>3, <3>1, Zenon DEF WriteWindow
  <2>2. redir[e] \in Row
    BY <1>7, <1>8
  <2>3. stores' = <<>>
    BY <1>1, Zenon DEF WriteWindow
  <2>4. redir'[e] = [redir[e] EXCEPT !.dest = 0]
    BY <1>7, <1>8, <2>1
  <2>5. redir'[e] = [masked |-> redir[e].masked, vector |-> redir[e].vector, dest |-> 0]
    BY <2>2, <2>4 DEF Row
  <2>6. redir'[e] \in Row
    BY <2>2, <2>5 DEF Row
  <2>7. redir' \in [Pin -> Row] /\ \A n \in Pin : n # e => redir'[n] = redir[n]
    BY <1>7, <1>8, <2>1, <2>6
  <2> QED
    BY <2>3, <2>5, <2>7 DEF Destination
<1>9. CASE e \notin Pin
  BY <1>1, <1>6, <1>7, <1>9 DEF WriteWindow
<1> QED
  BY <1>8, <1>9

(* The entries whose halves are written. *)
LEMMA Entries ==
  ASSUME Types, Phases
  PROVE  /\ RoutedEntry \in Numbered
         /\ pc # "count" => pin \in 0 .. 120
         /\ pc = "mask" /\ stores # <<>> => pin - 1 \in 0 .. 119 /\ pin - 1 \in Numbered
<1>1. RoutedEntry \in Numbered /\ Pins \in 1 .. 120
  BY RoutedIs, PinsAssumption DEF Types
<1>2. pc # "count" => count \in 1 .. Pins \/ count = 2
  BY Zenon DEF Phases
<1>3. pc # "count" => count \in 0 .. 120
  BY <1>1, <1>2
<1>4. pin \in 0 .. count
  BY DEF Types
<1>5. pc # "count" => pin \in 0 .. 120
  BY <1>3, <1>4
<1>6. pc = "mask" /\ stores # <<>> => pin > 0
  BY Zenon DEF Phases
<1>7. pc = "mask" /\ stores # <<>> => pin - 1 \in 0 .. 119 /\ pin - 1 \in Numbered
  BY <1>5, <1>6 DEF Numbered
<1> QED
  BY <1>1, <1>5, <1>7

LEMMA CountRead ==
  ASSUME IInv, ReadCount
  PROVE  count' \in 1 .. Pins \/ count' = 2
<1>1. Pins \in 1 .. 120
  BY PinsAssumption
<1>2. Bits16to23(regsel) \in {Pins - 1, 0, 1}
  BY DEF Bits16to23
<1>3. count' = Bits16to23(regsel) + 1
  BY DEF ReadCount, ioapic_read
<1> QED
  BY <1>1, <1>2, <1>3

LEMMA ReadCountStep ==
  ASSUME IInv, ReadCount
  PROVE  IInv'
<1>1. /\ pc = "count" /\ pc' = "mask" /\ pin' = 0 /\ stores = <<>> /\ selected = FALSE
      /\ UNCHANGED <<machine, regsel, redir, stores, selected, delivered>>
  BY DEF ReadCount, IInv, Phases, Types
<1>2. count' \in 1 .. Pins \/ count' = 2
  BY CountRead
<1>3. Pins \in 1 .. 120
  BY PinsAssumption
<1>4. Types'
  BY <1>1, <1>2, <1>3 DEF IInv, Types
<1>5. Phases'
  BY <1>1, <1>2 DEF Phases
<1>6. Masking' /\ Routing'
  BY <1>1, <1>3 DEF Masking, Routing, Pin
<1>7. Seen'
  BY <1>1 DEF IInv, Seen
<1> QED
  BY <1>4, <1>5, <1>6, <1>7 DEF IInv

(* A new entry begins: nothing was being written. *)
LEMMA MaskNextStep ==
  ASSUME IInv, MaskNext
  PROVE  IInv'
<1>1. /\ pc = "mask" /\ pin < count /\ pin' = pin + 1 /\ stores = <<>>
      /\ selected = FALSE
      /\ UNCHANGED <<machine, regsel, redir, pc, count, selected, delivered>>
  BY DEF MaskNext, IInv, Phases, Types
<1>2. count \in Nat /\ pin \in Nat
  BY DEF IInv, Types
<1>3. pin' - 1 = pin /\ pin' > 0 /\ pin' \in 0 .. count
  BY <1>1, <1>2
<1>4. Both(pin - 1, TRUE, 0)'
  <2>1. count \in 1 .. Pins \/ count = 2
    BY <1>1 DEF IInv, Phases
  <2>2. pin \in 0 .. 119 /\ pin \in Nat /\ pin \in Numbered
    BY <1>1, <1>2, <2>1, PinsAssumption DEF Numbered
  <2>3. stores' = Pair(pin, TRUE, 0)
    BY <2>2, Unwrapped, Reaches DEF MaskNext, MaskEntry
  <2> QED
    BY <1>3, <2>3 DEF Both
<1>5. stores' # <<>> /\ \A n : stores' # <<HighAt(n)>>
  BY <1>4, StoresDiffer DEF Both
<1>6. Types'
  BY <1>1, <1>3 DEF IInv, Types
<1>7. Phases'
  BY <1>1, <1>3, <1>4 DEF IInv, Phases
<1>8. Masking'
  <2> SUFFICES ASSUME NEW n \in Pin, n < pin'
               PROVE  /\ n < pin' - 1 \/ stores' = <<>> => redir'[n] = MaskedRow
                      /\ ~Half(n)'
    BY DEF Masking
  <2>1. n < pin' - 1 => redir'[n] = MaskedRow
    BY <1>1, <1>3 DEF IInv, Masking
  <2> QED
    BY <1>5, <2>1 DEF Half
<1>9. Routing'
  BY <1>1 DEF Routing
<1>10. Seen'
  BY <1>1 DEF IInv, Seen
<1> QED
  BY <1>6, <1>7, <1>8, <1>9, <1>10 DEF IInv

LEMMA InitDoneStep ==
  ASSUME IInv, InitDone
  PROVE  IInv'
<1>1. /\ pc = "mask" /\ pc' = "masked" /\ pin = count /\ stores = <<>>
      /\ selected = FALSE
      /\ UNCHANGED <<machine, regsel, redir, count, pin, stores, selected, delivered>>
  BY DEF InitDone, IInv, Phases, Types
<1>2. RoutedEntry' = RoutedEntry
  BY <1>1, Entries DEF IInv, RoutedEntry
<1>3. Types'
  BY <1>1 DEF IInv, Types
<1>4. Phases'
  BY <1>1 DEF IInv, Phases
<1>5. Masking'
  BY <1>1 DEF Masking
<1>6. \A n \in Pin : n < count => redir[n] = MaskedRow
  BY <1>1 DEF IInv, Masking
<1>7. Routing'
  <2>1. stores' # Pair(RoutedEntry, FALSE, TimerVector)
    BY <1>1, StoresDiffer
  <2> QED
    BY <1>1, <1>2, <1>6, <2>1 DEF Routing
<1>8. Seen'
  BY <1>1 DEF IInv, Seen
<1> QED
  BY <1>3, <1>4, <1>5, <1>7, <1>8 DEF IInv

LEMMA SetupStep ==
  ASSUME IInv, setup_general_interrupts
  PROVE  IInv'
<1>1. /\ pc = "masked" /\ pc' = "route" /\ stores = <<>> /\ selected = FALSE
      /\ stores' = Pair(RoutedEntry, FALSE, TimerVector)
      /\ UNCHANGED <<machine, regsel, redir, count, pin, selected, delivered>>
  <2>1. /\ pc = "masked" /\ pc' = "route" /\ stores = <<>> /\ selected = FALSE
        /\ stores' = ioapic_set_entry(acpi_remap_irq(machine, 0), FALSE, TimerVector)
        /\ UNCHANGED <<machine, regsel, redir, count, pin, selected, delivered>>
    BY DEF setup_general_interrupts, IInv, Phases, Types
  <2> QED
    BY <2>1, RoutedIs, Reaches DEF IInv, Types
<1>2. RoutedEntry' = RoutedEntry
  BY <1>1, Zenon DEF RoutedEntry
<1>3. Types'
  BY <1>1 DEF IInv, Types
<1>4. Phases'
  BY <1>1, <1>2 DEF IInv, Phases, Both
<1>5. Masking'
  BY <1>1 DEF Masking
<1>6. stores' # <<>> /\ \A n : stores' # <<HighAt(n)>>
  BY <1>1, StoresDiffer
<1>7. Routing'
  BY <1>1, <1>2, <1>6 DEF IInv, Routing, Half
<1>8. Seen'
  BY <1>1 DEF IInv, Seen, RoutedEntry
<1> QED
  BY <1>3, <1>4, <1>5, <1>7, <1>8 DEF IInv

LEMMA SetupDoneStep ==
  ASSUME IInv, SetupDone
  PROVE  IInv'
<1>1. /\ pc = "route" /\ pc' = "done" /\ stores = <<>> /\ selected = FALSE
      /\ UNCHANGED <<machine, regsel, redir, count, pin, stores, selected, delivered>>
  BY DEF SetupDone, IInv, Phases, Types
<1>2. RoutedEntry' = RoutedEntry
  BY <1>1, Zenon DEF RoutedEntry
<1>3. Types'
  BY <1>1 DEF IInv, Types
<1>4. Phases'
  BY <1>1 DEF IInv, Phases
<1>5. Masking'
  BY <1>1 DEF Masking
<1>6. /\ stores # Pair(RoutedEntry, FALSE, TimerVector)
      /\ stores # <<HighAt(RoutedEntry)>>
  BY <1>1, StoresDiffer
<1>7. Routing'
  BY <1>1, <1>2, <1>6 DEF IInv, Routing, Half, Both
<1>8. Seen'
  BY <1>1 DEF IInv, Seen, RoutedEntry
<1> QED
  BY <1>3, <1>4, <1>5, <1>7, <1>8 DEF IInv

LEMMA SelectStep ==
  ASSUME IInv, SelectRegister
  PROVE  IInv'
<1>1. /\ stores # <<>> /\ regsel' = Head(stores).reg /\ selected' = TRUE
      /\ UNCHANGED <<machine, redir, pc, count, pin, stores, delivered>>
  BY DEF SelectRegister
<1>2. ASSUME NEW e \in Numbered, NEW masked, NEW vector, Both(e, masked, vector) \/ Half(e)
      PROVE  Head(stores).reg \in Byte
  <2>1. \/ Head(stores) = [reg |-> 16 + 2 * e, masked |-> masked, vector |-> vector]
        \/ Head(stores) = [reg |-> 16 + 2 * e + 1, dest |-> 0]
    BY <1>2, StoresAre DEF LowAt, HighAt, IOREDTBL, Destination
  <2> QED
    BY <2>1 DEF Byte, Numbered
<1>3. pc \in {"mask", "route"}
  BY <1>1 DEF IInv, Types, Phases
<1>4. \E e \in Numbered : \E masked, vector : Both(e, masked, vector) \/ Half(e)
  BY <1>1, <1>3, Entries DEF IInv, Phases
<1>5. regsel' \in Byte
  BY <1>1, <1>2, <1>4
<1>6. RoutedEntry' = RoutedEntry
  BY <1>1, Zenon DEF RoutedEntry
<1>7. Types'
  BY <1>1, <1>5 DEF IInv, Types
<1>8. Phases'
  BY <1>1, <1>3, <1>6 DEF IInv, Phases, Both, Half
<1>9. Masking' /\ Routing'
  BY <1>1, <1>6 DEF IInv, Masking, Routing, Both, Half
<1>10. Seen'
  BY <1>1, <1>6 DEF IInv, Seen
<1> QED
  BY <1>7, <1>8, <1>9, <1>10 DEF IInv

LEMMA WriteStep ==
  ASSUME IInv, WriteWindow
  PROVE  IInv'
<1> USE DEF IInv
<1>1. /\ stores # <<>> /\ selected' = FALSE
      /\ UNCHANGED <<machine, regsel, pc, count, pin, delivered>>
  BY DEF WriteWindow
<1>2. pc \in {"mask", "route"}
  BY <1>1 DEF Types, Phases
<1>3. /\ RoutedEntry' = RoutedEntry /\ RoutedEntry \in Numbered
      /\ pc = "mask" => pin - 1 \in Numbered
  BY <1>1, Entries DEF RoutedEntry
<1>4. Types' /\ redir' \in [Pin -> Row]
  <2>1. redir' \in [Pin -> Row]
    <3>1. ASSUME NEW e \in Numbered, Half(e)
          PROVE  redir' \in [Pin -> Row]
      BY <3>1, HighWritten
    <3>2. ASSUME NEW e \in Numbered, Both(e, TRUE, 0)
          PROVE  redir' \in [Pin -> Row]
      <4>1. 0 \in 0 .. 255 /\ TRUE \in BOOLEAN
        OBVIOUS
      <4> QED
        BY <3>2, <4>1, LowWritten
    <3>3. ASSUME NEW e \in Numbered, Both(e, FALSE, TimerVector)
          PROVE  redir' \in [Pin -> Row]
      <4>1. TimerVector \in 0 .. 255
        BY DEF TimerVector
      <4> QED
        BY <3>3, <4>1, LowWritten
    <3> QED
      BY <1>1, <1>2, <1>3, <3>1, <3>2, <3>3 DEF Phases
  <2> QED
    BY <1>1, <2>1 DEF Types, Row
<1>5. Seen'
  BY <1>1, <1>3 DEF Seen
<1>6. CASE pc = "mask" /\ Both(pin - 1, TRUE, 0)
  <2>1. PICK e \in Numbered : e = pin - 1
    BY <1>3, <1>6
  <2>2. /\ stores' = <<HighAt(e)>>
        /\ \A n \in Pin : n # e => redir'[n] = redir[n]
        /\ e \in Pin => redir'[e].masked = TRUE /\ redir'[e].vector = 0
    <3>1. 0 \in 0 .. 255 /\ TRUE \in BOOLEAN
      OBVIOUS
    <3>2. Both(e, TRUE, 0)
      BY <1>6, <2>1
    <3> QED
      BY <3>1, <3>2, LowWritten
  <2>3. stores' # <<>>
    BY <2>2, StoresDiffer
  <2>4. e = pin' - 1
    BY <1>1, <2>1
  <2>5. Half(pin - 1)'
    BY <2>2, <2>4 DEF Half
  <2>6. Phases'
    BY <1>1, <1>6, <2>5 DEF Phases
  <2>7. Masking'
    <3> SUFFICES ASSUME NEW n \in Pin, n < pin
                 PROVE  /\ n < pin - 1 => redir'[n] = MaskedRow
                        /\ n = pin - 1 => redir'[n].masked = TRUE /\ redir'[n].vector = 0
      BY <1>1, <2>3 DEF Masking
    <3>1. n < pin - 1 => n # e /\ redir[n] = MaskedRow
      BY <1>6, <2>1 DEF Masking, Pin
    <3> QED
      BY <2>1, <2>2, <3>1
  <2>8. Routing'
    BY <1>1, <1>6 DEF Routing
  <2> QED
    BY <1>4, <1>5, <2>6, <2>7, <2>8
<1>7. CASE pc = "mask" /\ Half(pin - 1)
  <2>1. PICK e \in Numbered : e = pin - 1
    BY <1>3, <1>7
  <2>2. /\ stores' = <<>>
        /\ \A n \in Pin : n # e => redir'[n] = redir[n]
        /\ e \in Pin => /\ redir'[e].masked = redir[e].masked
                        /\ redir'[e].vector = redir[e].vector
                        /\ redir'[e].dest = Destination
    BY <1>7, <2>1, HighWritten
  <2>3. Phases'
    BY <1>1, <1>7, <2>2 DEF Phases
  <2>4. ASSUME NEW n \in Pin, n < pin
        PROVE  redir'[n] = MaskedRow
    <3>1. CASE n < pin - 1
      <4>1. n # e /\ redir[n] = MaskedRow
        BY <1>7, <2>1, <2>4, <3>1 DEF Masking, Pin
      <4> QED
        BY <2>2, <4>1
    <3>2. CASE n = pin - 1
      <4>1. redir[n].masked = TRUE /\ redir[n].vector = 0
        BY <1>7, <2>4, <3>2 DEF Masking
      <4>2. /\ redir'[n].masked = TRUE /\ redir'[n].vector = 0 /\ redir'[n].dest = Destination
            /\ redir'[n] \in Row
        BY <1>4, <2>1, <2>2, <3>2, <4>1
      <4> QED
        BY <4>2, RowIs
    <3>3. n \in Nat /\ pin \in Nat
      BY DEF Types, Pin
    <3> QED
      BY <2>4, <3>1, <3>2, <3>3
  <2>5. \A n : stores' # <<HighAt(n)>>
    BY <2>2, StoresDiffer
  <2>6. Masking'
    BY <1>1, <2>4, <2>5 DEF Masking, Half
  <2>7. Routing'
    BY <1>1, <1>7 DEF Routing
  <2> QED
    BY <1>4, <1>5, <2>3, <2>6, <2>7
<1>8. CASE pc = "route" /\ Both(RoutedEntry, FALSE, TimerVector)
  <2>1. PICK e \in Numbered : e = RoutedEntry
    BY <1>3
  <2>2. /\ stores' = <<HighAt(RoutedEntry)>>
        /\ \A n \in Pin : n # RoutedEntry => redir'[n] = redir[n]
        /\ RoutedEntry \in Pin =>
             /\ redir'[RoutedEntry].masked = FALSE /\ redir'[RoutedEntry].vector = TimerVector
             /\ redir'[RoutedEntry].dest = redir[RoutedEntry].dest
    <3>1. TimerVector \in 0 .. 255
      BY DEF TimerVector
    <3>2. /\ stores' = <<HighAt(e)>>
          /\ \A n \in Pin : n # e => redir'[n] = redir[n]
          /\ e \in Pin => /\ redir'[e].masked = FALSE
                          /\ redir'[e].vector = TimerVector
                          /\ redir'[e].dest = redir[e].dest
      BY <1>3, <1>8, <2>1, <3>1, LowWritten
    <3> QED
      BY <2>1, <3>2
  <2>3. stores' # <<>> /\ stores' # Pair(RoutedEntry, FALSE, TimerVector)
    BY <2>2, StoresDiffer
  <2>4. Phases'
    BY <1>1, <1>3, <1>8, <2>2 DEF Phases, Half
  <2>5. RoutedEntry \in Pin /\ RoutedEntry < count =>
          redir[RoutedEntry].dest = Destination
    BY <1>8 DEF Routing, MaskedRow
  <2>6. Routing'
    BY <1>1, <1>3, <1>8, <2>2, <2>3, <2>5 DEF Routing, Both
  <2>7. Masking'
    BY <1>1, <1>8 DEF Masking
  <2> QED
    BY <1>4, <1>5, <2>4, <2>6, <2>7
<1>9. CASE pc = "route" /\ Half(RoutedEntry)
  <2>1. /\ stores' = <<>>
        /\ \A n \in Pin : n # RoutedEntry => redir'[n] = redir[n]
        /\ RoutedEntry \in Pin =>
             /\ redir'[RoutedEntry].masked = redir[RoutedEntry].masked
             /\ redir'[RoutedEntry].vector = redir[RoutedEntry].vector
             /\ redir'[RoutedEntry].dest = Destination
    <3>1. PICK e \in Numbered : e = RoutedEntry
      BY <1>3
    <3>2. /\ stores' = <<>>
          /\ \A n \in Pin : n # e => redir'[n] = redir[n]
          /\ e \in Pin => /\ redir'[e].masked = redir[e].masked
                          /\ redir'[e].vector = redir[e].vector
                          /\ redir'[e].dest = Destination
      BY <1>9, <3>1, HighWritten
    <3> QED
      BY <1>3, <3>1, <3>2
  <2>2. RoutedEntry \in Pin => redir'[RoutedEntry] = TimerRow(Destination)
    BY <1>3, <1>4, <1>9, <2>1, RowIs DEF Routing
  <2>3. stores' # <<HighAt(RoutedEntry)>>
        /\ stores' # Pair(RoutedEntry, FALSE, TimerVector)
    BY <2>1, StoresDiffer
  <2>4. Phases'
    BY <1>1, <1>9, <2>1 DEF Phases
  <2>5. Routing'
    BY <1>1, <1>3, <1>9, <2>1, <2>2, <2>3 DEF Routing, Both, Half
  <2>6. Masking'
    BY <1>1, <1>9 DEF Masking
  <2> QED
    BY <1>4, <1>5, <2>4, <2>5, <2>6
<1> QED
  BY <1>1, <1>2, <1>6, <1>7, <1>8, <1>9 DEF Phases

(* What a pin that ioapic_init got to sends is the timer's. *)
LEMMA RaiseStep ==
  ASSUME IInv, NEW n \in Pin, Raise(n)
  PROVE  IInv'
<1> DEFINE d == [from |-> n, vector |-> redir[n].vector, dest |-> redir[n].dest,
                 during |-> pc]
<1>1. /\ redir[n].masked = FALSE
      /\ UNCHANGED <<machine, regsel, redir, pc, count, pin, stores, selected>>
  BY DEF Raise, IInv, Types
<1>2. RoutedEntry' = RoutedEntry
  BY <1>1, Zenon DEF RoutedEntry
<1>3. d \in Interrupt
  BY DEF IInv, Types, Interrupt
<1>4. ASSUME pc \in {"masked", "route", "done"}, n < count
      PROVE  n = RoutedEntry /\ redir[n].vector = TimerVector /\ redir[n].dest = Destination
  <2>1. redir[n] # MaskedRow
    BY <1>1 DEF MaskedRow
  <2>2. n = RoutedEntry
    BY <1>4, <2>1 DEF IInv, Routing
  <2>3. pc # "masked" /\ (stores = <<>> \/ Half(RoutedEntry))
    BY <1>4, <2>1, <2>2 DEF IInv, Routing, Phases
  <2>4. CASE stores = <<>>
    <3>1. redir[RoutedEntry] = TimerRow(Destination)
      BY <1>4, <2>2, <2>3, <2>4 DEF IInv, Routing
    <3> QED
      BY <2>2, <3>1 DEF TimerRow
  <2>5. CASE Half(RoutedEntry)
    BY <1>4, <2>2, <2>3, <2>5 DEF IInv, Routing
  <2> QED
    BY <2>3, <2>4, <2>5
<1>5. Seen'
  <2>1. delivered' = delivered \union {d}
    BY DEF Raise
  <2> QED
    BY <1>1, <1>2, <1>3, <1>4, <2>1 DEF IInv, Seen
<1>6. Types' /\ Phases'
  BY <1>1, <1>2 DEF IInv, Types, Phases, Both, Half
<1>7. Masking' /\ Routing'
  BY <1>1, <1>2 DEF IInv, Masking, Routing, Both, Half
<1> QED
  BY <1>5, <1>6, <1>7 DEF IInv

LEMMA IInvInit == Init => IInv
<1> SUFFICES ASSUME Init
             PROVE  IInv
  OBVIOUS
<1>1. /\ machine \in Machines /\ regsel \in Registers /\ pc = "count"
      /\ count = 0 /\ pin = 0 /\ stores = <<>> /\ selected = FALSE /\ delivered = {}
      /\ redir \in [Pin -> FirmwareRows]
  BY DEF Init
<1>2. Pins \in 1 .. 120 /\ redir \in [Pin -> Row]
  BY <1>1, PinsAssumption DEF Row
<1>3. regsel \in Byte
  BY <1>1, <1>2 DEF Registers, EntryRegisters, IOREDTBL, VERSION, Byte
<1>4. Types
  <2>1. selected \in BOOLEAN
    BY <1>1, Zenon
  <2>2. count \in 0 .. Pins + 1 /\ pin \in 0 .. count
    BY <1>1, <1>2
  <2>3. pc \in {"count", "mask", "masked", "route", "done"}
    BY <1>1
  <2> QED
    BY <1>1, <1>2, <1>3, <2>1, <2>2, <2>3, Zenon DEF Types, Row
<1>5. Phases
  BY <1>1 DEF Phases
<1> QED
  BY <1>1, <1>4, <1>5 DEF IInv, Masking, Routing, Seen

LEMMA Inductive == Spec => []IInv
<1>1. IInv /\ UNCHANGED vars => IInv'
  <2> SUFFICES ASSUME IInv, UNCHANGED vars
               PROVE  IInv'
    OBVIOUS
  <2>1. UNCHANGED <<machine, regsel, redir, pc, count, pin, stores, selected, delivered>>
    BY DEF vars
  <2>2. RoutedEntry' = RoutedEntry
    BY <2>1 DEF RoutedEntry
  <2>3. Types' /\ Phases'
    BY <2>1, <2>2 DEF IInv, Types, Phases, Both, Half
  <2>4. Masking' /\ Routing'
    BY <2>1, <2>2 DEF IInv, Masking, Routing, Both, Half
  <2>5. Seen'
    BY <2>1, <2>2 DEF IInv, Seen
  <2> QED
    BY <2>3, <2>4, <2>5 DEF IInv
<1>2. IInv /\ [Next]_vars => IInv'
  BY <1>1, ReadCountStep, MaskNextStep, InitDoneStep, SetupStep, SetupDoneStep, SelectStep,
     WriteStep, RaiseStep DEF Next
<1> QED
  BY <1>2, IInvInit, PTL DEF Spec

-----------------------------------------------------------------------------
(* The kernel's variables keep their types on chips of every size, and no  *)
(* more than the two halves of an entry are ever left to write.            *)
THEOREM TypeCorrect == Spec => []TypeOK
<1>1. IInv => TypeOK
  <2> SUFFICES ASSUME IInv
               PROVE  TypeOK
    OBVIOUS
  <2>1. Len(stores) <= 2
    <3>1. stores = <<>> => Len(stores) = 0
      OBVIOUS
    <3>2. \/ stores = <<>>
          \/ Both(pin - 1, TRUE, 0) \/ Half(pin - 1)
          \/ Both(RoutedEntry, FALSE, TimerVector) \/ Half(RoutedEntry)
      BY DEF IInv, Types, Phases
    <3>3. Len(stores) = 0 \/ Len(stores) = 1 \/ Len(stores) = 2
      BY <3>1, <3>2, StoresAre
    <3>4. \A n : n = 0 \/ n = 1 \/ n = 2 => n <= 2
      OBVIOUS
    <3> QED
      BY <3>3, <3>4, Zenon
  <2>2. delivered \subseteq Interrupt
    BY DEF IInv, Seen
  <2> QED
    BY <2>1, <2>2 DEF IInv, Types, TypeOK
<1> QED
  BY <1>1, Inductive, PTL

(* Where the timer reaches the boot processor, its pin is the one that the *)
(* kernel opens.                                                           *)
LEMMA TimersEntry ==
  ASSUME machine \in Machines, Register(acpi_remap_irq(machine, 0))
                                 = IOREDTBL + 2 * TimerPin(machine), TimerPin(machine) \in Int
  PROVE  RoutedEntry = TimerPin(machine)
<1>1. PICK n \in Int : n = TimerPin(machine)
  OBVIOUS
<1>2. RoutedEntry \in Numbered /\ IOREDTBL + 2 * n = IOREDTBL + 2 * RoutedEntry
  BY <1>1, RoutedIs
<1> QED
  BY <1>1, <1>2 DEF Numbered, IOREDTBL

(* When setup_general_interrupts returns, the entry that it opened is on   *)
(* the timer's vector, and every other one that ioapic_init got to is      *)
(* masked, on every machine and every chip.  It is the timer's if the      *)
(* table has an override for it, and it is the timer's and leads to the    *)
(* boot processor where TimerReaches says so and nowhere else.             *)
THEOREM TimerRouted == Spec => []TimerIsRouted
<1>1. IInv => TimerIsRouted
  <2> SUFFICES ASSUME IInv, pc = "done"
               PROVE  TimerIsRouted
    BY DEF TimerIsRouted
  <2> DEFINE T == TimerPin(machine)
  <2>1. RoutedEntry \in Pin => redir[RoutedEntry] = TimerRow(Destination)
    BY DEF IInv, Phases, Routing
  <2>2. ASSUME NEW n \in Pin, n # RoutedEntry, n < count
        PROVE  redir[n] = MaskedRow
    BY <2>2 DEF IInv, Routing
  <2>3. MaskedRow.masked /\ \A d : MaskedRow # TimerRow(d)
    BY DEF MaskedRow, TimerRow
  <2>4. machine \in Machines /\ \A n \in Pin : n \in Int
    BY DEF IInv, Types, Pin
  <2>5. ASSUME T \in Pin, TimerReaches(machine)
        PROVE  redir[T] = TimerRow(machine.bsp)
    <3>1. RoutedEntry = T
      BY <2>4, <2>5, TimersEntry DEF TimerReaches
    <3> QED
      BY <2>1, <2>5, <3>1 DEF TimerReaches
  <2>6. ASSUME T \in Pin, T < count, TimerChip(machine), ~TimerReaches(machine)
        PROVE  redir[T] # TimerRow(machine.bsp)
    <3>1. CASE T # RoutedEntry
      BY <2>2, <2>3, <2>6, <3>1
    <3>2. CASE T = RoutedEntry
      <4>1. Register(acpi_remap_irq(machine, 0)) = IOREDTBL + 2 * T
        BY <2>4, <3>2, RoutedIs
      <4>2. machine.bsp # Destination
        BY <2>6, <4>1 DEF TimerReaches
      <4> QED
        BY <2>1, <2>6, <3>2, <4>2 DEF TimerRow
    <3> QED
      BY <3>1, <3>2
  <2>8. ASSUME OwnOverrides(machine, 0) # {}, T \in Pin
        PROVE  redir[T] = TimerRow(Destination)
    <3>1. acpi_remap_irq(machine, 0) = T
      BY <2>4, <2>8, OwnOverrideWins
    <3>2. Register(T) = IOREDTBL + 2 * T /\ T \in Int
      BY <2>8, PinsAssumption DEF Register, U8, IOREDTBL, Pin
    <3>3. RoutedEntry = T
      BY <2>4, <3>1, <3>2, TimersEntry
    <3> QED
      BY <2>1, <2>8, <3>3
  <2> HIDE DEF T
  <2>7. \A n \in Pin : /\ n = RoutedEntry => redir[n] = TimerRow(Destination)
                       /\ n # RoutedEntry /\ n < count => redir[n].masked
    BY <2>1, <2>2, <2>3
  <2> QED
    BY <2>5, <2>6, <2>7, <2>8 DEF TimerIsRouted, T
<1> QED
  BY <1>1, Inductive, PTL

(* Once ioapic_init is done, the pins it got to bring the processors the   *)
(* timer's vector and nothing else, also between the two stores that open  *)
(* the entry, and from the timer if that reaches the boot processor.       *)
THEOREM NoStrays == Spec => []NoStrayInterrupts
<1>1. IInv => NoStrayInterrupts
  <2> SUFFICES ASSUME IInv, NEW d \in delivered, d.from < count,
                      d.during \in {"masked", "route", "done"}
               PROVE  /\ d.from = RoutedEntry /\ d.vector = TimerVector
                      /\ d.dest = Destination
                      /\ TimerReaches(machine) =>
                           d.from = TimerPin(machine) /\ d.dest = machine.bsp
    BY DEF NoStrayInterrupts
  <2>1. d.from = RoutedEntry /\ d.vector = TimerVector /\ d.dest = Destination
    BY DEF IInv, Seen
  <2>2. machine \in Machines
    BY DEF IInv, Types
  <2>3. ASSUME TimerReaches(machine)
        PROVE  d.from = TimerPin(machine) /\ d.dest = machine.bsp
    <3>1. TimerPin(machine) \in Int
      BY <2>2, TimerPinIsNat
    <3> QED
      BY <2>1, <2>2, <2>3, <3>1, TimersEntry DEF TimerReaches
  <2> QED
    BY <2>1, <2>3
<1> QED
  BY <1>1, Inductive, PTL
=============================================================================
