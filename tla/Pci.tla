-------------------------------- MODULE Pci ---------------------------------
(***************************************************************************)
(* Finding a PCI device: locate_pci_device (pci/pci.c) reads the class of  *)
(* every function of every slot of every bus, until it meets the one asked *)
(* for.  One step is one function.  A read is a store to CONFIG_ADDR and a *)
(* load from CONFIG_DATA, which nothing else in the kernel touches in      *)
(* between.                                                                *)
(***************************************************************************)
EXTENDS Integers, Sequences

CONSTANTS
  Machines,  \* the functions present: <<bus, slot, func>> to a record
  Requests   \* pairs <<classid, subclassid>>

Location == (0 .. 255) \X (0 .. 31) \X (0 .. 7)
Word == 0 .. 65535

(* BAR 5 is a pair of words, low first. *)
Identity == [vendor : Word, device : Word, class : 0 .. 254, subclass : 0 .. 255,
             bar5 : Word \X Word]

ASSUME PciAssumption ==
  /\ \A m \in Machines : \A l \in DOMAIN m : l \in Location /\ m[l] \in Identity
  /\ \A r \in Requests : r \in (0 .. 255) \X (0 .. 255)

VARIABLES
  functions,        \* the machine
  request,          \* classid and subclassid
  bus, slot, func,  \* the three loops
  dev,              \* the result
  returned

vars == <<functions, request, bus, slot, func, dev, returned>>

-----------------------------------------------------------------------------
Address_SlotOverlaps(b, s, f, offset) ==
  b * 65536 + s * 1024 + f * 256 + (offset - (offset % 4))

(* bus << 16 | slot << 11 | func << 8 | offset & 0xFC; the enable bit is   *)
(* the same in every address.                                              *)
Address(b, s, f, offset) ==
  b * 65536 + s * 2048 + f * 256 + (offset - (offset % 4))

(* The chip takes the address apart and answers with a register, here two  *)
(* words, low first.  Where no function is, all bits read as ones.         *)
ConfigLong(address) ==
  LET l == <<address \div 65536, (address \div 2048) % 32, (address \div 256) % 8>>
  IN  IF l \notin DOMAIN functions THEN <<65535, 65535>>
      ELSE CASE address % 256 = 0 -> <<functions[l].vendor, functions[l].device>>
             [] address % 256 = 8 -> <<0, functions[l].class * 256 + functions[l].subclass>>
             [] address % 256 = 36 -> functions[l].bar5

(* The shift by (offset & 2) * 8. *)
HighWord(offset) == offset % 4 >= 2

pci_read_word(b, s, f, offset) ==
  ConfigLong(Address(b, s, f, offset))[IF HighWord(offset) THEN 2 ELSE 1]

pci_get_device_vendorid(b, s, f) == pci_read_word(b, s, f, 0)
pci_get_device_id(b, s, f) == pci_read_word(b, s, f, 2)
pci_get_device_class(b, s, f) == pci_read_word(b, s, f, 10) \div 256
pci_get_device_subclass(b, s, f) == pci_read_word(b, s, f, 10) % 256

pci_get_device_bar5_Swapped(b, s, f) ==
  LET hi == pci_read_word(b, s, f, 36)
      lo == pci_read_word(b, s, f, 38)
  IN  <<lo, hi>>

(* A word shifted right by 16 is 0: the high half is lost. *)
pci_get_device_bar5(b, s, f) ==
  LET lo == pci_read_word(b, s, f, 36)
      hi == pci_read_word(b, s, f, 38) \div 65536
  IN  <<lo, hi>>

Device(b, s, f) == [valid |-> 1, bus |-> b, slot |-> s, func |-> f]
NoDevice == [valid |-> 0]

Matches ==
  /\ pci_get_device_class(bus, slot, func) = request[1]
  /\ pci_get_device_subclass(bus, slot, func) = request[2]

-----------------------------------------------------------------------------
MoreBuses == bus < 256

Found ==
  /\ ~returned
  /\ MoreBuses
  /\ Matches
  /\ dev' = Device(bus, slot, func)
  /\ returned' = TRUE
  /\ UNCHANGED <<functions, request, bus, slot, func>>

NextBus_Byte(b) == (b + 1) % 256

(* The index of the outer loop is wider than a bus number. *)
NextBus(b) == b + 1

NextFunction ==
  /\ ~returned
  /\ MoreBuses
  /\ ~Matches
  /\ func' = (func + 1) % 8
  /\ slot' = IF func < 7 THEN slot ELSE (slot + 1) % 32
  /\ bus' = IF func < 7 \/ slot < 31 THEN bus ELSE NextBus(bus)
  /\ UNCHANGED <<functions, request, dev, returned>>

NotFound ==
  /\ ~returned
  /\ ~MoreBuses
  /\ dev' = NoDevice
  /\ returned' = TRUE
  /\ UNCHANGED <<functions, request, bus, slot, func>>

Init ==
  /\ functions \in Machines
  /\ request \in Requests
  /\ bus = 0
  /\ slot = 0
  /\ func = 0
  /\ dev = NoDevice
  /\ returned = FALSE

Next == Found \/ NextFunction \/ NotFound

(* The caller keeps executing. *)
Spec == Init /\ [][Next]_vars /\ WF_vars(Next)

-----------------------------------------------------------------------------
Asked(l) == <<functions[l].class, functions[l].subclass>> = request

Before(l, m) ==
  \/ l[1] < m[1]
  \/ l[1] = m[1] /\ l[2] < m[2]
  \/ l[1] = m[1] /\ l[2] = m[2] /\ l[3] < m[3]

(* The device returned is the first of the asked class in the order of     *)
(* buses, slots and functions, and none is returned only when there is     *)
(* none.  The class of an absent function, 0xFF, is not a valid request.   *)
FindsFirst ==
  (returned /\ request[1] # 255) =>
    IF dev = NoDevice THEN \A l \in DOMAIN functions : ~Asked(l)
    ELSE LET at == <<dev.bus, dev.slot, dev.func>>
         IN  /\ at \in DOMAIN functions /\ Asked(at)
             /\ \A l \in DOMAIN functions : Before(l, at) => ~Asked(l)

(* What a driver then reads of the device it was given is that device's,   *)
(* the low half of BAR 5 included.                                         *)
ReadsAreTheDevices ==
  \A l \in DOMAIN functions :
    dev = Device(l[1], l[2], l[3]) =>
      /\ pci_get_device_vendorid(l[1], l[2], l[3]) = functions[l].vendor
      /\ pci_get_device_id(l[1], l[2], l[3]) = functions[l].device
      /\ pci_get_device_bar5(l[1], l[2], l[3])[1] = functions[l].bar5[1]

(* The search ends, on a machine without the device too. *)
LocateEnds == <>returned
=============================================================================
