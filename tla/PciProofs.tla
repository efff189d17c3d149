----------------------------- MODULE PciProofs ------------------------------
(***************************************************************************)
(* Proofs about the PCI search, for every set of functions on the machine  *)
(* and every request.                                                      *)
(***************************************************************************)
EXTENDS Pci, TLAPS

(* The provers take bounds better as inequalities than as intervals. *)
LEMMA Fields ==
  ASSUME NEW b \in Nat, NEW s \in Nat, s <= 31, NEW f \in Nat, f <= 7,
         NEW r \in Nat, r <= 255
  PROVE  /\ s * 2048 + f * 256 + r \in Nat
         /\ s * 2048 + f * 256 + r < 65536
         /\ b * 65536 + s * 2048 + f * 256 + r = b * 65536 + (s * 2048 + f * 256 + r)
         /\ b * 65536 + s * 2048 + f * 256 + r = (b * 32 + s) * 2048 + (f * 256 + r)
         /\ b * 65536 + s * 2048 + f * 256 + r = ((b * 32 + s) * 8 + f) * 256 + r
         /\ b * 32 + s \in Nat /\ (b * 32 + s) * 8 + f \in Nat
         /\ f * 256 + r \in Nat /\ f * 256 + r < 2048
OBVIOUS

LEMMA Shifts ==
  ASSUME NEW q \in Nat, NEW r \in Nat
  PROVE  /\ r < 65536 => (q * 65536 + r) \div 65536 = q
         /\ r < 2048 => (q * 2048 + r) \div 2048 = q
         /\ r < 256 => (q * 256 + r) \div 256 = q /\ (q * 256 + r) % 256 = r
         /\ r < 32 => (q * 32 + r) % 32 = r
         /\ r < 8 => (q * 8 + r) % 8 = r
OBVIOUS

(* The chip takes an address apart into what Address put together. *)
LEMMA Unpacked ==
  ASSUME NEW b \in Nat, NEW s \in Nat, s <= 31, NEW f \in Nat, f <= 7,
         NEW r \in Nat, r <= 255,
         NEW a, a = b * 65536 + s * 2048 + f * 256 + r
  PROVE  /\ a \div 65536 = b
         /\ (a \div 2048) % 32 = s
         /\ (a \div 256) % 8 = f
         /\ a % 256 = r
<1> DEFINE low == s * 2048 + f * 256 + r
           mid == f * 256 + r
           b5 == b * 32 + s
           b8 == b5 * 8 + f
<1>1. /\ low \in Nat /\ low < 65536 /\ mid \in Nat /\ mid < 2048
      /\ b5 \in Nat /\ b8 \in Nat
      /\ a = b * 65536 + low /\ a = b5 * 2048 + mid /\ a = b8 * 256 + r
  BY Fields
<1>2. s < 32 /\ f < 8 /\ r < 256
  OBVIOUS
<1>3. b5 % 32 = s /\ b8 % 8 = f
  BY <1>1, <1>2, Shifts
<1> HIDE DEF low, mid, b5, b8
<1>4. a \div 65536 = b
  BY <1>1, Shifts
<1>5. a \div 2048 = b5
  BY <1>1, Shifts
<1>6. a \div 256 = b8 /\ a % 256 = r
  BY <1>1, <1>2, Shifts
<1> QED
  BY <1>3, <1>4, <1>5, <1>6

LEMMA Registers ==
  /\ 0 - (0 % 4) = 0 /\ 2 - (2 % 4) = 0 /\ 10 - (10 % 4) = 8
  /\ 36 - (36 % 4) = 36 /\ 38 - (38 % 4) = 36
  /\ ~HighWord(0) /\ HighWord(2) /\ HighWord(10) /\ ~HighWord(36) /\ HighWord(38)
BY DEF HighWord

(* What each read returns, of a function that is there or not. *)
LEMMA Reads ==
  ASSUME functions \in Machines,
         NEW b \in Nat, NEW s \in Nat, s <= 31, NEW f \in Nat, f <= 7
  PROVE  LET l == <<b, s, f>>
         IN  /\ l \in DOMAIN functions =>
                  /\ pci_get_device_vendorid(b, s, f) = functions[l].vendor
                  /\ pci_get_device_id(b, s, f) = functions[l].device
                  /\ pci_get_device_class(b, s, f) = functions[l].class
                  /\ pci_get_device_subclass(b, s, f) = functions[l].subclass
                  /\ pci_get_device_bar5(b, s, f)[1] = functions[l].bar5[1]
             /\ l \notin DOMAIN functions => pci_get_device_class(b, s, f) = 255
<1> DEFINE l == <<b, s, f>>
<1>1. ASSUME NEW x \in {0, 2, 10, 36, 38}
      PROVE  /\ Address(b, s, f, x) \div 65536 = b
             /\ (Address(b, s, f, x) \div 2048) % 32 = s
             /\ (Address(b, s, f, x) \div 256) % 8 = f
             /\ Address(b, s, f, x) % 256 = x - (x % 4)
  <2>1. x - (x % 4) \in Nat /\ x - (x % 4) <= 255
    BY <1>1
  <2>2. PICK a : a = Address(b, s, f, x)
    OBVIOUS
  <2>3. PICK r : r = x - (x % 4)
    OBVIOUS
  <2>4. r \in Nat /\ r <= 255
    BY <2>1, <2>3
  <2>5. a = b * 65536 + s * 2048 + f * 256 + r
    BY <2>2, <2>3 DEF Address
  <2>6. a \div 65536 = b /\ (a \div 2048) % 32 = s /\ (a \div 256) % 8 = f /\ a % 256 = r
    BY <2>4, <2>5, Unpacked
  <2>7. /\ Address(b, s, f, x) \div 65536 = b
        /\ (Address(b, s, f, x) \div 2048) % 32 = s
        /\ (Address(b, s, f, x) \div 256) % 8 = f
    BY <2>2, <2>6
  <2>8. Address(b, s, f, x) % 256 = r
    BY <2>2, <2>6
  <2> QED
    BY <2>3, <2>7, <2>8
<1>2. ASSUME l \in DOMAIN functions
      PROVE  /\ ConfigLong(Address(b, s, f, 0)) = <<functions[l].vendor, functions[l].device>>
             /\ ConfigLong(Address(b, s, f, 2)) = <<functions[l].vendor, functions[l].device>>
             /\ ConfigLong(Address(b, s, f, 10)) =
                  <<0, functions[l].class * 256 + functions[l].subclass>>
             /\ ConfigLong(Address(b, s, f, 36)) = functions[l].bar5
  BY <1>1, <1>2, Registers DEF ConfigLong
<1>3. l \notin DOMAIN functions => ConfigLong(Address(b, s, f, 10)) = <<65535, 65535>>
  BY <1>1 DEF ConfigLong
<1>4. l \notin DOMAIN functions => pci_get_device_class(b, s, f) = 255
  BY <1>3, Registers DEF pci_get_device_class, pci_read_word
<1>5. ASSUME l \in DOMAIN functions
      PROVE  functions[l].class \in 0 .. 254 /\ functions[l].subclass \in 0 .. 255
  BY <1>5, PciAssumption DEF Identity
<1>6. ASSUME NEW c \in 0 .. 254, NEW d \in 0 .. 255
      PROVE  (c * 256 + d) \div 256 = c /\ (c * 256 + d) % 256 = d
  <2>1. c \in Nat /\ d \in Nat /\ d < 256
    OBVIOUS
  <2> QED
    BY <2>1, Shifts
<1>7. ASSUME l \in DOMAIN functions
      PROVE  /\ pci_get_device_class(b, s, f) = functions[l].class
             /\ pci_get_device_subclass(b, s, f) = functions[l].subclass
  <2>1. pci_read_word(b, s, f, 10) = functions[l].class * 256 + functions[l].subclass
    BY <1>2, <1>7, Registers DEF pci_read_word
  <2>2. PICK c \in 0 .. 254, d \in 0 .. 255 :
          c = functions[l].class /\ d = functions[l].subclass
    BY <1>5, <1>7
  <2>3. pci_read_word(b, s, f, 10) = c * 256 + d
    BY <2>1, <2>2
  <2>4. (c * 256 + d) \div 256 = c /\ (c * 256 + d) % 256 = d
    BY <1>6
  <2>5. /\ pci_get_device_class(b, s, f) = c
        /\ pci_get_device_subclass(b, s, f) = d
    BY <2>3, <2>4 DEF pci_get_device_class, pci_get_device_subclass
  <2> QED
    BY <2>2, <2>5
<1>8. ASSUME l \in DOMAIN functions
      PROVE  /\ pci_get_device_vendorid(b, s, f) = functions[l].vendor
             /\ pci_get_device_id(b, s, f) = functions[l].device
             /\ pci_get_device_bar5(b, s, f)[1] = functions[l].bar5[1]
  BY <1>2, <1>8, Registers
     DEF pci_get_device_vendorid, pci_get_device_id, pci_get_device_bar5, pci_read_word
<1> QED
  BY <1>4, <1>7, <1>8

-----------------------------------------------------------------------------
Here == <<bus, slot, func>>

Types ==
  /\ functions \in Machines
  /\ request \in Requests
  /\ bus \in Nat /\ bus <= 256
  /\ slot \in Nat /\ slot <= 31
  /\ func \in Nat /\ func <= 7
  /\ returned \in BOOLEAN

(* Nothing before the present place is of the class asked for. *)
Passed ==
  request[1] # 255 => \A l \in DOMAIN functions : Before(l, Here) => ~Asked(l)

(* What is returned is at the present place, or everything was passed.     *)
Answered ==
  /\ returned => \/ dev = NoDevice /\ bus = 256
                 \/ dev = Device(bus, slot, func) /\ bus < 256 /\ Matches
  /\ ~returned => dev = NoDevice

(* The inductive invariant. *)
IInv == Types /\ Passed /\ Answered

LEMMA Devices == \A b, s, f : Device(b, s, f) # NoDevice
BY DEF Device, NoDevice

(* Matches answers for the function at the present place. *)
LEMMA Matching ==
  ASSUME Types, bus < 256, request[1] # 255
  PROVE  /\ Matches => Here \in DOMAIN functions /\ Asked(Here)
         /\ Here \in DOMAIN functions /\ Asked(Here) => Matches
<1>1. bus \in Nat /\ slot \in Nat /\ slot <= 31 /\ func \in Nat /\ func <= 7
  BY DEF Types
<1>2. CASE Here \in DOMAIN functions
  <2>1. /\ pci_get_device_class(bus, slot, func) = functions[Here].class
        /\ pci_get_device_subclass(bus, slot, func) = functions[Here].subclass
    BY <1>1, <1>2, Reads DEF Types, Here
  <2>2. request = <<request[1], request[2]>>
    BY PciAssumption DEF Types
  <2> QED
    BY <1>2, <2>1, <2>2 DEF Matches, Asked
<1>3. CASE Here \notin DOMAIN functions
  <2>1. pci_get_device_class(bus, slot, func) = 255
    BY <1>1, <1>3, Reads DEF Types, Here
  <2> QED
    BY <1>3, <2>1 DEF Matches
<1> QED
  BY <1>2, <1>3

LEMMA MatchesKept ==
  ASSUME UNCHANGED <<functions, request, bus, slot, func>>
  PROVE  Matches' <=> Matches
<1>1. \A a : ConfigLong(a)' = ConfigLong(a)
  BY DEF ConfigLong
<1> QED
  BY <1>1 DEF Matches, pci_get_device_class, pci_get_device_subclass, pci_read_word

LEMMA IInvInit == Init => IInv
<1> SUFFICES ASSUME Init
             PROVE  IInv
  OBVIOUS
<1>1. Types
  <2>1. functions \in Machines /\ request \in Requests /\ bus = 0 /\ slot = 0 /\ func = 0
    BY DEF Init
  <2>2. returned \in BOOLEAN
    BY Zenon DEF Init
  <2> QED
    BY <2>1, <2>2 DEF Types
<1>2. ASSUME NEW l \in DOMAIN functions
      PROVE  ~Before(l, Here)
  <2>1. l \in Location
    BY <1>1, PciAssumption DEF Types
  <2>2. l[1] \in 0 .. 255 /\ l[2] \in 0 .. 31 /\ l[3] \in 0 .. 7
    BY <2>1 DEF Location
  <2>3. Here[1] = 0 /\ Here[2] = 0 /\ Here[3] = 0
    BY DEF Init, Here
  <2> QED
    BY <2>2, <2>3 DEF Before
<1>3. Answered
  BY DEF Init, Answered
<1> QED
  BY <1>1, <1>2, <1>3 DEF IInv, Passed

LEMMA IInvStep ==
  ASSUME IInv, [Next]_vars
  PROVE  IInv'
<1> USE DEF IInv
<1>1. CASE Found
  <2>1. UNCHANGED <<functions, request, bus, slot, func>> /\ returned' = TRUE
    BY <1>1 DEF Found
  <2>2. Types'
    BY <2>1 DEF Types
  <2>3. Passed'
    BY <2>1 DEF Passed, Here, Asked
  <2>4. bus < 256 /\ dev' = Device(bus, slot, func) /\ Matches
    BY <1>1 DEF Found, MoreBuses, Types
  <2>5. Matches'
    BY <2>1, <2>4, MatchesKept
  <2>6. Answered'
    BY <2>1, <2>4, <2>5 DEF Answered
  <2> QED
    BY <2>2, <2>3, <2>6
<1>2. CASE NextFunction
  <2>1. bus < 256 /\ ~Matches /\ UNCHANGED <<functions, request, dev, returned>>
    BY <1>2 DEF NextFunction, MoreBuses, Types
  <2>2. \/ func < 7 /\ func' = func + 1 /\ slot' = slot /\ bus' = bus
        \/ func = 7 /\ func' = 0 /\ slot < 31 /\ slot' = slot + 1 /\ bus' = bus
        \/ func = 7 /\ func' = 0 /\ slot = 31 /\ slot' = 0 /\ bus' = bus + 1
    BY <1>2 DEF NextFunction, NextBus, Types
  <2>3. Types'
    BY <2>1, <2>2 DEF Types
  <2>4. ASSUME request[1] # 255, NEW l \in DOMAIN functions, Before(l, Here')
        PROVE  ~Asked(l)
    <3>1. l \in Location
      BY PciAssumption DEF Types
    <3>2. /\ l = <<l[1], l[2], l[3]>>
          /\ l[1] \in Nat /\ l[2] \in Nat /\ l[2] <= 31 /\ l[3] \in Nat /\ l[3] <= 7
      BY <3>1 DEF Location
    <3>3. Before(l, Here) \/ l = Here
      BY <2>1, <2>2, <2>4, <3>2 DEF Before, Here, Types
    <3> QED
      BY <2>1, <2>4, <3>3, Matching DEF Passed
  <2>5. Passed'
    BY <2>1, <2>4 DEF Passed, Asked
  <2>6. Answered'
    BY <1>2, <2>1 DEF Answered, NextFunction
  <2> QED
    BY <2>3, <2>5, <2>6
<1>3. CASE NotFound
  <2>1. /\ UNCHANGED <<functions, request, bus, slot, func>>
        /\ returned' = TRUE /\ dev' = NoDevice /\ bus = 256
    BY <1>3 DEF NotFound, MoreBuses, Types
  <2>2. Types'
    BY <2>1 DEF Types
  <2>3. Passed'
    BY <2>1 DEF Passed, Here, Asked
  <2>4. Answered'
    BY <2>1 DEF Answered
  <2> QED
    BY <2>2, <2>3, <2>4
<1>4. CASE UNCHANGED vars
  <2>1. UNCHANGED <<functions, request, bus, slot, func, dev, returned>>
    BY <1>4 DEF vars
  <2>2. Matches' <=> Matches
    BY <2>1, MatchesKept
  <2>3. Types'
    BY <2>1 DEF Types
  <2>4. Passed'
    BY <2>1 DEF Passed, Here, Asked
  <2>5. Answered'
    BY <2>1, <2>2 DEF Answered
  <2> QED
    BY <2>3, <2>4, <2>5
<1> QED
  BY <1>1, <1>2, <1>3, <1>4 DEF Next

LEMMA Inductive == Spec => []IInv
BY IInvInit, IInvStep, PTL DEF Spec

-----------------------------------------------------------------------------
(* The search finds the first device of the class, or knows of none.       *)
THEOREM SearchFindsFirst == Spec => []FindsFirst
<1>1. ASSUME IInv
      PROVE  FindsFirst
  <2> SUFFICES ASSUME returned, request[1] # 255
               PROVE  IF dev = NoDevice THEN \A l \in DOMAIN functions : ~Asked(l)
                      ELSE LET at == <<dev.bus, dev.slot, dev.func>>
                           IN  /\ at \in DOMAIN functions /\ Asked(at)
                               /\ \A l \in DOMAIN functions : Before(l, at) => ~Asked(l)
    BY DEF FindsFirst
  <2>1. CASE dev = NoDevice /\ bus = 256
    <3>1. ASSUME NEW l \in DOMAIN functions
          PROVE  Before(l, Here)
      <4>1. l \in Location
        BY <1>1, PciAssumption DEF IInv, Types
      <4>2. l[1] \in 0 .. 255
        BY <4>1 DEF Location
      <4> QED
        BY <2>1, <4>2 DEF Before, Here
    <3> QED
      BY <1>1, <2>1, <3>1 DEF IInv, Passed
  <2>2. CASE dev = Device(bus, slot, func) /\ bus < 256 /\ Matches
    <3>1. dev # NoDevice /\ Here = <<dev.bus, dev.slot, dev.func>>
      BY <2>2, Devices DEF Device, Here
    <3>2. Here \in DOMAIN functions /\ Asked(Here)
      BY <1>1, <2>2, Matching DEF IInv
    <3> QED
      BY <1>1, <3>1, <3>2 DEF IInv, Passed
  <2> QED
    BY <1>1, <2>1, <2>2 DEF IInv, Answered
<1> QED
  BY <1>1, Inductive, PTL

(* The reads of a found device are reads of that device. *)
THEOREM ReadsAreRight == Spec => []ReadsAreTheDevices
<1>1. ASSUME IInv, NEW l \in DOMAIN functions
      PROVE  /\ pci_get_device_vendorid(l[1], l[2], l[3]) = functions[l].vendor
             /\ pci_get_device_id(l[1], l[2], l[3]) = functions[l].device
             /\ pci_get_device_bar5(l[1], l[2], l[3])[1] = functions[l].bar5[1]
  <2>1. l \in Location
    BY <1>1, PciAssumption DEF IInv, Types
  <2>2. /\ l = <<l[1], l[2], l[3]>>
        /\ l[1] \in Nat /\ l[2] \in Nat /\ l[2] <= 31 /\ l[3] \in Nat /\ l[3] <= 7
    BY <2>1 DEF Location
  <2> QED
    BY <1>1, <2>2, Reads DEF IInv, Types
<1>2. IInv => ReadsAreTheDevices
  BY <1>1 DEF ReadsAreTheDevices
<1> QED
  BY <1>2, Inductive, PTL
=============================================================================
