-------------------------- MODULE KernelBootProofs --------------------------
(***************************************************************************)
(* Proofs about the boot, for every machine and every set of vectors that  *)
(* may fire: the boot contains the wake-up of module SmpBoot unchanged,    *)
(* and what ends in a handler stays there with a true report.              *)
(***************************************************************************)
EXTENDS KernelBoot, MadtProofs

-----------------------------------------------------------------------------
(* Every step of the boot is a step of the wake-up, or leaves it alone.    *)
LEMMA StepOfWakeup ==
  ASSUME [Next]_vars
  PROVE  [Smp!Next]_(Smp!vars)
<1>1. UNCHANGED smp => UNCHANGED Smp!vars
  BY DEF smp, Smp!vars, Smp!acpi, Smp!lapic, Smp!cores
<1>2. ASSUME NEW vector, Fault(vector)
      PROVE  UNCHANGED smp
  BY <1>2 DEF Fault
<1>3. ASSUME NEW n, panic(n)
      PROVE  UNCHANGED smp
  BY <1>3 DEF panic
<1>a. ProceedAlone \/ GoAstray => UNCHANGED smp
  BY DEF ProceedAlone, GoAstray
<1>4. CASE log_init
  BY <1>1, <1>2, <1>4, <1>a DEF log_init, Through
<1>5. CASE gdt_load
  BY <1>1, <1>5 DEF gdt_load
<1>6. CASE idt_install \/ pmm_init \/ vmm_init \/ pit_init \/ init_lapic \/ kheap_init
  BY <1>1, <1>2, <1>6, <1>a
     DEF idt_install, pmm_init, vmm_init, pit_init, init_lapic, kheap_init, SetUp
<1>7. CASE CheckRsdt \/ FindMadt
  BY <1>1, <1>2, <1>3, <1>7, <1>a DEF CheckRsdt, FindMadt, Through
<1>8. CASE parse_madt
  BY <1>1, <1>2, <1>8 DEF parse_madt, Through, Smp!Next, Smp!BootProcessor
<1>9. CASE UseIoApic
  BY <1>1, <1>2, <1>9, <1>a DEF UseIoApic, Through
<1>10. CASE cpu_detect_cores
  BY <1>10 DEF cpu_detect_cores, Smp!Next, Smp!BootProcessor
<1>11. CASE sti
  BY <1>1, <1>11 DEF sti
<1>12. CASE cpu_wakeup_cores
  BY <1>12 DEF cpu_wakeup_cores, Smp!Next, Smp!BootProcessor
<1>13. CASE Return
  BY <1>13 DEF Return, Smp!Next, Smp!BootProcessor
<1>14. CASE HandlerStep
  BY <1>1, <1>14 DEF HandlerStep
<1>15. CASE Deliver
  BY <1>15 DEF Deliver, Smp!Next
<1>16. CASE \E vector \in Upsets : Upset(vector)
  BY <1>1, <1>16 DEF Upset
<1>17. CASE UNCHANGED vars
  BY <1>1, <1>17 DEF vars
<1> QED
  BY <1>4, <1>5, <1>6, <1>7, <1>8, <1>9, <1>10, <1>11, <1>12, <1>13, <1>14, <1>15,
     <1>16, <1>17 DEF Next, Kernel

(* The boot implements the wake-up: SmpBoot's specification allows all of  *)
(* its behaviours, so that what is proved of the wake-up below is true of  *)
(* the boot.                                                               *)
THEOREM BootImplementsWakeup == Spec => Smp!Spec
<1>1. Init => Smp!Init
  BY DEF Init
<1>2. [Next]_vars => [Smp!Next]_(Smp!vars)
  BY StepOfWakeup
<1> QED
  BY <1>1, <1>2, PTL DEF Spec, Smp!Spec

-----------------------------------------------------------------------------
(* Module Madt is here twice, alone and inside SmpBoot.  Its definitions   *)
(* say the same.                                                           *)
LEMMA SameSize ==
  ASSUME NEW S
  PROVE  Smp!Cardinality(S) = Cardinality(S)
BY Zenon DEF Smp!Cardinality, Cardinality

LEMMA SameWalks ==
  ASSUME NEW m
  PROVE  /\ Smp!Memory(m) = Memory(m)
         /\ Smp!ParseEnd(m) = ParseEnd(m)
         /\ Smp!DetectEnd(m) = DetectEnd(m)
         /\ \A end, type : Smp!Found(m, end, type) = Found(m, end, type)
<1>1. Smp!Memory(m) = Memory(m) /\ Smp!Offsets(m) = Offsets(m)
  BY Zenon DEF Smp!Offsets, Offsets, Smp!Memory, Memory, Smp!SizeofMadt, SizeofMadt
<1>2. Smp!ParseEnd(m) = ParseEnd(m) /\ Smp!DetectEnd(m) = DetectEnd(m)
  BY <1>1 DEF Smp!ParseEnd, ParseEnd, Smp!DetectEnd, DetectEnd, Smp!Length, Length,
              Smp!SizeofMadt, SizeofMadt
<1>3. \A end, type : Smp!Found(m, end, type) = Found(m, end, type)
  BY <1>1 DEF Smp!Found, Found, Smp!Walk, Walk
<1> QED
  BY <1>1, <1>2, <1>3

LEMMA SameTable ==
  ASSUME NEW m
  PROVE  /\ Smp!CoreCount(m) = CoreCount(m)
         /\ Smp!StoredIds(m) = StoredIds(m)
<1> DEFINE Ids(found, memory) ==
             [n \in {l \in 0 .. (16 + 1) - 1 : l < Cardinality(found)} |->
                memory[(CHOOSE k \in found :
                          Cardinality({l \in found : l < k}) = n)].processor_id]
<1>1. Smp!StoredIds(m) = Ids(Smp!Found(m, Smp!ParseEnd(m), 0), Smp!Memory(m))
  BY Zenon DEF Cardinality, Smp!Cardinality, Smp!StoredIds, Smp!StoredId, Smp!MaxStored,
               Smp!MAX_NEEDED_CORES, Smp!APIC_TYPE_LOCAL_APIC
<1>2. StoredIds(m) = Ids(Found(m, ParseEnd(m), 0), Memory(m))
  BY Zenon DEF StoredIds, StoredId, MaxStored, MAX_NEEDED_CORES, APIC_TYPE_LOCAL_APIC
<1> HIDE DEF Ids
<1>3. Smp!StoredIds(m) = StoredIds(m)
  BY <1>1, <1>2, SameWalks
<1>4. Smp!CoreCount(m) = CoreCount(m)
  BY SameSize, SameWalks
     DEF Smp!CoreCount, CoreCount, Smp!U8, U8, Smp!APIC_TYPE_LOCAL_APIC,
         APIC_TYPE_LOCAL_APIC
<1> QED
  BY <1>3, <1>4

LEMMA CountIsByte ==
  ASSUME NEW m \in Machines
  PROVE  Smp!CoreCount(m) \in 0 .. 255
BY CountedAreFound, SameTable

LEMMA SameCores ==
  /\ Smp!Byte = Byte
  /\ \A m : Smp!ApicIds(m) = ApicIds(m) /\ Smp!OwnCores(m) = OwnCores(m)
BY DEF Smp!Byte, Byte, Smp!ApicIds, ApicIds, Smp!OwnCores, OwnCores, Smp!IsLocalApic,
       IsLocalApic, Smp!APIC_TYPE_LOCAL_APIC, APIC_TYPE_LOCAL_APIC

LEMMA SameIds ==
  ASSUME NEW m
  PROVE  Smp!IdsAreApicIds(m) <=> IdsAreApicIds(m)
BY SameCores, SameSize, SameWalks
   DEF Smp!IdsAreApicIds, IdsAreApicIds, Smp!MAX_NEEDED_CORES, MAX_NEEDED_CORES,
       Smp!APIC_TYPE_LOCAL_APIC, APIC_TYPE_LOCAL_APIC

-----------------------------------------------------------------------------
(* The phases of lapic_send_*: a command is on its way only while the      *)
(* boot processor polls for it, and only the loops' bodies send.           *)
CallDiscipline ==
  /\ call.at \in {"idle", "hi", "lo", "wait"}
  /\ pending \in BOOLEAN
  /\ pending => call.at = "wait"
  /\ call.at # "idle" => pc \in {"rest", "startup"}

LEMMA DisciplineInit == Smp!Init => CallDiscipline
<1> SUFFICES ASSUME Smp!Init
             PROVE  CallDiscipline
  OBVIOUS
<1>1. call.at = "idle"
  BY DEF Smp!Init, Smp!Idle
<1>2. pending = FALSE
  BY DEF Smp!Init
<1> QED
  BY <1>1, <1>2 DEF CallDiscipline

LEMMA DisciplineStep ==
  ASSUME CallDiscipline, [Smp!Next]_(Smp!vars)
  PROVE  CallDiscipline'
<1> USE DEF CallDiscipline
<1>1. CASE Smp!parse_madt
  BY <1>1 DEF Smp!parse_madt, Smp!lapic
<1>2. CASE Smp!cpu_detect_cores
  BY <1>2 DEF Smp!cpu_detect_cores, Smp!lapic
<1>3. CASE Smp!SendInit
  BY <1>3 DEF Smp!SendInit, Smp!lapic, Smp!lapic_send_init, Smp!Idle
<1>4. CASE Smp!pit_sleep
  BY <1>4 DEF Smp!pit_sleep, Smp!lapic, Smp!Idle
<1>5. CASE Smp!SendStartup
  BY <1>5 DEF Smp!SendStartup, Smp!lapic, Smp!lapic_send_startup, Smp!Idle
<1>6. CASE Smp!NextCore
  BY <1>6 DEF Smp!NextCore, Smp!lapic, Smp!Idle
<1>7. CASE Smp!Return
  BY <1>7 DEF Smp!Return, Smp!lapic
<1>8. CASE Smp!WriteIcrHi
  BY <1>8 DEF Smp!WriteIcrHi
<1>9. CASE Smp!WriteIcrLo
  BY <1>9 DEF Smp!WriteIcrLo
<1>10. CASE Smp!PollIcr
  BY <1>10 DEF Smp!PollIcr, Smp!lapic, Smp!Sent, Smp!Idle
<1>11. CASE Smp!Deliver
  BY <1>11 DEF Smp!Deliver
<1>12. CASE UNCHANGED Smp!vars
  BY <1>12 DEF Smp!vars, Smp!lapic
<1> QED
  BY <1>1, <1>2, <1>3, <1>4, <1>5, <1>6, <1>7, <1>8, <1>9, <1>10, <1>11, <1>12
     DEF Smp!Next, Smp!BootProcessor

(* What a command says never changes between the two stores and delivery.  *)
THEOREM WakeupCommands == Smp!Spec => Smp!CommandsDoNotMix
<1>1. ASSUME CallDiscipline, [Smp!Next]_(Smp!vars), icr' # icr
      PROVE  ~pending
  <2> USE <1>1 DEF CallDiscipline
  <2>1. CASE Smp!WriteIcrHi
    BY <2>1 DEF Smp!WriteIcrHi
  <2>2. CASE Smp!WriteIcrLo
    BY <2>2 DEF Smp!WriteIcrLo
  <2>3. CASE icr' = icr
    BY <2>3
  <2>4. (Smp!BootProcessor /\ ~Smp!WriteIcrHi /\ ~Smp!WriteIcrLo) => icr' = icr
    BY DEF Smp!BootProcessor, Smp!lapic, Smp!parse_madt, Smp!cpu_detect_cores,
           Smp!SendInit, Smp!pit_sleep,
           Smp!SendStartup, Smp!NextCore, Smp!Return, Smp!PollIcr
  <2>5. Smp!Deliver => icr' = icr
    BY DEF Smp!Deliver
  <2>6. UNCHANGED Smp!vars => icr' = icr
    BY DEF Smp!vars, Smp!lapic
  <2> QED
    BY <2>1, <2>2, <2>3, <2>4, <2>5, <2>6 DEF Smp!Next
<1>2. CallDiscipline /\ [Smp!Next]_(Smp!vars) => [icr' # icr => ~pending]_(Smp!vars)
  BY <1>1
<1> QED
  BY <1>2, DisciplineInit, DisciplineStep, PTL DEF Smp!Spec, Smp!CommandsDoNotMix

-----------------------------------------------------------------------------
(* How often the first n entries of the list name a core. *)
Listed(c, n) == Cardinality({k \in 0 .. n - 1 : acpi_cpuids[k] = c})

LEMMA ListedNone ==
  ASSUME NEW c
  PROVE  Listed(c, 0) = 0
<1>1. {k \in 0 .. 0 - 1 : acpi_cpuids[k] = c} = {}
  OBVIOUS
<1> QED
  BY <1>1, FS_EmptySet DEF Listed

LEMMA ListedNext ==
  ASSUME NEW c, NEW n \in Nat
  PROVE  /\ Listed(c, n) \in Nat
         /\ Listed(c, n + 1) = Listed(c, n) + (IF acpi_cpuids[n] = c THEN 1 ELSE 0)
<1> DEFINE S == {k \in 0 .. n - 1 : acpi_cpuids[k] = c}
           T == {k \in 0 .. (n + 1) - 1 : acpi_cpuids[k] = c}
<1>1. IsFiniteSet(S) /\ Cardinality(S) \in Nat
  <2>1. IsFiniteSet(0 .. n - 1)
    BY FS_Interval
  <2>2. S \in SUBSET (0 .. n - 1)
    OBVIOUS
  <2> QED
    BY <2>1, <2>2, FS_Subset, FS_CardinalityType
<1>2. n \notin S
  OBVIOUS
<1>5. Listed(c, n) = Cardinality(S) /\ Listed(c, n + 1) = Cardinality(T)
  BY DEF Listed
<1>3. CASE acpi_cpuids[n] = c
  <2>1. T = S \cup {n}
    BY <1>3
  <2> QED
    BY <2>1, <1>1, <1>2, <1>3, <1>5, FS_AddElement
<1>4. CASE acpi_cpuids[n] # c
  <2>1. T = S
    BY <1>4
  <2> QED
    BY <2>1, <1>1, <1>4, <1>5
<1> QED
  BY <1>3, <1>4

-----------------------------------------------------------------------------
(* A command keeps its parts together on its way into the register.        *)
Commands ==
  /\ call = [at |-> call.at, dest |-> call.dest, mode |-> call.mode,
             shorthand |-> call.shorthand]
  /\ icr = [dest |-> icr.dest, mode |-> icr.mode, shorthand |-> icr.shorthand]
  /\ call.mode = "INIT" => call.shorthand = "NONE"
  /\ icr.mode = "INIT" => icr.shorthand = "NONE"
  /\ call.at = "lo" => icr.dest = call.dest

(* How far the loops are. *)
Loops ==
  /\ machine \in Machines
  /\ ncores \in Nat
  /\ i \in 0 .. ncores
  /\ pc \in {"parse", "detect", "init", "rest", "startup", "done"}
  /\ pc \in {"parse", "detect"} => i = 0 /\ ncores = 0
  /\ pc \notin {"parse", "detect"} => ncores = Smp!CoreCount(machine)
  /\ pc \in {"rest", "startup"} => i < ncores
  /\ pc = "done" => i = ncores
  /\ DOMAIN acpi_cpuids \in {0 .. Smp!MAX_NEEDED_CORES - 1, 0 .. Smp!MAX_NEEDED_CORES}
  /\ pc # "parse" => \A k \in DOMAIN Smp!StoredIds(machine) :
                       acpi_cpuids[k] = Smp!StoredIds(machine)[k]

LEMMA CommandsInit == Smp!Init => Commands
BY DEF Smp!Init, Commands, Smp!Idle

LEMMA LoopsInit == Smp!Init => Loops
BY DEF Smp!Init, Loops, Smp!MAX_NEEDED_CORES

LEMMA CommandsStep ==
  ASSUME CallDiscipline, Commands, [Smp!Next]_(Smp!vars)
  PROVE  Commands'
<1> USE DEF Commands, CallDiscipline, Smp!Idle, Smp!lapic_send_init, Smp!lapic_send_startup
<1>1. CASE Smp!parse_madt
  BY <1>1 DEF Smp!parse_madt, Smp!lapic
<1>2. CASE Smp!cpu_detect_cores
  BY <1>2 DEF Smp!cpu_detect_cores, Smp!lapic
<1>3. CASE Smp!SendInit
  BY <1>3 DEF Smp!SendInit, Smp!lapic
<1>4. CASE Smp!pit_sleep
  BY <1>4 DEF Smp!pit_sleep, Smp!lapic
<1>5. CASE Smp!SendStartup
  BY <1>5 DEF Smp!SendStartup, Smp!lapic
<1>6. CASE Smp!NextCore
  BY <1>6 DEF Smp!NextCore, Smp!lapic
<1>7. CASE Smp!Return
  BY <1>7 DEF Smp!Return, Smp!lapic
<1>8. CASE Smp!WriteIcrHi
  BY <1>8 DEF Smp!WriteIcrHi
<1>9. CASE Smp!WriteIcrLo
  BY <1>9 DEF Smp!WriteIcrLo
<1>10. CASE Smp!PollIcr
  BY <1>10 DEF Smp!PollIcr, Smp!lapic
<1>11. CASE Smp!Deliver
  BY <1>11 DEF Smp!Deliver
<1>12. CASE UNCHANGED Smp!vars
  BY <1>12 DEF Smp!vars, Smp!lapic
<1> QED
  BY <1>1, <1>2, <1>3, <1>4, <1>5, <1>6, <1>7, <1>8, <1>9, <1>10, <1>11, <1>12
     DEF Smp!Next, Smp!BootProcessor

LEMMA LoopsStep ==
  ASSUME CallDiscipline, Loops, [Smp!Next]_(Smp!vars)
  PROVE  Loops'
<1> USE DEF Loops
<1>1. CASE Smp!parse_madt
  <2> DEFINE stored == Smp!StoredIds(machine)
  <2>1. acpi_cpuids' = [k \in DOMAIN acpi_cpuids \union DOMAIN stored |->
                          IF k \in DOMAIN stored THEN stored[k] ELSE acpi_cpuids[k]]
    BY <1>1 DEF Smp!parse_madt
  <2>2. PICK n \in Nat : DOMAIN stored = {l \in 0 .. 16 : l < n}
    <3>1. DOMAIN StoredIds(machine)
            = {l \in 0 .. 16 :
                 l < Cardinality(Found(machine, ParseEnd(machine), APIC_TYPE_LOCAL_APIC))}
      BY DEF StoredIds, MaxStored, MAX_NEEDED_CORES
    <3> QED
      BY <3>1, FoundIs, SameTable
  <2>3. /\ machine' = machine /\ ncores' = ncores /\ i' = i
        /\ pc = "parse" /\ pc' = "detect" /\ Smp!StoredIds(machine)' = stored
    <3>1. machine' = machine
      BY <1>1 DEF Smp!parse_madt
    <3>2. Smp!StoredIds(machine)' = Smp!StoredIds(machine')
      OBVIOUS
    <3> QED
      BY <1>1, <3>1, <3>2 DEF Smp!parse_madt
  <2> HIDE DEF stored
  <2>4. DOMAIN acpi_cpuids' \in {0 .. 15, 0 .. 16}
    BY <2>1, <2>2 DEF Smp!MAX_NEEDED_CORES
  <2>5. \A k \in DOMAIN stored : acpi_cpuids'[k] = stored[k]
    BY <2>1
  <2> QED
    BY <2>3, <2>4, <2>5 DEF Smp!MAX_NEEDED_CORES
<1>2. CASE Smp!cpu_detect_cores
  <2>1. PICK c \in 0 .. 255 : c = Smp!CoreCount(machine)
    BY CountIsByte
  <2>2. /\ pc = "detect" /\ pc' = "init" /\ i' = i /\ i = 0
        /\ machine' = machine /\ acpi_cpuids' = acpi_cpuids
        /\ ncores' = c
    BY <1>2, <2>1 DEF Smp!cpu_detect_cores
  <2>3. /\ Smp!CoreCount(machine)' = c
        /\ Smp!StoredIds(machine)' = Smp!StoredIds(machine)
    BY <2>1, <2>2, Zenon
  <2> QED
    BY <2>2, <2>3
<1>3. CASE Smp!SendInit
  BY <1>3 DEF Smp!SendInit, Smp!acpi
<1>4. CASE Smp!pit_sleep
  BY <1>4 DEF Smp!pit_sleep, Smp!acpi
<1>5. CASE Smp!SendStartup
  BY <1>5 DEF Smp!SendStartup, Smp!acpi
<1>6. CASE Smp!NextCore
  BY <1>6 DEF Smp!NextCore, Smp!acpi
<1>7. CASE Smp!Return
  BY <1>7 DEF Smp!Return, Smp!acpi
<1>8. CASE Smp!WriteIcrHi
  BY <1>8 DEF Smp!WriteIcrHi, Smp!acpi
<1>9. CASE Smp!WriteIcrLo
  BY <1>9 DEF Smp!WriteIcrLo, Smp!acpi
<1>10. CASE Smp!PollIcr
  BY <1>10 DEF Smp!PollIcr, Smp!acpi
<1>11. CASE Smp!Deliver
  BY <1>11 DEF Smp!Deliver, Smp!acpi
<1>12. CASE UNCHANGED Smp!vars
  BY <1>12 DEF Smp!vars, Smp!acpi
<1> QED
  BY <1>1, <1>2, <1>3, <1>4, <1>5, <1>6, <1>7, <1>8, <1>9, <1>10, <1>11, <1>12
     DEF Smp!Next, Smp!BootProcessor

-----------------------------------------------------------------------------
(* An INIT to a core that is sent and not yet delivered. *)
ToRegister(c) == call.at \in {"hi", "lo"} /\ call.mode = "INIT" /\ call.dest = c
ToCore(c) == pending /\ icr.mode = "INIT" /\ icr.dest = c
InFlight(c) == IF ToRegister(c) \/ ToCore(c) THEN 1 ELSE 0

(* The entries of the list that the outer loop has dealt with. *)
Reached == IF pc \in {"rest", "startup"} THEN i + 1 ELSE i

BspSpared ==
  /\ inits[machine.bsp] = 0
  /\ InFlight(machine.bsp) = 0

InitsListed ==
  ncores <= Smp!MAX_NEEDED_CORES =>
    \A c \in Smp!ApicIds(machine) \ {machine.bsp} :
      inits[c] + InFlight(c) = Listed(c, Reached)

Counts ==
  /\ machine.bsp \in Smp!ApicIds(machine)
  /\ inits \in [Smp!ApicIds(machine) -> Nat]
  /\ DOMAIN core = Smp!ApicIds(machine)
  /\ BspSpared
  /\ InitsListed

LEMMA CountsInit == Smp!Init => Counts
<1> SUFFICES ASSUME Smp!Init
             PROVE  Counts
  OBVIOUS
<1>1. machine.bsp \in Smp!ApicIds(machine)
  BY MachineAssumption, SameCores DEF Smp!Init
<1>2. /\ inits \in [Smp!ApicIds(machine) -> Nat]
      /\ DOMAIN core = Smp!ApicIds(machine)
      /\ \A c \in Smp!ApicIds(machine) : inits[c] = 0
  BY DEF Smp!Init
<1>3. call.at = "idle" /\ pending = FALSE /\ i = 0 /\ pc = "parse"
  BY DEF Smp!Init, Smp!Idle
<1>4. \A c : ~ToRegister(c) /\ ~ToCore(c)
  BY <1>3 DEF ToRegister, ToCore
<1>5. \A c : InFlight(c) = 0 /\ Listed(c, Reached) = 0
  BY <1>3, <1>4, ListedNone DEF InFlight, Reached
<1>6. BspSpared
  BY <1>1, <1>2, <1>5 DEF BspSpared
<1>7. InitsListed
  BY <1>2, <1>5 DEF InitsListed
<1> QED
  BY <1>1, <1>2, <1>6, <1>7 DEF Counts

(* Steps that neither send, nor deliver, nor move on in the list.          *)
LEMMA CountsUndisturbed ==
  ASSUME Counts,
         machine' = machine, ncores' = ncores, acpi_cpuids' = acpi_cpuids,
         inits' = inits, core' = core, Reached' = Reached,
         \A c : InFlight(c)' = InFlight(c)
  PROVE  Counts'
<1>1. Smp!ApicIds(machine)' = Smp!ApicIds(machine)
  BY DEF Smp!ApicIds, Smp!OwnCores
<1>2. \A c : Listed(c, Reached)' = Listed(c, Reached)
  BY DEF Listed
<1>4. BspSpared'
  BY <1>1 DEF Counts, BspSpared
<1>5. InitsListed'
  BY <1>1, <1>2 DEF Counts, InitsListed
<1> QED
  BY <1>1, <1>4, <1>5 DEF Counts

(* Whatever of a command is on its way, in terms of the phase it is in.    *)
LEMMA FlightOf ==
  ASSUME CallDiscipline, NEW c
  PROVE  /\ call.at = "idle" => InFlight(c) = 0
         /\ call.at \in {"hi", "lo"} =>
              InFlight(c) = IF call.mode = "INIT" /\ call.dest = c THEN 1 ELSE 0
         /\ call.at = "wait" =>
              InFlight(c) = IF pending /\ icr.mode = "INIT" /\ icr.dest = c THEN 1 ELSE 0
BY DEF CallDiscipline, InFlight, ToRegister, ToCore

LEMMA CountsStep ==
  ASSUME CallDiscipline, Commands, Loops, Counts, [Smp!Next]_(Smp!vars)
  PROVE  Counts'
<1>0. CallDiscipline' /\ Loops'
  BY DisciplineStep, LoopsStep
<1>1. CASE Smp!parse_madt
  <2>1. i = 0 /\ ncores = 0 /\ i' = i /\ ncores' = ncores /\ pc' = "detect" /\ pc = "parse"
    BY <1>1 DEF Smp!parse_madt, Loops
  <2>2. Reached = 0 /\ Reached' = 0
    BY <2>1 DEF Reached
  <2>3. \A c : Listed(c, Reached) = 0 /\ Listed(c, Reached)' = 0
    <3>1. \A c : {k \in 0 .. 0 - 1 : acpi_cpuids'[k] = c} = {}
      OBVIOUS
    <3> QED
      BY <2>2, <3>1, ListedNone, FS_EmptySet DEF Listed
  <2>4. \A c : InFlight(c)' = InFlight(c)
    BY <1>1 DEF Smp!parse_madt, Smp!lapic, InFlight, ToRegister, ToCore
  <2>5. machine' = machine /\ inits' = inits /\ core' = core
    BY <1>1 DEF Smp!parse_madt, Smp!cores
  <2>6. Smp!ApicIds(machine)' = Smp!ApicIds(machine)
    BY <2>5 DEF Smp!ApicIds, Smp!OwnCores
  <2>7. InitsListed'
    BY <2>1, <2>3, <2>4, <2>5, <2>6 DEF Counts, InitsListed
  <2> QED
    BY <2>4, <2>5, <2>6, <2>7 DEF Counts, BspSpared
<1>2. CASE Smp!cpu_detect_cores
  <2>1. i = 0 /\ ncores = 0 /\ i' = i /\ pc' = "init" /\ pc = "detect"
    BY <1>2 DEF Smp!cpu_detect_cores, Loops
  <2>2. machine' = machine /\ inits' = inits /\ core' = core /\ acpi_cpuids' = acpi_cpuids
    BY <1>2 DEF Smp!cpu_detect_cores, Smp!cores
  <2>3. \A c : InFlight(c)' = InFlight(c)
    BY <1>2 DEF Smp!cpu_detect_cores, Smp!lapic, InFlight, ToRegister, ToCore
  <2>4. \A c : Listed(c, Reached)' = Listed(c, Reached)
    BY <2>1, <2>2 DEF Reached, Listed
  <2>5. Smp!ApicIds(machine)' = Smp!ApicIds(machine)
    BY <2>2 DEF Smp!ApicIds, Smp!OwnCores
  <2>6. ncores <= Smp!MAX_NEEDED_CORES
    BY <2>1 DEF Smp!MAX_NEEDED_CORES
  <2>7. InitsListed'
    BY <2>2, <2>3, <2>4, <2>5, <2>6 DEF Counts, InitsListed
  <2> QED
    BY <2>2, <2>3, <2>5, <2>7 DEF Counts, BspSpared
<1>3. CASE Smp!SendInit
  <2>1. /\ machine' = machine /\ ncores' = ncores /\ acpi_cpuids' = acpi_cpuids
        /\ inits' = inits /\ core' = core /\ icr' = icr /\ pending' = pending
    BY <1>3 DEF Smp!SendInit, Smp!acpi, Smp!lapic, Smp!cores
  <2>2. Reached = i /\ Reached' = i + 1 /\ i \in Nat
    BY <1>3 DEF Smp!SendInit, Reached, Loops
  <2>3. PICK id \in Smp!IdAt(i) :
          call' = IF Smp!IsOther(id) THEN Smp!lapic_send_init(id) ELSE Smp!Idle
    BY <1>3 DEF Smp!SendInit
  <2>4. Smp!ApicIds(machine)' = Smp!ApicIds(machine)
    BY <2>1 DEF Smp!ApicIds, Smp!OwnCores
  <2>5. call.at = "idle"
    BY <1>3 DEF Smp!SendInit, CallDiscipline
  <2>6. \A c : InFlight(c) = 0
    BY <2>5, FlightOf
  <2>7. \A c : InFlight(c)' = IF id = c /\ id # machine.bsp THEN 1 ELSE 0
    <3>1. ~pending'
      BY <2>1, <2>5 DEF CallDiscipline
    <3>2. CASE Smp!IsOther(id)
      BY <2>3, <3>1, <3>2
         DEF Smp!IsOther, Smp!lapic_send_init, InFlight, ToRegister, ToCore
    <3>3. CASE ~Smp!IsOther(id)
      BY <2>3, <3>1, <3>3
         DEF Smp!IsOther, Smp!Idle, InFlight, ToRegister, ToCore
    <3> QED
      BY <3>2, <3>3
  <2>8. BspSpared'
    BY <2>1, <2>7 DEF Counts, BspSpared
  <2>9. InitsListed'
    <3> SUFFICES ASSUME ncores <= Smp!MAX_NEEDED_CORES,
                        NEW c \in Smp!ApicIds(machine) \ {machine.bsp}
                 PROVE  inits[c] + InFlight(c)' = Listed(c, i + 1)
      BY <2>1, <2>2, <2>4 DEF InitsListed, Listed
    <3>1. i \in 0 .. Smp!MAX_NEEDED_CORES - 1
      BY <1>3 DEF Smp!SendInit, Loops, Smp!MAX_NEEDED_CORES
    <3>2. id = acpi_cpuids[i]
      BY <3>1, <2>3 DEF Smp!IdAt, Loops, Smp!MAX_NEEDED_CORES
    <3>3. inits[c] = Listed(c, i)
      BY <2>2, <2>6 DEF Counts, InitsListed
    <3>4. Listed(c, i + 1) = Listed(c, i) + (IF acpi_cpuids[i] = c THEN 1 ELSE 0)
      BY <2>2, ListedNext
    <3> QED
      BY <2>7, <3>2, <3>3, <3>4
  <2> QED
    BY <2>1, <2>4, <2>8, <2>9 DEF Counts
<1>4. CASE Smp!pit_sleep
  <2>1. machine' = machine /\ ncores' = ncores /\ acpi_cpuids' = acpi_cpuids
    BY <1>4 DEF Smp!pit_sleep, Smp!acpi
  <2>2. inits' = inits /\ core' = core
    BY <1>4 DEF Smp!pit_sleep, Smp!cores
  <2>3. Reached' = Reached
    BY <1>4 DEF Smp!pit_sleep, Reached
  <2>4. ASSUME NEW c
        PROVE  InFlight(c)' = InFlight(c)
    BY <1>4 DEF Smp!pit_sleep, Smp!lapic, InFlight, ToRegister, ToCore
  <2> QED
    BY <2>1, <2>2, <2>3, <2>4, CountsUndisturbed
<1>5. CASE Smp!SendStartup
  <2>1. machine' = machine /\ ncores' = ncores /\ acpi_cpuids' = acpi_cpuids
    BY <1>5 DEF Smp!SendStartup, Smp!acpi
  <2>2. inits' = inits /\ core' = core
    BY <1>5 DEF Smp!SendStartup, Smp!cores
  <2>3. Reached' = Reached
    BY <1>5 DEF Smp!SendStartup, Reached
  <2>4. ASSUME NEW c
        PROVE  InFlight(c)' = InFlight(c)
    <3>1. call.at = "idle" /\ ~pending /\ ~pending'
      BY <1>5 DEF Smp!SendStartup, Smp!Idle, CallDiscipline, Smp!lapic
    <3>2. call'.mode # "INIT"
      BY <1>5 DEF Smp!SendStartup, Smp!lapic_send_startup, Smp!Idle
    <3> QED
      BY <3>1, <3>2 DEF InFlight, ToRegister, ToCore
  <2> QED
    BY <2>1, <2>2, <2>3, <2>4, CountsUndisturbed
<1>6. CASE Smp!NextCore
  <2>1. machine' = machine /\ ncores' = ncores /\ acpi_cpuids' = acpi_cpuids
    BY <1>6 DEF Smp!NextCore, Smp!acpi
  <2>2. inits' = inits /\ core' = core
    BY <1>6 DEF Smp!NextCore, Smp!cores
  <2>3. Reached' = Reached
    BY <1>6 DEF Smp!NextCore, Reached
  <2>4. ASSUME NEW c
        PROVE  InFlight(c)' = InFlight(c)
    BY <1>6 DEF Smp!NextCore, Smp!lapic, InFlight, ToRegister, ToCore
  <2> QED
    BY <2>1, <2>2, <2>3, <2>4, CountsUndisturbed
<1>7. CASE Smp!Return
  <2>1. machine' = machine /\ ncores' = ncores /\ acpi_cpuids' = acpi_cpuids
    BY <1>7 DEF Smp!Return, Smp!acpi
  <2>2. inits' = inits /\ core' = core
    BY <1>7 DEF Smp!Return, Smp!cores
  <2>3. Reached' = Reached
    BY <1>7 DEF Smp!Return, Reached
  <2>4. ASSUME NEW c
        PROVE  InFlight(c)' = InFlight(c)
    BY <1>7 DEF Smp!Return, Smp!lapic, InFlight, ToRegister, ToCore
  <2> QED
    BY <2>1, <2>2, <2>3, <2>4, CountsUndisturbed
<1>8. CASE Smp!WriteIcrHi
  <2>1. machine' = machine /\ ncores' = ncores /\ acpi_cpuids' = acpi_cpuids
    BY <1>8 DEF Smp!WriteIcrHi, Smp!acpi
  <2>2. inits' = inits /\ core' = core
    BY <1>8 DEF Smp!WriteIcrHi, Smp!cores
  <2>3. Reached' = Reached
    BY <1>8 DEF Smp!WriteIcrHi, Reached
  <2>4. ASSUME NEW c
        PROVE  InFlight(c)' = InFlight(c)
    <3>1. call'.at = "lo" /\ call'.mode = call.mode /\ call'.dest = call.dest
      BY <1>8 DEF Smp!WriteIcrHi, Commands
    <3>2. ~pending /\ ~pending'
      BY <1>8 DEF Smp!WriteIcrHi, CallDiscipline
    <3> QED
      BY <1>8, <3>1, <3>2 DEF Smp!WriteIcrHi, InFlight, ToRegister, ToCore
  <2> QED
    BY <2>1, <2>2, <2>3, <2>4, CountsUndisturbed
<1>9. CASE Smp!WriteIcrLo
  <2>1. machine' = machine /\ ncores' = ncores /\ acpi_cpuids' = acpi_cpuids
    BY <1>9 DEF Smp!WriteIcrLo, Smp!acpi
  <2>2. inits' = inits /\ core' = core
    BY <1>9 DEF Smp!WriteIcrLo, Smp!cores
  <2>3. Reached' = Reached
    BY <1>9 DEF Smp!WriteIcrLo, Reached
  <2>4. ASSUME NEW c
        PROVE  InFlight(c)' = InFlight(c)
    <3>1. call'.at = "wait" /\ pending'
      BY <1>9 DEF Smp!WriteIcrLo, Commands
    <3>2. icr'.mode = call.mode /\ icr'.dest = call.dest
      BY <1>9 DEF Smp!WriteIcrLo, Commands
    <3>3. ~pending /\ call.at = "lo"
      BY <1>9 DEF Smp!WriteIcrLo, CallDiscipline
    <3> QED
      BY <3>1, <3>2, <3>3 DEF InFlight, ToRegister, ToCore
  <2> QED
    BY <2>1, <2>2, <2>3, <2>4, CountsUndisturbed
<1>10. CASE Smp!PollIcr
  <2>1. machine' = machine /\ ncores' = ncores /\ acpi_cpuids' = acpi_cpuids
    BY <1>10 DEF Smp!PollIcr, Smp!acpi
  <2>2. inits' = inits /\ core' = core
    BY <1>10 DEF Smp!PollIcr, Smp!cores
  <2>3. Reached' = Reached
    BY <1>10 DEF Smp!PollIcr, Reached
  <2>4. ASSUME NEW c
        PROVE  InFlight(c)' = InFlight(c)
    <3>1. call.at = "wait" /\ call'.at = "idle" /\ ~pending /\ ~pending'
      BY <1>10 DEF Smp!PollIcr, Smp!Sent, Smp!Idle, Smp!lapic
    <3> QED
      BY <3>1 DEF InFlight, ToRegister, ToCore
  <2> QED
    BY <2>1, <2>2, <2>3, <2>4, CountsUndisturbed
<1>11. CASE Smp!Deliver
  <2>1. /\ machine' = machine /\ ncores' = ncores /\ acpi_cpuids' = acpi_cpuids
        /\ i' = i /\ pc' = pc /\ call' = call /\ icr' = icr /\ pending /\ ~pending'
    BY <1>11 DEF Smp!Deliver, Smp!acpi
  <2>2. call.at = "wait" /\ call'.at = "wait"
    BY <2>1 DEF CallDiscipline
  <2>3. Smp!ApicIds(machine)' = Smp!ApicIds(machine)
    BY <2>1 DEF Smp!ApicIds, Smp!OwnCores
  <2>4. DOMAIN core' = Smp!ApicIds(machine)
    BY <1>11 DEF Smp!Deliver, Counts
  <2>5. \A c \in Smp!ApicIds(machine) :
          inits'[c] = IF icr.mode = "INIT" /\ icr.dest = c THEN inits[c] + 1 ELSE inits[c]
    BY <1>11 DEF Smp!Deliver, Counts, Smp!Receivers, Commands
  <2>6. inits' \in [Smp!ApicIds(machine) -> Nat]
    BY <1>11 DEF Smp!Deliver, Counts
  <2>7. \A c : InFlight(c)' = 0
    BY <2>1, <2>2 DEF InFlight, ToRegister, ToCore
  <2>8. \A c : InFlight(c) = IF icr.mode = "INIT" /\ icr.dest = c THEN 1 ELSE 0
    BY <2>1, <2>2, FlightOf
  <2>9. \A c \in Smp!ApicIds(machine) : inits'[c] + InFlight(c)' = inits[c] + InFlight(c)
    BY <2>5, <2>7, <2>8 DEF Counts
  <2>10. BspSpared'
    BY <2>1, <2>5, <2>7, <2>8 DEF Counts, BspSpared
  <2>11. \A c : Listed(c, Reached)' = Listed(c, Reached)
    BY <2>1 DEF Listed, Reached
  <2>12. InitsListed'
    BY <2>1, <2>3, <2>9, <2>11 DEF Counts, InitsListed
  <2> QED
    BY <2>1, <2>3, <2>4, <2>6, <2>10, <2>12 DEF Counts
<1>12. CASE UNCHANGED Smp!vars
  <2>1. machine' = machine /\ ncores' = ncores /\ acpi_cpuids' = acpi_cpuids
    BY <1>12 DEF Smp!vars, Smp!acpi
  <2>2. inits' = inits /\ core' = core
    BY <1>12 DEF Smp!vars, Smp!cores
  <2>3. Reached' = Reached
    BY <1>12 DEF Smp!vars, Reached
  <2>4. \A c : InFlight(c)' = InFlight(c)
    BY <1>12 DEF Smp!vars, Smp!lapic, InFlight, ToRegister, ToCore
  <2> QED
    BY <2>1, <2>2, <2>3, <2>4, CountsUndisturbed
<1> QED
  BY <1>1, <1>2, <1>3, <1>4, <1>5, <1>6, <1>7, <1>8, <1>9, <1>10, <1>11, <1>12
     DEF Smp!Next, Smp!BootProcessor

(* The inductive invariant. *)
WakeupInv ==
  /\ CallDiscipline
  /\ Commands
  /\ Loops
  /\ Counts

LEMMA WakeupInductive == Smp!Spec => []WakeupInv
<1>1. Smp!Init => WakeupInv
  BY DisciplineInit, CommandsInit, LoopsInit, CountsInit DEF WakeupInv
<1>2. WakeupInv /\ [Smp!Next]_(Smp!vars) => WakeupInv'
  BY DisciplineStep, CommandsStep, LoopsStep, CountsStep DEF WakeupInv
<1> QED
  BY <1>1, <1>2, PTL DEF Smp!Spec

(* On every machine whose table has up to 16 cores, with processor IDs     *)
(* that are the APIC IDs, and nothing behind it that is counted as a core: *)
(* when cpu_wakeup_cores returns each core but the boot processor has had  *)
(* exactly one INIT.  On every machine at all the boot processor has none. *)
THEOREM WakeupInits == Smp!Spec => []Smp!EachCoreInitOnce
<1>1. ASSUME WakeupInv
      PROVE  Smp!EachCoreInitOnce
  <2> USE <1>1 DEF WakeupInv
  <2>1. inits[machine.bsp] = 0
    BY DEF Counts, BspSpared
  <2>2. ASSUME pc = "done", Smp!IdsAreApicIds(machine),
               NEW c \in DOMAIN inits \ {machine.bsp}
        PROVE  inits[c] = 1
    <3>1. c \in Smp!ApicIds(machine) \ {machine.bsp} /\ inits[c] \in Nat
      BY <2>2 DEF Counts
    <3>2. call.at = "idle"
      BY <2>2 DEF CallDiscipline
    <3>3. InFlight(c) = 0
      BY <3>2, FlightOf
    <3>4. Reached = ncores /\ ncores = CoreCount(machine)
      BY <2>2, SameTable DEF Reached, Loops
    <3>5. /\ machine \in Machines /\ c \in ApicIds(machine)
          /\ IdsAreApicIds(machine)
      BY <2>2, <3>1, SameCores, SameIds DEF Loops
    <3>6. /\ ncores <= Smp!MAX_NEEDED_CORES
          /\ 0 .. ncores - 1 \subseteq DOMAIN StoredIds(machine)
          /\ Cardinality({k \in 0 .. ncores - 1 : StoredIds(machine)[k] = c}) = 1
      BY <3>4, <3>5, StoredOnce DEF Smp!MAX_NEEDED_CORES, MAX_NEEDED_CORES
    <3>7. inits[c] + InFlight(c) = Listed(c, ncores)
      BY <3>1, <3>4, <3>6 DEF Counts, InitsListed
    <3>8. \A k \in 0 .. ncores - 1 : acpi_cpuids[k] = StoredIds(machine)[k]
      BY <2>2, <3>6, SameTable DEF Loops
    <3>9. {k \in 0 .. ncores - 1 : acpi_cpuids[k] = c}
            = {k \in 0 .. ncores - 1 : StoredIds(machine)[k] = c}
      BY <3>8
    <3>10. Listed(c, ncores) = 1
      BY <3>6, <3>9 DEF Listed
    <3> QED
      BY <3>1, <3>3, <3>7, <3>10
  <2> QED
    BY <2>1, <2>2 DEF Smp!EachCoreInitOnce
<1> QED
  BY <1>1, WakeupInductive, PTL

(* The walks of cpu_detect_cores and parse_madt agree, whatever follows    *)
(* the table: no core is counted for which no identifier was stored, as    *)
(* far as acpi_cpuids reaches.                                             *)
THEOREM WakeupCounts == Smp!Spec => []Smp!CountedAreStored
<1>1. WakeupInv => Smp!CountedAreStored
  BY StoredDomain, SameTable
     DEF WakeupInv, Loops, Smp!CountedAreStored, MAX_NEEDED_CORES, Smp!MAX_NEEDED_CORES
<1> QED
  BY <1>1, WakeupInductive, PTL

-----------------------------------------------------------------------------
(* Types of what IInv does not speak of. *)
Widths ==
  /\ acpi_cpuids \in [DOMAIN acpi_cpuids -> Smp!Byte]
  /\ j \in 0 .. ncores
  /\ call.dest \in Smp!Byte
  /\ icr.dest \in Smp!Byte
  /\ core \in [Smp!ApicIds(machine) -> {"parked", "waiting", "running"}]

LEMMA WidthsStep ==
  ASSUME WakeupInv, Widths, [Smp!Next]_(Smp!vars)
  PROVE  Widths'
<1> USE DEF Widths
<1>0. machine' = machine
  BY DEF Smp!Next, Smp!BootProcessor, Smp!vars, Smp!acpi, Smp!parse_madt,
         Smp!cpu_detect_cores, Smp!SendInit, Smp!pit_sleep,
         Smp!SendStartup, Smp!NextCore, Smp!Return, Smp!WriteIcrHi, Smp!WriteIcrLo,
         Smp!PollIcr, Smp!Deliver
<1>a. Smp!ApicIds(machine)' = Smp!ApicIds(machine)
  BY <1>0 DEF Smp!ApicIds, Smp!OwnCores
<1>b. ASSUME NEW k \in Nat, NEW id \in Smp!IdAt(k)
      PROVE  id \in Smp!Byte
  BY <1>b, StrayAssumption, SameCores DEF Smp!IdAt
<1>c. 0 \in Smp!Byte
  BY DEF Smp!Byte
<1>1. CASE Smp!parse_madt
  <2>1. acpi_cpuids' \in [DOMAIN acpi_cpuids' -> Smp!Byte]
    BY <1>1, StoredAreBytes, SameTable, SameCores DEF Smp!parse_madt, WakeupInv, Loops
  <2> QED
    BY <1>1, <1>a, <2>1 DEF Smp!parse_madt, Smp!lapic, Smp!cores
<1>2. CASE Smp!cpu_detect_cores
  <2>1. j = 0 /\ ncores' \in Nat
    <3>1. PICK c \in 0 .. 255 : c = Smp!CoreCount(machine)
      BY CountIsByte DEF WakeupInv, Loops
    <3>2. ncores = 0 /\ ncores' = c
      BY <1>2, <3>1 DEF Smp!cpu_detect_cores, WakeupInv, Loops
    <3> QED
      BY <3>1, <3>2
  <2> QED
    BY <1>2, <1>a, <2>1 DEF Smp!cpu_detect_cores, Smp!lapic, Smp!cores
<1>3. CASE Smp!SendInit
  <2>1. i \in Nat
    BY DEF WakeupInv, Loops
  <2>2. call'.dest \in Smp!Byte
    BY <1>3, <1>b, <1>c, <2>1 DEF Smp!SendInit, Smp!lapic_send_init, Smp!Idle
  <2> QED
    BY <1>3, <1>a, <2>2 DEF Smp!SendInit, Smp!acpi, Smp!lapic, Smp!cores
<1>4. CASE Smp!pit_sleep
  BY <1>4, <1>a DEF Smp!pit_sleep, Smp!acpi, Smp!lapic, Smp!cores, WakeupInv, Loops
<1>5. CASE Smp!SendStartup
  <2>1. j \in Nat /\ ncores \in Nat
    BY DEF WakeupInv, Loops
  <2>2. call'.dest \in Smp!Byte
    BY <1>5, <1>b, <1>c, <2>1 DEF Smp!SendStartup, Smp!lapic_send_startup, Smp!Idle
  <2> QED
    BY <1>5, <1>a, <2>1, <2>2 DEF Smp!SendStartup, Smp!acpi, Smp!lapic, Smp!cores
<1>6. CASE Smp!NextCore
  BY <1>6, <1>a DEF Smp!NextCore, Smp!acpi, Smp!lapic, Smp!cores
<1>7. CASE Smp!Return
  BY <1>7, <1>a DEF Smp!Return, Smp!acpi, Smp!lapic, Smp!cores
<1>8. CASE Smp!WriteIcrHi
  BY <1>8, <1>a DEF Smp!WriteIcrHi, Smp!acpi, Smp!cores, WakeupInv, Commands
<1>9. CASE Smp!WriteIcrLo
  BY <1>9, <1>a DEF Smp!WriteIcrLo, Smp!acpi, Smp!cores, WakeupInv, Commands
<1>10. CASE Smp!PollIcr
  BY <1>10, <1>a, <1>c DEF Smp!PollIcr, Smp!acpi, Smp!lapic, Smp!cores, Smp!Idle
<1>11. CASE Smp!Deliver
  BY <1>11, <1>a DEF Smp!Deliver, Smp!acpi
<1>12. CASE UNCHANGED Smp!vars
  BY <1>12, <1>a DEF Smp!vars, Smp!acpi, Smp!lapic, Smp!cores
<1> QED
  BY <1>1, <1>2, <1>3, <1>4, <1>5, <1>6, <1>7, <1>8, <1>9, <1>10, <1>11, <1>12
     DEF Smp!Next, Smp!BootProcessor

(* Type correctness: what lies behind acpi_cpuids is bytes too. *)
LEMMA WakeupTypes == Smp!Spec => []Smp!TypeOK
<1>1. Smp!Init => Widths
  BY DEF Smp!Init, Widths, Smp!Idle, Smp!Byte
<1>2. WakeupInv /\ Widths /\ [Smp!Next]_(Smp!vars) => Widths'
  BY WidthsStep
<1>3. WakeupInv /\ Widths => Smp!TypeOK
  <2> SUFFICES ASSUME WakeupInv, Widths
               PROVE  Smp!TypeOK
    OBVIOUS
  <2>1. ncores \in 0 .. 255
    <3>1. PICK c \in 0 .. 255 : c = Smp!CoreCount(machine)
      BY CountIsByte DEF WakeupInv, Loops
    <3>2. ncores = 0 \/ ncores = c
      BY <3>1 DEF WakeupInv, Loops
    <3> QED
      BY <3>2
  <2> QED
    BY <2>1 DEF WakeupInv, Widths, Smp!TypeOK, Loops, Counts, CallDiscipline, Smp!Byte
<1> QED
  BY <1>1, <1>2, <1>3, WakeupInductive, PTL DEF Smp!Spec

-----------------------------------------------------------------------------
(* The boot does to the other cores what module SmpBoot says: one INIT to  *)
(* each that the table lists by its APIC ID, none to the boot processor.   *)
THEOREM CoresInitOnce == Spec => []EachCoreInitOnce
BY WakeupInits, BootImplementsWakeup DEF EachCoreInitOnce

(* Every core that cpu_detect_cores counts has an identifier that          *)
(* parse_madt stored, as far as acpi_cpuids reaches.                       *)
THEOREM CountedHaveIds == Spec => []CountedAreStored
BY WakeupCounts, BootImplementsWakeup DEF CountedAreStored

(* Exceptions, ticks and the end of the boot included, the command         *)
(* register is never written while a command is being delivered.           *)
THEOREM CommandsStayWhole == Spec => CommandsDoNotMix
BY WakeupCommands, BootImplementsWakeup DEF CommandsDoNotMix

-----------------------------------------------------------------------------
Complaints == {Messages[n] : n \in 1 .. 2}

Events ==
  {Fired(v) : v \in 0 .. 255} \union {PanicCall(message) : message \in Complaints}

Own == {0, 1, 3, 4, 5, 6, 7, 8, 10, 11, 12, 13, 14}

(* The vector that the handler of a vector names. *)
Named(v) == IF v \in Own THEN v ELSE 13

(* What should be printed of an event. *)
Said(e) == IF e.kind = "panic" THEN e.of ELSE cpu_panic(Named(e.of))

Told(message) ==
  /\ message # "Unknown Fault"
  /\ \E e \in DOMAIN raised : message = Said(raised[e])

(* Where in the code of a handler, or of panic, the processor can be. *)
Bodies ==
  [in : {"handler"}, at : 1 .. 13, next : 1 .. 3]
    \union [in : {"panic"}, at : 1 .. 2, next : 1 .. 3]

Types ==
  /\ step \in 1 .. 17
  /\ cpu \in {InInit, Stuck, Astray} \union Bodies
  /\ IF_flag \in BOOLEAN
  /\ raised \in Seq(Events)
  /\ reports \in Seq({cpu_panic(n) : n \in Nat} \union Complaints)

(* A handler that is past its cli has interrupts off, so has panic, and one *)
(* that has not reported yet owes a report that will be true.              *)
HandlersFinal ==
  cpu.in \in {"handler", "panic"} =>
    /\ cpu.next = 3 => ~IF_flag
    /\ cpu.in = "handler" /\ cpu.next = 2 => ~IF_flag
    /\ cpu.next = 1 \/ (cpu.in = "handler" /\ cpu.next = 2) =>
         Len(reports) < Len(raised) /\ Told(Report)

AllTold == \A k \in DOMAIN reports : Told(reports[k])

(* The inductive invariant. *)
IInv ==
  /\ Types
  /\ HandlersFinal
  /\ PanicIsFinal
  /\ AllTold

(* The positions in Text of the handlers of vectors 0 to 14. *)
Position == <<1, 2, 12, 3, 4, 5, 6, 7, 8, 12, 9, 10, 11, 12, 13>>

Label(n) == Text[n].label
Says(n) == Text[n].says

LEMMA Labels ==
  /\ Label(1) = "div0_handler" /\ Label(2) = "debug_exception"
  /\ Label(3) = "breakpoint_exception" /\ Label(4) = "overflow_exception"
  /\ Label(5) = "boundrange_exceeded_exception"
  /\ Label(6) = "invalid_opcode_exception" /\ Label(7) = "dev_not_avail_exception"
  /\ Label(8) = "double_fault" /\ Label(9) = "invalid_tss_exception"
  /\ Label(10) = "segment_not_present" /\ Label(11) = "stack_segment_fault"
  /\ Label(12) = "general_protection_fault" /\ Label(13) = "page_fault"
BY DEF Label, Text

LEMMA Unique ==
  ASSUME NEW v \in 0 .. 14
  PROVE  /\ Position[v + 1] \in 1 .. 13
         /\ \A n \in 1 .. 13 : Label(n) = exceptions[v + 1] <=> n = Position[v + 1]
<1>0. CASE v = 0
  BY <1>0, Labels DEF Position, exceptions
<1>1. CASE v = 1
  BY <1>1, Labels DEF Position, exceptions
<1>2. CASE v = 2
  BY <1>2, Labels DEF Position, exceptions
<1>3. CASE v = 3
  BY <1>3, Labels DEF Position, exceptions
<1>4. CASE v = 4
  BY <1>4, Labels DEF Position, exceptions
<1>5. CASE v = 5
  BY <1>5, Labels DEF Position, exceptions
<1>6. CASE v = 6
  BY <1>6, Labels DEF Position, exceptions
<1>7. CASE v = 7
  BY <1>7, Labels DEF Position, exceptions
<1>8. CASE v = 8
  BY <1>8, Labels DEF Position, exceptions
<1>9. CASE v = 9
  BY <1>9, Labels DEF Position, exceptions
<1>10. CASE v = 10
  BY <1>10, Labels DEF Position, exceptions
<1>11. CASE v = 11
  BY <1>11, Labels DEF Position, exceptions
<1>12. CASE v = 12
  BY <1>12, Labels DEF Position, exceptions
<1>13. CASE v = 13
  BY <1>13, Labels DEF Position, exceptions
<1>14. CASE v = 14
  BY <1>14, Labels DEF Position, exceptions
<1> QED
  BY <1>0, <1>1, <1>2, <1>3, <1>4, <1>5, <1>6, <1>7, <1>8, <1>9, <1>10, <1>11, <1>12, <1>13, <1>14

LEMMA Spoken ==
  /\ Says(1) = 0 /\ Says(2) = 1 /\ Says(3) = 3
  /\ Says(4) = 4 /\ Says(5) = 5 /\ Says(6) = 6
  /\ Says(7) = 7 /\ Says(8) = 8 /\ Says(9) = 10
  /\ Says(10) = 11 /\ Says(11) = 12 /\ Says(12) = 13
  /\ Says(13) = 14
BY DEF Says, Text

LEMMA Truth ==
  ASSUME NEW v \in 0 .. 14
  PROVE  Says(Position[v + 1]) = Named(v)
<1>0. CASE v = 0
  BY <1>0, Spoken DEF Position, Named, Own
<1>1. CASE v = 1
  BY <1>1, Spoken DEF Position, Named, Own
<1>2. CASE v = 2
  BY <1>2, Spoken DEF Position, Named, Own
<1>3. CASE v = 3
  BY <1>3, Spoken DEF Position, Named, Own
<1>4. CASE v = 4
  BY <1>4, Spoken DEF Position, Named, Own
<1>5. CASE v = 5
  BY <1>5, Spoken DEF Position, Named, Own
<1>6. CASE v = 6
  BY <1>6, Spoken DEF Position, Named, Own
<1>7. CASE v = 7
  BY <1>7, Spoken DEF Position, Named, Own
<1>8. CASE v = 8
  BY <1>8, Spoken DEF Position, Named, Own
<1>9. CASE v = 9
  BY <1>9, Spoken DEF Position, Named, Own
<1>10. CASE v = 10
  BY <1>10, Spoken DEF Position, Named, Own
<1>11. CASE v = 11
  BY <1>11, Spoken DEF Position, Named, Own
<1>12. CASE v = 12
  BY <1>12, Spoken DEF Position, Named, Own
<1>13. CASE v = 13
  BY <1>13, Spoken DEF Position, Named, Own
<1>14. CASE v = 14
  BY <1>14, Spoken DEF Position, Named, Own
<1> QED
  BY <1>0, <1>1, <1>2, <1>3, <1>4, <1>5, <1>6, <1>7, <1>8, <1>9, <1>10, <1>11, <1>12, <1>13, <1>14

LEMMA NeverUnknown ==
  ASSUME NEW n \in Own
  PROVE  cpu_panic(n) # "Unknown Fault"
BY DEF Own, cpu_panic

(* exceptions[], the handlers and cpu_panic agree: the gate of a vector    *)
(* leads to the handler that reports it, or, if its first byte was         *)
(* overwritten, nowhere.                                                   *)
LEMMA GatesAgree ==
  ASSUME NEW vector \in 0 .. 255, "idt_install" \in up
  PROVE  \E k \in 1 .. 13 :
           /\ Dispatch(vector) \subseteq {Handler(k), Astray}
           /\ vector # 0 \/ ~Overrun => Dispatch(vector) = {Handler(k)}
           /\ cpu_panic(Text[k].says) = Said(Fired(vector))
           /\ Said(Fired(vector)) # "Unknown Fault"
<1> DEFINE v == IF vector + 1 \in DOMAIN exceptions THEN vector ELSE 13
           k == CHOOSE n \in DOMAIN Text : Text[n].label = exceptions[v + 1]
<1>1. Segment(cs) = "code64"
  <2>1. cs \div 8 + 1 = 6
    BY DEF cs
  <2> QED
    BY <2>1 DEF Segment, GDT
<1>2. DOMAIN exceptions = 1 .. 15 /\ DOMAIN Text = 1 .. 13
  BY DEF exceptions, Text
<1>3. Dispatch(vector) = {Handler(k)} \union (IF v = 0 /\ Overrun THEN {Astray} ELSE {})
  BY <1>1 DEF Dispatch
<1>4. v \in 0 .. 14 /\ Named(v) = Named(vector) /\ (v = 0 => vector = 0)
  BY <1>2 DEF Named, Own
<1> HIDE DEF v
<1>5. k = Position[v + 1] /\ k \in 1 .. 13
  BY <1>2, <1>4, Unique DEF Label
<1>6. Said(Fired(vector)) = cpu_panic(Named(vector))
  BY DEF Said, Fired
<1>7. Text[k].says = Named(vector)
  BY <1>4, <1>5, Truth DEF Says
<1>8. Named(vector) \in Own
  BY DEF Named, Own
<1> HIDE DEF k
<1>9. /\ Dispatch(vector) \subseteq {Handler(k), Astray}
      /\ vector # 0 \/ ~Overrun => Dispatch(vector) = {Handler(k)}
  BY <1>3, <1>4
<1> QED
  BY <1>5, <1>6, <1>7, <1>8, <1>9, NeverUnknown

(* What was told stays told, and a new event may be told. *)
LEMMA Recorded ==
  ASSUME raised \in Seq(Events), NEW e \in Events, raised' = Append(raised, e)
  PROVE  /\ raised' \in Seq(Events)
         /\ Len(raised') = Len(raised) + 1
         /\ \A message : Told(message) => Told(message)'
         /\ Said(e) # "Unknown Fault" => Told(Said(e))'
<1>1. /\ raised' \in Seq(Events)
      /\ Len(raised') = Len(raised) + 1
      /\ \A n \in 1 .. Len(raised) : raised'[n] = raised[n]
      /\ raised'[Len(raised) + 1] = e
      /\ Len(raised) \in Nat
  BY AppendProperties, LenProperties
<1>2. DOMAIN raised = 1 .. Len(raised) /\ DOMAIN raised' = 1 .. Len(raised) + 1
  BY <1>1, LenProperties
<1>3. ASSUME NEW message, Told(message)
      PROVE  Told(message)'
  <2>1. PICK n \in DOMAIN raised : message = Said(raised[n])
    BY <1>3 DEF Told
  <2>2. n \in DOMAIN raised' /\ raised'[n] = raised[n]
    BY <1>1, <1>2
  <2> QED
    BY <1>3, <2>1, <2>2 DEF Told
<1>4. ASSUME Said(e) # "Unknown Fault"
      PROVE  Told(Said(e))'
  <2>1. Len(raised) + 1 \in DOMAIN raised'
    BY <1>1, <1>2
  <2> QED
    BY <1>1, <1>4, <2>1 DEF Told
<1> QED
  BY <1>1, <1>3, <1>4

-----------------------------------------------------------------------------
(* Where the calls are in the order of the boot. *)
LEMMA Places ==
  ASSUME step \in 1 .. 17
  PROVE  /\ Order[step] # "hlt" => step + 1 \in 1 .. 17
         /\ Order[step] = "log_init" => step = 1
         /\ Order[step] \notin {"log_init", "gdt_load", "idt_install"} =>
              "idt_install" \in up
         /\ step = 1 => up = {}
<1>1. Order[3] = "idt_install" /\ Order[17] = "hlt"
  BY DEF Order
<1>2. step > 3 => "idt_install" \in up
  BY <1>1 DEF up
<1>3. step = 1 => up = {}
  BY DEF up
<1>4. Order[step] # "hlt" => step + 1 \in 1 .. 17
  BY <1>1
<1>5. step # 1 => Order[step] # "log_init"
  BY DEF Order
<1>6. step \in {1, 2, 3} => Order[step] \in {"log_init", "gdt_load", "idt_install"}
  BY DEF Order
<1> QED
  BY <1>2, <1>3, <1>4, <1>5, <1>6

LEMMA AtInit ==
  ASSUME Types, NEW name, At(name)
  PROVE  cpu = InInit /\ Order[step] = name
BY DEF Types, At, Stuck, InInit, Astray, Bodies

(* Steps that record nothing and enter no handler. *)
LEMMA Quiet ==
  ASSUME IInv, raised' = raised, reports' = reports, cpu' \in {InInit, Stuck, Astray},
         step' \in 1 .. 17, IF_flag' \in BOOLEAN
  PROVE  IInv'
<1>1. Types'
  BY DEF IInv, Types
<1>2. cpu'.in \notin {"handler", "panic"}
  BY DEF InInit, Stuck, Astray
<1>3. \A message : Told(message)' <=> Told(message)
  BY DEF Told
<1> QED
  BY <1>1, <1>2, <1>3 DEF IInv, HandlersFinal, PanicIsFinal, AllTold

LEMMA Still ==
  ASSUME IInv, UNCHANGED <<step, cpu, IF_flag, raised, reports>>
  PROVE  IInv'
BY DEF IInv, Types, HandlersFinal, PanicIsFinal, AllTold, Told, Report

(* A vector is recorded, and owes a report. *)
LEMMA Dispatched ==
  ASSUME IInv, NEW vector \in 0 .. 255, "idt_install" \in up,
         cpu' \in Dispatch(vector), raised' = Append(raised, Fired(vector)),
         UNCHANGED <<step, IF_flag, reports>>
  PROVE  IInv'
<1>1. Fired(vector) \in Events
  BY DEF Events
<1>2. PICK k \in 1 .. 13 : /\ Dispatch(vector) \subseteq {Handler(k), Astray}
                           /\ cpu_panic(Text[k].says) = Said(Fired(vector))
                           /\ Said(Fired(vector)) # "Unknown Fault"
  BY GatesAgree
<1>3. /\ raised' \in Seq(Events)
      /\ Len(raised') = Len(raised) + 1
      /\ \A message : Told(message) => Told(message)'
      /\ Told(Said(Fired(vector)))'
  BY <1>1, <1>2, Recorded DEF IInv, Types
<1>4. cpu' = [in |-> "handler", at |-> k, next |-> 1] \/ cpu' = Astray
  BY <1>2 DEF Handler
<1>5. Types'
  BY <1>3, <1>4 DEF IInv, Types, Bodies
<1>6. Len(raised) \in Nat /\ Len(reports) \in Nat
  BY LenProperties DEF IInv, Types
<1>7. PanicIsFinal' /\ Len(reports') < Len(raised')
  BY <1>3, <1>6 DEF IInv, PanicIsFinal
<1>8. HandlersFinal'
  <2>1. CASE cpu' = Astray
    BY <2>1 DEF HandlersFinal, Astray
  <2>2. CASE cpu' = [in |-> "handler", at |-> k, next |-> 1]
    <3>1. Report' = Said(Fired(vector))
      BY <1>2, <2>2 DEF Report
    <3>2. Told(Report)'
      BY <1>3, <3>1 DEF Told
    <3> QED
      BY <1>7, <2>2, <3>2 DEF HandlersFinal
  <2> QED
    BY <1>4, <2>1, <2>2
<1>9. AllTold'
  BY <1>3 DEF IInv, AllTold
<1> QED
  BY <1>5, <1>7, <1>8, <1>9 DEF IInv

LEMMA Faulted ==
  ASSUME IInv, NEW vector \in 0 .. 255, Fault(vector), "idt_install" \in up
  PROVE  IInv'
BY Dispatched DEF Fault

(* panic records itself, and owes its message. *)
LEMMA Panicked ==
  ASSUME IInv, NEW n \in 1 .. 2, panic(n)
  PROVE  IInv'
<1> DEFINE message == Messages[n]
<1>1. PanicCall(message) \in Events
  BY DEF Events, Complaints
<1>2. Said(PanicCall(message)) = message /\ message # "Unknown Fault"
  <2>1. CASE n = 1
    BY <2>1 DEF Said, PanicCall, Messages
  <2>2. CASE n = 2
    BY <2>2 DEF Said, PanicCall, Messages
  <2>3. n = 1 \/ n = 2
    OBVIOUS
  <2> QED
    BY <2>1, <2>2, <2>3, Zenon
<1>3. raised' = Append(raised, PanicCall(message))
  BY DEF panic
<1> HIDE DEF message
<1>4. /\ raised' \in Seq(Events)
      /\ Len(raised') = Len(raised) + 1
      /\ \A m : Told(m) => Told(m)'
      /\ Told(message)'
  BY <1>1, <1>2, <1>3, Recorded DEF IInv, Types
<1>5. /\ cpu' = [in |-> "panic", at |-> n, next |-> 1]
      /\ step' = step /\ IF_flag' = IF_flag /\ reports' = reports
  BY DEF panic, Panic
<1>6. Types'
  BY <1>4, <1>5 DEF IInv, Types, Bodies
<1>7. Len(reports') < Len(raised')
  <2>1. Len(raised) \in Nat /\ Len(reports) \in Nat
    BY LenProperties DEF IInv, Types
  <2> QED
    BY <1>4, <1>5, <2>1 DEF IInv, PanicIsFinal
<1>8. PanicIsFinal'
  <2>1. Len(raised') \in Nat /\ Len(reports') \in Nat
    BY <1>6, LenProperties DEF Types
  <2> QED
    BY <1>7, <2>1 DEF PanicIsFinal
<1>9. HandlersFinal'
  <2>1. Report' = message
    BY <1>5 DEF Report, message
  <2>2. Told(Report)'
    BY <1>4, <2>1 DEF Told
  <2> QED
    BY <1>5, <1>7, <2>2 DEF HandlersFinal
<1>10. AllTold'
  BY <1>4, <1>5 DEF IInv, AllTold
<1> QED
  BY <1>6, <1>8, <1>9, <1>10 DEF IInv

(* What panic and the handlers execute: a report, interrupts off, a halt.  *)
LEMMA CodeIs ==
  ASSUME Types, HandlerStep
  PROVE  \E at \in 1 .. 13, next \in 1 .. 3 :
           /\ cpu \in Bodies /\ cpu = [in |-> cpu.in, at |-> at, next |-> next]
           /\ cpu.in \in {"handler", "panic"} /\ (cpu.in = "panic" => at \in 1 .. 2)
           /\ Len(Code) = 3
           /\ Code[next] = "cli" <=> next = IF cpu.in = "panic" THEN 2 ELSE 1
           /\ Code[next] = "call" <=> next = IF cpu.in = "panic" THEN 1 ELSE 2
           /\ Code[next] = "hlt" <=> next = 3
           /\ Report \in {cpu_panic(n) : n \in Nat} \union Complaints
<1>1. cpu \in Bodies
  BY DEF Types, HandlerStep, InInit, Stuck, Astray
<1>2. CASE cpu \in [in : {"handler"}, at : 1 .. 13, next : 1 .. 3]
  <2>1. PICK at \in 1 .. 13, next \in 1 .. 3 :
          cpu = [in |-> "handler", at |-> at, next |-> next]
    BY <1>2
  <2>2. Text[at].says \in Nat
    BY DEF Text
  <2>3. Code = <<"cli", "call", "hlt">> /\ Report = cpu_panic(Text[at].says)
    BY <2>1 DEF Code, Report, kpanic
  <2> QED
    BY <1>1, <2>1, <2>2, <2>3
<1>3. CASE cpu \in [in : {"panic"}, at : 1 .. 2, next : 1 .. 3]
  <2>1. PICK at \in 1 .. 2, next \in 1 .. 3 :
          cpu = [in |-> "panic", at |-> at, next |-> next]
    BY <1>3
  <2>2. Code = <<"call", "cli", "hlt">> /\ Report = Messages[at]
    BY <2>1 DEF Code, Report, panic_body
  <2>3. Report \in Complaints
    BY <2>2 DEF Complaints
  <2> QED
    BY <1>1, <2>1, <2>2, <2>3
<1> QED
  BY <1>1, <1>2, <1>3 DEF Bodies

(* Each reports once, and no tick ends its hlt. *)
LEMMA Handled ==
  ASSUME IInv, HandlerStep
  PROVE  IInv'
<1> DEFINE Said1 == {cpu_panic(n) : n \in Nat} \union Complaints
           first == IF cpu.in = "panic" THEN 1 ELSE 2
<1>1. PICK at \in 1 .. 13, next \in 1 .. 3 :
           /\ cpu \in Bodies /\ cpu = [in |-> cpu.in, at |-> at, next |-> next]
           /\ cpu.in \in {"handler", "panic"} /\ (cpu.in = "panic" => at \in 1 .. 2)
           /\ Len(Code) = 3
           /\ Code[next] = "cli" <=> next = IF cpu.in = "panic" THEN 2 ELSE 1
           /\ Code[next] = "call" <=> next = IF cpu.in = "panic" THEN 1 ELSE 2
           /\ Code[next] = "hlt" <=> next = 3
           /\ Report \in Said1
  BY CodeIs DEF IInv
<1>2. cpu.next = next /\ cpu.at = at
  BY <1>1
<1>3. next # 3
  <2>1. next = 3 => IF_flag
    BY <1>1, <1>2 DEF HandlerStep, TimerTicks
  <2>2. next = 3 => ~IF_flag
    BY <1>1, <1>2 DEF IInv, HandlersFinal
  <2> QED
    BY <2>1, <2>2
<1>4. cpu' = [in |-> cpu.in, at |-> at, next |-> next + 1] /\ step' = step
  BY <1>1, <1>2, <1>3 DEF HandlerStep
<1>5. raised' = raised /\ (\A message : Told(message)' <=> Told(message))
  BY DEF HandlerStep, Told
<1>6. cpu' \in Bodies
  BY <1>1, <1>3, <1>4 DEF Bodies
<1>7. IF_flag' \in BOOLEAN /\ (IF_flag' <=> IF_flag /\ Code[next] # "cli")
  BY <1>2 DEF HandlerStep
<1>8. Report' = Report
  BY <1>2, <1>4 DEF Report
<1>9. /\ cpu'.next = 3 => ~IF_flag'
      /\ cpu'.in = "handler" /\ cpu'.next = 2 => ~IF_flag'
  <2>1. cpu.in = "handler" => ~IF_flag'
    <3>1. CASE next = 1
      BY <1>1, <1>7, <3>1
    <3>2. CASE next = 2
      BY <1>2, <1>7, <3>2 DEF IInv, HandlersFinal
    <3> QED
      BY <1>3, <3>1, <3>2
  <2>2. cpu.in = "panic" /\ next = 2 => ~IF_flag'
    BY <1>1, <1>7
  <2> QED
    BY <1>1, <1>3, <1>4, <2>1, <2>2
<1>10. CASE Code[next] # "call"
  <2>1. reports' = reports
    BY <1>2, <1>10 DEF HandlerStep
  <2>2. Types'
    BY <1>4, <1>5, <1>6, <1>7, <2>1 DEF IInv, Types
  <2>3. cpu'.next = 1 \/ (cpu'.in = "handler" /\ cpu'.next = 2) =>
          Len(reports') < Len(raised') /\ Told(Report)'
    <3>1. cpu'.next # 1
      BY <1>4
    <3>2. SUFFICES ASSUME cpu.in = "handler", next = 1
                   PROVE  Len(reports) < Len(raised) /\ Told(Report)'
      BY <1>3, <1>4, <1>5, <2>1, <3>1
    <3>3. Len(reports) < Len(raised) /\ Told(Report)
      BY <1>2, <3>2 DEF IInv, HandlersFinal
    <3> QED
      BY <1>5, <1>8, <3>3 DEF Told
  <2>4. HandlersFinal'
    BY <1>9, <2>3 DEF HandlersFinal
  <2> QED
    BY <1>5, <2>1, <2>2, <2>4 DEF IInv, PanicIsFinal, AllTold
<1>11. CASE Code[next] = "call"
  <2>0. next = first
    BY <1>1, <1>11
  <2>1. reports' = Append(reports, Report)
    BY <1>2, <1>11 DEF HandlerStep
  <2>2. reports \in Seq(Said1) /\ Report \in Said1
    BY <1>1 DEF IInv, Types
  <2>3. Len(reports) < Len(raised) /\ Told(Report)
    BY <1>1, <1>2, <2>0 DEF IInv, HandlersFinal
  <2> HIDE DEF Said1
  <2>4. /\ reports' \in Seq(Said1)
        /\ Len(reports') = Len(reports) + 1
        /\ \A n \in 1 .. Len(reports) : reports'[n] = reports[n]
        /\ reports'[Len(reports) + 1] = Report
        /\ DOMAIN reports = 1 .. Len(reports) /\ DOMAIN reports' = 1 .. Len(reports')
        /\ Len(reports) \in Nat
    BY <2>1, <2>2, AppendProperties, LenProperties
  <2>5. Types'
    BY <1>4, <1>5, <1>6, <1>7, <2>4 DEF IInv, Types, Said1
  <2>6. HandlersFinal'
    <3>1. cpu'.next = 2 \/ cpu'.next = 3
      BY <1>3, <1>4
    <3>2. cpu'.in = "handler" => cpu'.next = 3
      BY <1>4, <2>0
    <3> QED
      BY <1>9, <3>1, <3>2 DEF HandlersFinal
  <2>7. PanicIsFinal'
    <3>1. Len(raised) \in Nat
      BY LenProperties DEF IInv, Types
    <3> QED
      BY <1>5, <2>3, <2>4, <3>1 DEF PanicIsFinal
  <2>8. AllTold'
    BY <1>5, <2>3, <2>4 DEF IInv, AllTold
  <2> QED
    BY <2>5, <2>6, <2>7, <2>8 DEF IInv
<1> QED
  BY <1>10, <1>11

LEMMA IInvStep ==
  ASSUME IInv, [Next]_vars
  PROVE  IInv'
<1> USE DEF IInv
<1>1. ASSUME NEW name, At(name), name # "hlt"
      PROVE  cpu = InInit /\ Order[step] = name /\ step + 1 \in 1 .. 17
  BY <1>1, AtInit, Places DEF Types
<1>2. ASSUME NEW name, At(name), name # "hlt", Proceed, IF_flag' \in BOOLEAN
      PROVE  IInv'
  BY <1>1, <1>2, Quiet DEF Proceed, faults
<1>3. ASSUME NEW name, At(name), name # "hlt", ProceedAlone
      PROVE  IInv'
  <2>1. Proceed /\ IF_flag' = IF_flag /\ IF_flag \in BOOLEAN
    BY <1>3 DEF ProceedAlone, Types
  <2> QED
    BY <1>2, <1>3, <2>1
<1>4. ASSUME NEW name, At(name), name # "hlt", GoAstray
      PROVE  IInv'
  BY <1>1, <1>4, Quiet DEF GoAstray, faults, Types
<1>5. ASSUME NEW name, At(name), name \notin {"log_init", "gdt_load", "idt_install"}
      PROVE  "idt_install" \in up
  BY <1>5, AtInit, Places DEF Types
<1>6. ASSUME NEW name, At(name), name \notin {"log_init", "gdt_load", "idt_install"},
             Fault(13) \/ Fault(14)
      PROVE  IInv'
  BY <1>5, <1>6, Faulted
<1>7. CASE log_init
  <2>1. NullMapped
    BY <1>1, <1>7, Places DEF log_init, Types, NullMapped
  <2>2. CASE ProceedAlone
    BY <1>3, <1>7, <2>2 DEF log_init
  <2>3. CASE cpu' = Stuck /\ IF_flag' = FALSE /\ UNCHANGED <<smp, step, faults>>
    BY <2>3, Quiet DEF Types, faults
  <2> QED
    BY <1>7, <2>1, <2>2, <2>3 DEF log_init, Through
<1>8. CASE gdt_load
  <2>1. cs \div 8 + 1 = 6
    BY DEF cs
  <2>2. Segment(cs) = "code64"
    BY <2>1 DEF Segment, GDT
  <2> QED
    BY <1>2, <1>8, <2>2 DEF gdt_load
<1>9. CASE idt_install \/ pit_init \/ init_lapic \/ kheap_init
  BY <1>3, <1>9 DEF idt_install, pit_init, init_lapic, kheap_init, SetUp
<1>10. CASE pmm_init
  BY <1>3, <1>6, <1>10 DEF pmm_init, SetUp
<1>11. CASE vmm_init
  BY <1>3, <1>4, <1>6, <1>11 DEF vmm_init, SetUp
<1>12. CASE CheckRsdt
  BY <1>3, <1>6, <1>12, Panicked DEF CheckRsdt, Through
<1>13. CASE FindMadt
  BY <1>3, <1>6, <1>13, Panicked DEF FindMadt, Through
<1>14. CASE parse_madt
  <2>1. At("parse_madt") /\ (Fault(14) \/ (Proceed /\ IF_flag' = IF_flag))
    BY <1>14 DEF parse_madt, Through
  <2> QED
    BY <1>2, <1>6, <2>1 DEF Types
<1>15. CASE UseIoApic
  <2>1. PICK name \in {"ioapic_init", "setup_general_interrupts"} : At(name)
    BY <1>15 DEF UseIoApic
  <2>2. ProceedAlone \/ Fault(14) \/ GoAstray
    BY <1>15 DEF UseIoApic, Through
  <2> QED
    BY <1>3, <1>4, <1>6, <2>1, <2>2
<1>16. CASE cpu_detect_cores
  BY <1>2, <1>16 DEF cpu_detect_cores, Types
<1>17. CASE sti
  BY <1>2, <1>17 DEF sti
<1>18. CASE cpu_wakeup_cores
  BY <1>18, Still DEF cpu_wakeup_cores, faults
<1>19. CASE Return
  BY <1>2, <1>19 DEF Return, Types
<1>20. CASE HandlerStep
  BY <1>20, Handled
<1>21. CASE Deliver
  BY <1>21, Still DEF Deliver, faults
<1>22. ASSUME NEW vector \in Upsets, Upset(vector)
       PROVE  IInv'
  BY <1>22, UpsetsAssumption, Dispatched DEF Upset
<1>23. CASE UNCHANGED vars
  BY <1>23, Still DEF vars, faults
<1> QED
  BY <1>7, <1>8, <1>9, <1>10, <1>11, <1>12, <1>13, <1>14, <1>15, <1>16, <1>17, <1>18,
     <1>19, <1>20, <1>21, <1>22, <1>23 DEF Next, Kernel

LEMMA IInvInit == Init => IInv
<1> SUFFICES ASSUME Init
             PROVE  IInv
  OBVIOUS
<1>1. step = 1 /\ cpu = InInit /\ IF_flag = FALSE /\ raised = <<>> /\ reports = <<>>
  BY DEF Init
<1>2. Types
  <2>1. /\ raised \in Seq(Events)
        /\ reports \in Seq({cpu_panic(n) : n \in Nat} \union Complaints)
    <3>1. \A S : <<>> \in Seq(S)
      BY EmptySeq
    <3> QED
      BY <1>1, <3>1, Zenon
  <2>2. IF_flag \in BOOLEAN
    BY <1>1, Zenon
  <2>3. step \in 1 .. 17
    BY DEF Init
  <2>4. cpu \in {InInit, Stuck, Astray} \union Bodies
    BY <1>1, Zenon
  <2> QED
    BY <2>1, <2>2, <2>3, <2>4, Zenon DEF Types
<1>3. cpu.in = "init"
  BY <1>1 DEF InInit
<1>4. HandlersFinal
  BY <1>3 DEF HandlersFinal
<1>5. PanicIsFinal /\ AllTold
  BY <1>1 DEF PanicIsFinal, AllTold
<1> QED
  BY <1>2, <1>4, <1>5 DEF IInv

LEMMA Inductive == Spec => []IInv
BY IInvInit, IInvStep, PTL DEF Spec

-----------------------------------------------------------------------------
(* A panic is final: reports need events, whatever vectors fire. *)
THEOREM PanicsAreFinal == Spec => []PanicIsFinal
<1>1. IInv => PanicIsFinal
  BY DEF IInv
<1> QED
  BY <1>1, Inductive, PTL

(* Every report is about something that happened. *)
THEOREM OnlyTheTruth == Spec => []ReportsAreTrue
<1>1. IInv => ReportsAreTrue
  BY DEF IInv, AllTold, Told, Said, Named, Own, ReportsAreTrue
<1> QED
  BY <1>1, Inductive, PTL

-----------------------------------------------------------------------------
(* What a boot that is at position n of Order has found on its way. *)
Passed(m, n) ==
  /\ n > 1 => Tagged(m, "TERMINAL")
  /\ n > 7 => /\ Tagged(m, "RSDP")
              /\ m.rsdt.address # "NULL"
              /\ m.rsdt.sum % 256 = 0
  /\ n > 8 => \E k \in DOMAIN m.rsdt.tables : m.rsdt.tables[k] = "APIC"
  /\ n > 11 => io_apic_ptr(m) # NoIoApic

LEMMA Positions ==
  ASSUME NEW n \in 1 .. 17
  PROVE  /\ Order[n] = "log_init" <=> n = 1
         /\ Order[n] = "pmm_init" <=> n = 4
         /\ Order[n] = "vmm_init" <=> n = 5
         /\ Order[n] = "rsdt_is_valid" <=> n = 7
         /\ Order[n] = "get_madt" <=> n = 8
         /\ Order[n] = "parse_madt" <=> n = 9
         /\ Order[n] = "ioapic_init" <=> n = 11
         /\ Order[n] = "setup_general_interrupts" <=> n = 13
         /\ Order[n] = "sti" <=> n = 14
         /\ Order[n] = "kheap_init" <=> n = 16
         /\ Order[n] = "hlt" <=> n = 17
BY DEF Order

LEMMA NullUnmapped ==
  ASSUME step \in 7 .. 15
  PROVE  ~NullMapped
<1>1. Order[5] = "vmm_init" /\ 5 \in 1 .. step - 1
  BY Positions
<1>2. \A k \in 1 .. step - 1 : Order[k] # "kheap_init"
  BY Positions
<1> QED
  BY <1>1, <1>2 DEF NullMapped, up

LEMMA MachineStays == [Next]_vars => machine' = machine
<1>1. [Smp!Next]_(Smp!vars) => machine' = machine
  BY DEF Smp!Next, Smp!BootProcessor, Smp!vars, Smp!acpi, Smp!parse_madt,
         Smp!cpu_detect_cores, Smp!SendInit, Smp!pit_sleep, Smp!SendStartup, Smp!NextCore,
         Smp!Return, Smp!WriteIcrHi, Smp!WriteIcrLo, Smp!PollIcr, Smp!Deliver
<1> QED
  BY <1>1, StepOfWakeup

(* What was overwritten stays so. *)
LEMMA OverrunStays == [Next]_vars /\ Overrun => Overrun'
<1>1. [Smp!Next]_(Smp!vars) => DOMAIN acpi_cpuids \subseteq DOMAIN acpi_cpuids'
  BY DEF Smp!Next, Smp!BootProcessor, Smp!vars, Smp!acpi, Smp!parse_madt,
         Smp!cpu_detect_cores, Smp!SendInit, Smp!pit_sleep, Smp!SendStartup, Smp!NextCore,
         Smp!Return, Smp!WriteIcrHi, Smp!WriteIcrLo, Smp!PollIcr, Smp!Deliver
<1> QED
  BY <1>1, StepOfWakeup DEF Overrun

(* What a step of the boot may come to. *)
Goes ==
  /\ UNCHANGED <<step, cpu, IF_flag, upset, raised>>

Proceeds ==
  /\ cpu = InInit
  /\ UNCHANGED <<cpu, upset, raised>>
  /\ step' = step + 1
  /\ Passed(machine, step) => Passed(machine, step + 1)
  /\ IF_flag' => IF_flag \/ step = 14

Stops ==
  /\ cpu = InInit /\ cpu' # InInit
  /\ UNCHANGED <<step, upset>>
  /\ raised' = raised \/ \E e \in Events : raised' = Append(raised, e)
  /\ IF_flag' => IF_flag
  /\ ~Complete(machine)
  /\ cpu' = Astray => ~Tagged(machine, "MEMMAP") \/ ~OwnChip(machine)

StaysInHandler ==
  /\ cpu # InInit /\ cpu' \notin {InInit, Astray}
  /\ UNCHANGED <<step, upset, raised>>
  /\ IF_flag' => IF_flag

IsUpset ==
  /\ ~upset /\ upset' = TRUE
  /\ cpu' # InInit
  /\ UNCHANGED <<step, IF_flag>>
  /\ \E e \in Events : raised' = Append(raised, e)
  /\ cpu' = Astray => Overrun

LEMMA Faults ==
  ASSUME IInv, cpu = InInit, Fault(13) \/ Fault(14), "idt_install" \in up,
         ~Complete(machine)
  PROVE  Stops
<1>1. PICK v \in {13, 14} : Fault(v)
  OBVIOUS
<1>2. PICK k \in 1 .. 13 : Dispatch(v) = {Handler(k)}
  <2>1. v \in 0 .. 255 /\ v # 0
    OBVIOUS
  <2> QED
    BY <2>1, GatesAgree
<1>3. cpu' = Handler(k)
  BY <1>1, <1>2 DEF Fault
<1>4. cpu' # InInit /\ cpu' # Astray
  BY <1>3 DEF Handler, InInit, Astray
<1>5. Fired(v) \in Events
  BY DEF Events
<1>6. /\ raised' = Append(raised, Fired(v))
      /\ UNCHANGED <<step, IF_flag, upset>>
  BY <1>1 DEF Fault
<1> QED
  BY <1>4, <1>5, <1>6 DEF Stops

LEMMA Complains ==
  ASSUME cpu = InInit, NEW n \in 1 .. 2, panic(n), ~Complete(machine)
  PROVE  Stops
<1>1. PanicCall(Messages[n]) \in Events
  BY DEF Events, Complaints
<1>2. cpu' # InInit /\ cpu' # Astray
  BY DEF panic, Panic, InInit, Astray
<1> QED
  BY <1>1, <1>2 DEF panic, Stops

LEMMA StaysHandled ==
  ASSUME IInv, HandlerStep
  PROVE  StaysInHandler
<1>1. PICK at \in 1 .. 13, next \in 1 .. 3 :
           /\ cpu = [in |-> cpu.in, at |-> at, next |-> next]
           /\ cpu.in \in {"handler", "panic"}
           /\ Len(Code) = 3
           /\ Code[next] = "hlt" <=> next = 3
  BY CodeIs DEF IInv
<1>2. cpu.next = next
  BY <1>1
<1>3. next # 3
  <2>1. next = 3 => IF_flag
    BY <1>1, <1>2 DEF HandlerStep, TimerTicks
  <2>2. next = 3 => ~IF_flag
    BY <1>1, <1>2 DEF IInv, HandlersFinal
  <2> QED
    BY <2>1, <2>2
<1>4. cpu' = [in |-> cpu.in, at |-> at, next |-> next + 1] /\ step' = step
  BY <1>1, <1>2, <1>3 DEF HandlerStep
<1>5. cpu # InInit /\ cpu' # InInit /\ cpu' # Astray
  BY <1>1, <1>4 DEF InInit, Astray
<1>6. UNCHANGED <<upset, raised>> /\ (IF_flag' => IF_flag)
  BY DEF HandlerStep
<1> QED
  BY <1>4, <1>5, <1>6 DEF StaysInHandler

LEMMA Outcomes ==
  ASSUME IInv, [Next]_vars
  PROVE  Goes \/ Proceeds \/ Stops \/ StaysInHandler \/ IsUpset
<1>1. Types /\ step \in 1 .. 17
  BY DEF IInv, Types
<1>2. ASSUME NEW name, name # "hlt", At(name)
      PROVE  cpu = InInit /\ Order[step] = name
  BY <1>1, <1>2, AtInit
<1>3. ASSUME NEW name, At(name),
             name \notin {"log_init", "rsdt_is_valid", "get_madt", "ioapic_init", "hlt"},
             Proceed, IF_flag' => IF_flag \/ name = "sti"
      PROVE  Proceeds
  <2>1. cpu = InInit /\ step \notin {1, 7, 8, 11} /\ (name = "sti" => step = 14)
    BY <1>1, <1>2, <1>3, Positions
  <2>2. Passed(machine, step) => Passed(machine, step + 1)
    BY <1>1, <2>1 DEF Passed
  <2> QED
    BY <1>3, <2>1, <2>2 DEF Proceeds, Proceed, faults
<1>4. ASSUME NEW name, At(name), name # "hlt", ProceedAlone,
             Passed(machine, step) => Passed(machine, step + 1)
      PROVE  Proceeds
  BY <1>2, <1>4 DEF Proceeds, ProceedAlone, Proceed, faults
<1>5. ASSUME NEW name, At(name),
             name \notin {"log_init", "gdt_load", "idt_install", "hlt"},
             Fault(13) \/ Fault(14), ~Complete(machine)
      PROVE  Stops
  <2>1. cpu = InInit /\ "idt_install" \in up
    BY <1>1, <1>2, <1>5, Places
  <2> QED
    BY <1>5, <2>1, Faults
<1>6. ASSUME NEW name, At(name), name # "hlt", GoAstray, ~Complete(machine),
             ~Tagged(machine, "MEMMAP") \/ ~OwnChip(machine)
      PROVE  Stops
  BY <1>2, <1>6 DEF GoAstray, Stops, InInit, Astray, faults
<1>7. CASE log_init
  <2>1. step = 1 /\ cpu = InInit
    BY <1>1, <1>2, <1>7, Positions DEF log_init
  <2>2. NullMapped
    BY <1>1, <2>1, Places DEF NullMapped
  <2>3. CASE get_tag("TERMINAL") = "NULL"
    <3>1. cpu' = Stuck /\ IF_flag' = FALSE /\ UNCHANGED <<smp, step, faults>>
      BY <1>7, <2>2, <2>3 DEF log_init, Through
    <3>2. ~Complete(machine)
      BY <2>3 DEF get_tag, Complete, Bootable, Tagged
    <3> QED
      BY <2>1, <3>1, <3>2 DEF Stops, Stuck, Astray, InInit, faults
  <2>4. CASE get_tag("TERMINAL") # "NULL"
    <3>1. ProceedAlone
      BY <1>7, <2>2, <2>4 DEF log_init, Through
    <3>2. Tagged(machine, "TERMINAL")
      BY <2>4 DEF get_tag, Tagged
    <3>3. Passed(machine, step + 1)
      BY <2>1, <3>2 DEF Passed
    <3> QED
      BY <1>4, <1>7, <3>1, <3>3 DEF log_init
  <2> QED
    BY <2>3, <2>4
<1>8. CASE gdt_load
  <2>1. cs \div 8 + 1 = 6
    BY DEF cs
  <2>2. Segment(cs) = "code64"
    BY <2>1 DEF Segment, GDT
  <2> QED
    BY <1>3, <1>8, <2>2 DEF gdt_load
<1>9. ASSUME NEW name \in {"idt_install", "pmm_init", "vmm_init", "pit_init", "init_lapic",
                           "kheap_init"}, SetUp(name)
      PROVE  Proceeds
  BY <1>3, <1>9 DEF SetUp, ProceedAlone
<1>10. CASE pmm_init \/ vmm_init
  <2>1. SUFFICES ASSUME NEW name \in {"pmm_init", "vmm_init"}, At(name),
                        get_tag("MEMMAP") = "NULL", Fault(13) \/ Fault(14) \/ GoAstray
                 PROVE  Stops
    BY <1>9, <1>10 DEF pmm_init, vmm_init
  <2>2. ~Tagged(machine, "MEMMAP")
    BY <2>1 DEF get_tag, Tagged
  <2>3. ~Complete(machine)
    BY <2>2 DEF Complete
  <2> QED
    BY <1>5, <1>6, <2>1, <2>2, <2>3
<1>11. CASE CheckRsdt
  <2>1. step = 7 /\ cpu = InInit /\ At("rsdt_is_valid")
    BY <1>1, <1>2, <1>11, Positions DEF CheckRsdt
  <2>2. ~NullMapped
    BY <2>1, NullUnmapped
  <2>3. CASE get_tag("RSDP") = "NULL"
    <3>1. Fault(14)
      BY <1>11, <2>2, <2>3 DEF CheckRsdt, Through
    <3>2. ~Complete(machine)
      BY <2>3 DEF get_tag, Complete, Bootable, Tagged
    <3> QED
      BY <1>5, <2>1, <3>1, <3>2
  <2>4. CASE get_tag("RSDP") # "NULL" /\ ~rsdt_is_valid
    <3>1. panic(1)
      BY <1>11, <2>4 DEF CheckRsdt, Through
    <3>2. ~Complete(machine)
      BY <2>4 DEF rsdt_is_valid, Complete, Bootable
    <3> QED
      BY <2>1, <3>1, <3>2, Complains
  <2>5. CASE get_tag("RSDP") # "NULL" /\ rsdt_is_valid
    <3>1. ProceedAlone
      BY <1>11, <2>5 DEF CheckRsdt, Through
    <3>2. Passed(machine, step) => Passed(machine, step + 1)
      BY <2>1, <2>5 DEF Passed, get_tag, Tagged, rsdt_is_valid
    <3> QED
      BY <1>4, <2>1, <3>1, <3>2
  <2> QED
    BY <2>3, <2>4, <2>5
<1>12. CASE FindMadt
  <2>1. step = 8 /\ cpu = InInit /\ At("get_madt")
    BY <1>1, <1>2, <1>12, Positions DEF FindMadt
  <2>2. ~NullMapped
    BY <2>1, NullUnmapped
  <2>3. CASE machine.rsdt.address = "NULL"
    <3>1. Fault(14)
      BY <1>12, <2>2, <2>3 DEF FindMadt, Through
    <3>2. ~Complete(machine)
      BY <2>3 DEF Complete, Bootable
    <3> QED
      BY <1>5, <2>1, <3>1, <3>2
  <2>4. CASE machine.rsdt.address # "NULL" /\ get_madt = "NULL"
    <3>1. panic(2)
      BY <1>12, <2>4 DEF FindMadt, Through
    <3>2. ~Complete(machine)
      BY <2>4 DEF get_madt, strncmp, Complete, Bootable
    <3> QED
      BY <2>1, <3>1, <3>2, Complains
  <2>5. CASE machine.rsdt.address # "NULL" /\ get_madt # "NULL"
    <3>1. ProceedAlone
      BY <1>12, <2>5 DEF FindMadt, Through
    <3>2. Passed(machine, step) => Passed(machine, step + 1)
      BY <2>1, <2>5 DEF Passed, get_madt, strncmp
    <3> QED
      BY <1>4, <2>1, <3>1, <3>2
  <2> QED
    BY <2>3, <2>4, <2>5
<1>13. CASE parse_madt
  <2>1. step = 9 /\ At("parse_madt")
    BY <1>1, <1>2, <1>13, Positions DEF parse_madt
  <2>2. ~NullMapped
    BY <2>1, NullUnmapped
  <2>3. CASE get_madt = "NULL"
    <3>1. Fault(14)
      BY <1>13, <2>2, <2>3 DEF parse_madt, Through
    <3>2. ~Complete(machine)
      BY <2>3 DEF get_madt, strncmp, Complete, Bootable
    <3> QED
      BY <1>5, <2>1, <3>1, <3>2
  <2>4. CASE get_madt # "NULL"
    <3>1. Proceed /\ IF_flag' = IF_flag
      BY <1>13, <2>4 DEF parse_madt, Through
    <3> QED
      BY <1>3, <2>1, <3>1
  <2> QED
    BY <2>3, <2>4
<1>14. CASE UseIoApic
  <2>1. PICK name \in {"ioapic_init", "setup_general_interrupts"} : At(name)
    BY <1>14 DEF UseIoApic
  <2>2. step \in {11, 13}
    BY <1>1, <1>2, <2>1, Positions
  <2>3. ~NullMapped
    BY <2>2, NullUnmapped
  <2>4. CASE io_apic_ptr(machine) = NoIoApic
    <3>1. Fault(14)
      BY <1>14, <2>3, <2>4 DEF UseIoApic, Through
    <3>2. ~Complete(machine)
      BY <2>4 DEF Complete, Bootable
    <3> QED
      BY <1>5, <2>1, <3>1, <3>2
  <2>5. CASE io_apic_ptr(machine) # NoIoApic
    <3>1. ProceedAlone \/ (~OwnChip(machine) /\ (Fault(14) \/ GoAstray))
      BY <1>14, <2>5 DEF UseIoApic, Through
    <3>2. Passed(machine, step) => Passed(machine, step + 1)
      BY <2>2, <2>5 DEF Passed
    <3>3. ~OwnChip(machine) => ~Complete(machine)
      BY DEF Complete
    <3> QED
      BY <1>4, <1>5, <1>6, <2>1, <3>1, <3>2, <3>3
  <2> QED
    BY <2>4, <2>5
<1>15. CASE cpu_detect_cores
  BY <1>3, <1>15 DEF cpu_detect_cores
<1>16. CASE sti
  BY <1>3, <1>16 DEF sti
<1>17. CASE cpu_wakeup_cores
  BY <1>17 DEF cpu_wakeup_cores, Goes, faults
<1>18. CASE Return
  BY <1>3, <1>18 DEF Return
<1>19. CASE HandlerStep
  BY <1>19, StaysHandled
<1>20. CASE Deliver
  BY <1>20 DEF Deliver, Goes, faults
<1>21. ASSUME NEW vector \in Upsets, Upset(vector)
       PROVE  IsUpset
  <2>1. vector \in 0 .. 255
    BY UpsetsAssumption
  <2>2. PICK k \in 1 .. 13 : /\ Dispatch(vector) \subseteq {Handler(k), Astray}
                             /\ ~Overrun => Dispatch(vector) = {Handler(k)}
    BY <1>21, <2>1, GatesAgree DEF Upset
  <2>3. cpu' # InInit /\ (cpu' = Astray => Overrun)
    BY <1>21, <2>2 DEF Upset, Handler, InInit, Astray
  <2>4. Fired(vector) \in Events
    BY <2>1 DEF Events
  <2> QED
    BY <1>21, <2>3, <2>4 DEF Upset, IsUpset
<1>22. CASE UNCHANGED vars
  BY <1>22 DEF vars, Goes, faults
<1> QED
  BY <1>7, <1>8, <1>9, <1>10, <1>11, <1>12, <1>13, <1>14, <1>15, <1>16, <1>17, <1>18,
     <1>19, <1>20, <1>21, <1>22
     DEF Next, Kernel, idt_install, pit_init, init_lapic, kheap_init

-----------------------------------------------------------------------------
(* Interrupts are on only behind sti, and a boot that got somewhere has    *)
(* found what the calls on its way look for.                               *)
Progress ==
  /\ machine \in Machines
  /\ Passed(machine, step)
  /\ IF_flag => step > 14

(* In init nothing has happened yet.  What happens takes the processor out *)
(* of it for good: one fault or panic of the boot's own, and one upset.    *)
Alone ==
  /\ upset \in BOOLEAN
  /\ cpu = InInit => raised = <<>> /\ ~upset
  /\ Len(raised) <= IF upset THEN 2 ELSE 1

(* Nothing but an upset takes a complete machine out of init. *)
GoesOn == Complete(machine) /\ ~upset => cpu = InInit

(* The processor leaves the code only where it was led out of it. *)
Led ==
  cpu = Astray => ~(Tagged(machine, "MEMMAP") /\ OwnChip(machine) /\ ~Overrun)

LEMMA ProgressStep ==
  ASSUME IInv, Progress, [Next]_vars
  PROVE  Progress'
<1>1. machine' = machine
  BY MachineStays
<1>2. step \in 1 .. 17
  BY DEF IInv, Types
<1>3. CASE Goes \/ Stops \/ StaysInHandler \/ IsUpset
  BY <1>1, <1>3 DEF Goes, Stops, StaysInHandler, IsUpset, Progress, Passed
<1>4. CASE Proceeds
  <2>1. Passed(machine, step)'
    BY <1>1, <1>4 DEF Proceeds, Progress, Passed
  <2> QED
    BY <1>1, <1>2, <1>4, <2>1 DEF Proceeds, Progress
<1> QED
  BY <1>3, <1>4, Outcomes

LEMMA AloneStep ==
  ASSUME IInv, Alone, [Next]_vars
  PROVE  Alone'
<1>1. raised \in Seq(Events) /\ Len(raised) \in Nat
  BY LenProperties DEF IInv, Types
<1>2. \A e \in Events : Len(Append(raised, e)) = Len(raised) + 1
  BY <1>1, AppendProperties
<1>3. cpu = InInit => Len(raised) = 0
  BY EmptySeq DEF Alone
<1>4. CASE Goes \/ Proceeds \/ StaysInHandler
  BY <1>4 DEF Goes, Proceeds, StaysInHandler, Alone
<1>5. CASE Stops
  <2>1. cpu' # InInit /\ upset' = upset /\ Len(raised) = 0
    BY <1>3, <1>5 DEF Stops
  <2>2. Len(raised') = 0 \/ Len(raised') = 1
    BY <1>2, <1>5, <2>1 DEF Stops
  <2>3. upset' \in BOOLEAN
    BY <2>1, Zenon DEF Alone
  <2>4. Len(raised') <= IF upset' THEN 2 ELSE 1
    BY <2>2
  <2> QED
    BY <2>1, <2>3, <2>4, Zenon DEF Alone
<1>6. CASE IsUpset
  BY <1>1, <1>2, <1>6 DEF IsUpset, Alone
<1> QED
  BY <1>4, <1>5, <1>6, Outcomes

LEMMA GoesOnStep ==
  ASSUME IInv, GoesOn, [Next]_vars
  PROVE  GoesOn'
<1>1. machine' = machine
  BY MachineStays
<1>2. Complete(machine') = Complete(machine)
  BY <1>1
<1> QED
  BY <1>2, Outcomes DEF GoesOn, Goes, Proceeds, Stops, StaysInHandler, IsUpset

LEMMA LedStep ==
  ASSUME IInv, Led, [Next]_vars
  PROVE  Led'
<1>1. machine' = machine /\ (Overrun => Overrun')
  BY MachineStays, OverrunStays
<1>2. /\ Tagged(machine', "MEMMAP") = Tagged(machine, "MEMMAP")
      /\ OwnChip(machine') = OwnChip(machine)
  BY <1>1
<1>3. InInit # Astray
  BY DEF InInit, Astray
<1> QED
  BY <1>1, <1>2, <1>3, Outcomes DEF Led, Goes, Proceeds, Stops, StaysInHandler, IsUpset

LEMMA BootProgresses == Spec => [](IInv /\ Progress /\ Alone /\ GoesOn /\ Led)
<1>1. Init => Progress /\ Alone /\ GoesOn /\ Led
  <2> SUFFICES ASSUME Init
               PROVE  Progress /\ Alone /\ GoesOn /\ Led
    OBVIOUS
  <2>1. machine \in Machines
    BY DEF Init, Smp!Init
  <2>2. step = 1 /\ cpu = InInit /\ IF_flag = FALSE /\ upset = FALSE /\ raised = <<>>
    BY DEF Init
  <2>3. Passed(machine, step)
    BY <2>2 DEF Passed
  <2>4. Len(raised) = 0
    BY <2>2, EmptySeq
  <2>5. upset \in BOOLEAN
    BY <2>2, Zenon
  <2>6. Len(raised) <= IF upset THEN 2 ELSE 1
    BY <2>4
  <2>7. Progress
    BY <2>1, <2>2, <2>3 DEF Progress
  <2>8. Led
    BY <2>2 DEF Led, InInit, Astray
  <2> QED
    BY <2>2, <2>5, <2>6, <2>7, <2>8, Zenon DEF Alone, GoesOn
<1>2. /\ IInv /\ Progress /\ Alone /\ GoesOn /\ Led
      /\ [Next]_vars
      => (Progress /\ Alone /\ GoesOn /\ Led)'
  BY ProgressStep, AloneStep, GoesOnStep, LedStep
<1> QED
  BY <1>1, <1>2, Inductive, PTL DEF Spec

(* Type correctness: in particular at most two events are ever recorded,   *)
(* one of the boot's own and one upset, and at most as many reports.       *)
THEOREM TypeCorrect == Spec => []TypeOK
<1>1. Spec => []Smp!TypeOK
  BY WakeupTypes, BootImplementsWakeup
<1>2. IInv /\ Alone /\ Smp!TypeOK => TypeOK
  <2> SUFFICES ASSUME IInv, Alone, Smp!TypeOK
               PROVE  TypeOK
    OBVIOUS
  <2>1. /\ DOMAIN Order = 1 .. 17 /\ DOMAIN Text = 1 .. 13 /\ DOMAIN kpanic = 1 .. 3
        /\ DOMAIN Messages = 1 .. 2 /\ DOMAIN panic_body = 1 .. 3
    BY DEF Order, Text, kpanic, Messages, panic_body
  <2>2. Len(raised) \in Nat /\ Len(reports) \in Nat
    BY LenProperties DEF IInv, Types
  <2>3. Len(raised) <= 2 /\ Len(reports) <= 2
    BY <2>2 DEF IInv, Alone, PanicIsFinal
  <2>4. cpu \in {InInit, Stuck, Reset, Astray}
                  \union [in : {"handler"}, at : DOMAIN Text, next : DOMAIN kpanic]
                  \union [in : {"panic"}, at : DOMAIN Messages, next : DOMAIN panic_body]
    <3>1. cpu \in {InInit, Stuck, Astray} \union Bodies
      BY DEF IInv, Types
    <3> QED
      BY <2>1, <3>1 DEF Bodies
  <2> QED
    BY <2>1, <2>3, <2>4 DEF IInv, Types, Alone, TypeOK
<1> QED
  BY <1>1, <1>2, BootProgresses, PTL

(* No exception finds the tables unusable, on any machine, and the         *)
(* processor leaves the code only where it was led out of it.              *)
THEOREM NoReset == Spec => []NeverResets
<1>1. IInv /\ Led => NeverResets
  BY DEF IInv, Types, Bodies, Led, NeverResets, Reset, InInit, Stuck, Astray
<1> QED
  BY <1>1, BootProgresses, PTL

(* A machine that lacks a table the boot looks for never runs with         *)
(* interrupts on.                                                          *)
THEOREM IncompleteStops == Spec => []IncompleteMachineStops
<1>1. IInv /\ Progress => IncompleteMachineStops
  <2> SUFFICES ASSUME IInv, Progress, IF_flag
               PROVE  Bootable(machine)
    BY DEF IncompleteMachineStops
  <2>1. step \in 15 .. 17 /\ Passed(machine, step)
    BY DEF IInv, Types, Progress
  <2> QED
    BY <2>1 DEF Passed, Bootable
<1> QED
  BY <1>1, BootProgresses, PTL

(* A complete machine on which nothing fires gets through its boot without *)
(* an exception, a panic or a halt, and never leaves the code.  Whether it *)
(* gets to the end is liveness: that its sleeps end needs the timer to be  *)
(* routed to it.                                                           *)
THEOREM CompleteBoots == Spec => []CompleteMachineBoots
<1>1. Alone /\ GoesOn => CompleteMachineBoots
  <2> SUFFICES ASSUME Alone, GoesOn, Complete(machine), ~upset
               PROVE  raised = <<>> /\ ~Halted /\ cpu # Astray
    BY DEF CompleteMachineBoots
  <2>1. cpu = InInit
    BY DEF GoesOn
  <2> QED
    BY <2>1 DEF Alone, Halted, InInit, Stuck, Astray
<1> QED
  BY <1>1, BootProgresses, PTL
=============================================================================
