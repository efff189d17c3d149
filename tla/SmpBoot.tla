------------------------------ MODULE SmpBoot -------------------------------
(***************************************************************************)
(* Waking the other cores: cpu_wakeup_cores (cpu/smp.c) sends INIT and     *)
(* STARTUP through the interrupt command register of the boot processor's  *)
(* local APIC (pic/lapic.c), to the identifiers parse_madt (acpi/acpi.c)   *)
(* collected.                                                              *)
(*                                                                         *)
(* The register has two halves, written one after the other.  The write of *)
(* the low half sends; the local APIC delivers some time later, and shows  *)
(* the send as pending until then.  pit_sleep is a step that ends (module  *)
(* Timer shows that it does).                                              *)
(***************************************************************************)
EXTENDS Madt

CONSTANTS
  Stray  \* what the bytes behind acpi_cpuids may hold

VARIABLES
  machine,
  ncores,
  acpi_cpuids,
  pc,          \* where cpu_wakeup_cores is
  i,           \* its outer loop
  j,           \* its inner loop
  call,        \* the lapic_send_* it is in, or Idle
  icr,         \* the interrupt command register
  pending,     \* its delivery status
  core,        \* what each core is doing, by APIC ID
  inits        \* history: INITs delivered, by APIC ID

acpi == <<machine, ncores, acpi_cpuids>>
lapic == <<icr, pending>>
cores == <<core, inits>>
vars == <<acpi, pc, i, j, call, lapic, cores>>

Idle == [at |-> "idle", dest |-> 0, mode |-> "NONE", shorthand |-> "NONE"]

lapic_send_startup_ToDest(id) ==
  [at |-> "hi", dest |-> id, mode |-> "STARTUP", shorthand |-> "NONE"]

lapic_send_init(id) ==
  [at |-> "hi", dest |-> id, mode |-> "INIT", shorthand |-> "NONE"]

(* ICR_SELF is a destination shorthand: it overrides the high half.        *)
lapic_send_startup(id) ==
  [at |-> "hi", dest |-> id, mode |-> "STARTUP", shorthand |-> "SELF"]

-----------------------------------------------------------------------------
(* The write to acpi_cpuids does not stop at the end of the array: a       *)
(* seventeenth ID lands in the byte behind it, of another variable.        *)
parse_madt ==
  /\ pc = "parse"
  /\ LET stored == StoredIds(machine)
     IN  acpi_cpuids' = [k \in DOMAIN acpi_cpuids \union DOMAIN stored |->
                           IF k \in DOMAIN stored THEN stored[k] ELSE acpi_cpuids[k]]
  /\ pc' = "detect"
  /\ UNCHANGED <<machine, ncores, i, j, call, lapic, cores>>

cpu_detect_cores ==
  /\ pc = "detect"
  /\ ncores' = CoreCount(machine)
  /\ pc' = "init"
  /\ UNCHANGED <<machine, acpi_cpuids, i, j, call, lapic, cores>>

(* acpi_cpuids[k].  Behind the array lie other variables: what parse_madt  *)
(* stored there may have been overwritten.                                 *)
IdAt(k) ==
  {acpi_cpuids[n] : n \in {k} \intersect DOMAIN acpi_cpuids}
    \union (IF k < MAX_NEEDED_CORES THEN {} ELSE Stray)

(* The comparison with lapic_get_id. *)
IsOther(id) == id # machine.bsp

(* The outer loop sends INIT to one core, then sleeps. *)
SendInit ==
  /\ pc = "init"
  /\ i < ncores
  /\ \E id \in IdAt(i) :
       call' = IF IsOther(id) THEN lapic_send_init(id) ELSE Idle
  /\ pc' = "rest"
  /\ UNCHANGED <<acpi, i, j, lapic, cores>>

pit_sleep ==
  /\ pc = "rest"
  /\ call = Idle
  /\ pc' = "startup"
  /\ j' = 0
  /\ UNCHANGED <<acpi, i, call, lapic, cores>>

(* The inner loop sends STARTUP to every core, those whose INIT is still   *)
(* to come included.                                                       *)
SendStartup ==
  /\ pc = "startup"
  /\ call = Idle
  /\ j < ncores
  /\ \E id \in IdAt(j) :
       call' = IF IsOther(id) THEN lapic_send_startup(id) ELSE Idle
  /\ j' = j + 1
  /\ UNCHANGED <<acpi, pc, i, lapic, cores>>

NextCore_SharedIndex ==
  /\ pc = "startup"
  /\ call = Idle
  /\ j = ncores
  /\ i' = j + 1
  /\ pc' = "init"
  /\ UNCHANGED <<acpi, j, call, lapic, cores>>

(* The second pit_sleep closes the outer loop's body. *)
NextCore ==
  /\ pc = "startup"
  /\ call = Idle
  /\ j = ncores
  /\ i' = i + 1
  /\ pc' = "init"
  /\ UNCHANGED <<acpi, j, call, lapic, cores>>

Return ==
  /\ pc = "init"
  /\ i >= ncores
  /\ pc' = "done"
  /\ UNCHANGED <<acpi, i, j, call, lapic, cores>>

WriteIcrHi ==
  /\ call.at = "hi"
  /\ icr' = [icr EXCEPT !.dest = call.dest]
  /\ call' = [call EXCEPT !.at = "lo"]
  /\ UNCHANGED <<acpi, pc, i, j, pending, cores>>

WriteIcrLo ==
  /\ call.at = "lo"
  /\ icr' = [icr EXCEPT !.mode = call.mode, !.shorthand = call.shorthand]
  /\ pending' = TRUE
  /\ call' = [call EXCEPT !.at = "wait"]
  /\ UNCHANGED <<acpi, pc, i, j, cores>>

Sent_Always == TRUE
Sent_WrongTest == pending

(* The condition that ends while (ICRLO & ICR_SEND_PENDING). *)
Sent == ~pending

PollIcr ==
  /\ call.at = "wait"
  /\ Sent
  /\ call' = Idle
  /\ UNCHANGED <<acpi, pc, i, j, lapic, cores>>

(* The local APIC delivers.  A core obeys STARTUP only when an INIT has    *)
(* made it wait for one.                                                   *)
Receivers ==
  (IF icr.shorthand = "SELF" THEN {machine.bsp} ELSE {icr.dest})
    \intersect DOMAIN core

Deliver ==
  /\ pending
  /\ pending' = FALSE
  /\ core' = [c \in DOMAIN core |->
                IF c \notin Receivers THEN core[c]
                ELSE IF icr.mode = "INIT" THEN "waiting"
                ELSE IF core[c] = "waiting" THEN "running" ELSE core[c]]
  /\ inits' = [c \in DOMAIN core |->
                 IF c \in Receivers /\ icr.mode = "INIT"
                 THEN inits[c] + 1 ELSE inits[c]]
  /\ UNCHANGED <<acpi, pc, i, j, call, icr>>

-----------------------------------------------------------------------------
Init ==
  /\ machine \in Machines
  /\ ncores = 0
  /\ acpi_cpuids = [k \in 0 .. MAX_NEEDED_CORES - 1 |-> 0]
  /\ pc = "parse"
  /\ i = 0
  /\ j = 0
  /\ call = Idle
  /\ icr = [dest |-> 0, mode |-> "NONE", shorthand |-> "NONE"]
  /\ pending = FALSE
  /\ core = [c \in ApicIds(machine) |->
               IF c = machine.bsp THEN "running" ELSE "parked"]
  /\ inits = [c \in ApicIds(machine) |-> 0]

BootProcessor ==
  \/ parse_madt \/ cpu_detect_cores \/ SendInit \/ pit_sleep \/ SendStartup \/ NextCore
  \/ Return \/ WriteIcrHi \/ WriteIcrLo \/ PollIcr

Next == BootProcessor \/ Deliver

Spec == Init /\ [][Next]_vars

-----------------------------------------------------------------------------
TypeOK ==
  /\ machine \in Machines
  /\ ncores \in 0 .. 255
  /\ acpi_cpuids \in [0 .. MAX_NEEDED_CORES - 1 -> Byte]
                     \union [0 .. MAX_NEEDED_CORES -> Byte]
  /\ pc \in {"parse", "detect", "init", "rest", "startup", "done"}
  /\ i \in 0 .. ncores
  /\ j \in 0 .. ncores
  /\ call.at \in {"idle", "hi", "lo", "wait"}
  /\ icr.dest \in 0 .. 255
  /\ pending \in BOOLEAN
  /\ core \in [ApicIds(machine) -> {"parked", "waiting", "running"}]
  /\ inits \in [ApicIds(machine) -> Nat]

(* No half of the command register changes while the previous command is   *)
(* still being delivered: it would be delivered to the wrong core or as    *)
(* the wrong command.                                                      *)
CommandsDoNotMix == [][icr' # icr => ~pending]_vars

(* The table is walked three times, to ends that differ: parse_madt goes   *)
(* four times as far as cpu_detect_cores.  Whatever follows the table, the *)
(* cores that are counted are a prefix of those that were stored, as far   *)
(* as the array reaches.                                                   *)
CountedAreStored ==
  pc \notin {"parse", "detect"} =>
    0 .. ncores - 1 \subseteq
      DOMAIN StoredIds(machine) \union MAX_NEEDED_CORES .. 255

(* The boot processor never has an INIT, which would reset it.  When       *)
(* cpu_wakeup_cores returns, each of the other cores has had exactly one   *)
(* (smp.c, line 59), though the nested loops share the list and the name   *)
(* of their index, if processor and APIC IDs agree.                        *)
EachCoreInitOnce ==
  /\ inits[machine.bsp] = 0
  /\ (pc = "done" /\ IdsAreApicIds(machine)) =>
       \A c \in DOMAIN inits \ {machine.bsp} : inits[c] = 1

(* The message of kernel.c, line 116, logged when cpu_wakeup_cores has     *)
(* returned: all cores are now active.                                     *)
AllCoresActive ==
  pc = "done" => \A c \in DOMAIN core : core[c] = "running"
=============================================================================
