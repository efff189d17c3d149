----------------------------- MODULE KernelBoot -----------------------------
(***************************************************************************)
(* The boot of the kernel: init and _start (kernel.c) call every other     *)
(* component in a fixed order, acpi_init (acpi/acpi.c) in the middle of    *)
(* it.  What a step may rely on was set up by an earlier one: the NULL     *)
(* page is unmapped by vmm_init and mapped again by kheap_init, ticks      *)
(* arrive only once the timer, the local APIC, its route and sti are all   *)
(* there, and exceptions end in the handlers of exceptions.asm, through    *)
(* gates that select a segment of GDT.asm.                                 *)
(*                                                                         *)
(* Waking the cores is module SmpBoot, step by step.  Memory, page tables, *)
(* timer, routing and heap have modules of their own and are one step each *)
(* here.  A machine is what the boot loader and the firmware hand over.    *)
(*                                                                         *)
(* Some of what they hand over makes the code write where it should not:   *)
(* the model follows it up to that store, and then the processor either    *)
(* goes on as before, faults, or goes astray and is followed no further.   *)
(***************************************************************************)
EXTENDS Madt

CONSTANTS
  Stray,  \* what the bytes behind acpi_cpuids may hold
  Upsets  \* vectors that may fire at any time: NMI, exceptions, spurious

ASSUME UpsetsAssumption == Upsets \subseteq 0 .. 255
ASSUME StrayAssumption == Stray \subseteq Byte

VARIABLES
  machine, ncores, acpi_cpuids, pc, i, j, call, icr, pending, core, inits,
  step,     \* the position of init in Order
  cpu,      \* what the boot processor executes
  IF_flag,
  upset,    \* has a vector of Upsets fired?  (bound: once)
  raised,   \* history: vectors raised and calls of panic
  reports   \* history: what was printed

Smp == INSTANCE SmpBoot

smp == <<machine, ncores, acpi_cpuids, pc, i, j, call, icr, pending, core, inits>>
faults == <<upset, raised, reports>>
vars == <<smp, step, cpu, IF_flag, faults>>

-----------------------------------------------------------------------------
Order_PitLate ==
  <<"log_init", "gdt_load", "idt_install", "pmm_init", "vmm_init",
    "rsdt_is_valid", "get_madt", "parse_madt", "init_lapic", "ioapic_init",
    "cpu_detect_cores", "setup_general_interrupts", "sti",
    "cpu_wakeup_cores", "pit_init", "kheap_init", "hlt">>

(* The calls of init, those of acpi_init inlined, and the loop of _start.  *)
Order ==
  <<"log_init", "gdt_load", "idt_install", "pmm_init", "vmm_init", "pit_init",
    "rsdt_is_valid", "get_madt", "parse_madt", "init_lapic", "ioapic_init",
    "cpu_detect_cores", "setup_general_interrupts", "sti",
    "cpu_wakeup_cores", "kheap_init", "hlt">>

up == {Order[k] : k \in 1 .. step - 1}

At(name) == cpu.in = "init" /\ Order[step] = name

get_tag_StopsEarly(id) ==
  IF \E k \in 1 .. Len(machine.tags) - 1 : machine.tags[k] = id
  THEN "tag" ELSE "NULL"

(* The list of tags ends at a NULL link. *)
get_tag(id) ==
  IF \E k \in DOMAIN machine.tags : machine.tags[k] = id THEN "tag" ELSE "NULL"

rsdt_is_valid_AnySum == machine.rsdt.address # "NULL"

rsdt_is_valid ==
  /\ machine.rsdt.address # "NULL"
  /\ machine.rsdt.sum % 256 = 0

(* Unlike the C library's, it answers whether the strings are equal. *)
strncmp(s1, s2) == s1 = s2

get_madt ==
  IF \E k \in DOMAIN machine.rsdt.tables : strncmp(machine.rsdt.tables[k], "APIC")
  THEN "madt" ELSE "NULL"

NullMapped == "vmm_init" \notin up \/ "kheap_init" \in up

(* Vector 0x20 arrives and returns (module Timer), if the entry that        *)
(* setup_general_interrupts writes brings it here (module IoApic).         *)
TimerTicks ==
  /\ IF_flag
  /\ TimerReaches(machine)
  /\ {"idt_install", "pit_init", "init_lapic", "setup_general_interrupts"} \subseteq up

-----------------------------------------------------------------------------
GDT_Short == <<"null", "code16", "data16", "code32", "data32", "data64">>
GDT == <<"null", "code16", "data16", "code32", "data32", "code64", "data64">>

(* The code selector of every gate, and the one gdt_load returns to. *)
cs == 40
Segment(selector) == GDT[selector \div 8 + 1]

exceptions_Dense ==
  <<"div0_handler", "debug_exception", "breakpoint_exception",
    "overflow_exception", "boundrange_exceeded_exception",
    "invalid_opcode_exception", "dev_not_avail_exception", "double_fault",
    "general_protection_fault", "invalid_tss_exception", "segment_not_present",
    "stack_segment_fault", "general_protection_fault", "page_fault", "page_fault">>

(* The handlers of vectors 0 to 0xE. *)
exceptions ==
  <<"div0_handler", "debug_exception", "general_protection_fault",
    "breakpoint_exception", "overflow_exception",
    "boundrange_exceeded_exception", "invalid_opcode_exception",
    "dev_not_avail_exception", "double_fault", "general_protection_fault",
    "invalid_tss_exception", "segment_not_present", "stack_segment_fault",
    "general_protection_fault", "page_fault">>

(* The handlers in the order of their code, and what each tells cpu_panic. *)
Text ==
  <<[label |-> "div0_handler", says |-> 0], [label |-> "debug_exception", says |-> 1],
    [label |-> "breakpoint_exception", says |-> 3],
    [label |-> "overflow_exception", says |-> 4],
    [label |-> "boundrange_exceeded_exception", says |-> 5],
    [label |-> "invalid_opcode_exception", says |-> 6],
    [label |-> "dev_not_avail_exception", says |-> 7],
    [label |-> "double_fault", says |-> 8],
    [label |-> "invalid_tss_exception", says |-> 10],
    [label |-> "segment_not_present", says |-> 11],
    [label |-> "stack_segment_fault", says |-> 12],
    [label |-> "general_protection_fault", says |-> 13],
    [label |-> "page_fault", says |-> 14]>>

kpanic_NoCli == <<"nop", "call", "hlt">>

(* The body of a handler.  Nothing follows the hlt: should it end, the     *)
(* next handler's code runs.                                               *)
kpanic == <<"cli", "call", "hlt">>

(* The body of panic, which returns should its hlt end. *)
panic_body == <<"call", "cli", "hlt">>

Messages == <<"RSDT checksum invalid!", "Could not locate MADT!">>

(* The names cpu_panic prints. *)
cpu_panic(vector) ==
  CASE vector = 0 -> "Divide Error"
    [] vector = 1 -> "Debug Exception"
    [] vector = 3 -> "Breakpoint Exception"
    [] vector = 4 -> "Overflow Exception"
    [] vector = 5 -> "Boundrange Exceeded"
    [] vector = 6 -> "Invalid Opcode"
    [] vector = 7 -> "Device Not Avl"
    [] vector = 8 -> "Double Fault"
    [] vector = 10 -> "Invalid TSS"
    [] vector = 11 -> "Segment Not Present"
    [] vector = 12 -> "Stack Segment Fault"
    [] vector = 13 -> "General Protection Fault"
    [] vector = 14 -> "Page Fault"
    [] OTHER -> "Unknown Fault"

InInit == [in |-> "init", at |-> 0, next |-> 0]
Stuck == [in |-> "stuck", at |-> 0, next |-> 0]
Reset == [in |-> "reset", at |-> 0, next |-> 0]
Astray == [in |-> "astray", at |-> 0, next |-> 0]
Handler(k) == [in |-> "handler", at |-> k, next |-> 1]
Panic(n) == [in |-> "panic", at |-> n, next |-> 1]

(* The seventeenth store of parse_madt: the byte behind acpi_cpuids may be *)
(* the first of idt, which is part of where the gate of vector 0 leads.    *)
Overrun == MAX_NEEDED_CORES \in DOMAIN acpi_cpuids

(* Where the gate of a vector leads.  A vector without one becomes a       *)
(* general protection fault; without usable gates at all the machine       *)
(* resets.                                                                 *)
Dispatch(vector) ==
  LET v == IF vector + 1 \in DOMAIN exceptions THEN vector ELSE 13
      handler == CHOOSE k \in DOMAIN Text : Text[k].label = exceptions[v + 1]
  IN  IF "idt_install" \in up /\ Segment(cs) = "code64"
      THEN {Handler(handler)} \union (IF v = 0 /\ Overrun THEN {Astray} ELSE {})
      ELSE {Reset}

Fired(v) == [kind |-> "vector", of |-> v]
PanicCall(message) == [kind |-> "panic", of |-> message]

Fault(vector) ==
  /\ cpu' \in Dispatch(vector)
  /\ raised' = Append(raised, Fired(vector))
  /\ UNCHANGED <<smp, step, IF_flag, upset, reports>>

panic(n) ==
  /\ cpu' = Panic(n)
  /\ raised' = Append(raised, PanicCall(Messages[n]))
  /\ UNCHANGED <<smp, step, IF_flag, upset, reports>>

GoAstray ==
  /\ cpu' = Astray
  /\ UNCHANGED <<smp, step, IF_flag, faults>>

(* A step reads through a pointer: it goes on unless that is NULL and the  *)
(* NULL page is not mapped.                                                *)
Through(pointer, Rest) ==
  IF pointer = "NULL" /\ ~NullMapped THEN Fault(14) ELSE Rest

Proceed ==
  /\ step' = step + 1
  /\ UNCHANGED <<cpu, faults>>

ProceedAlone == Proceed /\ UNCHANGED <<smp, IF_flag>>

-----------------------------------------------------------------------------
(* The terminal's tag is read before it is checked, while NULL is mapped.  *)
log_init ==
  /\ At("log_init")
  /\ Through(get_tag("TERMINAL"),
       IF get_tag("TERMINAL") = "NULL"
       THEN /\ cpu' = Stuck
            /\ IF_flag' = FALSE
            /\ UNCHANGED <<smp, step, faults>>
       ELSE ProceedAlone)

gdt_load ==
  /\ At("gdt_load")
  /\ IF_flag' = FALSE
  /\ IF Segment(cs) = "code64" THEN Proceed /\ UNCHANGED smp
     ELSE cpu' = Reset /\ UNCHANGED <<smp, step, faults>>

(* Components that are one step here. *)
SetUp(name) ==
  /\ At(name)
  /\ ProceedAlone

idt_install == SetUp("idt_install")
pit_init == SetUp("pit_init")
init_lapic == SetUp("init_lapic")
kheap_init == SetUp("kheap_init")

(* The memory map's tag is not checked, and NULL is still mapped: without  *)
(* one, what lies at address 0 is taken for the map.  Its count of regions *)
(* may lead the loop out of what is mapped.                                *)
pmm_init ==
  \/ SetUp("pmm_init")
  \/ At("pmm_init") /\ get_tag("MEMMAP") = "NULL" /\ Fault(14)

(* pmm_allocz clears a page.  Of a map that is none, that page is anywhere:*)
(* not mapped, not an address at all, or what it holds is in use.          *)
vmm_init ==
  \/ SetUp("vmm_init")
  \/ /\ At("vmm_init")
     /\ get_tag("MEMMAP") = "NULL"
     /\ Fault(13) \/ Fault(14) \/ GoAstray

(* acpi_init, up to its second check.  Should panic return, it goes on.    *)
CheckRsdt ==
  /\ At("rsdt_is_valid")
  /\ Through(get_tag("RSDP"), IF rsdt_is_valid THEN ProceedAlone ELSE panic(1))

FindMadt ==
  /\ At("get_madt")
  /\ Through(machine.rsdt.address,
             IF get_madt # "NULL" THEN ProceedAlone ELSE panic(2))

parse_madt ==
  /\ At("parse_madt")
  /\ Through(get_madt, Smp!parse_madt /\ Proceed /\ UNCHANGED IF_flag)

(* Both write through io_apic_ptr, which may come from behind the table.   *)
UseIoApic ==
  /\ At("ioapic_init") \/ At("setup_general_interrupts")
  /\ Through(IF io_apic_ptr(machine) = NoIoApic THEN "NULL" ELSE "chip",
             \/ ProceedAlone
             \/ ~OwnChip(machine) /\ (Fault(14) \/ GoAstray))

cpu_detect_cores ==
  /\ At("cpu_detect_cores")
  /\ Smp!cpu_detect_cores
  /\ Proceed
  /\ UNCHANGED IF_flag

sti ==
  /\ At("sti")
  /\ IF_flag' = TRUE
  /\ Proceed
  /\ UNCHANGED smp

(* The steps of cpu_wakeup_cores; its two sleeps need ticks to end. *)
cpu_wakeup_cores ==
  /\ At("cpu_wakeup_cores")
  /\ \/ Smp!SendInit \/ Smp!SendStartup
     \/ Smp!WriteIcrHi \/ Smp!WriteIcrLo \/ Smp!PollIcr
     \/ (Smp!pit_sleep \/ Smp!NextCore) /\ TimerTicks
  /\ UNCHANGED <<step, cpu, IF_flag, faults>>

Return ==
  /\ At("cpu_wakeup_cores")
  /\ Smp!Return
  /\ Proceed
  /\ UNCHANGED IF_flag

Code == IF cpu.in = "panic" THEN panic_body ELSE kpanic

Report == IF cpu.in = "panic" THEN Messages[cpu.at] ELSE cpu_panic(Text[cpu.at].says)

(* Behind the last instruction: panic returns to acpi_init, a handler runs *)
(* into the next one.                                                      *)
FallThrough ==
  IF cpu.in = "panic"
  THEN cpu' = InInit /\ step' = step + 1
  ELSE /\ cpu' = IF cpu.at < Len(Text) THEN Handler(cpu.at + 1) ELSE Reset
       /\ UNCHANGED step

(* The next instruction of panic or of a handler.  An interrupt ends hlt.  *)
HandlerStep ==
  /\ cpu.in \in {"handler", "panic"}
  /\ Code[cpu.next] = "hlt" => TimerTicks
  /\ IF_flag' = (IF_flag /\ Code[cpu.next] # "cli")
  /\ reports' = IF Code[cpu.next] = "call" THEN Append(reports, Report) ELSE reports
  /\ IF cpu.next < Len(Code)
     THEN cpu' = [cpu EXCEPT !.next = @ + 1] /\ UNCHANGED step
     ELSE FallThrough
  /\ UNCHANGED <<smp, upset, raised>>

(* A vector fires.  What fires before idt_install is left out: the boot    *)
(* loader's table, if there is one, is not the kernel's.  Vectors above    *)
(* 0x1F are interrupts.                                                    *)
Upset(vector) ==
  /\ ~upset
  /\ "idt_install" \in up
  /\ cpu.in \notin {"reset", "astray"}
  /\ vector > 31 => IF_flag
  /\ upset' = TRUE
  /\ cpu' \in Dispatch(vector)
  /\ raised' = Append(raised, Fired(vector))
  /\ UNCHANGED <<smp, step, IF_flag, reports>>

Deliver ==
  /\ Smp!Deliver
  /\ UNCHANGED <<step, cpu, IF_flag, faults>>

-----------------------------------------------------------------------------
Init ==
  /\ Smp!Init
  /\ step = 1
  /\ cpu = InInit
  /\ IF_flag = FALSE
  /\ upset = FALSE
  /\ raised = <<>>
  /\ reports = <<>>

Kernel ==
  \/ log_init \/ gdt_load \/ idt_install \/ pmm_init \/ vmm_init \/ pit_init
  \/ CheckRsdt \/ FindMadt \/ parse_madt \/ init_lapic \/ UseIoApic \/ cpu_detect_cores
  \/ sti \/ cpu_wakeup_cores \/ Return \/ kheap_init \/ HandlerStep

Next == Kernel \/ Deliver \/ \E vector \in Upsets : Upset(vector)

(* The boot processor executes, and its local APIC delivers what it sends. *)
Spec == Init /\ [][Next]_vars /\ WF_vars(Kernel) /\ WF_vars(Deliver)

-----------------------------------------------------------------------------
TypeOK ==
  /\ Smp!TypeOK
  /\ step \in DOMAIN Order
  /\ cpu \in {InInit, Stuck, Reset, Astray}
             \union [in : {"handler"}, at : DOMAIN Text, next : DOMAIN kpanic]
             \union [in : {"panic"}, at : DOMAIN Messages, next : DOMAIN panic_body]
  /\ IF_flag \in BOOLEAN
  /\ upset \in BOOLEAN
  /\ Len(raised) <= 2
  /\ Len(reports) <= 2

Tagged(m, id) == \E k \in DOMAIN m.tags : m.tags[k] = id

(* What the boot looks for, and checks or cannot go on without. *)
Bootable(m) ==
  /\ Tagged(m, "TERMINAL")
  /\ Tagged(m, "RSDP")
  /\ m.rsdt.address # "NULL"
  /\ m.rsdt.sum % 256 = 0
  /\ \E k \in DOMAIN m.rsdt.tables : m.rsdt.tables[k] = "APIC"
  /\ io_apic_ptr(m) # NoIoApic

(* What it takes on trust as well: a memory map, and that the I/O APIC it  *)
(* found is one of the table's.                                            *)
Complete(m) == Bootable(m) /\ Tagged(m, "MEMMAP") /\ OwnChip(m)

Halted ==
  \/ cpu = Stuck
  \/ cpu.in \in {"handler", "panic"} /\ Code[cpu.next] = "hlt" /\ ~IF_flag

(* An exception never finds the tables unusable: the selector in the gates *)
(* of IDT.c is the 64-bit code segment of GDT.asm, and no fault of the     *)
(* boot's own comes before idt_install.  Nor does the processor leave the  *)
(* code, but where a tag is missing that pmm_init does not check, an I/O   *)
(* APIC is not the machine's, or the cores do not fit in acpi_cpuids.      *)
NeverResets ==
  /\ cpu # Reset
  /\ cpu = Astray =>
       ~(Tagged(machine, "MEMMAP") /\ OwnChip(machine) /\ ~Overrun)

(* What is printed is what happened: through exceptions[], the handlers of *)
(* exceptions.asm and the switch of cpu_panic each report names a vector   *)
(* that fired, or general protection for those the kernel has no handler   *)
(* of its own for (2, 9, and all without a gate).                          *)
ReportsAreTrue ==
  LET Own == {0, 1, 3, 4, 5, 6, 7, 8, 10, 11, 12, 13, 14}
      Said(e) == IF e.kind = "panic" THEN e.of
                 ELSE cpu_panic(IF e.of \in Own THEN e.of ELSE 13)
  IN  \A k \in DOMAIN reports :
        /\ reports[k] # "Unknown Fault"
        /\ \E e \in DOMAIN raised : reports[k] = Said(raised[e])

(* A panic is final: no tick wakes the processor out of it into the code   *)
(* that happens to follow, so no report is made without an event.          *)
PanicIsFinal == Len(reports) <= Len(raised)

(* A machine whose tables are incomplete is never run with interrupts on:  *)
(* where init and acpi_init do not check a pointer, the unmapped NULL page *)
(* stops them.  The memory map, which is used before that page is          *)
(* unmapped, is not among these tables.                                    *)
IncompleteMachineStops == IF_flag => Bootable(machine)

(* On a complete machine on which nothing untoward happens the boot gets   *)
(* no exception, does not panic or halt, and stays in the code.            *)
CompleteMachineBoots ==
  (~upset /\ Complete(machine)) => raised = <<>> /\ ~Halted /\ cpu # Astray

(* Where the timer reaches the boot processor the boot comes to rest, in   *)
(* the loop of _start or halted for good: no sleep waits for a tick and no *)
(* command for a delivery that cannot come.                                *)
BootEnds ==
  TimerReaches(machine) => <>[](At("hlt") \/ Halted \/ cpu = Astray)

(* The boot processor gets no INIT from cpu_wakeup_cores, each other core  *)
(* exactly one where its IDs agree.  This and the next two are SmpBoot's.  *)
EachCoreInitOnce == Smp!EachCoreInitOnce

(* cpu_detect_cores counts no core that parse_madt has not stored.         *)
CountedAreStored == Smp!CountedAreStored

(* No half of the command register is written while a command is pending.  *)
CommandsDoNotMix == Smp!CommandsDoNotMix
=============================================================================
