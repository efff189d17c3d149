# FacelessOS2: specifications, model checking and proofs

FacelessOS2 is a small x86-64 kernel. It is started by a stivale2 bootloader
(Limine), sets up memory, interrupts and timers on the boot processor, tries to
wake the other cores, creates a heap and halts in a loop. This directory holds
TLA+ modules of the parts that keep state, the TLC runs that check them, and
TLAPS proofs of their main invariants. `PROJECT.json` ties every definition to
the lines it models and lists runs, hazards, findings and theorems.

Paths below are relative to the repository; `c/` stands for `kernel/src/`.

## 1. The system

| Component | Source | State | Operations | Talks to |
|---|---|---|---|---|
| Physical memory manager | `c/arch/memory/pmm.c` | the bootloader's memory map (`gmmap`), three counters | `pmm_init`, `pmm_alloc`, `pmm_allocz` | called by the VMM |
| Virtual memory manager | `c/arch/memory/vmm.c` | `pml4` and the tables in memory | `vmm_init`, `map_page`, `unmap_page`; `mkpml4` and `load_pml4` have no caller | takes frames from the PMM |
| Kernel heap | `c/arch/memory/kheap.c` | block headers in the heap, `mem_allocated` | `kheap_init`, `kmalloc`, `kfree` | calls `map_page`, `panic` |
| Timer interrupt | `c/arch/interrupts/irq.c`, `c/arch/timer/pit.c` | `pit_ticks`, nested activations of `irq0` | `irq0`, `pit_init`, `pit_sleep` | EOI to the local APIC |
| Interrupt table | `c/arch/interrupts/IDT.c` | 256 gates | `idt_install`, `setup_general_interrupts` | I/O APIC, handlers |
| Local APIC | `c/arch/pic/lapic.c` | command register, EOI | `init_lapic`, `lapic_send_*` | used by SMP and `irq0` |
| I/O APIC | `c/arch/pic/ioapic.c` | register select, redirection table | `ioapic_init`, `ioapic_set_entry` | devices |
| ACPI | `c/power/acpi/acpi.c` | `acpi_cpuids`, APIC addresses | `acpi_init`, `parse_madt`, `acpi_remap_irq` | read by SMP, IDT |
| Core wake-up | `c/arch/cpu/smp.c` | `ncores` | `cpu_detect_cores`, `cpu_wakeup_cores` | local APIC, `pit_sleep` |
| Exceptions, panic | `c/asm/.../exceptions.asm`, `c/libkern/panic.c` | none | handlers, `panic`, `cpu_panic` | log |
| Log, strings | `c/debug/log.c`, `c/libkern/string.c` | static buffers | `log`, conversions | terminal |
| PCI | `c/arch/pci/pci.c` | the two configuration ports | reads, `locate_pci_device` | nobody calls it yet |
| Boot sequence | `c/kernel.c` | order of the above | `init`, `_start` | all |

What is hard here: `irq0` nests inside itself, between any two of its machine
instructions; page tables are edited through the address space they define, by
a function that calls itself; frames are allocated by rewriting the
bootloader's data; the heap's headers share memory with clients' data; the
local APIC delivers commands some time after they are written; and the I/O APIC
is programmed in halves while devices are live. The boot relies on an order that
nothing states: which pointer is checked, which one is only stopped by the
unmapped NULL page, and when ticks can first arrive. There is no test in the
repository.

## 2. Modules

**`FrameAllocator`** is the abstract frame pool: `Grant` one free frame, or
`Refuse` when none is left.

**`PhysMem`** models `pmm.c`. `memmap` is the bootloader's map that `pmm_alloc`
consumes; addresses are bytes with the real page of 4096, `base` and `length`
are words that wrap (`U64`). `pmm_init`, `pmm_alloc`, `pmm_allocz` are one action
each, since nothing interrupts the memory manager with another call to it.
`UseFrame` is any later store of a frame's owner. `ImplementsPool` says that the
map implements `FrameAllocator`, with the frames still described by the usable
entries as its free set.

**`AddressSpace`** is the abstract virtual memory manager: one map from pages to
frames that loses the NULL page once and then grows by one requested page at a
time.

**`PageTables`** models `vmm.c` on top of the frame pool (the actions of
`FrameAllocator` are reused through an instance, which `PhysMem` justifies).
`mem` is physical memory read as tables, `stack` the activations of `map_page`.
`Meets`, `Walk` and `Tables` describe the tables by sets of frames, level by
level: at most one frame where the processor follows one page, all of them for a
whole level. `Descend`, `AddTable` and `SetLeaf` are the parts of one activation
between recursive calls; `AddTable` is one `if` block of the source: allocate,
clear, link, recurse. Each reads its table through `Translate`, the processor's
page walk, and `Fault` is the access that finds no mapping. New frames start
with garbage in them. `pmm_allocz` clears what it gets without a look, so an
empty pool means a store to page 0 (`ClearFault`): it faults while that page is
unmapped, and once a request has mapped it frame 0 is linked as a table.
`Spoiled` names the states from there on, in which the tables are no tree any
more.

**`KHeap`** models `kheap.c` with the byte layout of `struct Block`. A store
destroys the values it overlaps; a load of bytes that hold no one value makes
the allocator go astray (`wild`), since anything may follow. Memory may or may
not start out cleared. Clients fill their blocks and free them once; how many
there are and what sizes they ask for is open. `blocks` records where `first_fit`
put each header and the most bytes ever granted behind it. Its choice takes no
account of where the other blocks are, and `BlocksFit` says that they came to lie
side by side all the same: the condition under which the heap works.

**`Timer`** models `irq0` as load, store, EOI, iret on a stack of activations,
the gate type that `set_idt_desc` really stores, the request and in-service bits
of the local APIC for vector 0x20, and `pit_sleep` in the interrupted thread.

**`Madt`** has no state: it is the ACPI table of processors and interrupt
controllers as three functions of the kernel walk it. Memory is a sequence of
records of different lengths, the table's own and those behind it; the walks go
on behind the table because their ends are computed in units of the whole
table (`ParseEnd`, `DetectEnd`). What is stored, counted and remapped follows
from it. The operators that begin with `Own`, and `TimerPin` and `TimerChip`, say
what the table itself lists. `TimerReaches` compares the two: the entry that
`setup_general_interrupts` writes has destination APIC ID 0, and on a chip and a
pin that are the timer's this is the boot processor if it has that ID.

**`SmpBoot`** models `parse_madt` and `cpu_detect_cores` as one step each, and
`cpu_wakeup_cores` and the two send functions store by store, with the two
halves of the command register written separately and delivery as an action of
the local APIC. `Stray` is what a read behind `acpi_cpuids` may return. The
seventeenth store of `parse_madt` is one to the byte behind the array.

**`KernelBoot`** is `init` of `kernel.c` with `acpi_init` inlined: `step` is the
position in `Order`, `cpu` what the processor executes (the sequence, a handler,
`panic`, a halt without return, a reset, or nothing the model follows).
`SmpBoot` is instantiated on the same variables, and its actions are the steps
of `cpu_wakeup_cores`, in which both sleeps wait for ticks (`TimerTicks`), which
come to the boot processor only where `TimerReaches` holds; elsewhere the boot
hangs in its first sleep, as the code does. A machine is more here than in
`SmpBoot`: also the bootloader's tags, the RSDT (`address`, `sum` of its bytes,
signatures). `Through` is a read through a pointer nobody checked: with the NULL
page unmapped it faults. The memory map's tag is read while that page is still
mapped, so without one `pmm_init` may fault or take whatever is at address 0 for
a map, and then `vmm_init` clears a page anywhere. There, with an I/O APIC that
is not the machine's, and through the gate of vector 0 if a seventeenth core was
stored over it (`Overrun`), the processor may go `Astray`; it is followed no
further. `Upset` fires one exception, NMI or spurious interrupt anywhere after
`idt_install`; before that the table belongs to the bootloader. A vector without
a gate becomes a general protection fault, as the processor does it.
`HandlerStep` executes the three instructions of a handler or of `panic` and,
when the `hlt` ends, what follows: the next handler's, or `acpi_init` with the
pointer it complained of. That a `hlt` behind a `cli` does not end is a result,
not an assumption: no tick is accepted, and an NMI enters a handler of its own.
The memory components are one step each, having modules of their own.

**`IoApic`** models `ioapic_init` and `setup_general_interrupts` down to each
select and window store, with firmware leftovers in the redirection table and
devices raising pins between any two stores. The timer's pin comes from `Madt`,
the numbers of registers wrap as bytes, and the destination of every entry is
APIC ID 0, which is the machine's `bsp` or is not.

**`Log`** models the loop of `log` over the characters of a format in memory and
what follows them, one iteration a step, with `dec2str` and `hex2str` as
functions on a word of `IntMod` values. A format is given as tokens, so that
what it means is known independently of how `log` reads it.

**`Pci`** models the search of `locate_pci_device`, one function of one slot a
step, through the packed configuration address that the chip takes apart again.

The `MC*` modules define small instances. The proofs are in `PhysMemProofs`,
`TimerProofs`, `PageTablesProofs`, `KHeapProofs`, `KernelBootProofs` (the boot
and the wake-up inside it), `IoApicProofs` and `PciProofs`, each of which
extends its component's module; `MadtProofs` holds the lemmas on `Madt` that
`KernelBootProofs` and `IoApicProofs` use. Operators whose name has an
underscored suffix (`Expired_Early`, `Cleared_Next`) are the faulty variants
that `PROJECT.json` lists as mutants; no specification uses them.

## 3. Runs

| Run | Checks | Shows |
|---|---|---|
| `physmem` | `TypeOK`, `FramesConserved`, `NullMeansExhausted`, `ZeroingSparesOwners`, `ImplementsPool` | the eaten map is an honest pool |
| `timer` | `TypeOK`, `OneUpdateAtATime`, `TicksCounted`, `SleepLasts`, `SleepEnds` | nesting loses no tick; sleeps last and end |
| `pagetables` | `TypeOK`, `TablesFormATree`, `RecursionIsShallow`, `FaultMeansNoMemory`, `ImplementsSpace`, `MapPageReturns` | `map_page` implements the address space down to the last frame |
| `pagetables_null` | `NullStaysUnmapped`, violated | finding |
| `kheap` | `TypeOK`, `LiveBlocksApart`, `FreesAccepted`, `OnStoredValues`, `DataKept` | blocks that fit where `kmalloc` puts them are safe |
| `kheap_full` | `NullMeansNoMemory`, violated | finding |
| `boot` | `TypeOK`, `NeverResets`, `ReportsAreTrue`, `PanicIsFinal`, `IncompleteMachineStops`, `CompleteMachineBoots`, `EachCoreInitOnce`, `CountedAreStored`, `CommandsDoNotMix`, `BootEnds` | complete machines boot, incomplete ones stop with a true report, one INIT per core where IDs agree, nothing waits for ever where the timer arrives |
| `smp_active` | `AllCoresActive`, violated | finding |
| `ioapic` | `TypeOK`, `TimerIsRouted`, `NoStrayInterrupts` | one entry is open, whatever the firmware left, and it is the timer's and the boot processor's just where `TimerReaches` says so |
| `ioapic_masks` | `DisablesAllEntries`, violated | finding |
| `log` | `TypeOK`, `PrintsWhatIsMeant`, `StaysInside` | regular formats and all numbers print as meant |
| `pci` | `FindsFirst`, `ReadsAreTheDevices`, `LocateEnds` | the first device of a class is found, on any bus |

Every run has `CHECK_DEADLOCK FALSE` where the system may stop: the kernel ends
in a halt loop, `cpu_wakeup_cores` and the I/O APIC setup return, a fault or a
panic stops the machine, and the bounds on calls and ticks end a behaviour.

### Bounds

* `physmem`: five maps of up to six entries and six frames: usable entries
  first, last, empty, adjacent, out of order, and none at all. Every behaviour
  runs into exhaustion. No counter is bounded.
* `timer`: seven accepted interrupts (`MaxTicks`), sleeps of 0, 1 and 3 ticks;
  seven activations can nest. The counter has 16 values so that it does not
  wrap, which `SleepLasts` needs; the proof of `TicksCounted` covers wrapping.
* `pagetables`: tables of 2, 2, 2 and 12 entries, 4 frames in the pool: one is
  lost by `vmm_init`, three make one full path, so a second path runs out of
  memory at each of its levels; or none, so that `vmm_init` runs out. Requests
  include the NULL page, as `kheap_init`'s does, a page that is mapped, two that
  share upper tables and one that shares the lowest-half root entry. The
  bootloader may or may not have mapped the NULL page.
* `kheap`: five calls of `kmalloc` by three clients, of 28, 29, 58 or 1000 bytes.
  The first three sizes are at the edge of what fits: as long as nothing is freed,
  the second block has to be of 29 bytes and the third of 58, so most orders run
  into an overlap. 1000 is the limit and is always refused.
* `boot`: thirteen machines. One core; three with the boot processor last and
  the I/O APIC first; three whose processor and APIC IDs are crossed and whose
  boot processor has APIC ID 1; 18, more than the array holds; two with records
  behind the table that look like cores, one within reach of both walks and one
  only of `parse_madt`'s; one with what looks like an I/O APIC there; one
  without a memory map; and six that lack the terminal, the RSDP, the RSDT, a
  right checksum, the MADT or the I/O APIC. One upset a boot, of any exception
  vector or 255, at any step: a second one only enters a handler again. The
  proofs have none of these bounds but the one upset.
* `smp_active`: three machines whose numberings agree, so that nothing but the
  shorthand keeps the cores from starting.
* `ioapic`: three pins, three leftovers per entry, any selected register, nine
  machines: no override; overrides of other IRQs before IRQ 0's, with and without
  another one behind the table; boot processors of APIC ID 1, with no override and
  with two of IRQ 0; a second chip; and no override but bytes behind the table that
  look like one, of a pin there is, of one there is not, and of one whose register
  number wraps.
* `log`: every format of up to four tokens out of eight (two literals, strings
  empty and not, a number in each base, a character, an unknown conversion), and
  each of the 256 values of an 8-bit int in both bases, with 173 wider ones;
  `log` looks at most two characters ahead, so four tokens reach every pair of
  neighbours.
* `pci`: the real 256 x 32 x 8 functions, three machines (none, five functions
  with near misses, one in the very last place), three requests.

### Fairness

`timer` assumes that the PIT runs, that the processor accepts an interrupt it
can accept and that code which can execute does; these are the hardware the
kernel runs on (`WF` of `PitEdge`, `Accept`, `Handler`, `sti`, `Wake`). With
`accepted` bounded, `SleepEnds` still needs all ticks of a sleep: `pit_sleep` is
started only when enough of them are left. `pagetables` and `pci` assume that
the processor keeps executing. `boot` assumes that and that the local APIC
delivers, so a command that stays pending for ever is outside of `BootEnds`; a
sleep there is a step that can be taken while ticks arrive, because `SleepEnds`
shows that it then returns.

## 4. Findings

1. `pagetables_null`: `kheap_init` maps address 0x500, that is the NULL page
   `vmm_init` unmapped.
2. `kheap_full`: sizes are stored in the wrong header, so memory is never given
   back and `kmalloc` answers NULL ("No memory is left!") to a client that holds
   nothing.
3. `smp_active`: STARTUP is sent with the self shorthand, so no core starts,
   yet the kernel logs "All CPU cores are now active!".
4. `ioapic_masks`: `ioapic_read` never selects its register, so the number of
   pins is read from another one and too few are masked.

Seen while modelling, and part of the models without a run of their own:

* `set_idt_desc` ignores `flags` (IDT.c:45) and stores 0xF, so `irq0`, installed
  with `INT_GATE_FLAGS`, runs with interrupts enabled. `TimerProofs` shows what
  saves the counter: the local APIC holds vector 0x20 back until EOI.
* The timer's entry is written with destination APIC ID 0 (IDT.c:91, ioapic.c:57).
  A boot processor with another ID gets no ticks, and the boot hangs in its first
  `pit_sleep`.
* `parse_madt` stores processor IDs where `smp.c` means APIC IDs ("Send INIT to
  all cores except BSP."). Where they differ some core gets no INIT, as with
  processors 0, 1, 2 of APIC IDs 0, 2, 4. `EachCoreInitOnce` is therefore stated
  for machines of which `IdsAreApicIds` holds.
* Of more than 16 cores one too many is stored (acpi.c:89), behind the end of
  `acpi_cpuids`.
* `smp.c` reads as many entries of `acpi_cpuids` as there are cores, whatever lies
  behind it. The seventeenth store may hit `idt`, which is in the same section:
  then an exception of vector 0 may lead anywhere.
* On a table without an override of IRQ 0, bytes behind it that look like one
  decide the timer's pin. The same goes for the address of the I/O APIC, whose
  last entry wins, with its first interrupt ignored. `TimerReaches` says what it
  takes for the timer to arrive all the same.
* `pmm_init` does not look whether there is a memory map (pmm.c:78), and the NULL
  page is still mapped: without one the boot may go on with whatever is at
  address 0.
* A header can be put inside another block's data (kheap.c:82). Of three blocks of
  4096 bytes, what `mkpml4` asks for, the third header lies in the second block;
  when that client has filled its block, the valid free of the third one panics.
* `map_page` does not look at what `pmm_allocz` answers. With page 0 unmapped the
  access to the new table faults; once `kheap_init` has mapped page 0 it succeeds,
  and frame 0 becomes a table (`Spoiled`).
* `log` takes an `int` for each number, so `pmm_init` prints only the low half of
  the addresses it is given (`AsInt`).
* The spurious vector and NMI are reported as a general protection fault.
* `dec2str` prints "-" for the smallest int; a format that ends in a conversion
  is read past its end, and of two adjacent conversions the second is printed
  raw; the high half of `pci_get_device_bar5` is always 0; a search for class
  0xFF finds a device that is not there.

When the heap is safe. A new header is put at the number of bytes allocated so
far, this block's included, and no header is counted in it. If nothing is freed
before, the first header is at 0, the second block fits behind it from 29 bytes
on, whatever the first one's size, and each further one fits if it is at least 29
bytes longer than the one before: 28, 29 and 58 bytes fit, and three blocks of one
size never do. A free changes `mem_allocated` by the size stored in that header,
which is the next block's, and a block that is granted again may grow into the
next one. So what fits depends on all calls so far; the properties of the `kheap`
run and the theorems say that this is all there is to it. What is left even then
is a last block whose `next` and `size` were never stored (`OnStoredValues`): a
walk past it, or its free, reads what memory held at the start.

## 5. Proofs

**`PhysMemProofs`**, from `WordAssumption` (a word holds more than a page) and
`MapAssumption` (usable entries are page-aligned, disjoint, above address 0 and
within 54 bits, as the boot protocol promises). `FramesConserved` is not
inductive alone: it says nothing of an entry's alignment, so a step might cut a
partial page. `IInv` adds `MapShrinks`: each usable entry keeps its type, its
alignment and its end, and its base only moves up. The step
`TakeFrameStep` shows that the front page leaves exactly one entry, using
`TakeFront` (one entry) and `EntriesApart` (two entries share no frame). From it
follow `Conservation`, `NullIsHonest`, `OwnersKeepTheirData` and the refinement
`PoolImplemented`.

**`TimerProofs`**, from `TimerAssumption` (a counter has at least one value).
`OneUpdateAtATime` needs to know why the APIC keeps the next tick back, so
`IInv` says that all activations but the innermost are past their EOI
(`OuterHandlersDone`), that the in-service bit is set exactly while the innermost
one is not (`InServiceUntilEoi`), that what it loaded is current
(`LoadedIsFresh`), and how many ticks are counted (`Counted`). The arithmetic
rests on `Remainder`, the uniqueness of quotient and remainder, from which
`WrappedIncrement` follows: counting on a wrapped counter counts modulo its
width. `SleepIsLongEnough` adds `DeadlineExact` and assumes that the counter does
not wrap (`MaxTicks < TickMod`).

**`PageTablesProofs`**, from `PagingAssumption` (what the boot loader hands
over: tables that are a tree outside of usable memory, map page by page, and RAM
one to one, with a table chain for the NULL page; no frame of the pool is at 0).
None of the four invariants is inductive. `TablesFormATree` depends on
`map_page` writing the table it means to write, and so on two more facts: each
activation on the stack holds the very table that the walk of its page meets
(`OnTheWay`), and every table and frame of RAM is mapped to itself, so that an
access to its physical address reaches it (`OneToOne`). `Sound` is these with
`Apart`. It holds until the pool is empty and page 0 mapped, whatever is
requested. Then frame 0 becomes a table again and again, and `IInv` falls back
on what survives that (`Anchored`): the pool is empty and stays so
(`Exhausted`), the way of page 0 through the tables is whole and meets no frame
0 (`Fixed`), and every activation but the outermost is one for page 0. Since
page 0 is mapped, it adds no table, which is the bound on the recursion. So no
theorem restricts the requests: `TablesStayATree` and `SpaceIsImplemented` state
their exception in the property (`Spoiled`), `StackStaysShallow`, `TypeCorrect`
and `OnlyLackOfMemoryFaults` have none. Only `NullIsProtected` has a hypothesis,
`NULL \notin Requests`: it says that nothing but such a request breaks what
`pagetables_null` finds broken. In the refinement, linking a table changes no
translation (`AddTableStutters`): the step rests on new frames being cleared
before they are linked and on the tree, since a frame that is two tables would
make a page appear elsewhere.

**`MadtProofs`** holds what the walks of the MADT do on every table, from
`MachineAssumption` (a well-formed table that lists the boot processor, with an
end somewhere behind it). `Offsets` is a recursive function on the records
before one; that it is defined everywhere (`ListExists`) and grows
(`OffsetsGrow`) is proved by induction, in the form that a set of numbers that
holds 0 and the successor of each member is `Nat` (`Induction`, from the least
element of its complement). `TableIsWalked`: `parse_madt` misses no record of the
table. `CountedAreFound`: `cpu_detect_cores`, whose end is nearer, counts no core
that `parse_madt` has not seen.

**`KHeapProofs`**, from `HeapAssumption` (sizes are words, and a word is well
above the limit). The number of clients, the sizes and the order of calls,
writes and frees are arbitrary. `BlocksStayApart`, `DataStays`, `FreesPass` and
`OnlyStoredValues` all rest on knowing which bytes hold what, since headers and
data share memory. So the invariant says of each field of a header which single
value covers its bytes (`Keeps`), or that nothing was ever stored there
(`Untouched`). `Heap` is what then holds as long as the blocks fit: each `next`
leads to the block that was made after it (`Linked`), `is_free` says exactly
whether a client holds the block (`Marked`), each `size` holds some number
(`Sized`), nothing is stored outside the blocks (`Inside`), and each client has
one to itself (`Held`). `IInv` is `Fit(blocks) => Heap(...)` with what holds in
any case, even when they overlap. That a step which ends with fitting blocks
began with such (`FitBefore`) makes it inductive: blocks are only added, or
grow. `WalkIs` says where `first_fit` stops: at the first block that is marked
free, or at the end; its recursion is taken apart at the least step at which the
claim would fail. `PutHolds`, `PutSpares` and `StoreSpares` are the effect of
one store on another place, and `HeapMarked`, `HeapRegranted`, `HeapAttached`
and `HeapWritten` that of each operation on the whole heap. A new header falls
on fresh bytes because nothing lies outside the blocks and it fits between them
(`NewIsUntouched`).

**`KernelBootProofs`**, from `MachineAssumption`, `UpsetsAssumption` (vectors
are bytes) and `StrayAssumption`. `BootImplementsWakeup` shows that every step
of the boot is one of `SmpBoot`'s or leaves its variables alone, so that what is
proved of `Smp!Spec`, the wake-up alone, holds of the boot. Three theorems are
of this kind. `CommandsStayWhole` needs `CallDiscipline`: a command is on its
way only while the boot processor polls for it. `CoresInitOnce` is only about
the end; its invariant `InitsListed` says at every step that the INITs a core
has had, and the one in flight to it (`InFlight`), are the entries of the list
dealt with so far (`Listed`, `Reached`); where processor and APIC IDs agree, the
list has each core once (`StoredOnce`). `Commands` carries the destination from
the call into the register, and `Loops` where the loops are. `CountedHaveIds`
follows from `Loops` and `StoredDomain`; types (`Widths`) need that what lies
behind `acpi_cpuids` is bytes. `KernelBoot` has the definitions of `Madt` twice,
its own and those of the instance of `SmpBoot`; `SameTable` and the lemmas
before it say that they agree. `NoReset`, `PanicsAreFinal` and `OnlyTheTruth`
share one invariant: a handler or `panic` past its `cli` has interrupts off, so
that its `hlt` never ends, and one that has not printed owes a report that will
be true (`HandlersFinal`). `GatesAgree` is the lemma on the three tables, for
all 256 vectors. `IncompleteStops` and `CompleteBoots` are about the other
direction, what a machine must have had for the boot to come as far as it has
(`Progress`), that nothing but the one upset or a missing part ends it
(`Alone`), that it is still under way or done (`GoesOn`), and that the processor
leaves the code only where it was led out of it (`Led`); `Outcomes` says what
each step of `init` can come to. Neither asks anything of the machine beyond the
property's own premise. Whether the boot of a complete machine reaches its end
is `BootEnds`, which needs the timer to arrive and stays with TLC.

**`IoApicProofs`**, from `PinsAssumption` (at most 120 pins). Neither property
is inductive: what makes them true is spread over two stores. `Phases` says
which stores are still to do at each place and that the selected register is the
one the first of them names; `Masking` and `Routing` say what is in an entry
after none, one or both of its stores, and `Seen` carries it to the interrupts
sent. `LowWritten` and `HighWritten` are the effect of one store on the table,
also for registers that the chip does not have. These occur: the count is bits
16 to 23 of whichever register is selected, plus one, and with a single pin it
can be 2. `RoutedEntry` is the entry whose registers are written, after their
numbers have wrapped, and `RoutedIs` relates it to the pin that `acpi_remap_irq`
answers. From there to the timer's own pin leads `OwnOverrideWins`: where the
table has an override of IRQ 0, its first one is found before whatever lies
behind the table, by `TableIsWalked`. `TimersEntry` is the same for any table of
which `TimerReaches` holds. Neither theorem restricts the machines.

**`PciProofs`**, from `PciAssumption` (locations and registers within their
widths, and no device of the class that absent functions read as). `Reads` says
what each read returns of any function, there or not; it rests on `Unpacked`,
that the chip takes apart exactly what `Address` put together. The search's
invariant is `Passed`: nothing before the present place is of the class asked
for. It keeps its place when it returns, so `Answered` relates the result to
that place. `SearchFindsFirst` and `ReadsAreRight` follow for every machine and
request.

Only model-checked: the three invariants of `Log`, and all liveness (`SleepEnds`,
`MapPageReturns`, `BootEnds`, `LocateEnds`), which the proof system does not
reach. `PrintsWhatIsMeant` rests on the digits of a number, filtered and
flattened sequences and a fold, whose recursive definitions would each need an
induction over data; `TypeOK` and `StaysInside` of `Log` speak of the length of
such a sequence. Where a recursion only steps through a structure, as the offsets
of the MADT's records and the heap's list do, the proofs replace the induction by
the least number at which the claim would fail. All other invariants and action
properties of the passing runs are theorems.

## 6. What is left out, and why

* Large pages. `map_page` ignores the page-size bit; the model assumes that the
  bootloader maps with 4 KiB pages and maps all frames of the pool one to one.
* Page flags: both callers pass the same ones.
* The enabled flag of a MADT entry, which the code does not read, and ACPI
  tables other than the RSDT and the MADT, which it only declares.
* Clients of the heap that misbehave.
* The heap and the page tables on the same frames: needs a composition.
* What the processor does once it is `Astray`, or the allocator once it is `wild`.
* `mkpml4`, `load_pml4`, `strncpy` and `memzero`, which nothing calls, the PMM's
  statistics, and the frame `vmm_init` allocates and then forgets.
* The port instructions themselves; their callers are modelled.
* Exceptions before `idt_install`, which the bootloader's table would take.
* The compiler's freedom with the non-volatile `pit_ticks`: the models follow
  the unoptimised build of `kernel/buildall.sh`.

## 7. Plan

Done, in this order: `FrameAllocator`, `PhysMem` and its proofs, `Timer` and its
proofs, `AddressSpace` and `PageTables`, `SmpBoot`, `IoApic`, `KHeap`, `Madt`,
`KernelBoot`, `Log`, `Pci`, `KernelBootProofs`, `PciProofs`, `PageTablesProofs`,
`MadtProofs`, `IoApicProofs`, `KHeapProofs`.

Left:

1. `KHeap` composed with `PageTables` and the frame pool, for the heap that
   overwrites page tables.
2. Proofs: `StaysInside` of `Log`, by a lemma on the position of each token in
   the flattened format.
