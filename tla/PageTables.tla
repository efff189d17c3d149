----------------------------- MODULE PageTables -----------------------------
(***************************************************************************)
(* The virtual memory manager, kernel/src/arch/memory/vmm.c.               *)
(*                                                                         *)
(* Page tables live in ordinary frames, and the kernel reads and writes    *)
(* them through the very address space they define, at the virtual address *)
(* equal to their physical one.  map_page calls itself for every table it  *)
(* adds, so its activations form a stack, and each of them is modelled     *)
(* step by step.  An access through an unmapped page stops the machine.    *)
(*                                                                         *)
(* An address is the tuple of the four table indices of its page; the      *)
(* offset in the page, which map_page shifts out, is left out.  Flags are  *)
(* left out too: every caller passes PRESENT and WRITABLE.  Frames come    *)
(* from the frame pool that pmm.c implements (FrameAllocator).             *)
(***************************************************************************)
EXTENDS Integers, Sequences, FiniteSets

CONSTANTS
  Fan,        \* entries of a PML4, a PDPT, a PD and a PT (512 each)
  BootRoot,   \* the table CR3 holds when the bootloader enters the kernel
  BootMems,   \* what physical memory may then contain
  PoolFrames, \* the frames of usable memory,
  Pools,      \*   and which of them pmm_alloc may find to hand out
  Requests    \* the pages map_page is called for

Index(level) == 0 .. Fan[level] - 1
Page == Index(1) \X Index(2) \X Index(3) \X Index(4)
NULL == <<0, 0, 0, 0>>

(* A frame read as a table is the function on its present entries.         *)
Zeroed == [i \in {} |-> NULL]

(* The frames reached by following entry i of a table in one of frames.    *)
Follow(m, frames, i) ==
  {m[t][i] : t \in {u \in frames : i \in DOMAIN m[u]}}

(* The table of one level that the hardware's page walk meets: at most one *)
(* frame, as in all of these sets.                                         *)
Meets(m, root, p, level) ==
  CASE level = 1 -> {root}
    [] level = 2 -> Follow(m, {root}, p[1])
    [] level = 3 -> Follow(m, Follow(m, {root}, p[1]), p[2])
    [] level = 4 -> Follow(m, Follow(m, Follow(m, {root}, p[1]), p[2]), p[3])

(* Where the walk ends. *)
Walk(m, root, p) == Follow(m, Meets(m, root, p, 4), p[4])

(* The tables of one level, from the root down. *)
Below(m, tables) == UNION {{m[t][i] : i \in DOMAIN m[t]} : t \in tables}

TablesAt(m, root, level) ==
  CASE level = 1 -> {root}
    [] level = 2 -> Below(m, {root})
    [] level = 3 -> Below(m, Below(m, {root}))
    [] level = 4 -> Below(m, Below(m, Below(m, {root})))

Tables(m, root) == UNION {TablesAt(m, root, level) : level \in 1 .. 4}
Parents(m, root) == UNION {TablesAt(m, root, level) : level \in 1 .. 3}

(* Each table but the root is linked by one entry of one table.            *)
IsTree(m, root) ==
  \A t, u \in Parents(m, root) : \A i \in DOMAIN m[t], j \in DOMAIN m[u] :
    /\ m[t][i] # root
    /\ m[t][i] = m[u][j] => t = u /\ i = j

(* What the boot loader hands over: tables that form a tree outside of the *)
(* memory it reports as usable, and map page by page, RAM one to one.  No  *)
(* table is in page 0, which the tables reach whether it is mapped or not. *)
ASSUME PagingAssumption ==
  /\ Fan \in [1 .. 4 -> Nat \ {0}]
  /\ BootRoot \in Page
  /\ PoolFrames \subseteq Page \ {NULL}
  /\ Pools \subseteq SUBSET PoolFrames
  /\ Requests \subseteq Page
  /\ \A m \in BootMems :
       /\ DOMAIN m = Page /\ \A f \in Page : m[f] \in [DOMAIN m[f] -> Page]
       /\ IsTree(m, BootRoot)
       /\ Tables(m, BootRoot) \intersect (PoolFrames \union {NULL}) = {}
       /\ \A p \in Page : Walk(m, BootRoot, p) \subseteq {p}
       /\ \A f \in PoolFrames \union Tables(m, BootRoot) : f \in Walk(m, BootRoot, f)
       /\ Meets(m, BootRoot, NULL, 4) # {}

VARIABLES
  booted,   \* has vmm_init run?
  pml4,     \* the global pointer to the root table, also in CR3
  mem,      \* physical memory, as tables
  stack,    \* activations of map_page, innermost last
  free,     \* the frame pool: what is left,
  granted,  \*   what was handed out,
  ret,      \*   and its last answer
  faulted   \* an access hit an unmapped page

pool == <<free, granted, ret>>
vars == <<booted, pml4, mem, stack, pool, faulted>>

Pmm == INSTANCE FrameAllocator WITH Frames <- PoolFrames

-----------------------------------------------------------------------------
Translate(p) == Walk(mem, pml4, p)

(* map_page and unmap_page read entry i of table t. *)
Present(m, t, i) == i \in DOMAIN m[t]

SetEntry(m, t, i, f) ==
  [m EXCEPT ![t] = [j \in DOMAIN @ \union {i} |-> IF j = i THEN f ELSE @[j]]]

ClearEntry(m, t, i) ==
  [m EXCEPT ![t] = [j \in DOMAIN @ \ {i} |-> @[j]]]

Zero_Forgotten(m, f) == m

(* pmm_allocz and memzero clear a new table. *)
Zero(m, f) == [m EXCEPT ![f] = Zeroed]

(* pmm_allocz's choice: a frame of the pool, or NULL when there is none.   *)
(* It stores zeros there without a look, through whatever maps the page.   *)
Alloc(f) == Pmm!Grant(f) \/ (Pmm!Refuse /\ f = NULL)

Top == stack[Len(stack)]
Entry == Top.page[Top.level]
WithTop_Stale(a) == stack
WithTop(a) == [stack EXCEPT ![Len(stack)] = a]
Popped == SubSeq(stack, 1, Len(stack) - 1)
Activation_BelowRoot(p) == [page |-> p, level |-> 0, table |-> pml4]
Activation(p) == [page |-> p, level |-> 1, table |-> pml4]

-----------------------------------------------------------------------------
UnmapNull_WholeTable(m) ==
  LET pdpt == m[BootRoot][NULL[1]]
      pdt  == m[pdpt][NULL[2]]
  IN  ClearEntry(m, pdt, NULL[3])

(* unmap_page(0) clears the last entry, without a look at the upper levels. *)
UnmapNull(m) ==
  LET pdpt == m[BootRoot][NULL[1]]
      pdt  == m[pdpt][NULL[2]]
      pt   == m[pdt][NULL[3]]
  IN  ClearEntry(m, pt, NULL[4])

(* vmm_init drops the frame it has just allocated in favour of CR3.        *)
vmm_init ==
  /\ ~booted
  /\ ~faulted
  /\ \E f \in PoolFrames \union {NULL} :
        /\ Alloc(f)
        /\ \E frame \in Translate(f) : mem' = UnmapNull(Zero(mem, frame))
  /\ booted' = TRUE
  /\ pml4' = BootRoot
  /\ UNCHANGED <<stack, faulted>>

map_page(p) ==
  /\ booted
  /\ ~faulted
  /\ stack = <<>>
  /\ stack' = <<Activation(p)>>
  /\ UNCHANGED <<booted, pml4, mem, pool, faulted>>

(* The table the innermost activation is about to read, if it can.         *)
Reach == IF stack = <<>> THEN {} ELSE Translate(Top.table)

(* The entry is present: go one level down. *)
Descend(t) ==
  /\ ~faulted
  /\ Top.level < 4
  /\ Present(mem, t, Entry)
  /\ stack' = WithTop([Top EXCEPT !.level = @ + 1, !.table = mem[t][Entry]])
  /\ UNCHANGED <<booted, pml4, mem, pool, faulted>>

Missing_Always(t) == Top.level < 4

Missing(t) == Top.level < 4 /\ ~Present(mem, t, Entry)

Linked_Late(m, t, i, f) == m

Linked(m, t, i, f) == SetEntry(m, t, i, f)

(* The entry is missing: allocate, clear and link a table, then map it.    *)
(* The caller reads the entry again when that call returns.                *)
AddTable(t, f) ==
  /\ ~faulted
  /\ Missing(t)
  /\ Alloc(f)
  /\ \E frame \in Translate(f) :
        mem' = Linked(Zero(mem, frame), t, Entry, f)
  /\ stack' = Append(stack, Activation(f))
  /\ UNCHANGED <<booted, pml4, faulted>>

LeafFrame_First(p) == <<p[1], p[2], p[3], 0>>

(* The frame a page is mapped to. *)
LeafFrame(p) == p

(* The last level: map the page unless it is mapped, and return. *)
SetLeaf(t) ==
  /\ ~faulted
  /\ Top.level = 4
  /\ mem' = IF Present(mem, t, Entry) THEN mem
            ELSE SetEntry(mem, t, Entry, LeafFrame(Top.page))
  /\ stack' = Popped
  /\ UNCHANGED <<booted, pml4, pool, faulted>>

(* The frame vmm_init or map_page is about to clear is out of reach.       *)
ClearFault ==
  /\ ~booted \/ \E t \in Reach : Missing(t)
  /\ \E f \in PoolFrames \union {NULL} : Alloc(f) /\ Translate(f) = {}

(* That frame, or the table the innermost activation wants to read.        *)
Fault ==
  /\ ~faulted
  /\ IF stack # <<>> /\ Reach = {} THEN UNCHANGED pool ELSE ClearFault
  /\ faulted' = TRUE
  /\ UNCHANGED <<booted, pml4, mem, stack>>

-----------------------------------------------------------------------------
Init ==
  /\ booted = FALSE
  /\ pml4 = BootRoot
  /\ mem \in BootMems
  /\ stack = <<>>
  /\ free \in Pools
  /\ granted = {}
  /\ ret = NULL
  /\ faulted = FALSE

Step ==
  \/ \E t \in Reach : Descend(t) \/ SetLeaf(t)
  \/ \E t \in Reach, f \in PoolFrames \union {NULL} : AddTable(t, f)
  \/ Fault

Next ==
  \/ vmm_init
  \/ \E p \in Requests : map_page(p)
  \/ Step

Spec == Init /\ [][Next]_vars

(* The processor keeps executing a map_page it is in. *)
FairSpec == Spec /\ WF_vars(Step)

-----------------------------------------------------------------------------
TypeOK ==
  /\ booted \in BOOLEAN
  /\ pml4 \in Page
  /\ \A f \in Page : mem[f] \in [DOMAIN mem[f] -> Page]
  /\ stack \in Seq([page : Page, level : 1 .. 4, table : Page])
  /\ free \subseteq PoolFrames
  /\ granted \subseteq PoolFrames
  /\ ret \in PoolFrames \union {NULL}
  /\ faulted \in BOOLEAN

(* The pool's last answer was NULL. *)
OutOfMemory == booted /\ free = {} /\ ret = NULL

(* The pages the tables translate. *)
MappedPages == {p \in Page : Translate(p) # {}}

(* pmm_allocz has answered NULL and page 0 is mapped: the next frame that  *)
(* map_page clears and links as a table is frame 0, as often as it asks.   *)
Spoiled == OutOfMemory /\ NULL \in MappedPages

(* Up to that point no frame serves as two tables, and no table is a frame *)
(* the allocator still has to give.  A frame used twice would make a       *)
(* mapping in one part of the address space show up in another.            *)
TablesFormATree ==
  \/ Spoiled
  \/ IsTree(mem, pml4) /\ Tables(mem, pml4) \intersect free = {}

(* map_page calls itself for each table it adds; those calls never add     *)
(* another table, not even once frame 0 serves as one, so the kernel's     *)
(* small stack holds two activations.                                      *)
RecursionIsShallow == Len(stack) <= 2

(* Nothing but lack of memory makes vmm_init or map_page fault, or link    *)
(* frame 0 as a table: whatever they have to reach, tables they have just  *)
(* added included, is mapped.                                              *)
FaultMeansNoMemory ==
  faulted \/ NULL \in Tables(mem, pml4) => free = {} /\ ret = NULL

(* vmm.c implements the abstract address space for as long as it is not    *)
(* spoiled.  An activation of map_page that adds tables and recurses       *)
(* changes no translation until the one requested page appears.            *)
Space == INSTANCE AddressSpace
           WITH ready <- booted,
                space <- [p \in MappedPages |-> CHOOSE f \in Page : f \in Translate(p)],
                pending <- IF stack = <<>> THEN {} ELSE {stack[1].page}

ImplementsSpace == Space!Init /\ [][Space!Next \/ Spoiled']_(Space!vars)

(* Every call of map_page returns, unless the machine has faulted. *)
MapPageReturns == (stack # <<>>) ~> (stack = <<>> \/ faulted)

(* The comment on vmm.c, line 129: vmm_init unmaps the NULL address, so    *)
(* that a NULL pointer faults.                                             *)
NullStaysUnmapped == booted => NULL \notin MappedPages
=============================================================================
