------------------------------ MODULE PhysMem -------------------------------
(***************************************************************************)
(* The physical memory manager, kernel/src/arch/memory/pmm.c.              *)
(*                                                                         *)
(* There is no bitmap and no free list: the manager allocates by eating    *)
(* the memory map that the bootloader left in memory, page by page, from   *)
(* the front of the first entry that is usable and not yet empty.          *)
(* Addresses are bytes, pages are the real 4096 bytes, and base and length *)
(* are machine words (WordMod stands for 2^64).                            *)
(***************************************************************************)
EXTENDS Integers, Sequences, FiniteSets

CONSTANTS
  MemMaps,  \* the memory maps the bootloader may hand over
  WordMod   \* one more than the largest machine word

PAGE_SIZE == 4096
NULL == 0

EntryType ==
  {"USABLE", "RESERVED", "BOOTLOADER_RECLAIMABLE", "KERNEL_AND_MODULES"}

Entry == [base : Nat, length : Nat, type : EntryType]

(* The frames an entry still describes. *)
FramesOf(e) ==
  {e.base + k * PAGE_SIZE : k \in 0 .. (e.length \div PAGE_SIZE) - 1}

(***************************************************************************)
(* What the stivale2 protocol guarantees of a memory map: usable entries   *)
(* start and end on page boundaries and overlap no other usable entry.     *)
(* Address 0 is not offered, and physical addresses leave ten spare bits   *)
(* in a word (PAGE_ADDR_MASK in vmm.h keeps 52 of 64).                     *)
(***************************************************************************)
WellFormedEntry(e) ==
  /\ e.base % PAGE_SIZE = 0
  /\ e.length % PAGE_SIZE = 0
  /\ e.base > 0
  /\ (e.base + e.length) * 1024 < WordMod

Apart(d, e) ==
  \/ d.base + d.length <= e.base
  \/ e.base + e.length <= d.base

WellFormedMap(m) ==
  /\ m \in Seq(Entry)
  /\ \A i \in DOMAIN m : m[i].type = "USABLE" => WellFormedEntry(m[i])
  /\ \A i, j \in DOMAIN m :
        (i # j /\ m[i].type = "USABLE" /\ m[j].type = "USABLE")
            => Apart(m[i], m[j])

ASSUME WordAssumption == WordMod \in Nat /\ WordMod > PAGE_SIZE
ASSUME MapAssumption == \A m \in MemMaps : WellFormedMap(m)

VARIABLES
  memmap,             \* the bootloader's map, which pmm_alloc consumes
  gmmap,              \* has pmm_init published the map in gmmap?
  highest_frame_top,
  max_frames,
  used_frames,
  ret,                \* value of the last pmm_alloc or pmm_allocz
  granted,            \* history: every frame address returned so far
  dirty,              \* pages whose contents are not all zero
  bootmap             \* history: the map as the bootloader left it

vars == <<memmap, gmmap, highest_frame_top, max_frames, used_frames,
          ret, granted, dirty, bootmap>>

counters == <<highest_frame_top, max_frames, used_frames>>

(* Frames still described by the usable entries of a map. *)
Remaining(m) ==
  UNION {FramesOf(m[i]) : i \in {j \in DOMAIN m : m[j].type = "USABLE"}}

-----------------------------------------------------------------------------
(* One addition or subtraction on a 64-bit word. *)
U64(x) ==
  IF x < 0 THEN x + WordMod ELSE IF x >= WordMod THEN x - WordMod ELSE x

is_usable_AnyType(e) == e.length > 0
is_usable_Empty(e) == e.type = "USABLE" /\ e.length >= 0

is_usable(e) == e.type = "USABLE" /\ e.length > 0

Take_TwoPages(e) == [e EXCEPT !.base = @ + PAGE_SIZE,
                              !.length = @ - 2 * PAGE_SIZE]

Take_BaseOnly(e) == [e EXCEPT !.base = U64(@ + PAGE_SIZE)]

(* "Take this spot": the front page leaves the entry. *)
Take(e) == [base |-> U64(e.base + PAGE_SIZE),
            length |-> U64(e.length - PAGE_SIZE),
            type |-> e.type]

Candidates_FirstOnly(m) == {i \in DOMAIN m : i = 1 /\ is_usable(m[i])}

(* The entries the search loop of pmm_alloc would accept. *)
Candidates(m) == {i \in DOMAIN m : is_usable(m[i])}

(* pmm_alloc itself: the first acceptable entry loses its front page. *)
TakeFrame ==
  \/ \E i \in Candidates(memmap) :
        /\ \A j \in Candidates(memmap) : i <= j
        /\ memmap' = [memmap EXCEPT ![i] = Take(@)]
        /\ ret' = memmap[i].base
        /\ granted' = granted \union {memmap[i].base}
  \/ /\ Candidates(memmap) = {}
     /\ ret' = NULL
     /\ UNCHANGED <<memmap, granted>>

pmm_alloc ==
  /\ gmmap
  /\ TakeFrame
  /\ UNCHANGED <<gmmap, counters, dirty, bootmap>>

Cleared_Next(a) == {a + PAGE_SIZE}

(* The page that 512 eight-byte stores starting at a overwrite. *)
Cleared(a) == {a}

(* The stores are made whatever pmm_alloc answered, NULL included. *)
pmm_allocz ==
  /\ gmmap
  /\ TakeFrame
  /\ dirty' = dirty \ Cleared(ret')
  /\ UNCHANGED <<gmmap, counters, bootmap>>

(* pmm_init publishes the map and sums up the usable entries.  The loop    *)
(* keeps the largest end address and derives the frame counts from it.     *)
UsableTops(m) ==
  {U64(m[i].base + m[i].length) : i \in {j \in DOMAIN m : m[j].type = "USABLE"}}

pmm_init ==
  /\ ~gmmap
  /\ gmmap' = TRUE
  /\ highest_frame_top' \in {highest_frame_top} \union UsableTops(memmap)
  /\ \A top \in {highest_frame_top} \union UsableTops(memmap) :
        top <= highest_frame_top'
  /\ used_frames' = IF UsableTops(memmap) = {} THEN used_frames
                    ELSE U64(highest_frame_top' * 1024) \div PAGE_SIZE
  /\ max_frames' = used_frames'
  /\ UNCHANGED <<memmap, ret, granted, dirty, bootmap>>

(* The owner of a frame stores into it (page tables, kmalloc clients).     *)
UseFrame(f) ==
  /\ f \in granted
  /\ dirty' = dirty \union {f}
  /\ UNCHANGED <<memmap, gmmap, counters, ret, granted, bootmap>>

-----------------------------------------------------------------------------
Init ==
  /\ memmap \in MemMaps
  /\ bootmap = memmap
  /\ gmmap = FALSE
  /\ highest_frame_top = 0
  /\ max_frames = 0
  /\ used_frames = 0
  /\ ret = NULL
  /\ granted = {}
  /\ dirty = Remaining(memmap) \union {NULL}

Next ==
  \/ pmm_init
  \/ pmm_alloc
  \/ pmm_allocz
  \/ \E f \in granted : UseFrame(f)

Spec == Init /\ [][Next]_vars

-----------------------------------------------------------------------------
(* The state has the types of pmm.c: words for the map and the counters.   *)
TypeOK ==
  /\ memmap \in Seq(Entry)
  /\ bootmap \in MemMaps
  /\ DOMAIN memmap = DOMAIN bootmap
  /\ gmmap \in BOOLEAN
  /\ highest_frame_top \in Nat
  /\ max_frames \in Nat
  /\ used_frames \in Nat
  /\ ret \in Nat
  /\ granted \in SUBSET Nat
  /\ dirty \in SUBSET Nat

(* No frame is handed out twice, none is lost and none is made up: what    *)
(* pmm_alloc has returned and what the eaten map still describes always    *)
(* split the usable frames of the bootloader's map between them.           *)
FramesConserved ==
  /\ granted \intersect Remaining(memmap) = {}
  /\ granted \union Remaining(memmap) = Remaining(bootmap)

(* pmm_alloc answers NULL only when no usable frame is left anywhere in    *)
(* the map, not merely in the entry it looked at.                          *)
NullMeansExhausted ==
  [][(TakeFrame /\ ret' = NULL) => Remaining(memmap) = {}]_vars

(* Zeroing a new page never wipes a page that was handed out before.       *)
ZeroingSparesOwners ==
  [][granted \intersect dirty \subseteq dirty']_vars

(* pmm.c implements the abstract frame pool.                               *)
Pool == INSTANCE FrameAllocator
          WITH Frames <- UNION {Remaining(m) : m \in MemMaps},
               free <- Remaining(memmap)

ImplementsPool == Pool!Spec
=============================================================================
