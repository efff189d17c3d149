------------------------------- MODULE KHeap --------------------------------
(***************************************************************************)
(* The kernel heap, kernel/src/arch/memory/kheap.c: a list of blocks whose *)
(* headers lie in the heap itself, next to the clients' data.              *)
(*                                                                         *)
(* Memory is modelled byte by byte where it matters: a store covers the    *)
(* bytes of its field and destroys whatever value overlapped them, and a   *)
(* load of a field whose last store was destroyed, in part or as a whole,  *)
(* may yield anything.  So may one of bytes never stored, unless the       *)
(* machine starts with cleared memory.                                     *)
(* Addresses are offsets from KHEAP_START and NULL is no address.  The     *)
(* bootloader maps all of RAM, so the page map_page adds is left out here  *)
(* (PageTables has it).  Clients are well behaved: they write only inside  *)
(* their blocks, never the magic number, and free each block once.         *)
(***************************************************************************)
EXTENDS Integers, Sequences, FiniteSets

CONSTANTS
  Sizes,     \* the sizes clients ask for
  MaxLive,   \* how many blocks the clients hold at a time
  Limit,     \* KHEAP_LIMIT
  WordMod,   \* one more than the largest size_t
  MaxCalls   \* bound: calls of kmalloc

ASSUME HeapAssumption ==
  /\ Sizes \subseteq 0 .. WordMod - 1
  /\ MaxLive \in Nat \ {0}
  /\ Limit \in Nat
  /\ WordMod \in Nat /\ WordMod > 4 * Limit
  /\ MaxCalls \in Nat

NULL == -1
MAGIC == 212160769

(* The packed struct Block: offset and width of each field. *)
is_free == [offset |-> 0, width |-> 1]
next == [offset |-> 1, width |-> 8]
size == [offset |-> 17, width |-> 8]
magic == [offset |-> 25, width |-> 4]
data_start == 29
SizeofBlock == 30

(* What a client stores in a block of so many bytes. *)
Filling(bytes) == [offset |-> data_start, width |-> bytes]

VARIABLES
  cells,          \* the values in the heap's memory
  cleared,        \* does the machine start with zeroes in it?
  mem_allocated,
  ret,            \* the last answer of kmalloc
  live,           \* the blocks the clients hold, each with its client's number
  blocks,         \* history: where headers were put, in this order, and
                  \* the most bytes ever granted behind each
  calls,          \* history: calls of kmalloc
  wild,           \* the allocator acted on a value nobody stored there
  panicked

vars == <<cells, cleared, mem_allocated, ret, live, blocks, calls, wild, panicked>>

-----------------------------------------------------------------------------
Covers(c, at, width) == c.at < at + width /\ at < c.at + c.of.width

Put(m, at, field, val) ==
  {c \in m : ~Covers(c, at, field.width)} \union {[at |-> at, of |-> field, val |-> val]}

Store(m, block, field, val) == Put(m, block + field.offset, field, val)

Zero(field) == IF field = next THEN NULL ELSE 0

(* The value that a load yields, if it was stored in this field. *)
Stored(m, block, field) ==
  LET hit == {c \in m : Covers(c, block + field.offset, field.width)}
  IN  {c.val : c \in {d \in hit : d.at = block + field.offset /\ d.of = field}}
        \union (IF cleared /\ hit = {} THEN {Zero(field)} ELSE {})

U64(x) == x % WordMod

(* first_fit's walk: past every block marked taken, to a free block or to  *)
(* the end of the list.  Sizes play no part.  It goes astray when a header *)
(* field holds no value that was stored there, or when the list is a loop. *)
Ended(w) == w.at = NULL \/ Stored(cells, w.at, is_free) = {1}

Onward(w) ==
  IF Ended(w) THEN w
  ELSE IF Stored(cells, w.at, is_free) # {0} \/ Stored(cells, w.at, next) = {}
  THEN [w EXCEPT !.astray = TRUE]
  ELSE [at |-> CHOOSE n \in Stored(cells, w.at, next) : TRUE,
        prev |-> w.at, astray |-> FALSE]

Walk ==
  LET walk[n \in 0 .. MaxCalls + 1] ==
        IF n = 0 THEN [at |-> 0, prev |-> NULL, astray |-> FALSE]
        ELSE Onward(walk[n - 1])
      end == walk[MaxCalls + 1]
  IN  [end EXCEPT !.astray = @ \/ ~Ended(end)]

(* The check of KHEAP_LIMIT, and the one of KHEAP_END on a new block, whose *)
(* pointer arithmetic multiplies the size of a header by itself.            *)
Full(sz) == U64(mem_allocated + sz) >= Limit
NoRoomAfter(prev) == prev + SizeofBlock * SizeofBlock > Limit + 1

DataOf_Before(block) == block - data_start
DataOf_After(block) == block + data_start + 1
BlockOf_WholeHeader(ptr) == ptr - SizeofBlock

(* kmalloc returns data_start, and kfree goes back by sizeof(Block) - 1.   *)
DataOf(block) == block + data_start
BlockOf(ptr) == ptr - SizeofBlock + 1

Taken_Forgotten(m, block) == m
Taken(m, block) == Store(m, block, is_free, 0)

(* The number of a client that holds no block. *)
Client == CHOOSE n \in 1 .. MaxLive : \A b \in live : b.client # n

Grant(hole, sz, m) ==
  /\ cells' = Taken(m, hole)
  /\ mem_allocated' = U64(mem_allocated + sz)
  /\ ret' = DataOf(hole)
  /\ live' = live \union {[at |-> DataOf(hole), bytes |-> sz, client |-> Client]}
  /\ UNCHANGED wild

Refuse ==
  /\ ret' = NULL
  /\ UNCHANGED <<cells, mem_allocated, live, blocks, wild>>

(* A block of the list is granted again, perhaps for more bytes. *)
Regranted(hole, sz) ==
  [i \in DOMAIN blocks |->
     IF blocks[i].at = hole /\ blocks[i].bytes < sz
     THEN [at |-> hole, bytes |-> sz] ELSE blocks[i]]

(* Where a new block's header goes.                                       *)
NewBlock(sz) == U64(mem_allocated + sz)

(* A block at the end of the list: only next, magic and the size field of  *)
(* its predecessor are stored, and the header is not counted.              *)
Extended(prev, sz) ==
  LET linked == Store(cells, prev, next, NewBlock(sz))
      marked == Store(linked, NewBlock(sz), magic, MAGIC)
  IN  Store(marked, prev, size, sz)

(* The new block's address is read back from its predecessor, which the    *)
(* stores may have hit.                                                    *)
Attach(prev, sz, m) ==
  /\ blocks' = Append(blocks, [at |-> NewBlock(sz), bytes |-> sz])
  /\ \/ \E hole \in Stored(m, prev, next) : Grant(hole, sz, m)
     \/ /\ Stored(m, prev, next) = {}
        /\ wild' = TRUE
        /\ UNCHANGED <<cells, mem_allocated, ret, live>>

kmalloc(sz) ==
  /\ calls < MaxCalls
  /\ ~wild /\ ~panicked
  /\ Cardinality(live) < MaxLive
  /\ calls' = calls + 1
  /\ \/ Full(sz) /\ Refuse
     \/ ~Full(sz) /\ Walk.astray
          /\ wild' = TRUE
          /\ UNCHANGED <<cells, mem_allocated, ret, live, blocks>>
     \/ ~Full(sz) /\ ~Walk.astray /\ Walk.at # NULL
          /\ blocks' = Regranted(Walk.at, sz)
          /\ Grant(Walk.at, sz, cells)
     \/ ~Full(sz) /\ ~Walk.astray /\ Walk.at = NULL
          /\ IF NoRoomAfter(Walk.prev) THEN Refuse
             ELSE Attach(Walk.prev, sz, Extended(Walk.prev, sz))
  /\ UNCHANGED <<cleared, panicked>>

(* A client fills its block with a value of its own. *)
Write(b) ==
  /\ ~wild /\ ~panicked
  /\ b.bytes > 0
  /\ cells' = Put(cells, b.at, Filling(b.bytes), b.client)
  /\ UNCHANGED <<cleared, mem_allocated, ret, live, blocks, calls, wild, panicked>>

kfree(b) ==
  /\ ~wild /\ ~panicked
  /\ live' = live \ {b}
  /\ LET block == BlockOf(b.at)
         sizes == Stored(cells, block, size)
     IN  IF Stored(cells, block, magic) # {MAGIC}
         THEN /\ panicked' = TRUE
              /\ UNCHANGED <<cells, mem_allocated, wild>>
         ELSE /\ cells' = Store(cells, block, is_free, 1)
              /\ wild' = (sizes = {})
              /\ \/ \E s \in sizes : mem_allocated' = U64(mem_allocated - s)
                 \/ sizes = {} /\ UNCHANGED mem_allocated
              /\ UNCHANGED panicked
  /\ UNCHANGED <<cleared, ret, blocks, calls>>

-----------------------------------------------------------------------------
kheap_init_NoNext ==
  Store(Store(Store({}, 0, is_free, 1), 0, size, 0), 0, magic, MAGIC)

(* The first block is free, with size 0. *)
kheap_init ==
  Store(Store(Store(Store({}, 0, next, NULL), 0, is_free, 1), 0, size, 0), 0, magic, MAGIC)

Init ==
  /\ cells = kheap_init
  /\ cleared \in BOOLEAN
  /\ mem_allocated = 0
  /\ ret = NULL
  /\ live = {}
  /\ blocks = <<[at |-> 0, bytes |-> 0]>>
  /\ calls = 0
  /\ wild = FALSE
  /\ panicked = FALSE

Next ==
  \/ \E sz \in Sizes : kmalloc(sz)
  \/ \E b \in live : Write(b) \/ kfree(b)

Spec == Init /\ [][Next]_vars

-----------------------------------------------------------------------------
TypeOK ==
  /\ \A c \in cells :
       /\ c.at \in Nat /\ c.val \in Int
       /\ c.of.offset \in Nat /\ c.of.width \in Nat \ {0}
  /\ cleared \in BOOLEAN
  /\ mem_allocated \in 0 .. WordMod - 1
  /\ ret \in Nat \union {NULL}
  /\ \A b \in live : b.at \in Nat /\ b.bytes \in Sizes /\ b.client \in 1 .. MaxLive
  /\ blocks \in Seq([at : Nat, bytes : Nat])
  /\ calls \in 0 .. MaxCalls
  /\ wild \in BOOLEAN
  /\ panicked \in BOOLEAN

(* Where kmalloc puts a block depends on the sum of the sizes granted, not *)
(* on where the others are.  Whether the blocks fit, each with its header  *)
(* and the most bytes it was ever granted, is up to the calls.             *)
BlocksFit ==
  \A i, j \in DOMAIN blocks :
    i # j => \/ blocks[i].at + data_start + blocks[i].bytes <= blocks[j].at
             \/ blocks[j].at + data_start + blocks[j].bytes <= blocks[i].at

(* Where they fit no two clients hold the same memory, through frees and   *)
(* reuse.                                                                  *)
LiveBlocksApart ==
  BlocksFit =>
    \A a, b \in live : a = b \/ a.at + a.bytes <= b.at \/ b.at + b.bytes <= a.at

(* What a client wrote in its block then stays there while it holds the    *)
(* block: the allocator's headers and the other clients keep out of it.    *)
Filled(b) == [at |-> b.at, of |-> Filling(b.bytes), val |-> b.client] \in cells

DataKept ==
  [][BlocksFit' => \A b \in live \intersect live' : Filled(b) => Filled(b)']_vars

(* A client's own free then never trips the check for corruption.          *)
FreesAccepted == BlocksFit => ~panicked

(* The allocator then acts only on header fields that hold a value, but    *)
(* for those of a last block, which kmalloc never stores: they need        *)
(* memory that starts cleared.                                             *)
OnStoredValues == BlocksFit /\ wild => Len(blocks) > 1 /\ ~cleared

(* The comment of kheap.c, line 61: kmalloc returns NULL because no memory *)
(* is left.                                                                *)
LiveBytes ==
  LET sum[B \in SUBSET live] ==
        IF B = {} THEN 0
        ELSE LET b == CHOOSE c \in B : TRUE IN b.bytes + sum[B \ {b}]
  IN  sum[live]

NullMeansNoMemory ==
  [][\A sz \in Sizes :
       (kmalloc(sz) /\ ret' = NULL) => LiveBytes + sz >= Limit]_vars
=============================================================================
