---------------------------- MODULE KHeapProofs ----------------------------
(***************************************************************************)
(* Proofs about the heap, for every limit, every word size, any number of  *)
(* clients and calls and any sizes.  As long as the blocks fit where       *)
(* kmalloc puts them, every header stays what the allocator stored in it,  *)
(* the list has every block once, and a block whose header is marked taken *)
(* is held by one client.  Blocks that do not fit are what breaks the      *)
(* heap, and nothing else does.                                            *)
(***************************************************************************)
EXTENDS KHeap, FiniteSetTheorems, WellFoundedInduction, TLAPS

-----------------------------------------------------------------------------
(* What memory holds at a place, and what a store does to another one.     *)
IsField(f) == f.offset \in Nat /\ f.width \in Nat \ {0}

Typed(m) == \A c \in m : c.at \in Nat /\ c.val \in Int /\ IsField(c.of)

Over(m, at, width) == {c \in m : Covers(c, at, width)}
Cell(at, field, val) == [at |-> at, of |-> field, val |-> val]
Apart(at, width, at2, width2) == at + width <= at2 \/ at2 + width2 <= at

LEMMA PutIs ==
  ASSUME NEW m, NEW at, NEW field, NEW val
  PROVE  Put(m, at, field, val)
           = {c \in m : ~Covers(c, at, field.width)} \cup {Cell(at, field, val)}
BY DEF Put, Cell

LEMMA CellIs ==
  ASSUME NEW at, NEW field, NEW val
  PROVE  /\ Cell(at, field, val).at = at /\ Cell(at, field, val).of = field
         /\ Cell(at, field, val).val = val
BY DEF Cell

LEMMA PutTyped ==
  ASSUME NEW m, Typed(m), NEW at \in Nat, NEW field, IsField(field), NEW val \in Int
  PROVE  Typed(Put(m, at, field, val))
<1>1. ASSUME NEW c \in Put(m, at, field, val)
      PROVE  c \in m \/ c = Cell(at, field, val)
  BY <1>1, PutIs
<1> QED
  BY <1>1, CellIs DEF Typed

LEMMA PutHolds ==
  ASSUME NEW m, NEW at \in Nat, NEW field, IsField(field), NEW val
  PROVE  /\ Over(Put(m, at, field, val), at, field.width) = {Cell(at, field, val)}
         /\ Cell(at, field, val) \in Put(m, at, field, val)
<1>1. Covers(Cell(at, field, val), at, field.width)
  BY CellIs DEF Covers, IsField
<1>2. Cell(at, field, val) \in Put(m, at, field, val)
  BY PutIs
<1>3. \A c \in Put(m, at, field, val) :
        Covers(c, at, field.width) <=> c = Cell(at, field, val)
  BY <1>1, PutIs
<1> QED
  BY <1>2, <1>3 DEF Over

LEMMA PutSpares ==
  ASSUME NEW m, NEW at \in Nat, NEW field, IsField(field), NEW val,
         NEW at2 \in Nat, NEW field2, IsField(field2),
         Apart(at, field.width, at2, field2.width)
  PROVE  /\ \A val2 : Over(m, at2, field2.width) = {Cell(at2, field2, val2)}
              => Over(Put(m, at, field, val), at2, field2.width)
                   = {Cell(at2, field2, val2)}
         /\ Over(m, at2, field2.width) = {}
              => Over(Put(m, at, field, val), at2, field2.width) = {}
         /\ \A val2 : Cell(at2, field2, val2) \in m
                        => Cell(at2, field2, val2) \in Put(m, at, field, val)
<1>1. ~Covers(Cell(at, field, val), at2, field2.width)
  BY CellIs DEF Covers, Apart, IsField
<1>2. \A val2 : ~Covers(Cell(at2, field2, val2), at, field.width)
  BY CellIs DEF Covers, Apart, IsField
<1>3. \A c \in Put(m, at, field, val) :
        Covers(c, at2, field2.width) => c \in Over(m, at2, field2.width)
  BY <1>1, PutIs DEF Over
<1>4. \A val2 : Cell(at2, field2, val2) \in m
                  => Cell(at2, field2, val2) \in Put(m, at, field, val)
  BY <1>2, PutIs
<1>5. ASSUME NEW val2, Over(m, at2, field2.width) = {Cell(at2, field2, val2)}
      PROVE  Over(Put(m, at, field, val), at2, field2.width) = {Cell(at2, field2, val2)}
  <2>1. /\ Cell(at2, field2, val2) \in m
        /\ Covers(Cell(at2, field2, val2), at2, field2.width)
    BY <1>5 DEF Over
  <2>2. \A c \in Put(m, at, field, val) :
          Covers(c, at2, field2.width) => c = Cell(at2, field2, val2)
    BY <1>3, <1>5
  <2>3. Cell(at2, field2, val2) \in Over(Put(m, at, field, val), at2, field2.width)
    BY <1>4, <2>1 DEF Over
  <2>4. \A c \in Over(Put(m, at, field, val), at2, field2.width) :
          c = Cell(at2, field2, val2)
    BY <2>2 DEF Over
  <2> QED
    BY <2>3, <2>4
<1>6. Over(m, at2, field2.width) = {}
        => Over(Put(m, at, field, val), at2, field2.width) = {}
  BY <1>3 DEF Over
<1> QED
  BY <1>4, <1>5, <1>6, Zenon

(* The same of the fields of headers.                                      *)
Keeps(m, block, field, val) ==
  Over(m, block + field.offset, field.width) = {Cell(block + field.offset, field, val)}

Untouched(m, block, field) ==
  Over(m, block + field.offset, field.width) = {}

Fields == {is_free, next, size, magic}

LEMMA FieldTypes ==
  /\ \A f \in Fields : IsField(f) /\ f.offset + f.width <= data_start
  /\ \A n \in Nat \ {0} : IsField(Filling(n)) /\ Filling(n).width = n
  /\ data_start = 29
BY DEF Fields, is_free, next, size, magic, IsField, Filling, data_start

LEMMA FieldsDiffer ==
  /\ is_free # next /\ is_free # size /\ is_free # magic
  /\ next # size /\ next # magic /\ size # magic
  /\ is_free \in Fields /\ next \in Fields /\ size \in Fields /\ magic \in Fields
  /\ \A n : Filling(n) \notin Fields
<1>1. /\ is_free.offset = 0 /\ next.offset = 1 /\ size.offset = 17 /\ magic.offset = 25
      /\ \A n : Filling(n).offset = 29
  BY DEF is_free, next, size, magic, Filling, data_start
<1> QED
  BY <1>1 DEF Fields

LEMMA FieldsApart ==
  ASSUME NEW f \in Fields, NEW g \in Fields, f # g, NEW b \in Nat
  PROVE  Apart(b + f.offset, f.width, b + g.offset, g.width)
BY DEF Apart, Fields, is_free, next, size, magic

LEMMA PutSparesField ==
  ASSUME NEW m, NEW at \in Nat, NEW field, IsField(field), NEW val,
         NEW block \in Nat, NEW g \in Fields,
         Apart(at, field.width, block + g.offset, g.width)
  PROVE  /\ \A v : Keeps(m, block, g, v) => Keeps(Put(m, at, field, val), block, g, v)
         /\ Untouched(m, block, g) => Untouched(Put(m, at, field, val), block, g)
<1>1. block + g.offset \in Nat /\ IsField(g)
  BY FieldTypes DEF IsField
<1> QED
  BY <1>1, PutSpares DEF Keeps, Untouched

LEMMA StoreKeeps ==
  ASSUME NEW m, NEW block \in Nat, NEW f \in Fields, NEW val
  PROVE  Keeps(Store(m, block, f, val), block, f, val)
<1>1. block + f.offset \in Nat /\ IsField(f)
  BY FieldTypes DEF IsField
<1> QED
  BY <1>1, PutHolds DEF Store, Keeps

LEMMA StoreTyped ==
  ASSUME NEW m, Typed(m), NEW block \in Nat, NEW f \in Fields, NEW val \in Int
  PROVE  Typed(Store(m, block, f, val))
<1>1. block + f.offset \in Nat /\ IsField(f)
  BY FieldTypes DEF IsField
<1> QED
  BY <1>1, PutTyped DEF Store

(* Other fields of the same header, and those of a header elsewhere.       *)
LEMMA StoreSpares ==
  ASSUME NEW m, NEW block \in Nat, NEW f \in Fields, NEW val,
         NEW block2 \in Nat, NEW g \in Fields,
         \/ block2 = block /\ f # g
         \/ block + data_start <= block2
         \/ block2 + data_start <= block
  PROVE  /\ \A v : Keeps(m, block2, g, v) => Keeps(Store(m, block, f, val), block2, g, v)
         /\ Untouched(m, block2, g) => Untouched(Store(m, block, f, val), block2, g)
<1>1. Apart(block + f.offset, f.width, block2 + g.offset, g.width)
  <2>1. CASE block2 = block /\ f # g
    BY <2>1, FieldsApart
  <2>2. CASE block + data_start <= block2 \/ block2 + data_start <= block
    BY <2>2, FieldTypes DEF Apart, IsField
  <2> QED
    BY <2>1, <2>2
<1>2. block + f.offset \in Nat /\ IsField(f)
  BY FieldTypes DEF IsField
<1> QED
  BY <1>1, <1>2, PutSparesField DEF Store

LEMMA Loads ==
  ASSUME NEW m, NEW block, NEW field
  PROVE  /\ \A val : Keeps(m, block, field, val) => Stored(m, block, field) = {val}
         /\ Untouched(m, block, field)
              => Stored(m, block, field) = IF cleared THEN {Zero(field)} ELSE {}
<1> DEFINE hit == {c \in m : Covers(c, block + field.offset, field.width)}
           same == {d \in hit : d.at = block + field.offset /\ d.of = field}
<1>1. Stored(m, block, field)
        = {c.val : c \in same} \cup (IF cleared /\ hit = {} THEN {Zero(field)} ELSE {})
  BY DEF Stored
<1>2. hit = Over(m, block + field.offset, field.width)
  BY DEF Over
<1>3. ASSUME NEW val, Keeps(m, block, field, val)
      PROVE  Stored(m, block, field) = {val}
  <2>1. hit = {Cell(block + field.offset, field, val)}
    BY <1>2, <1>3 DEF Keeps
  <2>2. same = {Cell(block + field.offset, field, val)}
    BY <2>1, CellIs
  <2> HIDE DEF same
  <2>3. {c.val : c \in same} = {Cell(block + field.offset, field, val).val}
    BY <2>2
  <2> QED
    BY <1>1, <2>1, <2>3, CellIs
<1>4. ASSUME Untouched(m, block, field)
      PROVE  Stored(m, block, field) = IF cleared THEN {Zero(field)} ELSE {}
  <2>1. hit = {}
    BY <1>2, <1>4 DEF Untouched
  <2> QED
    BY <1>1, <2>1
<1> QED
  BY <1>3, <1>4

-----------------------------------------------------------------------------
(* The list of blocks.                                                     *)
Block == [at : Nat, bytes : Nat]

Listed(B) == B \in Seq(Block) /\ Len(B) >= 1 /\ B[1].at = 0

Fit(B) ==
  \A i, j \in DOMAIN B :
    i # j => \/ B[i].at + data_start + B[i].bytes <= B[j].at
             \/ B[j].at + data_start + B[j].bytes <= B[i].at

LEMMA FitIs == BlocksFit <=> Fit(blocks)
BY DEF BlocksFit, Fit

LEMMA ListedIs ==
  ASSUME NEW B, Listed(B)
  PROVE  /\ Len(B) \in Nat \ {0} /\ DOMAIN B = 1 .. Len(B) /\ 1 \in DOMAIN B
         /\ Len(B) \in DOMAIN B
         /\ \A i \in DOMAIN B : B[i].at \in Nat /\ B[i].bytes \in Nat
<1>1. B \in Seq(Block) /\ Len(B) >= 1
  BY DEF Listed
<1>2. Len(B) \in Nat /\ DOMAIN B = 1 .. Len(B)
  BY <1>1
<1>3. \A i \in DOMAIN B : B[i] \in Block
  BY <1>1
<1> QED
  BY <1>1, <1>2, <1>3 DEF Block

LEMMA RegrantedIs ==
  ASSUME Listed(blocks), NEW hole, NEW sz \in Nat
  PROVE  LET R == Regranted(hole, sz)
         IN  /\ Listed(R) /\ Len(R) = Len(blocks) /\ DOMAIN R = DOMAIN blocks
             /\ \A i \in DOMAIN blocks :
                  /\ R[i].at = blocks[i].at /\ blocks[i].bytes <= R[i].bytes
                  /\ blocks[i].at = hole => sz <= R[i].bytes
<1> DEFINE R == Regranted(hole, sz)
<1>1. /\ Len(blocks) \in Nat /\ DOMAIN blocks = 1 .. Len(blocks) /\ 1 \in DOMAIN blocks
      /\ \A i \in DOMAIN blocks : blocks[i].at \in Nat /\ blocks[i].bytes \in Nat
      /\ \A i \in DOMAIN blocks : blocks[i] \in Block
  BY ListedIs DEF Listed
<1>2. DOMAIN R = DOMAIN blocks
  BY DEF Regranted
<1>3. ASSUME NEW i \in DOMAIN blocks
      PROVE  /\ R[i] \in Block /\ R[i].at = blocks[i].at
             /\ blocks[i].bytes <= R[i].bytes
             /\ blocks[i].at = hole => sz <= R[i].bytes
  <2>1. R[i] = IF blocks[i].at = hole /\ blocks[i].bytes < sz
               THEN [at |-> hole, bytes |-> sz] ELSE blocks[i]
    BY DEF Regranted
  <2>2. CASE blocks[i].at = hole /\ blocks[i].bytes < sz
    <3>1. R[i] = [at |-> hole, bytes |-> sz]
      BY <2>1, <2>2
    <3> QED
      BY <1>1, <2>2, <3>1 DEF Block
  <2>3. CASE ~(blocks[i].at = hole /\ blocks[i].bytes < sz)
    <3>1. R[i] = blocks[i]
      BY <2>1, <2>3
    <3> QED
      BY <1>1, <2>3, <3>1
  <2> QED
    BY <2>2, <2>3
<1>4. R \in Seq(Block) /\ Len(R) = Len(blocks)
  <2>1. R = [i \in 1 .. Len(blocks) |-> R[i]]
    BY <1>1 DEF Regranted
  <2>2. \A i \in 1 .. Len(blocks) : R[i] \in Block
    BY <1>1, <1>3
  <2> HIDE DEF R
  <2>3. R \in [1 .. Len(blocks) -> Block]
    BY <2>1, <2>2
  <2> QED
    BY <1>1, <2>3
<1> QED
  BY <1>1, <1>2, <1>3, <1>4 DEF Listed

LEMMA AppendedIs ==
  ASSUME Listed(blocks), NEW b \in Block
  PROVE  LET A == Append(blocks, b)
         IN  /\ Listed(A) /\ Len(A) = Len(blocks) + 1 /\ DOMAIN A = 1 .. Len(blocks) + 1
             /\ A[Len(blocks) + 1] = b
             /\ \A i \in DOMAIN blocks : A[i] = blocks[i]
BY ListedIs DEF Listed

(* What fits after a call did fit before it.                               *)
LEMMA FitBefore ==
  ASSUME Listed(blocks), NEW B, Listed(B), Fit(B), Len(blocks) <= Len(B),
         \A i \in DOMAIN blocks : B[i].at = blocks[i].at /\ blocks[i].bytes <= B[i].bytes
  PROVE  Fit(blocks)
<1> SUFFICES ASSUME NEW i \in DOMAIN blocks, NEW j \in DOMAIN blocks, i # j
             PROVE  \/ blocks[i].at + data_start + blocks[i].bytes <= blocks[j].at
                    \/ blocks[j].at + data_start + blocks[j].bytes <= blocks[i].at
  BY DEF Fit
<1>1. i \in DOMAIN B /\ j \in DOMAIN B
  BY ListedIs
<1>2. /\ blocks[i].at \in Nat /\ blocks[i].bytes \in Nat /\ B[i].bytes \in Nat
      /\ blocks[j].at \in Nat /\ blocks[j].bytes \in Nat /\ B[j].bytes \in Nat
      /\ data_start \in Nat
  BY <1>1, ListedIs, FieldTypes
<1>3. \/ B[i].at + data_start + B[i].bytes <= B[j].at
      \/ B[j].at + data_start + B[j].bytes <= B[i].at
  BY <1>1 DEF Fit
<1>4. /\ B[i].at = blocks[i].at /\ blocks[i].bytes <= B[i].bytes
      /\ B[j].at = blocks[j].at /\ blocks[j].bytes <= B[j].bytes
  OBVIOUS
<1>5. \A a, b, c, d, e, w \in Nat :
        b <= d => (a + w + d <= e => a + w + b <= e)
  OBVIOUS
<1> QED
  BY <1>2, <1>3, <1>4, <1>5

(* Where blocks fit, their headers are apart, and no two have one address. *)
LEMMA HeadersApart ==
  ASSUME NEW B, Listed(B), Fit(B), NEW i \in DOMAIN B, NEW j \in DOMAIN B, i # j
  PROVE  /\ B[i].at + data_start <= B[j].at \/ B[j].at + data_start <= B[i].at
         /\ B[i].at # B[j].at
<1>1. /\ B[i].at \in Nat /\ B[i].bytes \in Nat /\ B[j].at \in Nat /\ B[j].bytes \in Nat
      /\ data_start = 29
  BY ListedIs, FieldTypes
<1>2. \/ B[i].at + data_start + B[i].bytes <= B[j].at
      \/ B[j].at + data_start + B[j].bytes <= B[i].at
  BY DEF Fit
<1> QED
  BY <1>1, <1>2

-----------------------------------------------------------------------------
(* The heap, where blocks fit: the list has every block once, in the order *)
(* they were made in.  next and size of the last one are never stored,     *)
(* unless it is the first one, too.                                        *)
HeldIn(at, L) == \E b \in L : b.at = at
FreeMark(block, L) == IF HeldIn(DataOf(block), L) THEN 0 ELSE 1

Linked(B, m) ==
  /\ \A i \in 1 .. Len(B) - 1 : Keeps(m, B[i].at, next, B[i + 1].at)
  /\ IF Len(B) = 1 THEN Keeps(m, 0, next, NULL)
     ELSE Untouched(m, B[Len(B)].at, next)

Marked(B, m, L) ==
  \A i \in DOMAIN B : /\ Keeps(m, B[i].at, is_free, FreeMark(B[i].at, L))
                      /\ Keeps(m, B[i].at, magic, MAGIC)

Sized(B, m) ==
  \A i \in DOMAIN B : \/ \E s \in Int : Keeps(m, B[i].at, size, s)
                      \/ i = Len(B) /\ Len(B) > 1 /\ Untouched(m, B[i].at, size)

(* Nothing is stored outside the blocks. *)
InBlock(b, at, width) == b.at <= at /\ at + width <= b.at + data_start + b.bytes

Inside(B, m) == \A c \in m : \E i \in DOMAIN B : InBlock(B[i], c.at, c.of.width)

(* Every client has a block of the list to itself. *)
Held(B, L) ==
  /\ \A b \in L : \E i \in DOMAIN B : b.at = DataOf(B[i].at) /\ b.bytes <= B[i].bytes
  /\ \A a, b \in L : a.at = b.at => a = b

Heap(B, m, L) ==
  /\ Linked(B, m)
  /\ Marked(B, m, L)
  /\ Sized(B, m)
  /\ Inside(B, m)
  /\ Held(B, L)

(* The inductive invariant.  Wherever a block lies, the client holds what  *)
(* kmalloc made of its address.                                            *)
IInv ==
  /\ TypeOK
  /\ IsFiniteSet(live)
  /\ \A b \in live : BlockOf(b.at) \in Nat
  /\ Listed(blocks)
  /\ Len(blocks) <= calls + 1
  /\ \A c \in cells : c.of = next => c.val \in Nat \union {NULL}
  /\ Fit(blocks) => Heap(blocks, cells, live)
  /\ FreesAccepted
  /\ OnStoredValues

LEMMA InitIInv == Init => IInv
<1> SUFFICES ASSUME Init
             PROVE  IInv
  OBVIOUS
<1>1. /\ cells = kheap_init /\ cleared \in BOOLEAN /\ mem_allocated = 0 /\ ret = NULL
      /\ live = {} /\ blocks = <<[at |-> 0, bytes |-> 0]>>
      /\ calls = 0 /\ wild = FALSE /\ panicked = FALSE
  BY DEF Init
<1> DEFINE m1 == Store({}, 0, next, NULL)
           m2 == Store(m1, 0, is_free, 1)
           m3 == Store(m2, 0, size, 0)
<1>2. cells = Store(m3, 0, magic, MAGIC)
  BY <1>1 DEF kheap_init
<1>3. 0 \in Nat /\ NULL \in Int /\ 0 \in Int /\ 1 \in Int /\ MAGIC \in Int
  BY DEF NULL, MAGIC
<1>4. Typed(cells)
  <2>1. Typed({})
    BY DEF Typed
  <2>2. Typed(m1)
    BY <1>3, <2>1, FieldsDiffer, StoreTyped
  <2> HIDE DEF m1
  <2>3. Typed(m2)
    BY <1>3, <2>2, FieldsDiffer, StoreTyped
  <2> HIDE DEF m2
  <2>4. Typed(m3)
    BY <1>3, <2>3, FieldsDiffer, StoreTyped
  <2> HIDE DEF m3
  <2> QED
    BY <1>2, <1>3, <2>4, FieldsDiffer, StoreTyped
<1>5. /\ Keeps(cells, 0, next, NULL) /\ Keeps(cells, 0, is_free, 1)
      /\ Keeps(cells, 0, size, 0) /\ Keeps(cells, 0, magic, MAGIC)
  <2>1. Keeps(m1, 0, next, NULL)
    BY <1>3, FieldsDiffer, StoreKeeps
  <2> HIDE DEF m1
  <2>2. Keeps(m2, 0, next, NULL) /\ Keeps(m2, 0, is_free, 1)
    BY <1>3, <2>1, FieldsDiffer, StoreKeeps, StoreSpares
  <2> HIDE DEF m2
  <2>3. Keeps(m3, 0, next, NULL) /\ Keeps(m3, 0, is_free, 1) /\ Keeps(m3, 0, size, 0)
    BY <1>3, <2>2, FieldsDiffer, StoreKeeps, StoreSpares
  <2> HIDE DEF m3
  <2> QED
    BY <1>2, <1>3, <2>3, FieldsDiffer, StoreKeeps, StoreSpares
<1>6. \A c \in cells : /\ c.at + c.of.width <= 29
                       /\ c.of = next => c.val = NULL
  <2>1. next.offset = 1 /\ is_free.offset = 0 /\ size.offset = 17 /\ magic.offset = 25
    BY DEF next, is_free, size, magic
  <2>2. \A c \in cells : \/ c = Cell(1, next, NULL) \/ c = Cell(0, is_free, 1)
                         \/ c = Cell(17, size, 0) \/ c = Cell(25, magic, MAGIC)
    BY <1>2, <2>1 DEF Store, Put, Cell
  <2>3. next.width = 8 /\ is_free.width = 1 /\ size.width = 8 /\ magic.width = 4
    BY DEF next, is_free, size, magic
  <2> QED
    BY <2>2, <2>3, CellIs, FieldsDiffer
<1>7. /\ Listed(blocks) /\ Len(blocks) = 1 /\ DOMAIN blocks = {1}
      /\ blocks[1].at = 0 /\ blocks[1].bytes = 0 /\ blocks \in Seq([at : Nat, bytes : Nat])
  BY <1>1 DEF Listed, Block
<1>8. TypeOK
  <2>1. 0 \in 0 .. WordMod - 1 /\ 0 \in 0 .. MaxCalls
    BY HeapAssumption
  <2>2. FALSE \in BOOLEAN /\ NULL \in Nat \cup {NULL}
    BY Zenon
  <2> QED
    BY <1>1, <1>4, <1>7, <2>1, <2>2, Zenon DEF TypeOK, Typed, IsField
<1>9. Heap(blocks, cells, live)
  <2>1. FreeMark(0, live) = 1
    BY <1>1 DEF FreeMark, HeldIn
  <2>2. Linked(blocks, cells) /\ Marked(blocks, cells, live) /\ Sized(blocks, cells)
    BY <1>5, <1>7, <2>1 DEF Linked, Marked, Sized
  <2>3. \A c \in cells : c.at \in Nat
    BY <1>4 DEF Typed
  <2>4. Inside(blocks, cells)
    BY <1>6, <1>7, <2>3, FieldTypes DEF Inside, InBlock
  <2>5. Held(blocks, live)
    BY <1>1 DEF Held
  <2> QED
    BY <2>2, <2>4, <2>5 DEF Heap
<1>10. IsFiniteSet(live)
  BY <1>1, FS_EmptySet
<1> QED
  BY <1>1, <1>6, <1>7, <1>8, <1>9, <1>10 DEF IInv, FreesAccepted, OnStoredValues

-----------------------------------------------------------------------------
(* The walk of the list is a recursion over its steps.                     *)
LEMMA LeastOf ==
  ASSUME NEW T \in SUBSET Nat, T # {}
  PROVE  \E n \in T : \A k \in T : n <= k
<1> DEFINE R == OpToRel(<, Nat)
<1>1. IsWellFoundedOn(R, Nat)
  BY NatLessThanWellFounded
<1>2. \A x, y \in Nat : x < y => <<x, y>> \in R
  BY DEF OpToRel
<1> HIDE DEF R
<1>3. PICK n \in T : \A y \in T : ~(<<y, n>> \in R)
  BY <1>1, WFMin
<1>4. ASSUME NEW k \in T
      PROVE  n <= k
  <2>1. k \in Nat /\ n \in Nat /\ ~(k < n)
    BY <1>2, <1>3
  <2> QED
    BY <2>1
<1> QED
  BY <1>4

LEMMA Induction ==
  ASSUME NEW T \in SUBSET Nat, 0 \in T, \A n \in T : n + 1 \in T
  PROVE  T = Nat
<1> SUFFICES ASSUME T # Nat PROVE FALSE
  OBVIOUS
<1>1. PICK n \in Nat \ T : \A k \in Nat \ T : n <= k
  BY LeastOf
<1>2. n # 0 /\ n - 1 \in Nat /\ ~(n <= n - 1)
  BY <1>1
<1>3. n - 1 \in T
  BY <1>1, <1>2
<1> QED
  BY <1>1, <1>2, <1>3

Start == [at |-> 0, prev |-> NULL, astray |-> FALSE]

WalksTo(f, n) == f[0] = Start /\ \A k \in 1 .. n : f[k] = Onward(f[k - 1])

LEMMA WalkExists ==
  ASSUME NEW n \in Nat
  PROVE  \E f : WalksTo(f, n)
<1> DEFINE T == {k \in Nat : \E f : WalksTo(f, k)}
<1>1. 0 \in T
  <2>1. WalksTo([k \in {0} |-> Start], 0)
    BY DEF WalksTo
  <2> QED
    BY <2>1
<1>2. ASSUME NEW k \in T
      PROVE  k + 1 \in T
  <2>1. PICK f : WalksTo(f, k)
    BY <1>2
  <2> DEFINE g == [j \in 0 .. k + 1 |-> IF j <= k THEN f[j] ELSE Onward(f[k])]
  <2>2. /\ \A j \in 0 .. k : g[j] = f[j]
        /\ g[k + 1] = Onward(f[k])
    <3>1. k + 1 \in 0 .. k + 1 /\ ~(k + 1 <= k)
      BY <1>2
    <3>2. \A j \in 0 .. k : j \in 0 .. k + 1 /\ j <= k
      BY <1>2
    <3> QED
      BY <3>1, <3>2
  <2> HIDE DEF g
  <2>3. ASSUME NEW j \in 1 .. k + 1
        PROVE  g[j] = Onward(g[j - 1])
    <3>1. j - 1 \in 0 .. k
      BY <1>2, <2>3
    <3>2. CASE j = k + 1
      <4>1. j - 1 = k
        BY <1>2, <3>2
      <4> QED
        BY <2>2, <3>1, <3>2, <4>1
    <3>3. CASE j # k + 1
      <4>1. j \in 1 .. k /\ j \in 0 .. k
        BY <1>2, <2>3, <3>3
      <4> QED
        BY <2>1, <2>2, <3>1, <4>1 DEF WalksTo
    <3> QED
      BY <3>2, <3>3
  <2>4. WalksTo(g, k + 1)
    <3>1. 0 \in 0 .. k
      BY <1>2
    <3> QED
      BY <2>1, <2>2, <2>3, <3>1 DEF WalksTo
  <2>5. k + 1 \in Nat
    BY <1>2
  <2> QED
    BY <2>4, <2>5
<1> HIDE DEF T
<1>3. T = Nat
  <2>1. T \in SUBSET Nat
    BY DEF T
  <2> QED
    BY <1>1, <1>2, <2>1, Induction
<1> QED
  BY <1>3 DEF T

LEMMA WalkSteps ==
  \E f : /\ WalksTo(f, MaxCalls + 1)
         /\ Walk = [f[MaxCalls + 1] EXCEPT !.astray = @ \/ ~Ended(f[MaxCalls + 1])]
<1> DEFINE N == MaxCalls + 1
           IsWalk(f) == f = [n \in 0 .. N |-> IF n = 0 THEN Start ELSE Onward(f[n - 1])]
           walk == CHOOSE f : IsWalk(f)
<1>1. Walk = [walk[N] EXCEPT !.astray = @ \/ ~Ended(walk[N])]
  BY DEF Walk, Start
<1>2. N \in Nat /\ 0 \in 0 .. N
  BY HeapAssumption
<1>3. \E f : IsWalk(f)
  <2>1. PICK f : WalksTo(f, N)
    BY <1>2, WalkExists
  <2> DEFINE g == [n \in 0 .. N |-> f[n]]
  <2>2. ASSUME NEW n \in 0 .. N
        PROVE  g[n] = IF n = 0 THEN Start ELSE Onward(g[n - 1])
    <3>1. CASE n = 0
      BY <1>2, <2>1, <3>1 DEF WalksTo
    <3>2. CASE n # 0
      <4>1. n \in 1 .. N /\ n - 1 \in 0 .. N
        BY <1>2, <2>2, <3>2
      <4> QED
        BY <2>1, <2>2, <3>2, <4>1 DEF WalksTo
    <3> QED
      BY <3>1, <3>2
  <2>3. g = [n \in 0 .. N |-> g[n]]
    OBVIOUS
  <2> HIDE DEF g
  <2>4. g = [n \in 0 .. N |-> IF n = 0 THEN Start ELSE Onward(g[n - 1])]
    BY <2>2, <2>3
  <2> QED
    BY <2>4
<1>4. IsWalk(walk)
  BY <1>3
<1> HIDE DEF walk
<1>5. \A n \in 0 .. N : walk[n] = IF n = 0 THEN Start ELSE Onward(walk[n - 1])
  BY <1>4
<1>6. WalksTo(walk, N)
  <2>1. walk[0] = Start
    BY <1>2, <1>5
  <2>2. \A n \in 1 .. N : n \in 0 .. N /\ n # 0
    BY <1>2
  <2> QED
    BY <1>5, <2>1, <2>2 DEF WalksTo
<1> QED
  BY <1>1, <1>6

(* However it goes, the walk is at an address or at the end of the list.   *)
Cursor == [at : Nat \union {NULL}, prev : Nat \union {NULL}, astray : BOOLEAN]

LEMMA CursorsTyped ==
  ASSUME \A c \in cells : c.of = next => c.val \in Nat \union {NULL},
         NEW f, WalksTo(f, MaxCalls + 1)
  PROVE  \A n \in 0 .. MaxCalls + 1 : f[n] \in Cursor /\ (f[n].at = NULL => f[n].prev \in Nat)
<1> DEFINE Good(w) == w \in Cursor /\ (w.at = NULL => w.prev \in Nat)
<1>1. Good(Start)
  BY DEF Start, NULL, Cursor
<1>2. ASSUME NEW w, Good(w)
      PROVE  Good(Onward(w))
  <2>1. CASE Ended(w)
    BY <1>2, <2>1 DEF Onward
  <2>2. CASE ~Ended(w) /\ (Stored(cells, w.at, is_free) # {0} \/ Stored(cells, w.at, next) = {})
    <3>1. Onward(w) = [w EXCEPT !.astray = TRUE]
      BY <2>2 DEF Onward
    <3>2. /\ [w EXCEPT !.astray = TRUE] \in Cursor
          /\ [w EXCEPT !.astray = TRUE].at = w.at
          /\ [w EXCEPT !.astray = TRUE].prev = w.prev
      BY <1>2 DEF Cursor
    <3> QED
      BY <1>2, <3>1, <3>2
  <2>3. CASE ~Ended(w) /\ Stored(cells, w.at, is_free) = {0} /\ Stored(cells, w.at, next) # {}
    <3> DEFINE n == CHOOSE n \in Stored(cells, w.at, next) : TRUE
    <3>1. Onward(w) = [at |-> n, prev |-> w.at, astray |-> FALSE]
      BY <2>3 DEF Onward
    <3>2. n \in Stored(cells, w.at, next)
      BY <2>3
    <3> HIDE DEF n
    <3>3. n \in Nat \cup {NULL}
      BY <3>2 DEF Stored, Zero
    <3>4. w.at \in Nat
      BY <1>2, <2>3 DEF Ended, Cursor
    <3> QED
      BY <3>1, <3>3, <3>4 DEF Cursor
  <2> QED
    BY <2>1, <2>2, <2>3
<1> HIDE DEF Good
<1>3. MaxCalls + 1 \in Nat
  BY HeapAssumption
<1> DEFINE T == {n \in Nat : n <= MaxCalls + 1 => Good(f[n])}
<1>4. 0 \in T
  BY <1>1, <1>3 DEF WalksTo
<1>5. ASSUME NEW n \in T
      PROVE  n + 1 \in T
  <2> SUFFICES ASSUME n + 1 <= MaxCalls + 1
               PROVE  Good(f[n + 1])
    BY <1>5
  <2>1. n <= MaxCalls + 1 /\ n + 1 \in 1 .. MaxCalls + 1 /\ n + 1 - 1 = n
    BY <1>3, <1>5
  <2> QED
    BY <1>2, <1>5, <2>1 DEF WalksTo
<1>6. T = Nat
  <2>1. T \in SUBSET Nat
    OBVIOUS
  <2> HIDE DEF T
  <2> QED
    BY <1>4, <1>5, <2>1, Induction
<1>7. \A n \in 0 .. MaxCalls + 1 : n \in T
  BY <1>6
<1>8. \A n \in 0 .. MaxCalls + 1 : n <= MaxCalls + 1
  BY <1>3
<1> HIDE DEF T
<1>9. \A n \in 0 .. MaxCalls + 1 : Good(f[n])
  BY <1>7, <1>8 DEF T
<1> QED
  BY <1>9 DEF Good

LEMMA WalkEnds ==
  ASSUME \A c \in cells : c.of = next => c.val \in Nat \union {NULL},
         NEW f, WalksTo(f, MaxCalls + 1),
         Walk = [f[MaxCalls + 1] EXCEPT !.astray = @ \/ ~Ended(f[MaxCalls + 1])]
  PROVE  /\ Walk.at = f[MaxCalls + 1].at /\ Walk.prev = f[MaxCalls + 1].prev
         /\ Walk.astray = (f[MaxCalls + 1].astray \/ ~Ended(f[MaxCalls + 1]))
<1>1. f[MaxCalls + 1] \in Cursor
  BY HeapAssumption, CursorsTyped
<1> QED
  BY <1>1 DEF Cursor

LEMMA WalkTyped ==
  ASSUME \A c \in cells : c.of = next => c.val \in Nat \union {NULL}
  PROVE  /\ Walk.at \in Nat \union {NULL}
         /\ Walk.at = NULL => Walk.prev \in Nat
<1>1. PICK f : /\ WalksTo(f, MaxCalls + 1)
               /\ Walk = [f[MaxCalls + 1] EXCEPT !.astray = @ \/ ~Ended(f[MaxCalls + 1])]
  BY WalkSteps
<1>2. /\ f[MaxCalls + 1] \in Cursor
      /\ f[MaxCalls + 1].at = NULL => f[MaxCalls + 1].prev \in Nat
  BY <1>1, HeapAssumption, CursorsTyped
<1> QED
  BY <1>1, <1>2, WalkEnds DEF Cursor

(* A walk that has come to an end stays there.                             *)
LEMMA WalkSettles ==
  ASSUME NEW f, WalksTo(f, MaxCalls + 1), NEW j \in 0 .. MaxCalls + 1, Ended(f[j])
  PROVE  f[MaxCalls + 1] = f[j]
<1> DEFINE T == {n \in Nat : j + n <= MaxCalls + 1 => f[j + n] = f[j]}
<1>1. MaxCalls + 1 \in Nat /\ j \in Nat /\ j + 0 = j
  BY HeapAssumption
<1>2. 0 \in T
  BY <1>1
<1>3. ASSUME NEW n \in T
      PROVE  n + 1 \in T
  <2> SUFFICES ASSUME j + (n + 1) <= MaxCalls + 1
               PROVE  f[j + (n + 1)] = f[j]
    BY <1>3
  <2>1. /\ j + n <= MaxCalls + 1 /\ j + (n + 1) \in 1 .. MaxCalls + 1
        /\ j + (n + 1) - 1 = j + n
    BY <1>1, <1>3
  <2>2. f[j + (n + 1)] = Onward(f[j + n])
    BY <2>1 DEF WalksTo
  <2>3. f[j + n] = f[j]
    BY <1>3, <2>1
  <2> QED
    BY <2>2, <2>3 DEF Onward
<1>4. T = Nat
  <2>1. T \in SUBSET Nat
    OBVIOUS
  <2> HIDE DEF T
  <2> QED
    BY <1>2, <1>3, <2>1, Induction
<1>5. \A a, b \in Nat : b \in 0 .. a => a - b \in Nat /\ b + (a - b) = a /\ a <= a
  OBVIOUS
<1>6. PICK last \in Nat : last = MaxCalls + 1
  BY <1>1
<1>7. last - j \in Nat /\ j + (last - j) = last /\ last <= last
  BY <1>1, <1>5, <1>6
<1>8. last - j \in T
  BY <1>4, <1>7
<1> QED
  BY <1>6, <1>7, <1>8

-----------------------------------------------------------------------------
(* In a sound heap the walk passes the blocks in their order.              *)
Sound ==
  /\ Listed(blocks) /\ Len(blocks) <= MaxCalls
  /\ Heap(blocks, cells, live)
  /\ \A c \in cells : c.of = next => c.val \in Nat \union {NULL}

IsHeld(i) == HeldIn(DataOf(blocks[i].at), live)

LEMMA MarksAre ==
  ASSUME Sound, NEW i \in DOMAIN blocks
  PROVE  /\ blocks[i].at \in Nat /\ blocks[i].at # NULL
         /\ IsHeld(i) => Stored(cells, blocks[i].at, is_free) = {0}
         /\ ~IsHeld(i) => Stored(cells, blocks[i].at, is_free) = {1}
         /\ Stored(cells, blocks[i].at, magic) = {MAGIC}
<1>1. blocks[i].at \in Nat
  BY ListedIs DEF Sound
<1>2. /\ Keeps(cells, blocks[i].at, is_free, FreeMark(blocks[i].at, live))
      /\ Keeps(cells, blocks[i].at, magic, MAGIC)
  BY DEF Sound, Heap, Marked
<1>3. blocks[i].at # NULL
  BY <1>1 DEF NULL
<1> QED
  BY <1>1, <1>2, <1>3, Loads DEF FreeMark, IsHeld

LEMMA Passing ==
  ASSUME Sound, NEW f, WalksTo(f, MaxCalls + 1), NEW k \in DOMAIN blocks,
         \A i \in 1 .. k - 1 : IsHeld(i)
  PROVE  f[k - 1].at = blocks[k].at /\ f[k - 1].astray = FALSE
<1> DEFINE T == {j \in Nat : j < k => f[j].at = blocks[j + 1].at /\ f[j].astray = FALSE}
<1>1. /\ MaxCalls \in Nat /\ Len(blocks) \in Nat /\ k \in 1 .. Len(blocks)
      /\ DOMAIN blocks = 1 .. Len(blocks) /\ Len(blocks) <= MaxCalls
  BY HeapAssumption, ListedIs DEF Sound
<1>2. 0 \in T
  <2>1. f[0] = Start /\ blocks[0 + 1].at = 0
    BY DEF WalksTo, Sound, Listed
  <2> QED
    BY <2>1 DEF Start
<1>3. ASSUME NEW j \in T
      PROVE  j + 1 \in T
  <2>0. j \in Nat /\ j + 1 \in Nat
    BY <1>3
  <2> SUFFICES ASSUME j + 1 < k
               PROVE  f[j + 1].at = blocks[j + 1 + 1].at /\ f[j + 1].astray = FALSE
    BY <2>0
  <2>1. /\ j \in Nat /\ j < k /\ j + 1 \in 1 .. MaxCalls + 1 /\ j + 1 - 1 = j
        /\ j + 1 \in DOMAIN blocks /\ j + 1 \in 1 .. k - 1 /\ j + 1 \in 1 .. Len(blocks) - 1
    BY <1>1, <1>3
  <2>2. f[j + 1] = Onward(f[j]) /\ f[j].at = blocks[j + 1].at
    BY <1>3, <2>1 DEF WalksTo
  <2>3. Stored(cells, blocks[j + 1].at, is_free) = {0} /\ blocks[j + 1].at # NULL
    BY <2>1, MarksAre
  <2>4. Stored(cells, blocks[j + 1].at, next) = {blocks[j + 1 + 1].at}
    BY <2>1, Loads DEF Sound, Heap, Linked
  <2>5. ~Ended(f[j]) /\ {0} # {1}
    BY <2>2, <2>3 DEF Ended
  <2>6. Onward(f[j]) = [at |-> CHOOSE n \in Stored(cells, f[j].at, next) : TRUE,
                        prev |-> f[j].at, astray |-> FALSE]
    BY <2>2, <2>3, <2>4, <2>5 DEF Onward
  <2>7. (CHOOSE n \in Stored(cells, f[j].at, next) : TRUE) = blocks[j + 1 + 1].at
    BY <2>2, <2>4
  <2> QED
    BY <2>2, <2>6, <2>7
<1>4. T = Nat
  <2>1. T \in SUBSET Nat
    OBVIOUS
  <2> HIDE DEF T
  <2> QED
    BY <1>2, <1>3, <2>1, Induction
<1>5. k - 1 \in Nat /\ k - 1 < k /\ k - 1 + 1 = k
  BY <1>1
<1>6. k - 1 \in T
  BY <1>4, <1>5
<1> QED
  BY <1>5, <1>6

(* It ends at the first free block; if there is none, behind the last one, *)
(* where it goes astray in memory that was not cleared.                    *)
LEMMA WalkIs ==
  ASSUME Sound
  PROVE  /\ \A k \in DOMAIN blocks :
              (\A i \in 1 .. k - 1 : IsHeld(i)) /\ ~IsHeld(k) =>
                ~Walk.astray /\ Walk.at = blocks[k].at
         /\ (\A i \in DOMAIN blocks : IsHeld(i)) =>
              IF Len(blocks) = 1 \/ cleared
              THEN ~Walk.astray /\ Walk.at = NULL /\ Walk.prev = blocks[Len(blocks)].at
              ELSE Walk.astray
<1> DEFINE N == MaxCalls + 1
           n == Len(blocks)
<1>1. PICK f : /\ WalksTo(f, N)
               /\ Walk = [f[N] EXCEPT !.astray = @ \/ ~Ended(f[N])]
  BY WalkSteps
<1>2. /\ Walk.at = f[N].at /\ Walk.prev = f[N].prev
      /\ Walk.astray = (f[N].astray \/ ~Ended(f[N]))
  BY <1>1, WalkEnds DEF Sound
<1>3. /\ N \in Nat /\ n \in Nat \ {0} /\ n <= N /\ n \in DOMAIN blocks
      /\ DOMAIN blocks = 1 .. n
  BY HeapAssumption, ListedIs DEF Sound
<1>4. ASSUME NEW k \in DOMAIN blocks, \A i \in 1 .. k - 1 : IsHeld(i), ~IsHeld(k)
      PROVE  ~Walk.astray /\ Walk.at = blocks[k].at
  <2>1. f[k - 1].at = blocks[k].at /\ f[k - 1].astray = FALSE
    BY <1>1, <1>4, Passing
  <2>2. Ended(f[k - 1])
    BY <1>4, <2>1, MarksAre DEF Ended
  <2>3. k - 1 \in 0 .. N
    BY <1>3
  <2>4. f[N] = f[k - 1]
    BY <1>1, <2>2, <2>3, WalkSettles
  <2> QED
    BY <1>2, <2>1, <2>2, <2>4
<1>5. ASSUME \A i \in DOMAIN blocks : IsHeld(i)
      PROVE  IF n = 1 \/ cleared
             THEN ~Walk.astray /\ Walk.at = NULL /\ Walk.prev = blocks[n].at
             ELSE Walk.astray
  <2>1. \A i \in 1 .. n - 1 : IsHeld(i)
    BY <1>3, <1>5
  <2>2. f[n - 1].at = blocks[n].at /\ f[n - 1].astray = FALSE
    BY <1>1, <1>3, <2>1, Passing
  <2>3. Stored(cells, blocks[n].at, is_free) = {0} /\ blocks[n].at # NULL
    BY <1>3, <1>5, MarksAre
  <2>4. ~Ended(f[n - 1]) /\ {0} # {1}
    BY <2>2, <2>3 DEF Ended
  <2>5. n \in 1 .. N /\ n \in 0 .. N /\ f[n] = Onward(f[n - 1])
    BY <1>1, <1>3 DEF WalksTo
  <2>6. CASE n = 1 \/ cleared
    <3>1. Stored(cells, blocks[n].at, next) = {NULL}
      <4>1. CASE n = 1
        <5>1. Keeps(cells, 0, next, NULL) /\ blocks[n].at = 0
          BY <4>1 DEF Sound, Heap, Linked, Listed
        <5> QED
          BY <5>1, Loads
      <4>2. CASE n # 1 /\ cleared
        <5>1. Untouched(cells, blocks[n].at, next)
          BY <4>2 DEF Sound, Heap, Linked
        <5> QED
          BY <4>2, <5>1, Loads DEF Zero
      <4> QED
        BY <2>6, <4>1, <4>2
    <3>2. f[n] = [at |-> CHOOSE x \in Stored(cells, f[n - 1].at, next) : TRUE,
                  prev |-> f[n - 1].at, astray |-> FALSE]
      BY <2>2, <2>3, <2>4, <2>5, <3>1 DEF Onward
    <3>3. (CHOOSE x \in Stored(cells, f[n - 1].at, next) : TRUE) = NULL
      BY <2>2, <3>1
    <3>4. f[n].at = NULL /\ f[n].prev = blocks[n].at /\ f[n].astray = FALSE
      BY <2>2, <3>2, <3>3
    <3>5. Ended(f[n])
      BY <3>4 DEF Ended
    <3>6. f[N] = f[n]
      BY <1>1, <2>5, <3>5, WalkSettles
    <3> QED
      BY <1>2, <2>6, <3>4, <3>5, <3>6
  <2>7. CASE ~(n = 1 \/ cleared)
    <3>1. Stored(cells, blocks[n].at, next) = {}
      <4>1. Untouched(cells, blocks[n].at, next)
        BY <2>7 DEF Sound, Heap, Linked
      <4> QED
        BY <2>7, <4>1, Loads
    <3> DEFINE T == {j \in Nat : n - 1 + j <= N => f[n - 1 + j].at = blocks[n].at}
    <3>2. 0 \in T
      BY <1>3, <2>2
    <3>3. ASSUME NEW j \in T
          PROVE  j + 1 \in T
      <4> SUFFICES ASSUME n - 1 + (j + 1) <= N
                   PROVE  f[n - 1 + (j + 1)].at = blocks[n].at
        BY <3>3
      <4>1. /\ n - 1 + j \in 0 .. N /\ n - 1 + (j + 1) \in 1 .. N
            /\ n - 1 + (j + 1) - 1 = n - 1 + j
        BY <1>3, <3>3
      <4>2. f[n - 1 + (j + 1)] = Onward(f[n - 1 + j])
        BY <1>1, <4>1 DEF WalksTo
      <4>3. f[n - 1 + j].at = blocks[n].at
        BY <3>3, <4>1
      <4>4. Onward(f[n - 1 + j]) = [f[n - 1 + j] EXCEPT !.astray = TRUE]
        <5>1. ASSUME NEW w, w.at = blocks[n].at
              PROVE  Onward(w) = [w EXCEPT !.astray = TRUE]
          <6>1. ~Ended(w)
            BY <2>3, <2>4, <5>1 DEF Ended
          <6>2. Stored(cells, w.at, next) = {}
            BY <3>1, <5>1
          <6> QED
            BY <6>1, <6>2, Zenon DEF Onward
        <5> QED
          BY <4>3, <5>1
      <4>5. f[n - 1 + j] \in Cursor
        BY <1>1, <4>1, CursorsTyped DEF Sound
      <4> QED
        BY <4>2, <4>3, <4>4, <4>5 DEF Cursor
    <3>4. T = Nat
      <4>1. T \in SUBSET Nat
        OBVIOUS
      <4> HIDE DEF T
      <4> QED
        BY <3>2, <3>3, <4>1, Induction
    <3>5. N - (n - 1) \in Nat /\ n - 1 + (N - (n - 1)) = N /\ N <= N
      BY <1>3
    <3>6. N - (n - 1) \in T
      BY <3>4, <3>5
    <3>7. f[N].at = blocks[n].at
      BY <3>5, <3>6
    <3>8. ~Ended(f[N])
      BY <2>3, <2>4, <3>7 DEF Ended
    <3> QED
      BY <1>2, <2>7, <3>8
  <2> QED
    BY <2>6, <2>7
<1> QED
  BY <1>4, <1>5

-----------------------------------------------------------------------------
(* Types, whatever the state of the heap.                                  *)
NextsAre(m) == \A c \in m : c.of = next => c.val \in Nat \union {NULL}

LEMMA NumbersAre ==
  /\ WordMod \in Nat \ {0} /\ MaxLive \in Nat \ {0} /\ MaxCalls \in Nat
  /\ Sizes \subseteq Nat
  /\ \A x \in Int : U64(x) \in 0 .. WordMod - 1 /\ U64(x) \in Nat
BY HeapAssumption DEF U64

(* The number that a client without a block goes by. *)
LEMMA ClientIs ==
  ASSUME IsFiniteSet(live), Cardinality(live) < MaxLive
  PROVE  Client \in 1 .. MaxLive
<1> DEFINE C == {b.client : b \in live}
           f == [b \in live |-> b.client]
<1>1. IsFiniteSet(C) /\ Cardinality(C) <= Cardinality(live)
  <2>1. f \in Surjection(live, C)
    BY DEF Surjection
  <2> QED
    BY <2>1, FS_Surjection
<1>2. IsFiniteSet(1 .. MaxLive) /\ Cardinality(1 .. MaxLive) = MaxLive
  BY NumbersAre, FS_Interval
<1>3. Cardinality(C) \in Nat /\ Cardinality(live) \in Nat
  BY <1>1, FS_CardinalityType
<1>4. ~(1 .. MaxLive \subseteq C)
  <2> HIDE DEF C
  <2>1. ASSUME 1 .. MaxLive \subseteq C
        PROVE  MaxLive <= Cardinality(C)
    <3>1. 1 .. MaxLive \in SUBSET C
      BY <2>1
    <3>2. Cardinality(1 .. MaxLive) <= Cardinality(C)
      BY <1>1, <3>1, FS_Subset, Zenon
    <3> QED
      BY <1>2, <3>2
  <2> QED
    BY <1>1, <1>3, <2>1, NumbersAre
<1>5. \E n \in 1 .. MaxLive : \A b \in live : b.client # n
  BY <1>4
<1> QED
  BY <1>5 DEF Client

LEMMA StoreNexts ==
  ASSUME NEW m, NextsAre(m), NEW block, NEW f, NEW val,
         f = next => val \in Nat \union {NULL}
  PROVE  NextsAre(Store(m, block, f, val))
<1>1. \A c \in Store(m, block, f, val) :
        c \in m \/ c = Cell(block + f.offset, f, val)
  BY PutIs DEF Store
<1> QED
  BY <1>1, CellIs DEF NextsAre

LEMMA TakenIs ==
  ASSUME NEW m, NEW block
  PROVE  Taken(m, block) = Store(m, block, is_free, 0)
BY DEF Taken

LEMMA GrantTypes ==
  ASSUME TypeOK, IsFiniteSet(live), Cardinality(live) < MaxLive,
         \A b \in live : BlockOf(b.at) \in Nat,
         NEW sz \in Sizes, NEW hole \in Nat, NEW m, Typed(m), NextsAre(m),
         Grant(hole, sz, m)
  PROVE  /\ Typed(cells') /\ NextsAre(cells')
         /\ mem_allocated' \in 0 .. WordMod - 1
         /\ ret' \in Nat \union {NULL}
         /\ \A b \in live' :
              /\ b.at \in Nat /\ b.bytes \in Sizes /\ b.client \in 1 .. MaxLive
              /\ BlockOf(b.at) \in Nat
         /\ IsFiniteSet(live')
         /\ wild' = wild
<1> DEFINE b == [at |-> DataOf(hole), bytes |-> sz, client |-> Client]
<1>1. /\ cells' = Store(m, hole, is_free, 0)
      /\ mem_allocated' = U64(mem_allocated + sz)
      /\ ret' = DataOf(hole) /\ live' = live \cup {b} /\ wild' = wild
  BY TakenIs DEF Grant
<1>2. Typed(cells') /\ NextsAre(cells')
  BY <1>1, StoreTyped, StoreNexts, FieldsDiffer
<1>3. DataOf(hole) \in Nat /\ BlockOf(DataOf(hole)) = hole
  BY DEF DataOf, BlockOf, data_start, SizeofBlock
<1>4. mem_allocated' \in 0 .. WordMod - 1
  <2>1. mem_allocated + sz \in Int
    BY NumbersAre DEF TypeOK
  <2> QED
    BY <1>1, <2>1, NumbersAre
<1>5. /\ b.at \in Nat /\ b.bytes \in Sizes /\ b.client \in 1 .. MaxLive
      /\ BlockOf(b.at) \in Nat
  BY <1>3, ClientIs
<1> HIDE DEF b
<1>6. \A a \in live' : /\ a.at \in Nat /\ a.bytes \in Sizes /\ a.client \in 1 .. MaxLive
                        /\ BlockOf(a.at) \in Nat
  BY <1>1, <1>5 DEF TypeOK
<1>7. IsFiniteSet(live')
  BY <1>1, FS_AddElement
<1> QED
  BY <1>1, <1>2, <1>3, <1>4, <1>6, <1>7

(* What Extended leaves in the predecessor's next, if the stores that      *)
(* follow spare it.                                                        *)

LEMMA ExtendedIs ==
  ASSUME TypeOK, NextsAre(cells), NEW prev \in Nat, NEW sz \in Sizes
  PROVE  /\ NewBlock(sz) \in Nat
         /\ Typed(Extended(prev, sz)) /\ NextsAre(Extended(prev, sz))
         /\ Stored(Extended(prev, sz), prev, next) \subseteq {NewBlock(sz)}
<1> DEFINE new == NewBlock(sz)
           linked == Store(cells, prev, next, new)
           marked == Store(linked, new, magic, MAGIC)
           m == Store(marked, prev, size, sz)
           link == Cell(prev + 1, next, new)
           mark == Cell(new + 25, magic, MAGIC)
<1>1. Extended(prev, sz) = m
  BY DEF Extended
<1>2. new \in Nat /\ sz \in Int /\ MAGIC \in Int
  <2>1. mem_allocated + sz \in Int /\ sz \in Int
    BY NumbersAre DEF TypeOK
  <2> QED
    BY <2>1, NumbersAre DEF NewBlock, MAGIC
<1>3. Typed(cells)
  BY DEF TypeOK, Typed, IsField
<1> HIDE DEF new
<1>4. Typed(linked) /\ NextsAre(linked)
  BY <1>2, <1>3, StoreTyped, StoreNexts, FieldsDiffer
<1>5. Keeps(linked, prev, next, new)
  BY <1>2, StoreKeeps, FieldsDiffer
<1>6. next.offset = 1 /\ next.width = 8 /\ size.offset = 17 /\ size.width = 8
      /\ magic.offset = 25 /\ magic.width = 4
  BY DEF next, size, magic
<1>7. Over(linked, prev + 1, 8) = {link}
  BY <1>5, <1>6 DEF Keeps
<1> HIDE DEF linked
<1>8. marked = {c \in linked : ~Covers(c, new + 25, 4)} \cup {mark}
  BY <1>6, PutIs DEF Store
<1>9. Typed(marked) /\ NextsAre(marked)
  BY <1>2, <1>4, StoreTyped, StoreNexts, FieldsDiffer
<1> HIDE DEF marked
<1>10. m = {c \in marked : ~Covers(c, prev + 17, 8)} \cup {Cell(prev + 17, size, sz)}
  BY <1>6, PutIs DEF Store
<1>11. Typed(m) /\ NextsAre(m)
  BY <1>2, <1>9, StoreTyped, StoreNexts, FieldsDiffer
<1> HIDE DEF m
<1>12. \E c \in m : Covers(c, prev + 1, 8)
  <2>1. link \in linked /\ Covers(link, prev + 1, 8)
    BY <1>7 DEF Over
  <2>2. CASE ~Covers(link, new + 25, 4)
    <3>1. ~Covers(link, prev + 17, 8)
      BY <1>6, CellIs DEF Covers
    <3> QED
      BY <1>8, <1>10, <2>1, <2>2, <3>1
  <2>3. CASE Covers(link, new + 25, 4)
    <3>1. prev + 1 < new + 29 /\ new + 25 < prev + 9
      BY <1>2, <1>6, <2>3, CellIs DEF Covers
    <3>2. Covers(mark, prev + 1, 8) /\ ~Covers(mark, prev + 17, 8)
      BY <1>2, <1>6, <3>1, CellIs DEF Covers
    <3> QED
      BY <1>8, <1>10, <3>2
  <2> QED
    BY <2>2, <2>3
<1>13. ASSUME NEW c \in m, c.at = prev + 1, c.of = next
       PROVE  c.val = new
  <2>1. c \in linked
    BY <1>8, <1>10, <1>13, CellIs, FieldsDiffer
  <2>2. Covers(c, prev + 1, 8)
    BY <1>6, <1>13 DEF Covers
  <2> QED
    BY <1>7, <2>1, <2>2, CellIs DEF Over
<1>14. Stored(m, prev, next) \subseteq {new}
  BY <1>6, <1>12, <1>13 DEF Stored
<1> QED
  BY <1>1, <1>2, <1>11, <1>14 DEF new

-----------------------------------------------------------------------------
(* What a store in one block does to the heap.                             *)
LEMMA InsideKept ==
  ASSUME NEW B, NEW m, Inside(B, m), NEW i \in DOMAIN B, NEW at, NEW field, NEW val,
         InBlock(B[i], at, field.width)
  PROVE  Inside(B, Put(m, at, field, val))
<1>1. \A c \in Put(m, at, field, val) : c \in m \/ c = Cell(at, field, val)
  BY PutIs
<1> QED
  BY <1>1, CellIs DEF Inside

LEMMA FieldStored ==
  ASSUME NEW B, Listed(B), Fit(B), NEW m, NEW i \in DOMAIN B, NEW f \in Fields, NEW val
  PROVE  LET m2 == Store(m, B[i].at, f, val)
         IN  /\ \A j \in DOMAIN B, g \in Fields :
                  j # i \/ g # f =>
                    /\ \A v : Keeps(m, B[j].at, g, v) => Keeps(m2, B[j].at, g, v)
                    /\ Untouched(m, B[j].at, g) => Untouched(m2, B[j].at, g)
             /\ Keeps(m2, B[i].at, f, val)
             /\ Inside(B, m) => Inside(B, m2)
<1> DEFINE m2 == Store(m, B[i].at, f, val)
<1>1. /\ \A j \in DOMAIN B : B[j].at \in Nat /\ B[j].bytes \in Nat
      /\ IsField(f) /\ f.offset + f.width <= data_start /\ data_start = 29
  BY ListedIs, FieldTypes
<1>2. ASSUME NEW j \in DOMAIN B, NEW g \in Fields, j # i \/ g # f
      PROVE  /\ \A v : Keeps(m, B[j].at, g, v) => Keeps(m2, B[j].at, g, v)
             /\ Untouched(m, B[j].at, g) => Untouched(m2, B[j].at, g)
  <2>1. CASE j = i
    BY <1>1, <1>2, <2>1, StoreSpares
  <2>2. CASE j # i
    <3>1. B[i].at + data_start <= B[j].at \/ B[j].at + data_start <= B[i].at
      BY <2>2, HeadersApart
    <3> QED
      BY <1>1, <3>1, StoreSpares
  <2> QED
    BY <2>1, <2>2
<1>3. Keeps(m2, B[i].at, f, val)
  BY <1>1, StoreKeeps
<1>4. ASSUME Inside(B, m)
      PROVE  Inside(B, m2)
  <2>1. InBlock(B[i], B[i].at + f.offset, f.width)
    BY <1>1 DEF InBlock, IsField
  <2> QED
    BY <1>4, <2>1, InsideKept DEF Store
<1> HIDE DEF m2
<1>5. \A j \in DOMAIN B, g \in Fields :
        j # i \/ g # f =>
          /\ \A v : Keeps(m, B[j].at, g, v) => Keeps(m2, B[j].at, g, v)
          /\ Untouched(m, B[j].at, g) => Untouched(m2, B[j].at, g)
  BY <1>2, Zenon
<1> QED
  BY <1>3, <1>4, <1>5, Zenon DEF m2

LEMMA HeapMarked ==
  ASSUME NEW B, Listed(B), Fit(B), NEW m, NEW L, Heap(B, m, L),
         NEW i \in DOMAIN B, NEW L2, Held(B, L2),
         \A j \in DOMAIN B : j # i => FreeMark(B[j].at, L2) = FreeMark(B[j].at, L)
  PROVE  Heap(B, Store(m, B[i].at, is_free, FreeMark(B[i].at, L2)), L2)
<1> DEFINE m2 == Store(m, B[i].at, is_free, FreeMark(B[i].at, L2))
<1>1. /\ \A j \in DOMAIN B, g \in Fields :
           j # i \/ g # is_free =>
             /\ \A v : Keeps(m, B[j].at, g, v) => Keeps(m2, B[j].at, g, v)
             /\ Untouched(m, B[j].at, g) => Untouched(m2, B[j].at, g)
      /\ Keeps(m2, B[i].at, is_free, FreeMark(B[i].at, L2))
      /\ Inside(B, m) => Inside(B, m2)
  BY FieldStored, FieldsDiffer
<1> HIDE DEF m2
<1>2. /\ Len(B) \in Nat \ {0} /\ DOMAIN B = 1 .. Len(B) /\ B[1].at = 0 /\ 1 \in DOMAIN B
      /\ Len(B) \in DOMAIN B
  BY ListedIs DEF Listed
<1>3. Linked(B, m2)
  <2>1. ASSUME NEW j \in 1 .. Len(B) - 1
        PROVE  Keeps(m2, B[j].at, next, B[j + 1].at)
    <3>1. j \in DOMAIN B
      BY <1>2
    <3>2. Keeps(m, B[j].at, next, B[j + 1].at)
      BY <2>1 DEF Heap, Linked
    <3> QED
      BY <1>1, <3>1, <3>2, FieldsDiffer
  <2>2. ASSUME Len(B) = 1
        PROVE  Keeps(m2, 0, next, NULL)
    <3>1. Keeps(m, B[1].at, next, NULL)
      BY <1>2, <2>2 DEF Heap, Linked
    <3>2. Keeps(m2, B[1].at, next, NULL)
      BY <1>1, <1>2, <3>1, FieldsDiffer
    <3> QED
      BY <1>2, <3>2
  <2>3. ASSUME Len(B) # 1
        PROVE  Untouched(m2, B[Len(B)].at, next)
    <3>1. Untouched(m, B[Len(B)].at, next)
      BY <2>3 DEF Heap, Linked
    <3> QED
      BY <1>1, <1>2, <3>1, FieldsDiffer
  <2> QED
    BY <2>1, <2>2, <2>3 DEF Linked
<1>4. Marked(B, m2, L2)
  <2> SUFFICES ASSUME NEW j \in DOMAIN B
               PROVE  /\ Keeps(m2, B[j].at, is_free, FreeMark(B[j].at, L2))
                      /\ Keeps(m2, B[j].at, magic, MAGIC)
    BY DEF Marked
  <2>1. Keeps(m, B[j].at, is_free, FreeMark(B[j].at, L)) /\ Keeps(m, B[j].at, magic, MAGIC)
    BY DEF Heap, Marked
  <2>2. Keeps(m2, B[j].at, magic, MAGIC)
    BY <1>1, <2>1, FieldsDiffer
  <2>3. CASE j = i
    BY <1>1, <2>2, <2>3
  <2>4. CASE j # i
    BY <1>1, <2>1, <2>2, <2>4, FieldsDiffer
  <2> QED
    BY <2>3, <2>4
<1>5. Sized(B, m2)
  <2> SUFFICES ASSUME NEW j \in DOMAIN B
               PROVE  \/ \E s \in Int : Keeps(m2, B[j].at, size, s)
                      \/ j = Len(B) /\ Len(B) > 1 /\ Untouched(m2, B[j].at, size)
    BY DEF Sized
  <2>1. \/ \E s \in Int : Keeps(m, B[j].at, size, s)
        \/ j = Len(B) /\ Len(B) > 1 /\ Untouched(m, B[j].at, size)
    BY DEF Heap, Sized
  <2> QED
    BY <1>1, <2>1, FieldsDiffer
<1>6. Inside(B, m2)
  BY <1>1 DEF Heap
<1> QED
  BY <1>3, <1>4, <1>5, <1>6 DEF Heap, m2

LEMMA HeldMore ==
  ASSUME NEW B, Listed(B), Fit(B), NEW L, Held(B, L), NEW k \in DOMAIN B,
         ~HeldIn(DataOf(B[k].at), L),
         NEW b, b.at = DataOf(B[k].at), b.bytes <= B[k].bytes,
         NEW L2, L2 = L \union {b}
  PROVE  /\ Held(B, L2)
         /\ FreeMark(B[k].at, L2) = 0
         /\ \A j \in DOMAIN B : j # k => FreeMark(B[j].at, L2) = FreeMark(B[j].at, L)
<1>1. \A j \in DOMAIN B : j # k => DataOf(B[j].at) # b.at
  <2> SUFFICES ASSUME NEW j \in DOMAIN B, j # k
               PROVE  DataOf(B[j].at) # b.at
    OBVIOUS
  <2>1. B[j].at \in Nat /\ B[k].at \in Nat /\ B[j].at # B[k].at
    BY ListedIs, HeadersApart
  <2> QED
    BY <2>1 DEF DataOf, data_start
<1>2. \A a \in L : a.at # b.at
  BY DEF HeldIn
<1>3. Held(B, L2)
  BY <1>2 DEF Held
<1>4. \A j \in DOMAIN B :
        j # k => (HeldIn(DataOf(B[j].at), L2) <=> HeldIn(DataOf(B[j].at), L))
  BY <1>1 DEF HeldIn
<1>5. HeldIn(DataOf(B[k].at), L2)
  BY DEF HeldIn
<1> QED
  BY <1>3, <1>4, <1>5 DEF FreeMark

LEMMA HeldLess ==
  ASSUME NEW B, Listed(B), Fit(B), NEW L, Held(B, L), NEW k \in DOMAIN B,
         NEW b \in L, b.at = DataOf(B[k].at)
  PROVE  /\ Held(B, L \ {b})
         /\ FreeMark(B[k].at, L \ {b}) = 1
         /\ \A j \in DOMAIN B : j # k => FreeMark(B[j].at, L \ {b}) = FreeMark(B[j].at, L)
<1>1. \A j \in DOMAIN B : j # k => DataOf(B[j].at) # b.at
  <2> SUFFICES ASSUME NEW j \in DOMAIN B, j # k
               PROVE  DataOf(B[j].at) # b.at
    OBVIOUS
  <2>1. B[j].at \in Nat /\ B[k].at \in Nat /\ B[j].at # B[k].at
    BY ListedIs, HeadersApart
  <2> QED
    BY <2>1 DEF DataOf, data_start
<1>2. Held(B, L \ {b})
  BY DEF Held
<1>3. \A j \in DOMAIN B :
        j # k => (HeldIn(DataOf(B[j].at), L \ {b}) <=> HeldIn(DataOf(B[j].at), L))
  BY <1>1 DEF HeldIn
<1>4. ~HeldIn(DataOf(B[k].at), L \ {b})
  BY DEF Held, HeldIn
<1> QED
  BY <1>2, <1>3, <1>4 DEF FreeMark

(* A block of the list granted again, perhaps for more bytes. *)
LEMMA HeapRegranted ==
  ASSUME Listed(blocks), NEW hole, NEW sz \in Nat, NEW m, Typed(m),
         NEW L, \A b \in L : b.bytes \in Nat, Heap(blocks, m, L)
  PROVE  Heap(Regranted(hole, sz), m, L)
<1> DEFINE R == Regranted(hole, sz)
<1>1. /\ Listed(R) /\ Len(R) = Len(blocks) /\ DOMAIN R = DOMAIN blocks
      /\ \A i \in DOMAIN blocks : R[i].at = blocks[i].at /\ blocks[i].bytes <= R[i].bytes
  BY RegrantedIs
<1> HIDE DEF R
<1>2. /\ Len(blocks) \in Nat \ {0} /\ DOMAIN blocks = 1 .. Len(blocks)
      /\ \A i \in DOMAIN blocks : /\ blocks[i].at \in Nat /\ blocks[i].bytes \in Nat
                                  /\ R[i].bytes \in Nat
      /\ data_start \in Nat
  BY <1>1, ListedIs, FieldTypes
<1>3. Linked(R, m)
  <2>1. \A i \in 1 .. Len(blocks) - 1 : i \in DOMAIN blocks /\ i + 1 \in DOMAIN blocks
    BY <1>2
  <2>2. Len(blocks) \in DOMAIN blocks
    BY <1>2
  <2>3. Linked(blocks, m)
    BY DEF Heap
  <2>4. ASSUME NEW i \in 1 .. Len(blocks) - 1
        PROVE  Keeps(m, R[i].at, next, R[i + 1].at)
    <3>1. R[i].at = blocks[i].at /\ R[i + 1].at = blocks[i + 1].at
      BY <1>1, <2>1
    <3>2. Keeps(m, blocks[i].at, next, blocks[i + 1].at)
      BY <2>3 DEF Linked
    <3> QED
      BY <3>1, <3>2
  <2>5. R[Len(blocks)].at = blocks[Len(blocks)].at
    BY <1>1, <2>2
  <2> QED
    BY <1>1, <2>3, <2>4, <2>5 DEF Linked
<1>4. Marked(R, m, L) /\ Sized(R, m)
  BY <1>1 DEF Heap, Marked, Sized
<1>5. Inside(R, m)
  <2> SUFFICES ASSUME NEW c \in m
               PROVE  \E i \in DOMAIN R : InBlock(R[i], c.at, c.of.width)
    BY DEF Inside
  <2>1. PICK i \in DOMAIN blocks : InBlock(blocks[i], c.at, c.of.width)
    BY DEF Heap, Inside
  <2>2. c.at \in Nat /\ c.of.width \in Nat
    BY DEF Typed, IsField
  <2>3. InBlock(R[i], c.at, c.of.width)
    BY <1>1, <1>2, <2>1, <2>2 DEF InBlock
  <2> QED
    BY <1>1, <2>3
<1>6. Held(R, L)
  <2> SUFFICES ASSUME NEW b \in L
               PROVE  \E i \in DOMAIN R : b.at = DataOf(R[i].at) /\ b.bytes <= R[i].bytes
    BY DEF Heap, Held
  <2>1. PICK i \in DOMAIN blocks : b.at = DataOf(blocks[i].at) /\ b.bytes <= blocks[i].bytes
    BY DEF Heap, Held
  <2>2. b.bytes \in Nat
    OBVIOUS
  <2>3. b.bytes <= R[i].bytes
    BY <1>1, <1>2, <2>1, <2>2
  <2> QED
    BY <1>1, <2>1, <2>3
<1> QED
  BY <1>3, <1>4, <1>5, <1>6 DEF Heap, R

(* A block at the end of the list.  Where it fits nothing is stored there. *)
LEMMA NewIsUntouched ==
  ASSUME Listed(blocks), NEW new \in Block, Fit(Append(blocks, new)),
         Typed(cells), Inside(blocks, cells), NEW g \in Fields
  PROVE  Untouched(cells, new.at, g)
<1> DEFINE A == Append(blocks, new)
           last == Len(blocks) + 1
<1>1. /\ Listed(A) /\ last \in DOMAIN A /\ A[last] = new
      /\ \A i \in DOMAIN blocks : i \in DOMAIN A /\ i # last /\ A[i] = blocks[i]
  BY AppendedIs, ListedIs
<1>2. /\ \A i \in DOMAIN blocks : blocks[i].at \in Nat /\ blocks[i].bytes \in Nat
      /\ new.at \in Nat /\ new.bytes \in Nat
      /\ IsField(g) /\ g.offset + g.width <= data_start /\ data_start = 29
  BY ListedIs, FieldTypes DEF Block
<1>3. ASSUME NEW c \in cells
      PROVE  ~Covers(c, new.at + g.offset, g.width)
  <2>1. PICK i \in DOMAIN blocks : InBlock(blocks[i], c.at, c.of.width)
    BY DEF Inside
  <2>2. \/ blocks[i].at + data_start + blocks[i].bytes <= new.at
        \/ new.at + data_start + new.bytes <= blocks[i].at
    BY <1>1 DEF Fit
  <2>3. c.at \in Nat /\ c.of.width \in Nat
    BY DEF Typed, IsField
  <2> QED
    BY <1>2, <2>1, <2>2, <2>3 DEF InBlock, Covers, IsField
<1> QED
  BY <1>3 DEF Untouched, Over

LEMMA HeapAttached ==
  ASSUME Listed(blocks), Typed(cells), Heap(blocks, cells, live),
         NEW sz \in Nat, NEW new \in Block, new.at = NewBlock(sz), new.bytes = sz,
         NEW b, b.at = DataOf(new.at), b.bytes = sz,
         Fit(Append(blocks, new))
  PROVE  LET prev == blocks[Len(blocks)].at
             m == Extended(prev, sz)
         IN  /\ Keeps(m, prev, next, new.at)
             /\ Heap(Append(blocks, new), Taken(m, new.at), live \union {b})
<1> DEFINE A == Append(blocks, new)
           n == Len(blocks)
           prev == blocks[n].at
           m1 == Store(cells, prev, next, new.at)
           m2 == Store(m1, new.at, magic, MAGIC)
           m3 == Store(m2, prev, size, sz)
           m4 == Store(m3, new.at, is_free, 0)
           L2 == live \union {b}
<1>1. m3 = Extended(prev, sz) /\ m4 = Taken(m3, new.at)
  BY TakenIs DEF Extended
<1>2. /\ n \in Nat \ {0} /\ DOMAIN blocks = 1 .. n /\ n \in DOMAIN blocks
      /\ blocks[1].at = 0
  BY ListedIs DEF Listed
<1>3. /\ Listed(A) /\ Fit(A) /\ Len(A) = n + 1 /\ DOMAIN A = 1 .. n + 1
      /\ A[n + 1] = new /\ \A i \in DOMAIN blocks : A[i] = blocks[i]
  BY AppendedIs
<1> HIDE DEF A, n
<1>4. /\ n \in DOMAIN A /\ n + 1 \in DOMAIN A /\ n # n + 1
      /\ A[n].at = prev /\ A[n + 1].at = new.at
  BY <1>2, <1>3
<1>5. /\ \A i \in 1 .. n - 1 : i \in DOMAIN A /\ i \in DOMAIN blocks /\ i + 1 \in DOMAIN blocks
                                /\ i # n /\ i # n + 1
      /\ \A i \in DOMAIN A : i \in DOMAIN blocks \/ i = n + 1
      /\ \A i \in DOMAIN blocks : i \in DOMAIN A /\ i # n + 1
  BY <1>2, <1>3
<1> HIDE DEF prev
<1>6. Inside(A, cells)
  BY <1>3, <1>5 DEF Heap, Inside
<1> DEFINE Kept(a, z, i, f) ==
             /\ \A j \in DOMAIN A, g \in Fields :
                  j # i \/ g # f =>
                    /\ \A v : Keeps(a, A[j].at, g, v) => Keeps(z, A[j].at, g, v)
                    /\ Untouched(a, A[j].at, g) => Untouched(z, A[j].at, g)
             /\ Inside(A, a) => Inside(A, z)
<1>7. Kept(cells, m1, n, next) /\ Keeps(m1, prev, next, new.at)
  BY <1>3, <1>4, FieldStored, FieldsDiffer
<1> HIDE DEF m1
<1>8. Kept(m1, m2, n + 1, magic) /\ Keeps(m2, new.at, magic, MAGIC)
  BY <1>3, <1>4, FieldStored, FieldsDiffer
<1> HIDE DEF m2
<1>9. Kept(m2, m3, n, size) /\ Keeps(m3, prev, size, sz)
  BY <1>3, <1>4, FieldStored, FieldsDiffer
<1> HIDE DEF m3
<1>10. Kept(m3, m4, n + 1, is_free) /\ Keeps(m4, new.at, is_free, 0)
  BY <1>3, <1>4, FieldStored, FieldsDiffer
<1> HIDE DEF m4
<1>11. Keeps(m3, prev, next, new.at) /\ Keeps(m4, prev, next, new.at)
  <2>1. Keeps(m2, prev, next, new.at)
    BY <1>4, <1>7, <1>8, FieldsDiffer
  <2>2. Keeps(m3, prev, next, new.at)
    BY <1>4, <1>9, <2>1, FieldsDiffer
  <2> QED
    BY <1>4, <1>10, <2>2, FieldsDiffer
<1>12. Keeps(m4, prev, size, sz)
  BY <1>4, <1>9, <1>10, FieldsDiffer
<1>13. Keeps(m4, new.at, magic, MAGIC)
  <2>1. Keeps(m3, new.at, magic, MAGIC)
    BY <1>4, <1>8, <1>9, FieldsDiffer
  <2> QED
    BY <1>4, <1>10, <2>1, FieldsDiffer
(* All that the four stores do not reach. *)
<1>14. ASSUME NEW j \in DOMAIN A, NEW g \in Fields,
              j = n => g # next /\ g # size,
              j = n + 1 => g # magic /\ g # is_free
       PROVE  /\ \A v : Keeps(cells, A[j].at, g, v) => Keeps(m4, A[j].at, g, v)
              /\ Untouched(cells, A[j].at, g) => Untouched(m4, A[j].at, g)
  <2>1. /\ \A v : Keeps(cells, A[j].at, g, v) => Keeps(m1, A[j].at, g, v)
        /\ Untouched(cells, A[j].at, g) => Untouched(m1, A[j].at, g)
    BY <1>7, <1>14
  <2>2. /\ \A v : Keeps(m1, A[j].at, g, v) => Keeps(m2, A[j].at, g, v)
        /\ Untouched(m1, A[j].at, g) => Untouched(m2, A[j].at, g)
    BY <1>8, <1>14
  <2>3. /\ \A v : Keeps(m2, A[j].at, g, v) => Keeps(m3, A[j].at, g, v)
        /\ Untouched(m2, A[j].at, g) => Untouched(m3, A[j].at, g)
    BY <1>9, <1>14
  <2>4. /\ \A v : Keeps(m3, A[j].at, g, v) => Keeps(m4, A[j].at, g, v)
        /\ Untouched(m3, A[j].at, g) => Untouched(m4, A[j].at, g)
    BY <1>10, <1>14
  <2> QED
    BY <2>1, <2>2, <2>3, <2>4
<1>15. Untouched(m4, new.at, next) /\ Untouched(m4, new.at, size)
  <2>1. Untouched(cells, new.at, next) /\ Untouched(cells, new.at, size)
    BY NewIsUntouched, FieldsDiffer DEF Heap
  <2> QED
    BY <1>4, <1>14, <2>1, FieldsDiffer
<1>16. Inside(A, m4)
  BY <1>6, <1>7, <1>8, <1>9, <1>10
<1> HIDE DEF Kept
<1>17. /\ Held(A, L2) /\ FreeMark(new.at, L2) = 0
       /\ \A j \in DOMAIN A : j # n + 1 => FreeMark(A[j].at, L2) = FreeMark(A[j].at, live)
  <2>1. Held(A, live)
    BY <1>3, <1>5 DEF Heap, Held
  <2>2. ~HeldIn(DataOf(new.at), live)
    <3> SUFFICES ASSUME NEW a \in live, a.at = DataOf(new.at)
                 PROVE  FALSE
      BY DEF HeldIn
    <3>1. PICK i \in DOMAIN blocks : a.at = DataOf(blocks[i].at)
      BY DEF Heap, Held
    <3>2. /\ i \in DOMAIN A /\ A[i].at \in Nat /\ A[n + 1].at \in Nat
          /\ A[i].at # A[n + 1].at /\ A[i] = blocks[i]
      BY <1>3, <1>4, <1>5, HeadersApart, ListedIs
    <3> QED
      BY <1>4, <3>1, <3>2 DEF DataOf, data_start
  <2>3. b.bytes <= A[n + 1].bytes
    BY <1>3
  <2>4. b.at = DataOf(A[n + 1].at) /\ ~HeldIn(DataOf(A[n + 1].at), live)
    BY <1>4, <2>2
  <2>5. /\ Held(A, L2) /\ FreeMark(A[n + 1].at, L2) = 0
        /\ \A j \in DOMAIN A : j # n + 1 => FreeMark(A[j].at, L2) = FreeMark(A[j].at, live)
    <3>1. PICK k \in DOMAIN A : k = n + 1
      BY <1>4
    <3>2. /\ Listed(A) /\ Fit(A) /\ b.bytes <= A[k].bytes
          /\ b.at = DataOf(A[k].at) /\ ~HeldIn(DataOf(A[k].at), live)
      BY <1>3, <2>3, <2>4, <3>1
    <3>3. /\ Held(A, L2) /\ FreeMark(A[k].at, L2) = 0
          /\ \A j \in DOMAIN A :
               j # k => FreeMark(A[j].at, L2) = FreeMark(A[j].at, live)
      <4>1. L2 = live \cup {b}
        OBVIOUS
      <4> HIDE DEF L2
      <4> QED
        BY <2>1, <3>2, <4>1, HeldMore
    <3> QED
      BY <3>1, <3>3
  <2> QED
    BY <1>4, <2>5
<1>18. Linked(A, m4)
  <2>1. ASSUME NEW i \in 1 .. n
        PROVE  Keeps(m4, A[i].at, next, A[i + 1].at)
    <3>1. CASE i = n
      BY <1>4, <1>11, <3>1
    <3>2. CASE i # n
      <4>1. i \in 1 .. n - 1
        BY <1>2, <3>2
      <4>2. Keeps(cells, blocks[i].at, next, blocks[i + 1].at)
        BY <4>1 DEF Heap, Linked, n
      <4>3. A[i] = blocks[i] /\ A[i + 1] = blocks[i + 1] /\ i \in DOMAIN A /\ i # n + 1
        BY <1>3, <1>5, <4>1
      <4> QED
        BY <1>14, <3>2, <4>2, <4>3, FieldsDiffer
    <3> QED
      BY <3>1, <3>2
  <2>2. Len(A) # 1 /\ Len(A) - 1 = n
    BY <1>2, <1>3
  <2> QED
    BY <1>3, <1>4, <1>15, <2>1, <2>2 DEF Linked
<1>19. Marked(A, m4, L2)
  <2> SUFFICES ASSUME NEW j \in DOMAIN A
               PROVE  /\ Keeps(m4, A[j].at, is_free, FreeMark(A[j].at, L2))
                      /\ Keeps(m4, A[j].at, magic, MAGIC)
    BY DEF Marked
  <2>1. CASE j = n + 1
    BY <1>4, <1>10, <1>13, <1>17, <2>1
  <2>2. CASE j # n + 1
    <3>1. j \in DOMAIN blocks /\ A[j] = blocks[j]
      BY <1>3, <1>5, <2>2
    <3>2. /\ Keeps(cells, A[j].at, is_free, FreeMark(A[j].at, live))
          /\ Keeps(cells, A[j].at, magic, MAGIC)
      BY <3>1 DEF Heap, Marked
    <3> QED
      BY <1>14, <1>17, <2>2, <3>2, FieldsDiffer
  <2> QED
    BY <2>1, <2>2
<1>20. Sized(A, m4)
  <2> SUFFICES ASSUME NEW j \in DOMAIN A
               PROVE  \/ \E s \in Int : Keeps(m4, A[j].at, size, s)
                      \/ j = n + 1 /\ Untouched(m4, A[j].at, size)
    BY <1>2, <1>3 DEF Sized
  <2>1. CASE j = n + 1
    BY <1>4, <1>15, <2>1
  <2>2. CASE j = n
    BY <1>4, <1>12, <2>2
  <2>3. CASE j # n /\ j # n + 1
    <3>1. j \in DOMAIN blocks /\ A[j] = blocks[j]
      BY <1>3, <1>5, <2>3
    <3>2. \E s \in Int : Keeps(cells, A[j].at, size, s)
      BY <2>3, <3>1 DEF Heap, Sized, n
    <3> QED
      BY <1>14, <2>3, <3>2, FieldsDiffer
  <2> QED
    BY <2>1, <2>2, <2>3
<1>21. Heap(A, m4, L2)
  BY <1>16, <1>17, <1>18, <1>19, <1>20 DEF Heap
<1> QED
  BY <1>1, <1>11, <1>21 DEF A, n, prev

(* A client writing in its block. *)
LEMMA DataApart ==
  ASSUME NEW B, Listed(B), Fit(B), NEW k \in DOMAIN B, NEW bytes \in Nat \ {0},
         bytes <= B[k].bytes
  PROVE  /\ DataOf(B[k].at) \in Nat
         /\ InBlock(B[k], DataOf(B[k].at), bytes)
         /\ \A j \in DOMAIN B, g \in Fields :
              Apart(DataOf(B[k].at), bytes, B[j].at + g.offset, g.width)
<1>1. /\ \A j \in DOMAIN B : B[j].at \in Nat /\ B[j].bytes \in Nat
      /\ \A g \in Fields : IsField(g) /\ g.offset + g.width <= data_start
      /\ data_start = 29
  BY ListedIs, FieldTypes
<1>2. DataOf(B[k].at) = B[k].at + data_start
  BY DEF DataOf
<1>3. DataOf(B[k].at) \in Nat /\ InBlock(B[k], DataOf(B[k].at), bytes)
  BY <1>1, <1>2 DEF InBlock
<1>4. ASSUME NEW j \in DOMAIN B, NEW g \in Fields
      PROVE  Apart(DataOf(B[k].at), bytes, B[j].at + g.offset, g.width)
  <2>1. CASE j = k
    BY <1>1, <1>2, <2>1 DEF Apart, IsField
  <2>2. CASE j # k
    <3>1. \/ B[k].at + data_start + B[k].bytes <= B[j].at
          \/ B[j].at + data_start + B[j].bytes <= B[k].at
      BY <2>2 DEF Fit
    <3> QED
      BY <1>1, <1>2, <3>1 DEF Apart, IsField
  <2> QED
    BY <2>1, <2>2
<1> QED
  BY <1>3, <1>4

LEMMA HeapWritten ==
  ASSUME NEW B, Listed(B), Fit(B), NEW m, NEW L, Heap(B, m, L),
         NEW b \in L, b.bytes \in Nat \ {0}
  PROVE  Heap(B, Put(m, b.at, Filling(b.bytes), b.client), L)
<1> DEFINE m2 == Put(m, b.at, Filling(b.bytes), b.client)
<1>1. PICK k \in DOMAIN B : b.at = DataOf(B[k].at) /\ b.bytes <= B[k].bytes
  BY DEF Heap, Held
<1>2. /\ b.at \in Nat /\ IsField(Filling(b.bytes)) /\ Filling(b.bytes).width = b.bytes
      /\ InBlock(B[k], b.at, b.bytes)
      /\ \A j \in DOMAIN B, g \in Fields :
           Apart(b.at, b.bytes, B[j].at + g.offset, g.width)
  BY <1>1, DataApart, FieldTypes
<1>3. ASSUME NEW j \in DOMAIN B, NEW g \in Fields
      PROVE  /\ \A v : Keeps(m, B[j].at, g, v) => Keeps(m2, B[j].at, g, v)
             /\ Untouched(m, B[j].at, g) => Untouched(m2, B[j].at, g)
  <2>1. B[j].at \in Nat
    BY ListedIs
  <2> QED
    BY <1>2, <2>1, PutSparesField
<1>4. Inside(B, m2)
  BY <1>2, InsideKept DEF Heap
<1> HIDE DEF m2
<1>5. /\ Len(B) \in Nat \ {0} /\ DOMAIN B = 1 .. Len(B) /\ B[1].at = 0 /\ 1 \in DOMAIN B
      /\ Len(B) \in DOMAIN B
  BY ListedIs DEF Listed
<1>6. Linked(B, m2)
  <2>1. ASSUME NEW j \in 1 .. Len(B) - 1
        PROVE  Keeps(m2, B[j].at, next, B[j + 1].at)
    <3>1. j \in DOMAIN B /\ Keeps(m, B[j].at, next, B[j + 1].at)
      BY <1>5, <2>1 DEF Heap, Linked
    <3> QED
      BY <1>3, <3>1, FieldsDiffer
  <2>2. ASSUME Len(B) = 1
        PROVE  Keeps(m2, 0, next, NULL)
    <3>1. Keeps(m, B[1].at, next, NULL)
      BY <1>5, <2>2 DEF Heap, Linked
    <3>2. Keeps(m2, B[1].at, next, NULL)
      BY <1>3, <1>5, <3>1, FieldsDiffer
    <3> QED
      BY <1>5, <3>2
  <2>3. ASSUME Len(B) # 1
        PROVE  Untouched(m2, B[Len(B)].at, next)
    <3>1. Untouched(m, B[Len(B)].at, next)
      BY <2>3 DEF Heap, Linked
    <3> QED
      BY <1>3, <1>5, <3>1, FieldsDiffer
  <2> QED
    BY <2>1, <2>2, <2>3 DEF Linked
<1>7. Marked(B, m2, L) /\ Sized(B, m2)
  BY <1>3, FieldsDiffer DEF Heap, Marked, Sized
<1> QED
  BY <1>4, <1>6, <1>7 DEF Heap, m2

-----------------------------------------------------------------------------
(* The steps.  Whether the heap is sound after one matters only where the  *)
(* blocks fit, and then they did fit before.                               *)
LEMMA SoundBefore ==
  ASSUME IInv, Fit(blocks), calls < MaxCalls
  PROVE  Sound
<1>1. Len(blocks) <= calls + 1 /\ Len(blocks) \in Nat
  BY ListedIs DEF IInv
<1>2. Len(blocks) <= MaxCalls
  BY <1>1, NumbersAre DEF IInv, TypeOK
<1> QED
  BY <1>2 DEF IInv, Sound

(* There is a first free block, or none is free. *)
LEMMA FirstFree ==
  ASSUME Listed(blocks)
  PROVE  \/ \A i \in DOMAIN blocks : IsHeld(i)
         \/ \E k \in DOMAIN blocks : ~IsHeld(k) /\ \A i \in 1 .. k - 1 : IsHeld(i)
<1> DEFINE F == {i \in DOMAIN blocks : ~IsHeld(i)}
<1>1. DOMAIN blocks = 1 .. Len(blocks) /\ Len(blocks) \in Nat
  BY ListedIs
<1>2. CASE F = {}
  BY <1>2
<1>3. CASE F # {}
  <2>1. F \in SUBSET Nat
    BY <1>1
  <2>2. PICK k \in F : \A i \in F : k <= i
    BY <1>3, <2>1, LeastOf
  <2>3. ASSUME NEW i \in 1 .. k - 1
        PROVE  IsHeld(i)
    <3>1. i \in DOMAIN blocks /\ ~(k <= i)
      BY <1>1, <2>1, <2>2
    <3> QED
      BY <2>2, <3>1
  <2> QED
    BY <2>2, <2>3
<1> QED
  BY <1>2, <1>3

LEMMA KmallocCases ==
  ASSUME NEW sz \in Sizes, kmalloc(sz)
  PROVE  /\ calls < MaxCalls /\ ~wild /\ ~panicked /\ Cardinality(live) < MaxLive
         /\ calls' = calls + 1 /\ UNCHANGED <<cleared, panicked>>
         /\ \/ Refuse
            \/ /\ Walk.astray /\ wild' = TRUE
               /\ UNCHANGED <<cells, mem_allocated, ret, live, blocks>>
            \/ /\ ~Walk.astray /\ Walk.at # NULL
               /\ blocks' = Regranted(Walk.at, sz)
               /\ Grant(Walk.at, sz, cells)
            \/ /\ ~Walk.astray /\ Walk.at = NULL
               /\ Attach(Walk.prev, sz, Extended(Walk.prev, sz))
BY DEF kmalloc

(* The cases of the last one: the new block is granted, or its address     *)
(* was lost, and then it does not fit.                                     *)
LEMMA AttachCases ==
  ASSUME IInv, NEW sz \in Sizes, kmalloc(sz), ~Walk.astray, Walk.at = NULL,
         Attach(Walk.prev, sz, Extended(Walk.prev, sz))
  PROVE  /\ Walk.prev \in Nat /\ NewBlock(sz) \in Nat
         /\ blocks' = Append(blocks, [at |-> NewBlock(sz), bytes |-> sz])
         /\ \/ Grant(NewBlock(sz), sz, Extended(Walk.prev, sz))
            \/ /\ Stored(Extended(Walk.prev, sz), Walk.prev, next) = {}
               /\ wild' = TRUE
               /\ UNCHANGED <<cells, mem_allocated, ret, live>>
<1>1. Walk.prev \in Nat
  BY WalkTyped DEF IInv
<1>2. /\ NewBlock(sz) \in Nat
      /\ Stored(Extended(Walk.prev, sz), Walk.prev, next) \subseteq {NewBlock(sz)}
  BY <1>1, ExtendedIs DEF IInv, NextsAre
<1> QED
  BY <1>1, <1>2 DEF Attach

(* What a step must leave for the invariant to hold after it. *)
LEMMA After ==
  ASSUME /\ calls' \in 0 .. MaxCalls /\ cleared' \in BOOLEAN
         /\ panicked' \in BOOLEAN /\ wild' \in BOOLEAN
         /\ mem_allocated' \in 0 .. WordMod - 1 /\ ret' \in Nat \union {NULL},
         Typed(cells'), NextsAre(cells'),
         \A b \in live' : /\ b.at \in Nat /\ b.bytes \in Sizes /\ b.client \in 1 .. MaxLive
                          /\ BlockOf(b.at) \in Nat,
         IsFiniteSet(live'), Listed(blocks'), Len(blocks') <= calls' + 1,
         Fit(blocks') => /\ ~panicked'
                         /\ wild' => Len(blocks') > 1 /\ ~cleared'
                         /\ Heap(blocks', cells', live')
  PROVE  IInv'
<1>1. BlocksFit' <=> Fit(blocks')
  BY DEF BlocksFit, Fit
<1>2. TypeOK'
  BY DEF TypeOK, Typed, IsField, Listed, Block
<1>3. FreesAccepted' /\ OnStoredValues'
  BY <1>1 DEF FreesAccepted, OnStoredValues
<1>4. /\ \A c \in cells' : c.of = next => c.val \in Nat \union {NULL}
      /\ \A b \in live' : BlockOf(b.at)' \in Nat
  BY DEF NextsAre, BlockOf
<1> QED
  BY <1>2, <1>3, <1>4 DEF IInv

LEMMA Before ==
  ASSUME IInv
  PROVE  /\ calls \in 0 .. MaxCalls /\ cleared \in BOOLEAN
         /\ panicked \in BOOLEAN /\ wild \in BOOLEAN
         /\ mem_allocated \in 0 .. WordMod - 1 /\ ret \in Nat \union {NULL}
         /\ Typed(cells) /\ NextsAre(cells)
         /\ \A b \in live : /\ b.at \in Nat /\ b.bytes \in Sizes /\ b.client \in 1 .. MaxLive
                            /\ BlockOf(b.at) \in Nat
         /\ IsFiniteSet(live) /\ Listed(blocks) /\ Len(blocks) <= calls + 1
         /\ Fit(blocks) => /\ ~panicked
                           /\ wild => Len(blocks) > 1 /\ ~cleared
                           /\ Heap(blocks, cells, live)
BY FitIs DEF IInv, TypeOK, Typed, IsField, NextsAre, FreesAccepted, OnStoredValues

LEMMA NextCall ==
  ASSUME IInv, calls < MaxCalls, calls' = calls + 1
  PROVE  /\ calls' \in 0 .. MaxCalls
         /\ Len(blocks) \in Nat \ {0} /\ Len(blocks) <= calls' /\ calls' <= calls' + 1
<1>1. /\ Len(blocks) \in Nat \ {0} /\ Len(blocks) <= calls + 1
      /\ calls \in 0 .. MaxCalls /\ MaxCalls \in Nat
  BY ListedIs, NumbersAre DEF IInv, TypeOK
<1> QED
  BY <1>1

(* Where the walk of a sound heap ends. *)
LEMMA WalkGoes ==
  ASSUME IInv, Fit(blocks), calls < MaxCalls
  PROVE  \/ Walk.astray /\ Len(blocks) > 1 /\ ~cleared
         \/ /\ ~Walk.astray
            /\ \E k \in DOMAIN blocks : ~IsHeld(k) /\ Walk.at = blocks[k].at
         \/ ~Walk.astray /\ Walk.at = NULL /\ Walk.prev = blocks[Len(blocks)].at
<1>1. Sound
  BY SoundBefore
<1>2. Len(blocks) \in Nat \ {0} /\ Listed(blocks)
  BY ListedIs DEF IInv
<1>3. CASE \A i \in DOMAIN blocks : IsHeld(i)
  <2>1. IF Len(blocks) = 1 \/ cleared
        THEN ~Walk.astray /\ Walk.at = NULL /\ Walk.prev = blocks[Len(blocks)].at
        ELSE Walk.astray
    BY <1>1, <1>3, WalkIs
  <2>2. \A n \in Nat \ {0} : n # 1 => n > 1
    OBVIOUS
  <2> QED
    BY <1>2, <2>1, <2>2
<1>4. CASE \E k \in DOMAIN blocks : ~IsHeld(k) /\ \A i \in 1 .. k - 1 : IsHeld(i)
  BY <1>1, <1>4, WalkIs
<1> QED
  BY <1>2, <1>3, <1>4, FirstFree

(* Granting a free block of the list again. *)
LEMMA RegrantStep ==
  ASSUME IInv, NEW sz \in Sizes, kmalloc(sz), ~Walk.astray, Walk.at # NULL,
         blocks' = Regranted(Walk.at, sz), Grant(Walk.at, sz, cells)
  PROVE  IInv'
<1> DEFINE b == [at |-> DataOf(Walk.at), bytes |-> sz, client |-> Client]
<1>1. /\ calls < MaxCalls /\ ~wild /\ ~panicked /\ Cardinality(live) < MaxLive
      /\ calls' = calls + 1 /\ cleared' = cleared /\ panicked' = panicked
  BY KmallocCases
<1>2. Walk.at \in Nat /\ sz \in Nat
  BY WalkTyped, NumbersAre DEF IInv
<1>3. /\ Typed(cells') /\ NextsAre(cells') /\ mem_allocated' \in 0 .. WordMod - 1
      /\ ret' \in Nat \union {NULL} /\ IsFiniteSet(live') /\ wild' = wild
      /\ \A a \in live' : /\ a.at \in Nat /\ a.bytes \in Sizes /\ a.client \in 1 .. MaxLive
                          /\ BlockOf(a.at) \in Nat
  BY <1>1, <1>2, Before, GrantTypes DEF IInv
<1>4. /\ Listed(blocks') /\ Len(blocks') = Len(blocks) /\ DOMAIN blocks' = DOMAIN blocks
      /\ \A i \in DOMAIN blocks :
           /\ blocks'[i].at = blocks[i].at /\ blocks[i].bytes <= blocks'[i].bytes
           /\ blocks[i].at = Walk.at => sz <= blocks'[i].bytes
  BY <1>2, Before, RegrantedIs
<1>5. /\ calls' \in 0 .. MaxCalls /\ Len(blocks') <= calls' + 1
      /\ Len(blocks) \in Nat
  <2>1. calls' \in Nat /\ Len(blocks) \in Nat /\ Len(blocks) <= calls'
    BY <1>1, NextCall
  <2> QED
    BY <1>1, <1>4, <2>1, NextCall
<1>6. ASSUME Fit(blocks')
      PROVE  Heap(blocks', cells', live')
  <2>1. Fit(blocks)
    BY <1>4, <1>5, <1>6, Before, FitBefore
  <2>2. PICK k \in DOMAIN blocks : ~IsHeld(k) /\ Walk.at = blocks[k].at
    BY <1>1, <2>1, WalkGoes
  <2>3. Heap(blocks', cells, live)
    <3>1. \A a \in live : a.bytes \in Nat
      BY Before, NumbersAre
    <3> QED
      BY <1>1, <1>2, <2>1, <3>1, Before, HeapRegranted
  <2>4. cells' = Store(cells, Walk.at, is_free, 0) /\ live' = live \union {b}
    BY TakenIs DEF Grant
  <2>5. /\ b.at = DataOf(blocks'[k].at) /\ b.bytes <= blocks'[k].bytes
        /\ ~HeldIn(DataOf(blocks'[k].at), live) /\ k \in DOMAIN blocks'
        /\ blocks'[k].at = Walk.at
    BY <1>4, <2>2 DEF IsHeld
  <2> HIDE DEF b
  <2>6. /\ Held(blocks', live') /\ FreeMark(blocks'[k].at, live') = 0
        /\ \A j \in DOMAIN blocks' :
             j # k => FreeMark(blocks'[j].at, live') = FreeMark(blocks'[j].at, live)
    <3>1. PICK B, L2 : B = blocks' /\ L2 = live'
      OBVIOUS
    <3>2. /\ Held(B, live) /\ L2 = live \union {b} /\ Listed(B) /\ Fit(B)
          /\ k \in DOMAIN B /\ b.at = DataOf(B[k].at) /\ b.bytes <= B[k].bytes
          /\ ~HeldIn(DataOf(B[k].at), live)
      BY <1>4, <1>6, <2>3, <2>4, <2>5, <3>1 DEF Heap
    <3>3. /\ Held(B, L2) /\ FreeMark(B[k].at, L2) = 0
          /\ \A j \in DOMAIN B :
               j # k => FreeMark(B[j].at, L2) = FreeMark(B[j].at, live)
      BY <3>2, HeldMore
    <3> QED
      BY <3>1, <3>3
  <2>7. Heap(blocks', Store(cells, blocks'[k].at, is_free, FreeMark(blocks'[k].at, live')), live')
    BY <1>4, <1>6, <2>3, <2>5, <2>6, HeapMarked
  <2> QED
    BY <2>4, <2>5, <2>6, <2>7
<1> QED
  BY <1>1, <1>3, <1>4, <1>5, <1>6, Before, After

(* A new block at the end of the list. *)
LEMMA AttachStep ==
  ASSUME IInv, NEW sz \in Sizes, kmalloc(sz), ~Walk.astray, Walk.at = NULL,
         Attach(Walk.prev, sz, Extended(Walk.prev, sz))
  PROVE  IInv'
<1> DEFINE new == [at |-> NewBlock(sz), bytes |-> sz]
           b == [at |-> DataOf(NewBlock(sz)), bytes |-> sz, client |-> Client]
           m == Extended(Walk.prev, sz)
<1>1. /\ calls < MaxCalls /\ ~wild /\ ~panicked /\ Cardinality(live) < MaxLive
      /\ calls' = calls + 1 /\ cleared' = cleared /\ panicked' = panicked
  BY KmallocCases
<1>2. /\ Walk.prev \in Nat /\ NewBlock(sz) \in Nat
      /\ blocks' = Append(blocks, new)
      /\ \/ Grant(NewBlock(sz), sz, m)
         \/ /\ Stored(m, Walk.prev, next) = {} /\ wild' = TRUE
            /\ UNCHANGED <<cells, mem_allocated, ret, live>>
  BY AttachCases
<1>3. sz \in Nat /\ new \in Block /\ new.at = NewBlock(sz) /\ new.bytes = sz
  BY <1>2, NumbersAre DEF Block
<1>4. b.at = DataOf(new.at) /\ b.bytes = sz
  OBVIOUS
<1> HIDE DEF new, b
<1>5. /\ Listed(blocks') /\ Len(blocks') = Len(blocks) + 1 /\ Len(blocks) \in Nat \ {0}
      /\ \A i \in DOMAIN blocks : blocks'[i] = blocks[i]
      /\ \A i \in DOMAIN blocks : blocks[i].bytes <= blocks'[i].bytes
  <2>1. /\ Listed(blocks') /\ Len(blocks') = Len(blocks) + 1
        /\ \A i \in DOMAIN blocks : blocks'[i] = blocks[i]
    BY <1>2, <1>3, Before, AppendedIs
  <2>2. Len(blocks) \in Nat \ {0} /\ \A i \in DOMAIN blocks : blocks[i].bytes \in Nat
    BY Before, ListedIs
  <2> QED
    BY <2>1, <2>2
<1>6. calls' \in 0 .. MaxCalls /\ Len(blocks') <= calls' + 1
  <2>1. calls' \in 0 .. MaxCalls /\ Len(blocks) <= calls'
    BY <1>1, NextCall
  <2> QED
    BY <1>5, <2>1
<1>7. ASSUME Fit(blocks')
      PROVE  /\ Stored(m, Walk.prev, next) # {}
             /\ Grant(NewBlock(sz), sz, m) => Heap(blocks', cells', live')
  <2>1. Fit(blocks)
    BY <1>5, <1>7, Before, FitBefore
  <2>2. Walk.prev = blocks[Len(blocks)].at /\ Heap(blocks, cells, live)
    <3>1. \A k \in DOMAIN blocks : blocks[k].at # NULL
      BY Before, ListedIs DEF NULL
    <3> QED
      BY <1>1, <2>1, <3>1, Before, WalkGoes
  <2>3. /\ Keeps(m, Walk.prev, next, new.at)
        /\ Heap(blocks', Taken(m, new.at), live \union {b})
    BY <1>2, <1>3, <1>4, <1>7, <2>2, Before, HeapAttached
  <2>4. Stored(m, Walk.prev, next) # {}
    BY <2>3, Loads
  <2>5. Grant(NewBlock(sz), sz, m) => cells' = Taken(m, new.at) /\ live' = live \union {b}
    BY <1>3 DEF Grant, b
  <2> QED
    BY <2>3, <2>4, <2>5
<1>8. CASE Grant(NewBlock(sz), sz, m)
  <2>1. Typed(m) /\ NextsAre(m)
    BY <1>2, Before, ExtendedIs DEF IInv
  <2>2. /\ Typed(cells') /\ NextsAre(cells') /\ mem_allocated' \in 0 .. WordMod - 1
        /\ ret' \in Nat \union {NULL} /\ IsFiniteSet(live') /\ wild' = wild
        /\ \A a \in live' : /\ a.at \in Nat /\ a.bytes \in Sizes /\ a.client \in 1 .. MaxLive
                            /\ BlockOf(a.at) \in Nat
    <3> HIDE DEF m
    <3> QED
      BY <1>1, <1>2, <1>8, <2>1, Before, GrantTypes DEF IInv
  <2> QED
    BY <1>1, <1>5, <1>6, <1>7, <1>8, <2>2, Before, After
<1>9. CASE /\ Stored(m, Walk.prev, next) = {} /\ wild' = TRUE
           /\ UNCHANGED <<cells, mem_allocated, ret, live>>
  <2>1. ~Fit(blocks')
    BY <1>7, <1>9
  <2>2. /\ Typed(cells') /\ NextsAre(cells') /\ mem_allocated' \in 0 .. WordMod - 1
        /\ ret' \in Nat \union {NULL} /\ IsFiniteSet(live')
        /\ \A a \in live' : /\ a.at \in Nat /\ a.bytes \in Sizes /\ a.client \in 1 .. MaxLive
                            /\ BlockOf(a.at) \in Nat
    BY <1>9, Before
  <2> QED
    BY <1>1, <1>5, <1>6, <1>9, <2>1, <2>2, Before, After
<1> QED
  BY <1>2, <1>8, <1>9

LEMMA KmallocStep ==
  ASSUME IInv, NEW sz \in Sizes, kmalloc(sz)
  PROVE  IInv'
<1>1. /\ calls < MaxCalls /\ ~wild /\ ~panicked
      /\ calls' = calls + 1 /\ cleared' = cleared /\ panicked' = panicked
  BY KmallocCases
<1>2. calls' \in 0 .. MaxCalls /\ Len(blocks) <= calls' + 1
  <2>1. calls' \in 0 .. MaxCalls /\ Len(blocks) \in Nat /\ Len(blocks) <= calls'
    BY <1>1, NextCall
  <2> QED
    BY <2>1
<1>3. CASE Refuse
  <2>1. /\ cells' = cells /\ mem_allocated' = mem_allocated /\ live' = live
        /\ blocks' = blocks /\ wild' = wild /\ ret' = NULL
    BY <1>3 DEF Refuse
  <2> QED
    BY <1>1, <1>2, <2>1, Before, After
<1>4. CASE /\ Walk.astray /\ wild' = TRUE
           /\ UNCHANGED <<cells, mem_allocated, ret, live, blocks>>
  <2>1. /\ cells' = cells /\ mem_allocated' = mem_allocated /\ live' = live
        /\ blocks' = blocks /\ wild' = TRUE /\ ret' = ret
    BY <1>4
  <2>2. Fit(blocks') => Len(blocks) > 1 /\ ~cleared
    BY <1>1, <1>4, <2>1, WalkGoes
  <2> QED
    BY <1>1, <1>2, <2>1, <2>2, Before, After
<1> QED
  BY <1>3, <1>4, KmallocCases, RegrantStep, AttachStep

(* A client writes in its block.                                           *)
LEMMA WriteStep ==
  ASSUME IInv, NEW b \in live, Write(b)
  PROVE  IInv'
<1>1. /\ ~wild /\ ~panicked /\ b.bytes > 0
      /\ cells' = Put(cells, b.at, Filling(b.bytes), b.client)
      /\ cleared' = cleared /\ mem_allocated' = mem_allocated /\ ret' = ret
      /\ live' = live /\ blocks' = blocks /\ calls' = calls
      /\ wild' = wild /\ panicked' = panicked
  BY DEF Write
<1>2. b.at \in Nat /\ b.bytes \in Nat \ {0} /\ b.client \in Int
  <2>1. b.at \in Nat /\ b.bytes \in Sizes /\ b.client \in 1 .. MaxLive
    BY Before
  <2>2. Sizes \subseteq Nat /\ MaxLive \in Nat
    BY NumbersAre
  <2>3. b.bytes \in Nat
    BY <2>1, <2>2
  <2> QED
    BY <1>1, <2>1, <2>2, <2>3
<1>3. Typed(cells') /\ NextsAre(cells')
  <2>1. IsField(Filling(b.bytes)) /\ Filling(b.bytes) # next
    BY <1>2, FieldTypes, FieldsDiffer
  <2>2. Typed(cells')
    BY <1>1, <1>2, <2>1, Before, PutTyped
  <2>3. \A c \in cells' : c \in cells \/ c = Cell(b.at, Filling(b.bytes), b.client)
    BY <1>1, PutIs
  <2>4. NextsAre(cells')
    BY <2>1, <2>3, Before, CellIs DEF NextsAre
  <2> QED
    BY <2>2, <2>4
<1>4. ASSUME Fit(blocks)
      PROVE  Heap(blocks, cells', live)
  BY <1>1, <1>2, <1>4, Before, HeapWritten
<1> QED
  BY <1>1, <1>3, <1>4, Before, After

(* What kfree reads in a sound heap. *)
LEMMA KfreeReads ==
  ASSUME IInv, Fit(blocks), NEW b \in live
  PROVE  /\ Stored(cells, BlockOf(b.at), magic) = {MAGIC}
         /\ Stored(cells, BlockOf(b.at), size) = {} => Len(blocks) > 1 /\ ~cleared
         /\ Heap(blocks, Store(cells, BlockOf(b.at), is_free, 1), live \ {b})
<1>1. Heap(blocks, cells, live) /\ Listed(blocks)
  BY Before
<1>2. PICK k \in DOMAIN blocks : b.at = DataOf(blocks[k].at)
  BY <1>1 DEF Heap, Held
<1>3. blocks[k].at \in Nat /\ BlockOf(b.at) = blocks[k].at
  <2>1. blocks[k].at \in Nat
    BY <1>1, ListedIs
  <2> QED
    BY <1>2, <2>1 DEF BlockOf, DataOf, data_start, SizeofBlock
<1>4. Stored(cells, blocks[k].at, magic) = {MAGIC}
  BY <1>1, Loads DEF Heap, Marked
<1>5. ASSUME Stored(cells, blocks[k].at, size) = {}
      PROVE  Len(blocks) > 1 /\ ~cleared
  <2>1. ~\E s \in Int : Keeps(cells, blocks[k].at, size, s)
    BY <1>5, Loads
  <2>2. Len(blocks) > 1 /\ Untouched(cells, blocks[k].at, size)
    BY <1>1, <2>1 DEF Heap, Sized
  <2>3. ~cleared
    BY <1>5, <2>2, Loads
  <2> QED
    BY <2>2, <2>3
<1>6. Heap(blocks, Store(cells, blocks[k].at, is_free, 1), live \ {b})
  <2>1. Held(blocks, live)
    BY <1>1 DEF Heap
  <2>2. PICK L2 : L2 = live \ {b}
    OBVIOUS
  <2>3. /\ Held(blocks, L2) /\ FreeMark(blocks[k].at, L2) = 1
        /\ \A j \in DOMAIN blocks :
             j # k => FreeMark(blocks[j].at, L2) = FreeMark(blocks[j].at, live)
    BY <1>1, <1>2, <2>1, <2>2, HeldLess
  <2>4. Heap(blocks, Store(cells, blocks[k].at, is_free, FreeMark(blocks[k].at, L2)), L2)
    BY <1>1, <2>3, HeapMarked
  <2> QED
    BY <2>2, <2>3, <2>4
<1> QED
  BY <1>3, <1>4, <1>5, <1>6

(* A client frees its block.                                               *)
LEMMA KfreeStep ==
  ASSUME IInv, NEW b \in live, kfree(b)
  PROVE  IInv'
<1> DEFINE block == BlockOf(b.at)
           sizes == Stored(cells, block, size)
<1>1. /\ ~wild /\ ~panicked /\ live' = live \ {b}
      /\ cleared' = cleared /\ ret' = ret /\ blocks' = blocks /\ calls' = calls
      /\ \/ /\ Stored(cells, block, magic) # {MAGIC} /\ panicked' = TRUE
            /\ UNCHANGED <<cells, mem_allocated, wild>>
         \/ /\ Stored(cells, block, magic) = {MAGIC}
            /\ cells' = Store(cells, block, is_free, 1)
            /\ wild' = (sizes = {})
            /\ \/ \E s \in sizes : mem_allocated' = U64(mem_allocated - s)
               \/ sizes = {} /\ UNCHANGED mem_allocated
            /\ UNCHANGED panicked
  BY DEF kfree
<1>2. block \in Nat
  BY Before
<1>3. \A s \in sizes : s \in Int
  <2>1. \A c \in cells : c.val \in Int
    BY Before DEF Typed
  <2> QED
    BY <2>1 DEF Stored, Zero, NULL
<1> HIDE DEF block, sizes
<1>4. /\ IsFiniteSet(live')
      /\ \A a \in live' : /\ a.at \in Nat /\ a.bytes \in Sizes /\ a.client \in 1 .. MaxLive
                          /\ BlockOf(a.at) \in Nat
  BY <1>1, Before, FS_RemoveElement
<1>5. CASE /\ Stored(cells, block, magic) # {MAGIC} /\ panicked' = TRUE
           /\ UNCHANGED <<cells, mem_allocated, wild>>
  <2>1. ~Fit(blocks)
    BY <1>1, <1>5, KfreeReads DEF block
  <2> QED
    BY <1>1, <1>4, <1>5, <2>1, Before, After
<1>6. CASE /\ Stored(cells, block, magic) = {MAGIC}
           /\ cells' = Store(cells, block, is_free, 1)
           /\ wild' = (sizes = {})
           /\ \/ \E s \in sizes : mem_allocated' = U64(mem_allocated - s)
              \/ sizes = {} /\ UNCHANGED mem_allocated
           /\ UNCHANGED panicked
  <2>1. Typed(cells') /\ NextsAre(cells')
    BY <1>2, <1>6, Before, StoreTyped, StoreNexts, FieldsDiffer
  <2>2. mem_allocated' \in 0 .. WordMod - 1
    <3>1. ASSUME NEW s \in sizes, mem_allocated' = U64(mem_allocated - s)
          PROVE  mem_allocated' \in 0 .. WordMod - 1
      <4>1. mem_allocated - s \in Int
        BY <1>3, Before, NumbersAre
      <4> QED
        BY <3>1, <4>1, NumbersAre
    <3> QED
      BY <1>6, <3>1, Before
  <2>3. ASSUME Fit(blocks)
        PROVE  /\ wild' => Len(blocks) > 1 /\ ~cleared
               /\ Heap(blocks, cells', live')
    BY <1>1, <1>6, <2>3, KfreeReads DEF block, sizes
  <2>4. wild' \in BOOLEAN /\ panicked' = FALSE
    BY <1>1, <1>6, Before
  <2> QED
    BY <1>1, <1>4, <2>1, <2>2, <2>3, <2>4, Before, After
<1> QED
  BY <1>1, <1>5, <1>6

-----------------------------------------------------------------------------
LEMMA Inductive == IInv /\ [Next]_vars => IInv'
<1> SUFFICES ASSUME IInv, [Next]_vars
             PROVE  IInv'
  OBVIOUS
<1>1. CASE UNCHANGED vars
  <2>1. /\ cells' = cells /\ cleared' = cleared /\ mem_allocated' = mem_allocated
        /\ ret' = ret /\ live' = live /\ blocks' = blocks /\ calls' = calls
        /\ wild' = wild /\ panicked' = panicked
    BY <1>1 DEF vars
  <2> QED
    BY <2>1, Before, After
<1>2. ASSUME NEW sz \in Sizes, kmalloc(sz)
      PROVE  IInv'
  BY <1>2, KmallocStep
<1>3. ASSUME NEW b \in live, Write(b)
      PROVE  IInv'
  BY <1>3, WriteStep
<1>4. ASSUME NEW b \in live, kfree(b)
      PROVE  IInv'
  BY <1>4, KfreeStep
<1> QED
  BY <1>1, <1>2, <1>3, <1>4 DEF Next

THEOREM Invariance == Spec => []IInv
BY InitIInv, Inductive, PTL DEF Spec

(* Whatever clients ask for, and wherever kmalloc puts it, the allocator   *)
(* works on addresses, words and list entries: kmalloc, kheap.c lines 60   *)
(* to 96, and kfree, lines 98 to 111.                                      *)
THEOREM TypeCorrect == Spec => []TypeOK
<1>1. IInv => TypeOK
  BY DEF IInv
<1> QED
  BY <1>1, Invariance, PTL

(* No two clients hold the same memory while the blocks fit where kmalloc, *)
(* kheap.c lines 75 to 96, puts them: it grants a block only when nobody   *)
(* holds it, through any sequence of calls.                                *)
THEOREM BlocksStayApart == Spec => []LiveBlocksApart
<1>1. IInv => LiveBlocksApart
  <2> SUFFICES ASSUME IInv, BlocksFit, NEW a \in live, NEW b \in live, a # b
               PROVE  a.at + a.bytes <= b.at \/ b.at + b.bytes <= a.at
    BY DEF LiveBlocksApart
  <2>1. Held(blocks, live) /\ Fit(blocks) /\ Listed(blocks)
    BY FitIs, Before DEF Heap
  <2>2. PICK i \in DOMAIN blocks : a.at = DataOf(blocks[i].at) /\ a.bytes <= blocks[i].bytes
    BY <2>1 DEF Held
  <2>3. PICK j \in DOMAIN blocks : b.at = DataOf(blocks[j].at) /\ b.bytes <= blocks[j].bytes
    BY <2>1 DEF Held
  <2>4. i # j
    BY <2>1, <2>2, <2>3 DEF Held
  <2>5. \/ blocks[i].at + data_start + blocks[i].bytes <= blocks[j].at
        \/ blocks[j].at + data_start + blocks[j].bytes <= blocks[i].at
    BY <2>1, <2>4 DEF Fit
  <2>6. a.bytes \in Nat /\ b.bytes \in Nat
    BY Before, NumbersAre
  <2>7. /\ blocks[i].at \in Nat /\ blocks[i].bytes \in Nat
        /\ blocks[j].at \in Nat /\ blocks[j].bytes \in Nat /\ data_start = 29
    BY <2>1, ListedIs, FieldTypes
  <2> QED
    BY <2>2, <2>3, <2>5, <2>6, <2>7 DEF DataOf
<1> QED
  BY <1>1, Invariance, PTL

(* While the blocks fit, kfree, kheap.c lines 101 and 102, finds the magic *)
(* number in front of every block that a client gives back.                *)
THEOREM FreesPass == Spec => []FreesAccepted
<1>1. IInv => FreesAccepted
  BY DEF IInv
<1> QED
  BY <1>1, Invariance, PTL

(* While the blocks fit, first_fit, kmalloc and kfree, kheap.c lines 30 to *)
(* 111, read only header fields that were stored, but for next and size of *)
(* a last block, which kmalloc never stores: those they read in memory     *)
(* that was not cleared.                                                   *)
THEOREM OnlyStoredValues == Spec => []OnStoredValues
<1>1. IInv => OnStoredValues
  BY DEF IInv
<1> QED
  BY <1>1, Invariance, PTL

-----------------------------------------------------------------------------
(* What a client wrote.                                                    *)
Data(b) == Cell(b.at, Filling(b.bytes), b.client)

LEMMA DataIs ==
  ASSUME NEW b
  PROVE  (Filled(b) <=> Data(b) \in cells) /\ (Filled(b)' <=> Data(b) \in cells')
BY DEF Filled, Data, Cell

(* No header field is in a client's data, nor in another client's.         *)
LEMMA DataSpared ==
  ASSUME NEW B, Listed(B), Fit(B), NEW k \in DOMAIN B,
         NEW b, b.at = DataOf(B[k].at), b.bytes \in Nat \ {0}, b.bytes <= B[k].bytes,
         NEW m, Data(b) \in m
  PROVE  /\ \A i \in DOMAIN B, f \in Fields : \A v : Data(b) \in Store(m, B[i].at, f, v)
         /\ \A i \in DOMAIN B, bytes \in Nat \ {0} : \A v :
              i # k /\ bytes <= B[i].bytes
                => Data(b) \in Put(m, DataOf(B[i].at), Filling(bytes), v)
<1>1. /\ b.at \in Nat /\ IsField(Filling(b.bytes)) /\ Filling(b.bytes).width = b.bytes
      /\ \A i \in DOMAIN B : B[i].at \in Nat /\ B[i].bytes \in Nat
  BY DataApart, ListedIs, FieldTypes
<1>2. ASSUME NEW at \in Nat, NEW field, IsField(field), NEW v,
             Apart(at, field.width, b.at, b.bytes)
      PROVE  Data(b) \in Put(m, at, field, v)
  BY <1>1, <1>2, PutSpares DEF Data
<1>3. ASSUME NEW i \in DOMAIN B, NEW f \in Fields, NEW v
      PROVE  Data(b) \in Store(m, B[i].at, f, v)
  <2>1. Apart(b.at, b.bytes, B[i].at + f.offset, f.width)
    BY DataApart
  <2>2. Apart(B[i].at + f.offset, f.width, b.at, b.bytes)
    BY <2>1 DEF Apart
  <2>3. B[i].at + f.offset \in Nat /\ IsField(f)
    BY <1>1, FieldTypes DEF IsField
  <2> QED
    BY <1>2, <2>2, <2>3 DEF Store
<1>4. ASSUME NEW i \in DOMAIN B, NEW bytes \in Nat \ {0}, NEW v, i # k, bytes <= B[i].bytes
      PROVE  Data(b) \in Put(m, DataOf(B[i].at), Filling(bytes), v)
  <2>1. /\ IsField(Filling(bytes)) /\ Filling(bytes).width = bytes
        /\ DataOf(B[i].at) \in Nat
    BY <1>4, DataApart, FieldTypes
  <2>2. \/ B[i].at + data_start + B[i].bytes <= B[k].at
        \/ B[k].at + data_start + B[k].bytes <= B[i].at
    BY <1>4 DEF Fit
  <2>3. DataOf(B[i].at) = B[i].at + 29 /\ b.at = B[k].at + 29 /\ data_start = 29
    BY DEF DataOf, data_start
  <2>4. Apart(DataOf(B[i].at), bytes, b.at, b.bytes)
    BY <1>1, <1>4, <2>2, <2>3 DEF Apart
  <2> QED
    BY <1>2, <2>1, <2>4
<1> QED
  BY <1>3, <1>4

(* A client's data outlives the calls of all while it holds the block.     *)
LEMMA DataStep ==
  ASSUME IInv, Next, Fit(blocks'), NEW b \in live \intersect live', Filled(b)
  PROVE  Filled(b)'
<1>1. Data(b) \in cells
  BY DataIs
<1>2. b.bytes \in Nat \ {0}
  <2>1. Data(b).of.width \in Nat \ {0}
    BY <1>1, Before DEF Typed, IsField
  <2> QED
    BY <2>1, CellIs DEF Data, Filling
<1>3. Listed(blocks) /\ Typed(cells)
  BY Before
<1> SUFFICES Data(b) \in cells'
  BY DataIs
<1>4. ASSUME NEW sz \in Sizes, kmalloc(sz)
      PROVE  Data(b) \in cells'
  <2>1. /\ calls < MaxCalls /\ ~wild /\ calls' = calls + 1
    BY <1>4, KmallocCases
  <2>2. sz \in Nat
    BY NumbersAre
  <2>3. CASE Refuse \/ UNCHANGED cells
    BY <1>1, <2>3 DEF Refuse
  <2>4. CASE /\ ~Walk.astray /\ Walk.at # NULL
             /\ blocks' = Regranted(Walk.at, sz)
             /\ Grant(Walk.at, sz, cells)
    <3>1. Fit(blocks)
      <4>1. /\ Listed(blocks') /\ Len(blocks') = Len(blocks) /\ Len(blocks) \in Nat
            /\ \A i \in DOMAIN blocks :
                 blocks'[i].at = blocks[i].at /\ blocks[i].bytes <= blocks'[i].bytes
        BY <1>3, <2>2, <2>4, RegrantedIs, ListedIs
      <4>2. Len(blocks) <= Len(blocks')
        BY <4>1
      <4> QED
        BY <1>3, <4>1, <4>2, FitBefore
    <3>2. PICK i \in DOMAIN blocks : Walk.at = blocks[i].at
      BY <2>1, <2>4, <3>1, WalkGoes
    <3>3. cells' = Store(cells, blocks[i].at, is_free, 0)
      BY <2>4, <3>2, TakenIs DEF Grant
    <3>4. PICK k \in DOMAIN blocks : b.at = DataOf(blocks[k].at) /\ b.bytes <= blocks[k].bytes
      BY <3>1, Before DEF Heap, Held
    <3> QED
      BY <1>1, <1>2, <1>3, <3>1, <3>3, <3>4, DataSpared, FieldsDiffer
  <2>5. CASE /\ ~Walk.astray /\ Walk.at = NULL
             /\ Attach(Walk.prev, sz, Extended(Walk.prev, sz))
    <3> DEFINE new == [at |-> NewBlock(sz), bytes |-> sz]
               m1 == Store(cells, Walk.prev, next, NewBlock(sz))
               m2 == Store(m1, NewBlock(sz), magic, MAGIC)
               m3 == Store(m2, Walk.prev, size, sz)
               m4 == Store(m3, NewBlock(sz), is_free, 0)
    <3>1. /\ NewBlock(sz) \in Nat /\ blocks' = Append(blocks, new)
          /\ Grant(NewBlock(sz), sz, Extended(Walk.prev, sz)) \/ UNCHANGED cells
      BY <1>4, <2>5, AttachCases
    <3>2. Extended(Walk.prev, sz) = m3
      BY DEF Extended
    <3>3. new \in Block /\ new.at = NewBlock(sz) /\ new.bytes = sz
      BY <2>2, <3>1 DEF Block
    <3> HIDE DEF new
    <3>4. CASE Grant(NewBlock(sz), sz, Extended(Walk.prev, sz))
      <4>1. PICK B : B = blocks'
        OBVIOUS
      <4>2. /\ Listed(B) /\ Fit(B) /\ Len(B) = Len(blocks) + 1
            /\ DOMAIN B = 1 .. Len(blocks) + 1 /\ B[Len(blocks) + 1] = new
            /\ \A i \in DOMAIN blocks : B[i] = blocks[i]
        BY <1>3, <3>1, <3>3, <4>1, AppendedIs
      <4>3. /\ Len(blocks) \in Nat \ {0} /\ DOMAIN blocks = 1 .. Len(blocks)
            /\ \A i \in DOMAIN blocks : blocks[i].at \in Nat /\ blocks[i].bytes \in Nat
        BY <1>3, ListedIs
      <4>4. /\ Len(blocks) + 1 \in DOMAIN B /\ Len(blocks) \in DOMAIN B
            /\ Len(blocks) \in DOMAIN blocks
            /\ \A i \in DOMAIN blocks : i \in DOMAIN B
        BY <4>2, <4>3
      <4>5. Fit(blocks)
        <5>1. Len(blocks) <= Len(B) /\ \A i \in DOMAIN blocks : blocks[i].bytes <= B[i].bytes
          BY <4>2, <4>3
        <5> QED
          BY <1>3, <4>2, <5>1, FitBefore
      <4>6. Walk.prev = B[Len(blocks)].at
        <5>1. \A k \in DOMAIN blocks : blocks[k].at # NULL
          BY <4>3 DEF NULL
        <5> QED
          BY <2>1, <2>5, <4>2, <4>4, <4>5, <5>1, WalkGoes
      <4>7. PICK k \in DOMAIN B : b.at = DataOf(B[k].at) /\ b.bytes <= B[k].bytes
        <5>1. PICK k \in DOMAIN blocks : b.at = DataOf(blocks[k].at) /\ b.bytes <= blocks[k].bytes
          BY <4>5, Before DEF Heap, Held
        <5> QED
          BY <4>2, <4>4, <5>1
      <4>8. PICK last \in DOMAIN B : last = Len(blocks)
        BY <4>4
      <4>9. PICK end \in DOMAIN B : end = Len(blocks) + 1
        BY <4>4
      <4>10. B[end].at = NewBlock(sz) /\ B[last].at = Walk.prev
        BY <3>3, <4>2, <4>6, <4>8, <4>9
      <4>11. ASSUME NEW m, Data(b) \in m
             PROVE  \A f \in Fields : \A v : /\ Data(b) \in Store(m, Walk.prev, f, v)
                                         /\ Data(b) \in Store(m, NewBlock(sz), f, v)
        BY <1>2, <4>2, <4>7, <4>10, <4>11, DataSpared
      <4>12. Data(b) \in m1
        BY <1>1, <4>11, FieldsDiffer
      <4> HIDE DEF m1
      <4>13. Data(b) \in m2
        BY <4>11, <4>12, FieldsDiffer
      <4> HIDE DEF m2
      <4>14. Data(b) \in m3
        BY <4>11, <4>13, FieldsDiffer
      <4>15. cells' = m4
        BY <3>2, <3>4, TakenIs DEF Grant
      <4> HIDE DEF m3
      <4> QED
        BY <4>11, <4>14, <4>15, FieldsDiffer
    <3> QED
      BY <1>1, <3>1, <3>4
  <2> QED
    BY <1>4, <2>3, <2>4, <2>5, KmallocCases
<1>5. ASSUME NEW a \in live, Write(a) \/ kfree(a)
      PROVE  Data(b) \in cells'
  <2>1. blocks' = blocks /\ Fit(blocks)
    BY <1>5 DEF Write, kfree
  <2>2. Held(blocks, live)
    BY <2>1, Before DEF Heap
  <2>3. PICK k \in DOMAIN blocks : b.at = DataOf(blocks[k].at) /\ b.bytes <= blocks[k].bytes
    BY <2>2 DEF Held
  <2>4. PICK i \in DOMAIN blocks : a.at = DataOf(blocks[i].at) /\ a.bytes <= blocks[i].bytes
    BY <2>2 DEF Held
  <2>5. CASE Write(a)
    <3>1. cells' = Put(cells, a.at, Filling(a.bytes), a.client) /\ a.bytes > 0
      BY <2>5 DEF Write
    <3>2. CASE a = b
      BY <3>1, <3>2, PutIs DEF Data
    <3>3. CASE a # b
      <4>1. i # k
        BY <2>2, <2>3, <2>4, <3>3 DEF Held
      <4>2. a.bytes \in Nat \ {0}
        <5>1. a.bytes \in Nat
          BY Before, NumbersAre
        <5> QED
          BY <3>1, <5>1
      <4> QED
        BY <1>1, <1>2, <1>3, <2>1, <2>3, <2>4, <3>1, <4>1, <4>2, DataSpared
    <3> QED
      BY <3>2, <3>3
  <2>6. CASE kfree(a)
    <3>1. BlockOf(a.at) = blocks[i].at
      <4>1. blocks[i].at \in Nat
        BY <1>3, ListedIs
      <4> QED
        BY <2>4, <4>1 DEF BlockOf, DataOf, data_start, SizeofBlock
    <3>2. cells' = cells \/ cells' = Store(cells, blocks[i].at, is_free, 1)
      BY <2>6, <3>1 DEF kfree
    <3> QED
      BY <1>1, <1>2, <1>3, <2>1, <2>3, <3>2, DataSpared, FieldsDiffer
  <2> QED
    BY <1>5, <2>5, <2>6
<1> QED
  BY <1>4, <1>5 DEF Next

(* While the blocks fit, neither the stores of kmalloc, kheap.c lines 63   *)
(* to 96, nor that of kfree, line 107, nor another client changes what a   *)
(* client wrote in a block that it holds.                                  *)
THEOREM DataStays == Spec => DataKept
<1>1. IInv /\ [Next]_vars =>
        [BlocksFit' => \A b \in live \intersect live' : Filled(b) => Filled(b)']_vars
  <2> SUFFICES ASSUME IInv, Next, BlocksFit', NEW b \in live \intersect live', Filled(b)
               PROVE  Filled(b)'
    OBVIOUS
  <2>1. Fit(blocks')
    BY DEF BlocksFit, Fit
  <2> QED
    BY <2>1, DataStep
<1> QED
  BY <1>1, Invariance, PTL DEF Spec, DataKept
=============================================================================
