--------------------------- MODULE PhysMemProofs ----------------------------
(***************************************************************************)
(* Proofs about the physical memory manager, for every memory map that     *)
(* satisfies MapAssumption and every word size.                            *)
(***************************************************************************)
EXTENDS PhysMem, SequenceTheorems, TLAPS

(* A usable entry keeps its page alignment and stays inside a word.        *)
PagedEntry(e) ==
  /\ e.base % PAGE_SIZE = 0
  /\ e.length % PAGE_SIZE = 0
  /\ e.base > 0
  /\ e.base + e.length < WordMod

(* Eating a usable entry moves its base up and leaves its end where the    *)
(* bootloader put it; nothing else in the map ever changes.                *)
MapShrinks ==
  \A i \in DOMAIN memmap :
    /\ memmap[i].type = bootmap[i].type
    /\ memmap[i].type = "USABLE" =>
         /\ PagedEntry(memmap[i])
         /\ bootmap[i].base <= memmap[i].base
         /\ memmap[i].base + memmap[i].length
              = bootmap[i].base + bootmap[i].length

(* The inductive invariant. *)
IInv == TypeOK /\ MapShrinks /\ FramesConserved

-----------------------------------------------------------------------------
(* The frames of an entry lie between its two ends. *)
LEMMA FrameBounds ==
  ASSUME NEW e \in Entry, NEW a \in FramesOf(e)
  PROVE  a \in Nat /\ e.base <= a /\ a < e.base + e.length
BY DEF Entry, FramesOf, PAGE_SIZE

(* Word arithmetic stays in the naturals. *)
LEMMA WordType ==
  ASSUME NEW x \in Nat
  PROVE  U64(x) \in Nat
BY WordAssumption DEF U64

(* Taking the front page of a non-empty paged entry removes exactly the    *)
(* frame at its base and wraps around neither end of the word.             *)
LEMMA TakeFront ==
  ASSUME NEW e \in Entry, PagedEntry(e), e.length > 0
  PROVE  /\ Take(e) \in Entry
         /\ PagedEntry(Take(e))
         /\ Take(e).type = e.type
         /\ e.base <= Take(e).base
         /\ Take(e).base + Take(e).length = e.base + e.length
         /\ e.base \in FramesOf(e)
         /\ FramesOf(Take(e)) = FramesOf(e) \ {e.base}
<1> DEFINE q == e.length \div PAGE_SIZE
<1>1. /\ e.base \in Nat
      /\ e.length \in Nat
      /\ e.base % 4096 = 0
      /\ e.length % 4096 = 0
      /\ e.base > 0
      /\ e.base + e.length < WordMod
      /\ WordMod \in Nat
  BY WordAssumption DEF Entry, PagedEntry, PAGE_SIZE
<1>2. e.length >= 4096 /\ q \in Nat /\ q >= 1 /\ e.length = q * 4096
  BY <1>1 DEF PAGE_SIZE
<1>3. U64(e.base + PAGE_SIZE) = e.base + 4096 /\ U64(e.length - PAGE_SIZE) = e.length - 4096
  BY <1>1, <1>2 DEF U64, PAGE_SIZE
<1>4. /\ Take(e) \in Entry
      /\ Take(e).base = e.base + 4096
      /\ Take(e).length = e.length - 4096
      /\ Take(e).type = e.type
  BY <1>1, <1>2, <1>3 DEF Take, Entry
<1>5. PagedEntry(Take(e))
  BY <1>1, <1>2, <1>4 DEF PagedEntry, PAGE_SIZE
<1>6. e.base \in FramesOf(e)
  <2>1. FramesOf(e) = {e.base + k * 4096 : k \in 0 .. q - 1}
    BY DEF FramesOf, PAGE_SIZE
  <2> HIDE DEF q
  <2>2. 0 \in 0 .. q - 1 /\ e.base = e.base + 0 * 4096
    BY <1>1, <1>2
  <2> QED  BY <2>1, <2>2
<1>7. (e.length - 4096) \div 4096 = q - 1
  BY <1>1, <1>2
<1>8. FramesOf(Take(e)) = {e.base + 4096 + k * 4096 : k \in 0 .. q - 2}
  BY <1>1, <1>2, <1>4, <1>7 DEF FramesOf, PAGE_SIZE
<1>9. FramesOf(e) = {e.base + k * 4096 : k \in 0 .. q - 1}
  BY DEF FramesOf, PAGE_SIZE
<1>10. ASSUME NEW a \in FramesOf(Take(e))
       PROVE  a \in FramesOf(e) \ {e.base}
  <2>1. PICK k \in 0 .. q - 2 : a = e.base + 4096 + k * 4096
    BY <1>8, <1>10
  <2>2. k + 1 \in 0 .. q - 1 /\ a = e.base + (k + 1) * 4096 /\ a # e.base
    BY <1>1, <1>2, <2>1
  <2> QED  BY <1>9, <2>2
<1>11. ASSUME NEW a \in FramesOf(e) \ {e.base}
       PROVE  a \in FramesOf(Take(e))
  <2>1. PICK k \in 0 .. q - 1 : a = e.base + k * 4096
    BY <1>9, <1>11
  <2>2. k - 1 \in 0 .. q - 2 /\ a = e.base + 4096 + (k - 1) * 4096
    BY <1>1, <1>2, <1>11, <2>1
  <2> QED  BY <1>8, <2>2
<1> HIDE DEF q
<1> QED
  <2>1. FramesOf(Take(e)) = FramesOf(e) \ {e.base}
    BY <1>10, <1>11
  <2> QED  BY <2>1, <1>1, <1>4, <1>5, <1>6

(* The frames of different usable entries never meet. *)
LEMMA EntriesApart ==
  ASSUME IInv, NEW i \in DOMAIN memmap, NEW j \in DOMAIN memmap, i # j,
         memmap[i].type = "USABLE", memmap[j].type = "USABLE"
  PROVE  FramesOf(memmap[i]) \intersect FramesOf(memmap[j]) = {}
<1>1. /\ memmap[i] \in Entry
      /\ memmap[j] \in Entry
      /\ bootmap[i] \in Entry
      /\ bootmap[j] \in Entry
      /\ Apart(bootmap[i], bootmap[j])
  <2>1. bootmap \in Seq(Entry) /\ DOMAIN memmap = DOMAIN bootmap
    BY MapAssumption DEF IInv, TypeOK, WellFormedMap
  <2>2. memmap[i] \in Entry /\ memmap[j] \in Entry
    BY DEF IInv, TypeOK
  <2>3. bootmap[i] \in Entry /\ bootmap[j] \in Entry
    BY <2>1
  <2>4. bootmap[i].type = "USABLE" /\ bootmap[j].type = "USABLE"
    BY DEF IInv, MapShrinks
  <2>5. Apart(bootmap[i], bootmap[j])
    BY <2>1, <2>4, MapAssumption DEF IInv, TypeOK, WellFormedMap
  <2> QED  BY <2>2, <2>3, <2>5
<1>2. /\ bootmap[i].base <= memmap[i].base
      /\ bootmap[j].base <= memmap[j].base
      /\ memmap[i].base + memmap[i].length = bootmap[i].base + bootmap[i].length
      /\ memmap[j].base + memmap[j].length = bootmap[j].base + bootmap[j].length
  BY DEF IInv, MapShrinks
<1>3. SUFFICES ASSUME NEW a \in FramesOf(memmap[i]), a \in FramesOf(memmap[j])
               PROVE  FALSE
  OBVIOUS
<1>4. /\ a \in Nat
      /\ memmap[i].base <= a /\ a < memmap[i].base + memmap[i].length
      /\ memmap[j].base <= a /\ a < memmap[j].base + memmap[j].length
  BY <1>1, <1>3, FrameBounds
<1> QED  BY <1>1, <1>2, <1>4 DEF Apart, Entry

(* With no entry left to take from, the usable entries describe no frame.  *)
LEMMA NothingLeft ==
  ASSUME IInv, Candidates(memmap) = {}
  PROVE  Remaining(memmap) = {}
<1>1. ASSUME NEW i \in DOMAIN memmap, memmap[i].type = "USABLE"
      PROVE  FramesOf(memmap[i]) = {}
  <2>1. memmap[i] \in Entry
    BY <1>1 DEF IInv, TypeOK
  <2>2. ~(memmap[i].length > 0)
    BY <1>1 DEF Candidates, is_usable
  <2>3. memmap[i].length = 0
    BY <2>1, <2>2 DEF Entry
  <2> QED  BY <2>1, <2>3, FrameBounds DEF Entry
<1> QED  BY <1>1 DEF Remaining

(* One pmm_alloc moves one frame from the map to its callers, or finds the *)
(* map empty and changes nothing.                                          *)
LEMMA TakeFrameStep ==
  ASSUME IInv, TakeFrame
  PROVE  \/ /\ memmap' \in Seq(Entry)
            /\ DOMAIN memmap' = DOMAIN memmap
            /\ bootmap' = bootmap => MapShrinks'
            /\ ret' \in Remaining(memmap)
            /\ ret' \in Nat \ {0}
            /\ granted' = granted \union {ret'}
            /\ Remaining(memmap') = Remaining(memmap) \ {ret'}
         \/ /\ Remaining(memmap) = {}
            /\ ret' = NULL
            /\ UNCHANGED <<memmap, granted>>
<1>1. CASE /\ Candidates(memmap) = {}
           /\ ret' = NULL
           /\ UNCHANGED <<memmap, granted>>
  BY <1>1, NothingLeft
<1>2. ASSUME NEW i \in Candidates(memmap),
             memmap' = [memmap EXCEPT ![i] = Take(@)],
             ret' = memmap[i].base,
             granted' = granted \union {memmap[i].base}
      PROVE  /\ memmap' \in Seq(Entry)
             /\ DOMAIN memmap' = DOMAIN memmap
             /\ bootmap' = bootmap => MapShrinks'
             /\ ret' \in Remaining(memmap)
             /\ ret' \in Nat \ {0}
             /\ granted' = granted \union {ret'}
             /\ Remaining(memmap') = Remaining(memmap) \ {ret'}
  <2> DEFINE e == memmap[i]
  <2>1. /\ i \in DOMAIN memmap
        /\ e \in Entry
        /\ e.type = "USABLE"
        /\ e.length > 0
        /\ PagedEntry(e)
    BY <1>2 DEF IInv, TypeOK, MapShrinks, Candidates, is_usable
  <2>2. /\ Take(e) \in Entry
        /\ PagedEntry(Take(e))
        /\ Take(e).type = e.type
        /\ e.base <= Take(e).base
        /\ Take(e).base + Take(e).length = e.base + e.length
        /\ e.base \in FramesOf(e)
        /\ FramesOf(Take(e)) = FramesOf(e) \ {e.base}
    BY <2>1, TakeFront
  <2>3. memmap \in Seq(Entry) /\ DOMAIN memmap = 1 .. Len(memmap)
    BY DEF IInv, TypeOK
  <2>4. /\ memmap' \in Seq(Entry)
        /\ DOMAIN memmap' = DOMAIN memmap
        /\ \A j \in DOMAIN memmap :
              memmap'[j] = IF j = i THEN Take(e) ELSE memmap[j]
    BY <1>2, <2>1, <2>2, <2>3, ExceptSeq
  <2>5. bootmap' = bootmap => MapShrinks'
    <3>1. SUFFICES ASSUME bootmap' = bootmap, NEW j \in DOMAIN memmap
                   PROVE  /\ memmap'[j].type = bootmap[j].type
                          /\ memmap'[j].type = "USABLE" =>
                               /\ PagedEntry(memmap'[j])
                               /\ bootmap[j].base <= memmap'[j].base
                               /\ memmap'[j].base + memmap'[j].length
                                    = bootmap[j].base + bootmap[j].length
      BY <2>4 DEF MapShrinks, PagedEntry
    <3>2. CASE j # i
      BY <2>4, <3>2 DEF IInv, MapShrinks
    <3>3. CASE j = i
      <4>1. bootmap[i] \in Entry
        BY <2>1, MapAssumption DEF IInv, TypeOK, WellFormedMap
      <4>2. bootmap[i].base <= e.base
            /\ e.base + e.length = bootmap[i].base + bootmap[i].length
            /\ e.type = bootmap[i].type
        BY <2>1 DEF IInv, MapShrinks
      <4>3. bootmap[i].base <= Take(e).base
        BY <2>1, <2>2, <4>1, <4>2 DEF Entry
      <4> QED  BY <2>2, <2>4, <3>3, <4>2, <4>3
    <3> QED  BY <3>2, <3>3
  <2>6. e.base \in Remaining(memmap) /\ e.base \in Nat \ {0}
    BY <2>1, <2>2 DEF Remaining, Entry, PagedEntry
  <2>7. Remaining(memmap') = Remaining(memmap) \ {e.base}
    <3>1. ASSUME NEW a \in Remaining(memmap')
          PROVE  a \in Remaining(memmap) \ {e.base}
      <4>1. PICK j \in DOMAIN memmap : memmap'[j].type = "USABLE"
                                       /\ a \in FramesOf(memmap'[j])
        BY <2>4, <3>1 DEF Remaining
      <4>2. CASE j = i
        BY <2>1, <2>2, <2>4, <4>1, <4>2 DEF Remaining
      <4>3. CASE j # i
        <5>1. memmap[j].type = "USABLE" /\ a \in FramesOf(memmap[j])
          BY <2>4, <4>1, <4>3
        <5>2. a # e.base
          BY <2>1, <2>2, <4>3, <5>1, EntriesApart
        <5> QED  BY <5>1, <5>2 DEF Remaining
      <4> QED  BY <4>2, <4>3
    <3>2. ASSUME NEW a \in Remaining(memmap) \ {e.base}
          PROVE  a \in Remaining(memmap')
      <4>1. PICK j \in DOMAIN memmap : memmap[j].type = "USABLE"
                                       /\ a \in FramesOf(memmap[j])
        BY <3>2 DEF Remaining
      <4>2. memmap'[j].type = "USABLE" /\ a \in FramesOf(memmap'[j])
        BY <2>1, <2>2, <2>4, <3>2, <4>1
      <4> QED  BY <2>4, <4>1, <4>2 DEF Remaining
    <3> QED  BY <3>1, <3>2
  <2> QED  BY <1>2, <2>4, <2>5, <2>6, <2>7
<1> QED  BY <1>1, <1>2 DEF TakeFrame

-----------------------------------------------------------------------------
(* The invariant holds when the bootloader jumps into the kernel. *)
LEMMA InitInvariant == Init => IInv
<1> SUFFICES ASSUME Init PROVE IInv
  OBVIOUS
<1>1. memmap \in MemMaps /\ bootmap = memmap /\ WellFormedMap(memmap)
  BY MapAssumption DEF Init
<1>2. memmap \in Seq(Entry)
  BY <1>1 DEF WellFormedMap
<1>3. Remaining(memmap) \in SUBSET Nat
  <2>1. ASSUME NEW i \in DOMAIN memmap PROVE FramesOf(memmap[i]) \subseteq Nat
    BY <1>2, FrameBounds
  <2> QED  BY <2>1 DEF Remaining
<1>4. TypeOK
  <2>1. dirty \in SUBSET Nat
    BY <1>3 DEF Init, NULL
  <2>2. DOMAIN memmap = DOMAIN bootmap
    BY <1>1
  <2> QED  BY <1>1, <1>2, <2>1, <2>2 DEF Init, TypeOK, NULL
<1>5. MapShrinks
  <2> SUFFICES ASSUME NEW i \in DOMAIN memmap, memmap[i].type = "USABLE"
               PROVE  PagedEntry(memmap[i]) /\ memmap[i].base \in Nat
                      /\ memmap[i].length \in Nat
    BY <1>1 DEF MapShrinks
  <2>1. memmap[i] \in Entry /\ WellFormedEntry(memmap[i])
    BY <1>1, <1>2 DEF WellFormedMap
  <2>2. memmap[i].base \in Nat /\ memmap[i].length \in Nat
    BY <2>1 DEF Entry
  <2>3. memmap[i].base + memmap[i].length < WordMod
    BY <2>1, <2>2, WordAssumption DEF WellFormedEntry
  <2> QED  BY <2>1, <2>2, <2>3 DEF WellFormedEntry, PagedEntry
<1>6. FramesConserved
  BY <1>1 DEF Init, FramesConserved
<1> QED  BY <1>4, <1>5, <1>6 DEF IInv

(* Address 0 is never a frame of the map, hence never granted. *)
LEMMA NullIsNoFrame ==
  ASSUME IInv
  PROVE  NULL \notin Remaining(bootmap) /\ NULL \notin granted
<1>1. bootmap \in Seq(Entry) /\ WellFormedMap(bootmap)
  BY MapAssumption DEF IInv, TypeOK, WellFormedMap
<1>2. ASSUME NEW i \in DOMAIN bootmap, bootmap[i].type = "USABLE",
             NULL \in FramesOf(bootmap[i])
      PROVE  FALSE
  <2>1. bootmap[i] \in Entry /\ bootmap[i].base > 0
    BY <1>1, <1>2 DEF WellFormedMap, WellFormedEntry
  <2>2. bootmap[i].base <= NULL
    BY <2>1, <1>2, FrameBounds
  <2> QED  BY <2>1, <2>2 DEF NULL, Entry
<1>3. NULL \notin Remaining(bootmap)
  BY <1>2 DEF Remaining
<1> QED  BY <1>3 DEF IInv, FramesConserved

(* Every step of the kernel preserves the invariant. *)
LEMMA NextInvariant == IInv /\ [Next]_vars => IInv'
<1> SUFFICES ASSUME IInv, [Next]_vars PROVE IInv'
  OBVIOUS
<1>1. ASSUME gmmap, TakeFrame, dirty' \in SUBSET dirty,
             UNCHANGED <<gmmap, counters, bootmap>>
      PROVE  IInv'
  <2>1. CASE /\ memmap' \in Seq(Entry)
             /\ DOMAIN memmap' = DOMAIN memmap
             /\ bootmap' = bootmap => MapShrinks'
             /\ ret' \in Remaining(memmap)
             /\ ret' \in Nat \ {0}
             /\ granted' = granted \union {ret'}
             /\ Remaining(memmap') = Remaining(memmap) \ {ret'}
    <3>1. TypeOK'
      BY <1>1, <2>1 DEF IInv, TypeOK, counters
    <3>2. MapShrinks'
      BY <1>1, <2>1
    <3>3. FramesConserved'
      BY <1>1, <2>1 DEF IInv, FramesConserved
    <3> QED  BY <3>1, <3>2, <3>3 DEF IInv
  <2>2. CASE /\ Remaining(memmap) = {}
             /\ ret' = NULL
             /\ UNCHANGED <<memmap, granted>>
    <3>1. TypeOK'
      BY <1>1, <2>2 DEF IInv, TypeOK, counters, NULL
    <3>2. MapShrinks' /\ FramesConserved'
      BY <1>1, <2>2 DEF IInv, MapShrinks, FramesConserved, PagedEntry
    <3> QED  BY <3>1, <3>2 DEF IInv
  <2> QED  BY <1>1, <2>1, <2>2, TakeFrameStep
<1>2. CASE pmm_alloc
  BY <1>1, <1>2 DEF pmm_alloc
<1>3. CASE pmm_allocz
  BY <1>1, <1>3 DEF pmm_allocz
<1>4. CASE pmm_init
  <2>1. UsableTops(memmap) \subseteq Nat
    <3> SUFFICES ASSUME NEW i \in DOMAIN memmap, memmap[i].type = "USABLE"
                 PROVE  U64(memmap[i].base + memmap[i].length) \in Nat
      BY DEF UsableTops
    <3>1. memmap[i] \in Entry
      BY DEF IInv, TypeOK
    <3> QED  BY <3>1, WordAssumption DEF Entry, U64
  <2>2. highest_frame_top' \in Nat
    BY <1>4, <2>1 DEF pmm_init, IInv, TypeOK
  <2>3. U64(highest_frame_top' * 1024) \in Nat
    BY <2>2, WordType
  <2>4. used_frames' \in Nat
    BY <1>4, <2>3 DEF pmm_init, IInv, TypeOK, PAGE_SIZE
  <2>5. TypeOK'
    BY <1>4, <2>2, <2>4 DEF pmm_init, IInv, TypeOK
  <2>6. MapShrinks' /\ FramesConserved'
    BY <1>4 DEF pmm_init, IInv, MapShrinks, FramesConserved, PagedEntry
  <2> QED  BY <2>5, <2>6 DEF IInv
<1>5. ASSUME NEW f \in granted, UseFrame(f)
      PROVE  IInv'
  <2>1. TypeOK'
    BY <1>5 DEF UseFrame, IInv, TypeOK, counters
  <2>2. MapShrinks' /\ FramesConserved'
    BY <1>5 DEF UseFrame, IInv, MapShrinks, FramesConserved, PagedEntry
  <2> QED  BY <2>1, <2>2 DEF IInv
<1>6. CASE UNCHANGED vars
  BY <1>6 DEF vars, IInv, TypeOK, MapShrinks, FramesConserved, PagedEntry
<1> QED  BY <1>2, <1>3, <1>4, <1>5, <1>6 DEF Next

THEOREM InvariantHolds == Spec => []IInv
BY InitInvariant, NextInvariant, PTL DEF Spec

(* Type correctness: in particular no subtraction in pmm_alloc ever wraps  *)
(* a base or a length around.                                              *)
THEOREM TypeCorrect == Spec => []TypeOK
<1>1. IInv => TypeOK
  BY DEF IInv
<1> QED  BY <1>1, InvariantHolds, PTL

(* No frame is handed out twice, lost or made up, for every memory map.    *)
THEOREM Conservation == Spec => []FramesConserved
<1>1. IInv => FramesConserved
  BY DEF IInv
<1> QED  BY <1>1, InvariantHolds, PTL

(* pmm_alloc answers NULL only when the whole map is used up.              *)
THEOREM NullIsHonest == Spec => NullMeansExhausted
<1>1. IInv /\ [Next]_vars =>
        [(TakeFrame /\ ret' = NULL) => Remaining(memmap) = {}]_vars
  BY TakeFrameStep DEF NULL
<1> QED  BY <1>1, InvariantHolds, PTL DEF Spec, NullMeansExhausted

(* Zeroing a fresh page, or address 0 after a failed allocation, leaves    *)
(* every page with an owner as it was.                                     *)
THEOREM OwnersKeepTheirData == Spec => ZeroingSparesOwners
<1>1. IInv /\ [Next]_vars => [granted \intersect dirty \subseteq dirty']_vars
  <2> SUFFICES ASSUME IInv, Next
               PROVE  granted \intersect dirty \subseteq dirty'
    OBVIOUS
  <2>1. CASE pmm_allocz
    <3>1. ret' \notin granted
      BY <2>1, TakeFrameStep, NullIsNoFrame
         DEF pmm_allocz, IInv, FramesConserved
    <3> QED  BY <2>1, <3>1 DEF pmm_allocz, Cleared
  <2>2. CASE pmm_alloc \/ pmm_init
    BY <2>2 DEF pmm_alloc, pmm_init
  <2>3. ASSUME NEW f \in granted, UseFrame(f)
        PROVE  granted \intersect dirty \subseteq dirty'
    BY <2>3 DEF UseFrame
  <2> QED  BY <2>1, <2>2, <2>3 DEF Next
<1> QED  BY <1>1, InvariantHolds, PTL DEF Spec, ZeroingSparesOwners

(* pmm.c implements the abstract pool: a page eaten from the map is a      *)
(* grant, an answer of NULL is a refusal of an empty pool, and pmm_init    *)
(* and the stores of the owners are invisible to it.                       *)
THEOREM PoolImplemented == Spec => ImplementsPool
<1>1. Init => Pool!Init
  BY DEF Init, Pool!Init
<1>2. IInv /\ [Next]_vars => [Pool!Next]_Pool!vars
  <2> SUFFICES ASSUME IInv, [Next]_vars
               PROVE  Pool!Next \/ UNCHANGED Pool!vars
    OBVIOUS
  <2>1. CASE TakeFrame
    <3>1. CASE /\ ret' \in Remaining(memmap)
               /\ granted' = granted \union {ret'}
               /\ Remaining(memmap') = Remaining(memmap) \ {ret'}
      <4>1. Pool!Grant(ret')
        BY <3>1 DEF Pool!Grant
      <4>2. ret' \in UNION {Remaining(m) : m \in MemMaps}
        BY <3>1 DEF IInv, TypeOK, FramesConserved
      <4> QED  BY <4>1, <4>2 DEF Pool!Next
    <3>2. CASE /\ Remaining(memmap) = {}
               /\ ret' = NULL
               /\ UNCHANGED <<memmap, granted>>
      BY <3>2 DEF Pool!Next, Pool!Refuse
    <3> QED  BY <2>1, <3>1, <3>2, TakeFrameStep
  <2>2. CASE UNCHANGED <<memmap, granted, ret>>
    BY <2>2 DEF Pool!vars
  <2> QED
    BY <2>1, <2>2 DEF Next, vars, pmm_alloc, pmm_allocz, pmm_init, UseFrame
<1> QED  BY <1>1, <1>2, InvariantHolds, PTL DEF Spec, ImplementsPool, Pool!Spec
=============================================================================
