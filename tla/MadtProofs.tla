----------------------------- MODULE MadtProofs -----------------------------
(***************************************************************************)
(* Facts about the walks of the MADT, for tables of every length, which    *)
(* KernelBootProofs and IoApicProofs apply to the components that use the  *)
(* table.                                                                  *)
(*                                                                         *)
(* Where a record starts is defined by recursion over the records before   *)
(* it.  Induction is by the least number that is not in a set.             *)
(***************************************************************************)
EXTENDS Madt, FiniteSetTheorems, SequenceTheorems, WellFoundedInduction, TLAPS

LEMMA LeastNat ==
  ASSUME NEW T \in SUBSET Nat, T # {}
  PROVE  \E n \in T : \A k \in T : n <= k
<1> DEFINE R == OpToRel(<, Nat)
<1>1. IsWellFoundedOn(R, Nat)
  BY NatLessThanWellFounded
<1>2. \A x, y \in Nat : x < y => <<x, y>> \in R
  BY DEF OpToRel
<1> HIDE DEF R
<1>3. PICK n \in T : \A y \in T : ~(<<y, n>> \in R)
  BY <1>1, WFMin
<1>4. ASSUME NEW k \in T
      PROVE  n <= k
  <2>1. k \in Nat /\ n \in Nat
    OBVIOUS
  <2>2. ~(k < n)
    BY <1>2, <1>3, <2>1
  <2> QED
    BY <2>1, <2>2
<1> QED
  BY <1>4

LEMMA Induction ==
  ASSUME NEW T \in SUBSET Nat, 0 \in T, \A n \in T : n + 1 \in T
  PROVE  T = Nat
<1> SUFFICES ASSUME T # Nat PROVE FALSE
  OBVIOUS
<1>1. Nat \ T \in SUBSET Nat /\ Nat \ T # {}
  OBVIOUS
<1>2. PICK n \in Nat \ T : \A k \in Nat \ T : n <= k
  BY <1>1, LeastNat
<1>3. n - 1 \in T
  BY <1>2
<1> QED
  BY <1>2, <1>3

-----------------------------------------------------------------------------
LEMMA MemoryIs ==
  ASSUME NEW m \in Machines
  PROVE  /\ Len(m.records) \in Nat /\ Len(m.after) \in Nat
         /\ DOMAIN m.records = 1 .. Len(m.records) /\ DOMAIN m.after = 1 .. Len(m.after)
         /\ Memory(m) \in Seq(Entry)
         /\ DOMAIN Memory(m) = 1 .. Len(Memory(m))
         /\ Len(Memory(m)) \in Nat /\ Len(Memory(m)) = Len(m.records) + Len(m.after)
         /\ \A k \in DOMAIN m.records : Memory(m)[k] = m.records[k]
         /\ \A k \in DOMAIN Memory(m) \ DOMAIN m.records :
              /\ k - Len(m.records) \in DOMAIN m.after
              /\ Memory(m)[k] = m.after[k - Len(m.records)]
         /\ \A k \in DOMAIN Memory(m) : Memory(m)[k].length \in Nat
<1>1. m.records \in Seq(Entry) /\ m.after \in Seq(Entry)
  BY MachineAssumption
<1>2. /\ Memory(m) \in Seq(Entry)
      /\ Len(Memory(m)) = Len(m.records) + Len(m.after)
      /\ Len(m.records) \in Nat /\ Len(m.after) \in Nat
      /\ DOMAIN m.records = 1 .. Len(m.records) /\ DOMAIN m.after = 1 .. Len(m.after)
      /\ DOMAIN Memory(m) = 1 .. Len(Memory(m))
      /\ Len(Memory(m)) \in Nat
  BY <1>1, LenProperties, ConcatProperties DEF Memory
<1>3. ASSUME NEW k \in 1 .. Len(m.records) + Len(m.after)
      PROVE  Memory(m)[k] = IF k <= Len(m.records) THEN m.records[k]
                            ELSE m.after[k - Len(m.records)]
  BY <1>1, ConcatProperties DEF Memory
<1> DEFINE a == Len(m.records)
           b == Len(m.after)
<1>6. ASSUME NEW k \in 1 .. a
      PROVE  Memory(m)[k] = m.records[k]
  <2>1. a \in Nat /\ b \in Nat
    BY <1>2
  <2> HIDE DEF a, b
  <2>2. k \in 1 .. a + b /\ k <= a
    BY <2>1
  <2> QED
    BY <1>3, <2>2 DEF a, b
<1>7. ASSUME NEW k \in 1 .. a + b, k \notin 1 .. a
      PROVE  k - a \in 1 .. b /\ Memory(m)[k] = m.after[k - a]
  <2>1. a \in Nat /\ b \in Nat
    BY <1>2
  <2> HIDE DEF a, b
  <2>2. ~(k <= a) /\ k - a \in 1 .. b
    BY <1>7, <2>1
  <2> QED
    BY <1>3, <2>2 DEF a, b
<1>4. \A r \in Entry : r.length \in Nat
  BY DEF Entry, Byte
<1>5. \A k \in DOMAIN Memory(m) : Memory(m)[k].length \in Nat
  BY <1>2, <1>4, ElementOfSeq
<1> QED
  BY <1>2, <1>5, <1>6, <1>7

LEMMA LengthsAre ==
  ASSUME NEW m \in Machines
  PROVE  /\ Len(m.records) \in Nat /\ Len(Memory(m)) \in Nat
         /\ Len(m.records) <= Len(Memory(m))
         /\ Len(m.records) + 1 \in 1 .. Len(Memory(m)) + 1
<1> DEFINE a == Len(m.records)
           b == Len(m.after)
           n == Len(Memory(m))
<1>1. a \in Nat /\ b \in Nat /\ n = a + b
  BY MemoryIs
<1> HIDE DEF a, b, n
<1>2. n \in Nat /\ a <= n /\ a + 1 \in 1 .. n + 1
  BY <1>1
<1> QED
  BY <1>1, <1>2 DEF a, n

(* The recursion of Offsets has a solution. *)
Lists(m, f, n) ==
  /\ f \in [1 .. n -> Nat]
  /\ n > 0 => f[1] = SizeofMadt
  /\ \A k \in 2 .. n : f[k] = f[k - 1] + Memory(m)[k - 1].length

LEMMA ListExists ==
  ASSUME NEW m \in Machines
  PROVE  \E f : Lists(m, f, Len(Memory(m)) + 1)
<1> DEFINE N == Len(Memory(m))
           T == {n \in Nat : n <= N + 1 => \E f : Lists(m, f, n)}
<1>1. N \in Nat /\ \A k \in 1 .. N : Memory(m)[k].length \in Nat
  BY MemoryIs
<1>2. 0 \in T
  <2>1. Lists(m, [x \in 1 .. 0 |-> 0], 0)
    BY DEF Lists
  <2> QED
    BY <2>1
<1>3. ASSUME NEW n \in T
      PROVE  n + 1 \in T
  <2> SUFFICES ASSUME n + 1 <= N + 1
               PROVE  \E f : Lists(m, f, n + 1)
    BY <1>3
  <2>1. PICK f : Lists(m, f, n)
    BY <1>1
  <2> DEFINE last == IF n = 0 THEN SizeofMadt ELSE f[n] + Memory(m)[n].length
             g == [k \in 1 .. n + 1 |-> IF k = n + 1 THEN last ELSE f[k]]
  <2>2. last \in Nat
    BY <1>1, <2>1 DEF Lists, SizeofMadt
  <2>3. g \in [1 .. n + 1 -> Nat]
    BY <2>1, <2>2 DEF Lists
  <2>4. g[1] = SizeofMadt
    BY <2>1 DEF Lists
  <2>5. ASSUME NEW k \in 2 .. n + 1
        PROVE  g[k] = g[k - 1] + Memory(m)[k - 1].length
    BY <2>1 DEF Lists
  <2> HIDE DEF g
  <2>6. Lists(m, g, n + 1)
    BY <2>3, <2>4, <2>5 DEF Lists
  <2> QED
    BY <2>6
<1>4. T = Nat
  <2> HIDE DEF T
  <2>1. T \in SUBSET Nat
    BY DEF T
  <2> QED
    BY <1>2, <1>3, <2>1, Induction
<1>5. N + 1 \in T
  <2> HIDE DEF T, N
  <2> QED
    BY <1>1, <1>4
<1> QED
  BY <1>1, <1>5

LEMMA OffsetsAre ==
  ASSUME NEW m \in Machines
  PROVE  Lists(m, Offsets(m), Len(Memory(m)) + 1)
<1> DEFINE N == Len(Memory(m))
           Is(f) == f = [k \in 1 .. N + 1 |->
                           IF k = 1 THEN SizeofMadt ELSE f[k - 1] + Memory(m)[k - 1].length]
<1>1. N \in Nat
  BY MemoryIs
<1>2. PICK f : Lists(m, f, N + 1)
  BY ListExists
<1>3. Is(f)
  BY <1>1, <1>2 DEF Lists
<1>4. Offsets(m) = CHOOSE g : Is(g)
  BY DEF Offsets
<1>5. Is(Offsets(m))
  BY <1>3, <1>4
<1> DEFINE g == Offsets(m)
           T == {n \in Nat : n <= N => g[n + 1] = f[n + 1]}
<1> HIDE DEF g
<1>6. g = [k \in 1 .. N + 1 |->
             IF k = 1 THEN SizeofMadt ELSE g[k - 1] + Memory(m)[k - 1].length]
  BY <1>5 DEF g
<1>7. 0 \in T
  BY <1>1, <1>2, <1>6 DEF Lists
<1>8. ASSUME NEW n \in T
      PROVE  n + 1 \in T
  <2> SUFFICES ASSUME n + 1 <= N
               PROVE  g[n + 2] = f[n + 2]
    OBVIOUS
  <2>1. g[n + 1] = f[n + 1] /\ n \in Nat
    BY <1>1
  <2>2. g[n + 2] = g[n + 1] + Memory(m)[n + 1].length
    BY <1>1, <1>6, <2>1
  <2>3. f[n + 2] = f[n + 1] + Memory(m)[n + 1].length
    <3>1. n + 2 \in 2 .. N + 1 /\ n + 2 - 1 = n + 1
      BY <1>1, <2>1
    <3> QED
      BY <1>2, <3>1 DEF Lists
  <2> QED
    BY <2>1, <2>2, <2>3
<1>9. T = Nat
  <2> HIDE DEF T
  <2>1. T \in SUBSET Nat
    BY DEF T
  <2> QED
    BY <1>7, <1>8, <2>1, Induction
<1>10. \A k \in 1 .. N + 1 : g[k] = f[k]
  <2>1. ASSUME NEW k \in 1 .. N + 1
        PROVE  g[k] = f[k]
    <3>1. k - 1 \in T /\ k - 1 <= N
      <4> HIDE DEF T, N
      <4> QED
        BY <1>1, <1>9
    <3> QED
      BY <3>1
  <2> QED
    BY <2>1
<1>11. g = f
  BY <1>2, <1>6, <1>10 DEF Lists
<1> QED
  BY <1>2, <1>11 DEF g

-----------------------------------------------------------------------------
LEMMA WalkIs ==
  ASSUME NEW m \in Machines, NEW end
  PROVE  \A k : k \in Walk(m, end) <=> /\ k \in 1 .. Len(Memory(m))
                                       /\ Offsets(m)[k] < end
                                       /\ \A j \in 1 .. k : Memory(m)[j].length # 0
BY MemoryIs DEF Walk

(* Records follow each other in memory. *)
LEMMA OffsetsGrow ==
  ASSUME NEW m \in Machines
  PROVE  \A k, l \in 1 .. Len(Memory(m)) + 1 : k <= l =>
           /\ Offsets(m)[k] \in Nat /\ Offsets(m)[l] \in Nat
           /\ Offsets(m)[k] <= Offsets(m)[l]
<1> DEFINE N == Len(Memory(m))
           offset == Offsets(m)
           T == {n \in Nat : \A k \in 1 .. N + 1 : k + n <= N + 1 => offset[k] <= offset[k + n]}
<1>1. N \in Nat /\ \A k \in 1 .. N : Memory(m)[k].length \in Nat
  BY MemoryIs
<1>2. /\ \A k \in 1 .. N + 1 : offset[k] \in Nat
      /\ \A k \in 2 .. N + 1 : offset[k] = offset[k - 1] + Memory(m)[k - 1].length
  BY OffsetsAre DEF Lists
<1> HIDE DEF N, offset
<1>3. \A k \in 1 .. N : offset[k] <= offset[k + 1]
  <2> SUFFICES ASSUME NEW k \in 1 .. N PROVE offset[k] <= offset[k + 1]
    OBVIOUS
  <2>1. k + 1 \in 2 .. N + 1 /\ k + 1 - 1 = k /\ k \in 1 .. N + 1
    BY <1>1
  <2>2. offset[k + 1] = offset[k] + Memory(m)[k].length
    BY <1>2, <2>1
  <2> QED
    BY <1>1, <1>2, <2>1, <2>2
<1>4. 0 \in T
  BY <1>1, <1>2
<1>5. ASSUME NEW n \in T
      PROVE  n + 1 \in T
  <2> SUFFICES ASSUME NEW k \in 1 .. N + 1, k + (n + 1) <= N + 1
               PROVE  offset[k] <= offset[k + (n + 1)]
    OBVIOUS
  <2>1. n \in Nat /\ k + n \in 1 .. N /\ k + (n + 1) = (k + n) + 1
    BY <1>1
  <2>2. offset[k] <= offset[k + n]
    BY <1>1, <2>1
  <2>3. offset[k + n] <= offset[k + n + 1]
    BY <1>3, <2>1
  <2>4. offset[k] \in Nat /\ offset[k + n] \in Nat /\ offset[k + n + 1] \in Nat
    BY <1>1, <1>2, <2>1
  <2> QED
    BY <2>1, <2>2, <2>3, <2>4
<1>6. T = Nat
  <2> HIDE DEF T
  <2>1. T \in SUBSET Nat
    BY DEF T
  <2> QED
    BY <1>4, <1>5, <2>1, Induction
<1>7. ASSUME NEW k \in 1 .. N + 1, NEW l \in 1 .. N + 1, k <= l
      PROVE  offset[k] <= offset[l]
  <2>1. l - k \in T
    <3> HIDE DEF T
    <3> QED
      BY <1>1, <1>6, <1>7
  <2>2. k + (l - k) = l
    BY <1>1
  <2> QED
    BY <1>1, <2>1, <2>2
<1> QED
  BY <1>2, <1>7 DEF N, offset

LEMMA LengthIs ==
  ASSUME NEW m \in Machines
  PROVE  /\ Length(m) \in Nat
         /\ ParseEnd(m) = 44 * Length(m) /\ ParseEnd(m) \in Nat
         /\ DetectEnd(m) \in Nat /\ DetectEnd(m) <= ParseEnd(m)
<1>1. Len(m.records) + 1 \in 1 .. Len(Memory(m)) + 1
  BY LengthsAre
<1>2. Length(m) \in Nat
  BY <1>1, OffsetsGrow DEF Length
<1> DEFINE L == Length(m)
<1>3. ParseEnd(m) = 44 * L /\ DetectEnd(m) = 44 * (L \div 4)
  BY DEF ParseEnd, DetectEnd, SizeofMadt
<1> HIDE DEF L
<1>4. \A n \in Nat : 44 * n \in Nat /\ 44 * (n \div 4) \in Nat /\ 44 * (n \div 4) <= 44 * n
  OBVIOUS
<1>5. L \in Nat
  BY <1>2 DEF L
<1> QED
  BY <1>3, <1>4, <1>5 DEF L

LEMMA EndsAreBehind ==
  ASSUME NEW m \in Machines
  PROVE  Length(m) <= ParseEnd(m) /\ Length(m) <= DetectEnd(m)
<1> DEFINE N == Len(Memory(m))
           R == Len(m.records)
           L == Length(m)
<1>1. 1 \in 1 .. N + 1 /\ R + 1 \in 1 .. N + 1 /\ 1 <= R + 1
  BY LengthsAre
<1>2. Offsets(m)[1] = 44
  BY <1>1, OffsetsAre, LengthsAre DEF Lists, SizeofMadt
<1>3. L >= 44 /\ L \in Nat
  BY <1>1, <1>2, OffsetsGrow DEF Length
<1>4. ParseEnd(m) = 44 * L /\ DetectEnd(m) = 44 * (L \div 4)
  BY DEF ParseEnd, DetectEnd, SizeofMadt
<1> HIDE DEF L
<1>5. \A n \in Nat : n >= 44 => n <= 44 * n /\ n <= 44 * (n \div 4)
  OBVIOUS
<1> QED
  BY <1>3, <1>4, <1>5 DEF L

(* A walk that ends no earlier than the table reaches all of its records.  *)
LEMMA TableWithin ==
  ASSUME NEW m \in Machines, NEW end \in Nat, Length(m) <= end
  PROVE  DOMAIN m.records \subseteq Walk(m, end)
<1> SUFFICES ASSUME NEW k \in DOMAIN m.records
             PROVE  k \in Walk(m, end)
  OBVIOUS
<1> DEFINE R == Len(m.records)
           N == Len(Memory(m))
<1>1. /\ R \in Nat /\ N \in Nat /\ R <= N /\ k \in 1 .. R
      /\ \A j \in 1 .. R : Memory(m)[j] = m.records[j]
      /\ \A j \in 1 .. N : Memory(m)[j].length \in Nat
  <2>1. DOMAIN m.records = 1 .. R /\ DOMAIN Memory(m) = 1 .. N
    BY MemoryIs
  <2>2. /\ \A j \in DOMAIN m.records : Memory(m)[j] = m.records[j]
        /\ \A j \in DOMAIN Memory(m) : Memory(m)[j].length \in Nat
    BY MemoryIs
  <2>3. R \in Nat /\ N \in Nat /\ R <= N
    BY LengthsAre
  <2> HIDE DEF R, N
  <2> QED
    BY <2>1, <2>2, <2>3
<1>2. \A j \in 1 .. R : m.records[j].length > 0
  BY MachineAssumption, MemoryIs
<1> HIDE DEF R, N
<1>3. k \in 1 .. N /\ k + 1 \in 1 .. N + 1 /\ R + 1 \in 1 .. N + 1 /\ k + 1 <= R + 1
  BY <1>1
<1>4. Offsets(m)[k + 1] <= Length(m) /\ Offsets(m)[k + 1] \in Nat
  BY <1>3, OffsetsGrow DEF Length, R, N
<1>5. Offsets(m)[k + 1] = Offsets(m)[k] + Memory(m)[k].length /\ Offsets(m)[k] \in Nat
  <2>1. k + 1 \in 2 .. N + 1 /\ k + 1 - 1 = k /\ k \in 1 .. N + 1
    BY <1>1, <1>3
  <2> QED
    BY <2>1, OffsetsAre DEF Lists, N
<1>6. Memory(m)[k].length > 0 /\ Memory(m)[k].length \in Nat
  BY <1>1, <1>2, <1>3
<1>7. Offsets(m)[k] < Length(m)
  BY <1>4, <1>5, <1>6, LengthIs
<1>8. Offsets(m)[k] < end
  BY <1>5, <1>7, LengthIs
<1>9. \A j \in 1 .. k : Memory(m)[j].length # 0
  BY <1>1, <1>2
<1> QED
  BY <1>3, <1>8, <1>9, WalkIs DEF N

LEMMA TableIsWalked ==
  ASSUME NEW m \in Machines
  PROVE  /\ DOMAIN m.records \subseteq Walk(m, ParseEnd(m))
         /\ DOMAIN m.records \subseteq Walk(m, DetectEnd(m))
BY EndsAreBehind, TableWithin, LengthIs

LEMMA FoundIs ==
  ASSUME NEW m \in Machines, NEW end, NEW type
  PROVE  /\ Found(m, end, type) \in SUBSET (1 .. Len(Memory(m)))
         /\ IsFiniteSet(Found(m, end, type)) /\ Cardinality(Found(m, end, type)) \in Nat
         /\ \A k : k \in Found(m, end, type) <=> k \in Walk(m, end) /\ Memory(m)[k].type = type
<1>1. \A k : k \in Found(m, end, type) <=> k \in Walk(m, end) /\ Memory(m)[k].type = type
  BY DEF Found
<1>2. Found(m, end, type) \in SUBSET (1 .. Len(Memory(m)))
  BY <1>1, WalkIs
<1>3. IsFiniteSet(1 .. Len(Memory(m)))
  BY MemoryIs, FS_Interval
<1> QED
  BY <1>1, <1>2, <1>3, FS_Subset, FS_CardinalityType

(* cpu_detect_cores goes less far than parse_madt: it counts no core that  *)
(* parse_madt has not seen.                                                *)
LEMMA CountedAreFound ==
  ASSUME NEW m \in Machines
  PROVE  /\ CoreCount(m) \in 0 .. 255
         /\ CoreCount(m) <= Cardinality(Found(m, ParseEnd(m), APIC_TYPE_LOCAL_APIC))
<1> DEFINE counted == Found(m, DetectEnd(m), APIC_TYPE_LOCAL_APIC)
           found == Found(m, ParseEnd(m), APIC_TYPE_LOCAL_APIC)
<1>1. counted \subseteq found
  <2>1. \A k \in 1 .. Len(Memory(m)) : Offsets(m)[k] \in Nat
    BY OffsetsGrow, MemoryIs
  <2>2. Walk(m, DetectEnd(m)) \subseteq Walk(m, ParseEnd(m))
    BY <2>1, WalkIs, LengthIs
  <2> QED
    BY <2>2, FoundIs
<1>2. Cardinality(counted) \in Nat /\ Cardinality(found) \in Nat
      /\ Cardinality(counted) <= Cardinality(found)
  BY <1>1, FoundIs, FS_Subset
<1>3. CoreCount(m) = Cardinality(counted) % 256
  BY DEF CoreCount, U8
<1> HIDE DEF counted, found
<1>4. \A a, b \in Nat : a <= b => a % 256 \in 0 .. 255 /\ a % 256 <= b
  OBVIOUS
<1> QED
  BY <1>2, <1>3, <1>4 DEF found

LEMMA StoredDomain ==
  ASSUME NEW m \in Machines
  PROVE  0 .. CoreCount(m) - 1 \subseteq DOMAIN StoredIds(m) \union MAX_NEEDED_CORES .. 255
<1> DEFINE c == Cardinality(Found(m, ParseEnd(m), APIC_TYPE_LOCAL_APIC))
           n == CoreCount(m)
<1>1. DOMAIN StoredIds(m) = {l \in 0 .. 16 : l < c}
  BY DEF StoredIds, MaxStored, MAX_NEEDED_CORES
<1>2. n \in 0 .. 255 /\ c \in Nat /\ n <= c
  BY CountedAreFound, FoundIs
<1> HIDE DEF c, n
<1>3. 0 .. n - 1 \subseteq {l \in 0 .. 16 : l < c} \union 16 .. 255
  BY <1>2
<1> QED
  BY <1>1, <1>3 DEF n, MAX_NEEDED_CORES

(* A finite set of numbers has an n-th element for every n below its size. *)
LEMMA NthExists ==
  ASSUME NEW S \in SUBSET Nat, IsFiniteSet(S), NEW n \in Nat, n < Cardinality(S)
  PROVE  \E k \in S : Cardinality({l \in S : l < k}) = n
<1> DEFINE Before(k) == {l \in S : l < k}
           T == {a \in Nat : a < Cardinality(S) =>
                   \E k \in S : Cardinality(Before(k)) = a}
<1>1. Cardinality(S) \in Nat
  BY FS_CardinalityType
<1>2. ASSUME NEW U \in SUBSET S
      PROVE  IsFiniteSet(U) /\ Cardinality(U) \in Nat
  BY FS_Subset, FS_CardinalityType
<1>3. 0 \in T
  <2> SUFFICES ASSUME 0 < Cardinality(S)
               PROVE  \E k \in S : Cardinality(Before(k)) = 0
    OBVIOUS
  <2>1. S # {}
    BY FS_EmptySet
  <2>2. PICK k \in S : \A l \in S : k <= l
    BY <2>1, LeastNat
  <2>3. \A l \in S : ~(l < k)
    BY <2>2
  <2>4. Before(k) = {}
    BY <2>3
  <2> QED
    BY <2>4, FS_EmptySet
<1>4. ASSUME NEW a \in T
      PROVE  a + 1 \in T
  <2> SUFFICES ASSUME a + 1 < Cardinality(S)
               PROVE  \E k \in S : Cardinality(Before(k)) = a + 1
    OBVIOUS
  <2>1. a \in Nat /\ a < Cardinality(S)
    BY <1>1
  <2>2. PICK k \in S : Cardinality(Before(k)) = a
    BY <2>1
  <2> DEFINE upTo == Before(k) \union {k}
  <2>3. IsFiniteSet(Before(k)) /\ k \notin Before(k)
    BY <1>2
  <2>4. Cardinality(upTo) = a + 1
    BY <2>2, <2>3, FS_AddElement
  <2>5. S \ upTo # {}
    <3> SUFFICES ASSUME S \ upTo = {} PROVE FALSE
      OBVIOUS
    <3>1. S = upTo
      OBVIOUS
    <3> QED
      BY <1>1, <2>1, <2>4, <3>1
  <2>6. PICK next \in S \ upTo : \A l \in S \ upTo : next <= l
    BY <2>5, LeastNat
  <2>7. \A l \in S : l < next <=> l < k \/ l = k
    <3>1. next \in Nat /\ k \in Nat /\ ~(next < k) /\ next # k
      BY <2>6
    <3>2. \A l \in S : l \in Nat /\ (l < next => l < k \/ l = k)
      BY <2>6
    <3> QED
      BY <3>1, <3>2
  <2>8. Before(next) = upTo
    BY <2>7
  <2> QED
    BY <2>4, <2>6, <2>8
<1>5. T = Nat
  <2> HIDE DEF T
  <2>1. T \in SUBSET Nat
    BY DEF T
  <2> QED
    BY <1>3, <1>4, <2>1, Induction
<1> QED
  BY <1>5

(* What parse_madt stores are bytes of Local APIC records. *)
LEMMA StoredAreBytes ==
  ASSUME NEW m \in Machines, NEW n \in DOMAIN StoredIds(m)
  PROVE  StoredIds(m)[n] \in Byte
<1> DEFINE found == Found(m, ParseEnd(m), APIC_TYPE_LOCAL_APIC)
           k == CHOOSE q \in found : Cardinality({l \in found : l < q}) = n
<1>1. n \in Nat /\ n < Cardinality(found) /\ StoredIds(m)[n] = Memory(m)[k].processor_id
  BY DEF StoredIds, StoredId, MaxStored, MAX_NEEDED_CORES
<1>2. found \in SUBSET Nat /\ IsFiniteSet(found)
  BY FoundIs
<1>3. k \in found
  BY <1>1, <1>2, NthExists
<1> HIDE DEF k
<1>4. Memory(m)[k] \in Entry /\ Memory(m)[k].type = APIC_TYPE_LOCAL_APIC
  <2>1. k \in 1 .. Len(Memory(m)) /\ Memory(m)[k].type = APIC_TYPE_LOCAL_APIC
    BY <1>3, FoundIs
  <2> QED
    BY <2>1, MemoryIs, ElementOfSeq
<1>5. Memory(m)[k].processor_id \in Byte
  BY <1>4 DEF Entry, APIC_TYPE_LOCAL_APIC, APIC_TYPE_IO_APIC, APIC_TYPE_INTERRUPT_OVERRIDE
<1> QED
  BY <1>1, <1>5

(* The n-th element of a finite set of numbers is the only one.            *)
LEMMA NthIsOne ==
  ASSUME NEW S \in SUBSET Nat, IsFiniteSet(S), NEW q \in S, NEW r \in S,
         Cardinality({l \in S : l < q}) = Cardinality({l \in S : l < r})
  PROVE  q = r
<1> DEFINE Before(k) == {l \in S : l < k}
<1>1. ASSUME NEW a \in S, NEW b \in S, a < b
      PROVE  Cardinality(Before(a)) < Cardinality(Before(b))
  <2>1. IsFiniteSet(Before(a)) /\ IsFiniteSet(Before(b)) /\ a \notin Before(a)
    BY FS_Subset
  <2>2. /\ Cardinality(Before(a) \cup {a}) = Cardinality(Before(a)) + 1
        /\ Cardinality(Before(a)) \in Nat /\ Cardinality(Before(b)) \in Nat
    BY <2>1, FS_AddElement, FS_CardinalityType
  <2>3. Before(a) \cup {a} \subseteq Before(b)
    <3>1. \A l \in S : l \in Nat
      OBVIOUS
    <3>2. \A l \in S : l < a \/ l = a => l < b
      BY <1>1, <3>1
    <3> QED
      BY <3>2
  <2>4. Cardinality(Before(a) \cup {a}) <= Cardinality(Before(b))
    BY <2>1, <2>3, FS_Subset
  <2> QED
    BY <2>2, <2>4
<1>2. Cardinality(Before(q)) = Cardinality(Before(r)) /\ Cardinality(Before(q)) \in Nat
  BY FS_Subset, FS_CardinalityType
<1> HIDE DEF Before
<1>3. ~(q < r) /\ ~(r < q)
  BY <1>1, <1>2
<1> QED
  BY <1>3

(* Where the table's IDs are what lapic_send_init needs, each core's is    *)
(* stored once, and among those that are counted.                          *)
LEMMA StoredOnce ==
  ASSUME NEW m \in Machines, IdsAreApicIds(m), NEW c \in ApicIds(m)
  PROVE  /\ CoreCount(m) <= MAX_NEEDED_CORES
         /\ 0 .. CoreCount(m) - 1 \subseteq DOMAIN StoredIds(m)
         /\ Cardinality({i \in 0 .. CoreCount(m) - 1 : StoredIds(m)[i] = c}) = 1
<1> DEFINE S == Found(m, ParseEnd(m), APIC_TYPE_LOCAL_APIC)
           D == Found(m, DetectEnd(m), APIC_TYPE_LOCAL_APIC)
           own == OwnCores(m)
           R == Len(m.records)
           n == Cardinality(own)
           Rank(k) == Cardinality({l \in S : l < k})
           Nth(i) == CHOOSE k \in S : Rank(k) = i
<1>1. /\ R \in Nat /\ DOMAIN m.records = 1 .. R
      /\ \A k \in 1 .. R : Memory(m)[k] = m.records[k]
  BY MemoryIs
<1>2. /\ S \in SUBSET Nat /\ IsFiniteSet(S) /\ Cardinality(S) \in Nat
      /\ \A k \in S : Memory(m)[k].type = APIC_TYPE_LOCAL_APIC
  BY FoundIs
<1>3. own \subseteq S /\ own \subseteq D /\ own \subseteq 1 .. R
  BY <1>1, TableIsWalked, FoundIs DEF OwnCores, IsLocalApic
<1>4. \A k \in S : k \in 1 .. R => k \in own
  BY <1>1, <1>2 DEF OwnCores, IsLocalApic
<1>5. D = own
  BY <1>3 DEF IdsAreApicIds
<1>6. IsFiniteSet(own) /\ n \in Nat /\ n <= Cardinality(S) /\ n <= 16
  BY <1>2, <1>3, FS_Subset, FS_CardinalityType DEF IdsAreApicIds, MAX_NEEDED_CORES
<1>7. CoreCount(m) = n
  <2>1. CoreCount(m) = n % 256
    BY <1>5 DEF CoreCount, U8
  <2> HIDE DEF n
  <2> QED
    BY <1>6, <2>1
<1>8. DOMAIN StoredIds(m) = {l \in 0 .. 16 : l < Cardinality(S)}
  BY DEF StoredIds, MaxStored, MAX_NEEDED_CORES
<1>9. 0 .. n - 1 \subseteq DOMAIN StoredIds(m)
  <2> HIDE DEF n, S
  <2> QED
    BY <1>2, <1>6, <1>8
<1>10. \A i \in DOMAIN StoredIds(m) : StoredIds(m)[i] = Memory(m)[Nth(i)].processor_id
  BY DEF StoredIds, StoredId
<1>11. ASSUME NEW i \in 0 .. n - 1
       PROVE  Nth(i) \in S /\ Rank(Nth(i)) = i
  <2>1. i \in Nat /\ i < Cardinality(S)
    <3> HIDE DEF n, S
    <3> QED
      BY <1>2, <1>6
  <2>2. \E k \in S : Rank(k) = i
    BY <1>2, <2>1, NthExists
  <2> QED
    BY <2>2
<1>12. ASSUME NEW k \in own
       PROVE  Rank(k) \in 0 .. n - 1 /\ Nth(Rank(k)) = k
  <2>1. {l \in S : l < k} \subseteq own \ {k}
    <3> SUFFICES ASSUME NEW l \in S, l < k PROVE l \in own \ {k}
      OBVIOUS
    <3>1. k \in 1 .. R /\ (l \in 1 .. R \/ l = 0)
      BY <1>1, <1>2, <1>3
    <3>2. l # 0
      BY <1>1, FoundIs
    <3> QED
      BY <1>2, <1>4, <3>1, <3>2
  <2>2. Cardinality(own \ {k}) = n - 1 /\ IsFiniteSet(own \ {k})
    BY <1>6, FS_RemoveElement
  <2>3. Rank(k) \in Nat /\ Rank(k) <= n - 1
    BY <2>1, <2>2, FS_Subset, FS_CardinalityType
  <2>4. Rank(k) \in 0 .. n - 1
    <3> HIDE DEF n, Rank
    <3> QED
      BY <1>6, <2>3
  <2>5. Nth(Rank(k)) \in S /\ Rank(Nth(Rank(k))) = Rank(k) /\ k \in S
    BY <1>3, <1>11, <2>4
  <2> HIDE DEF Nth
  <2>6. Nth(Rank(k)) = k
    BY <1>2, <2>5, NthIsOne
  <2> QED
    BY <2>4, <2>6
<1>13. ASSUME NEW i \in 0 .. n - 1
       PROVE  Nth(i) \in own
  <2> SUFFICES ASSUME Nth(i) \notin own PROVE FALSE
    OBVIOUS
  <2>1. Nth(i) \in S /\ Rank(Nth(i)) = i
    BY <1>11
  <2> HIDE DEF Nth
  <2>2. Nth(i) \notin 1 .. R /\ Nth(i) \in Nat
    BY <1>2, <1>4, <2>1
  <2>3. \A l \in own : l < Nth(i)
    <3>1. Nth(i) # 0
      BY <2>1, FoundIs
    <3> QED
      BY <1>1, <1>3, <2>2, <3>1
  <2>4. own \subseteq {l \in S : l < Nth(i)}
    BY <1>3, <2>3
  <2>5. n <= Rank(Nth(i))
    BY <1>2, <2>4, FS_Subset
  <2> HIDE DEF n, Rank
  <2> QED
    BY <1>6, <2>1, <2>5
<1>14. PICK q \in own : m.records[q].apic_id = c
  BY DEF ApicIds
<1>15. \A k \in own : Memory(m)[k].processor_id = m.records[k].apic_id
  BY <1>1, <1>3 DEF IdsAreApicIds
<1>16. \A k \in own : m.records[k].apic_id = c => k = q
  BY <1>14, MachineAssumption
<1> DEFINE T == {i \in 0 .. n - 1 : StoredIds(m)[i] = c}
<1>17. T = {Rank(q)}
  <2>1. Rank(q) \in T
    <3>1. Rank(q) \in 0 .. n - 1 /\ Nth(Rank(q)) = q
      BY <1>12
    <3> HIDE DEF Nth, Rank
    <3> QED
      BY <1>9, <1>10, <1>14, <1>15, <3>1
  <2>2. ASSUME NEW i \in T
        PROVE  i = Rank(q)
    <3>1. Nth(i) \in own /\ Rank(Nth(i)) = i
      BY <1>11, <1>13
    <3> HIDE DEF Nth, Rank
    <3>2. m.records[Nth(i)].apic_id = c
      BY <1>9, <1>10, <1>15, <3>1
    <3> QED
      BY <1>16, <3>1, <3>2
  <2> HIDE DEF T, Rank
  <2> QED
    BY <2>1, <2>2
<1>18. Cardinality(T) = 1
  BY <1>17, FS_Singleton
<1> QED
  BY <1>6, <1>7, <1>9, <1>18 DEF MAX_NEEDED_CORES
=============================================================================
