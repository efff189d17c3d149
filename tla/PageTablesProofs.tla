-------------------------- MODULE PageTablesProofs --------------------------
(***************************************************************************)
(* Proofs about the virtual memory manager, for tables of every size, for  *)
(* every address space the boot loader may leave (PagingAssumption), every *)
(* frame pool and every set of requested pages.                            *)
(*                                                                         *)
(* pmm_allocz answers NULL when the pool is empty, and map_page does not   *)
(* look.  While page 0 is unmapped the access stops the machine.  Once a   *)
(* request has mapped it, as kheap_init's does, frame 0 is linked as a     *)
(* table over and over, and the tables are a tree no more.  What survives  *)
(* that is page 0's own way through the tables, and with it the bound on   *)
(* the recursion: the invariant says both.                                 *)
(***************************************************************************)
EXTENDS PageTables, SequenceTheorems, TLAPS

Frame == Tables(mem, BootRoot) \union PoolFrames

Activations == [page : Page, level : 1 .. 4, table : Page]

IsMemory(m) == DOMAIN m = Page /\ \A f \in Page : m[f] \in [DOMAIN m[f] -> Page]

Types ==
  /\ booted \in BOOLEAN
  /\ pml4 = BootRoot
  /\ IsMemory(mem)
  /\ stack \in Seq(Activations)
  /\ free \subseteq PoolFrames
  /\ granted \subseteq PoolFrames
  /\ ret \in PoolFrames \union {NULL}
  /\ faulted \in BOOLEAN
  /\ ~booted => mem \in BootMems /\ stack = <<>>

(* The pool answers nothing but NULL. *)
Exhausted == free = {} /\ ret = NULL

(* The tables are a tree outside of what the pool still has. *)
Apart ==
  /\ IsTree(mem, BootRoot)
  /\ Tables(mem, BootRoot) \intersect (free \union {NULL}) = {}

(* Pages are mapped to themselves, those of RAM always. *)
OneToOne ==
  /\ \A p \in Page : Walk(mem, BootRoot, p) \subseteq {p}
  /\ \A f \in Frame : f \in Walk(mem, BootRoot, f)
  /\ booted /\ NULL \notin Requests => Walk(mem, BootRoot, NULL) = {}

(* Each activation of map_page is where the walk of its page leads; one    *)
(* that serves another maps a frame of RAM.                                *)
OnTheWay ==
  /\ \A k \in DOMAIN stack :
       /\ stack[k].table \in Meets(mem, BootRoot, stack[k].page, stack[k].level)
       /\ stack[k].page \in Requests \union PoolFrames
  /\ Len(stack) <= 2
  /\ Len(stack) = 2 => stack[2].page \in PoolFrames

Sound == Apart /\ OneToOne /\ OnTheWay

(* A page mapped to itself, by tables of which none is frame 0. *)
Held(m, p) ==
  /\ Walk(m, BootRoot, p) = {p}
  /\ \A level \in 1 .. 4 : NULL \notin Meets(m, BootRoot, p, level)

(* Page 0 and the tables on its way are such pages. *)
Fixed(m) ==
  /\ Held(m, NULL)
  /\ \A level \in 1 .. 4 : \A t \in Meets(m, BootRoot, NULL, level) : Held(m, t)

(* What is left once frame 0 is a table: an inner activation maps page 0.  *)
Anchored ==
  /\ booted
  /\ NULL \in Requests
  /\ Fixed(mem)
  /\ Len(stack) <= 2
  /\ Len(stack) = 2 => /\ stack[2].page = NULL
                       /\ stack[2].table \in Meets(mem, BootRoot, NULL, stack[2].level)

(* The inductive invariant. *)
IInv ==
  /\ Types
  /\ faulted => Exhausted
  /\ Sound \/ (Exhausted /\ Anchored)

-----------------------------------------------------------------------------
(* Tables and walks, level by level. *)
L2(m) == Below(m, {BootRoot})
L3(m) == Below(m, L2(m))
L4(m) == Below(m, L3(m))

LEMMA BelowDef ==
  \A m, ts, x : x \in Below(m, ts) <=> \E t \in ts : \E i \in DOMAIN m[t] : x = m[t][i]
BY DEF Below

LEMMA FollowDef ==
  \A m, ts, i, x : x \in Follow(m, ts, i) <=> \E t \in ts : i \in DOMAIN m[t] /\ x = m[t][i]
BY DEF Follow

LEMMA Levels ==
  ASSUME NEW m
  PROVE  /\ TablesAt(m, BootRoot, 1) = {BootRoot}
         /\ TablesAt(m, BootRoot, 2) = L2(m)
         /\ TablesAt(m, BootRoot, 3) = L3(m)
         /\ TablesAt(m, BootRoot, 4) = L4(m)
         /\ Parents(m, BootRoot) = {BootRoot} \union L2(m) \union L3(m)
         /\ Tables(m, BootRoot) = {BootRoot} \union L2(m) \union L3(m) \union L4(m)
<1>1. /\ TablesAt(m, BootRoot, 1) = {BootRoot}
      /\ TablesAt(m, BootRoot, 2) = L2(m)
      /\ TablesAt(m, BootRoot, 3) = L3(m)
      /\ TablesAt(m, BootRoot, 4) = L4(m)
  BY DEF TablesAt, L2, L3, L4
<1>2. 1 .. 3 = {1, 2, 3} /\ 1 .. 4 = {1, 2, 3, 4}
  OBVIOUS
<1>3. Parents(m, BootRoot) = {BootRoot} \union L2(m) \union L3(m)
  BY <1>1, <1>2 DEF Parents
<1>4. Tables(m, BootRoot) = {BootRoot} \union L2(m) \union L3(m) \union L4(m)
  BY <1>1, <1>2 DEF Tables
<1> QED
  BY <1>1, <1>3, <1>4

LEMMA WalkLevels ==
  ASSUME NEW m, NEW p
  PROVE  /\ Meets(m, BootRoot, p, 1) = {BootRoot}
         /\ Meets(m, BootRoot, p, 2) = Follow(m, {BootRoot}, p[1])
         /\ Meets(m, BootRoot, p, 3) = Follow(m, Meets(m, BootRoot, p, 2), p[2])
         /\ Meets(m, BootRoot, p, 4) = Follow(m, Meets(m, BootRoot, p, 3), p[3])
         /\ Walk(m, BootRoot, p) = Follow(m, Meets(m, BootRoot, p, 4), p[4])
BY DEF Meets, Walk

(* A walk meets tables of its level, and one at most. *)
LEMMA MeetsTables ==
  ASSUME NEW m, NEW p
  PROVE  /\ Meets(m, BootRoot, p, 2) \subseteq L2(m)
         /\ Meets(m, BootRoot, p, 3) \subseteq L3(m)
         /\ Meets(m, BootRoot, p, 4) \subseteq L4(m)
<1>1. Meets(m, BootRoot, p, 2) \subseteq L2(m)
  BY WalkLevels, FollowDef, BelowDef DEF L2
<1>2. Meets(m, BootRoot, p, 3) \subseteq L3(m)
  BY <1>1, WalkLevels, FollowDef, BelowDef DEF L3
<1>3. Meets(m, BootRoot, p, 4) \subseteq L4(m)
  BY <1>2, WalkLevels, FollowDef, BelowDef DEF L4
<1> QED
  BY <1>1, <1>2, <1>3

LEMMA MeetsOne ==
  ASSUME NEW m, NEW p, NEW level \in 1 .. 4,
         NEW x \in Meets(m, BootRoot, p, level), NEW y \in Meets(m, BootRoot, p, level)
  PROVE  x = y
<1>1. \A a, b \in Meets(m, BootRoot, p, 1) : a = b
  BY WalkLevels
<1>2. \A a, b \in Meets(m, BootRoot, p, 2) : a = b
  BY WalkLevels, FollowDef
<1>3. \A a, b \in Meets(m, BootRoot, p, 3) : a = b
  BY <1>2, WalkLevels, FollowDef
<1>4. \A a, b \in Meets(m, BootRoot, p, 4) : a = b
  BY <1>3, WalkLevels, FollowDef
<1> QED
  BY <1>1, <1>2, <1>3, <1>4

(* In a tree the levels have no table in common. *)
LEMMA LevelsApart ==
  ASSUME NEW m, IsTree(m, BootRoot)
  PROVE  /\ BootRoot \notin L2(m) \union L3(m) \union L4(m)
         /\ L2(m) \intersect L3(m) = {}
         /\ L2(m) \intersect L4(m) = {}
         /\ L3(m) \intersect L4(m) = {}
<1>1. \A t, u \in {BootRoot} \union L2(m) \union L3(m) :
        \A i \in DOMAIN m[t], j \in DOMAIN m[u] :
          m[t][i] # BootRoot /\ (m[t][i] = m[u][j] => t = u)
  BY Levels DEF IsTree
<1>2. BootRoot \notin L2(m) \union L3(m) \union L4(m)
  BY <1>1, BelowDef DEF L2, L3, L4
<1>3. L2(m) \intersect L3(m) = {}
  BY <1>1, <1>2, BelowDef DEF L2, L3
<1>4. L2(m) \intersect L4(m) = {}
  BY <1>1, <1>2, BelowDef DEF L2, L4
<1>5. L3(m) \intersect L4(m) = {}
  BY <1>1, <1>3, BelowDef DEF L3, L4
<1> QED
  BY <1>2, <1>3, <1>4, <1>5

LEMMA LinkedOnce ==
  ASSUME NEW m, IsTree(m, BootRoot),
         NEW u \in {BootRoot} \union L2(m) \union L3(m), NEW i \in DOMAIN m[u],
         NEW v \in {BootRoot} \union L2(m) \union L3(m), NEW j \in DOMAIN m[v],
         m[u][i] = m[v][j]
  PROVE  u = v /\ i = j
BY Levels DEF IsTree

(* Two walks that meet at one table have come the same way. *)
LEMMA SameWay ==
  ASSUME NEW m, IsTree(m, BootRoot), NEW p, NEW q,
         NEW t \in Meets(m, BootRoot, p, 4), t \in Meets(m, BootRoot, q, 4)
  PROVE  p[1] = q[1] /\ p[2] = q[2] /\ p[3] = q[3]
<1>2. PICK u \in Meets(m, BootRoot, p, 3) : p[3] \in DOMAIN m[u] /\ t = m[u][p[3]]
  BY WalkLevels, FollowDef
<1>3. PICK v \in Meets(m, BootRoot, q, 3) : q[3] \in DOMAIN m[v] /\ t = m[v][q[3]]
  BY WalkLevels, FollowDef
<1>4. u = v /\ p[3] = q[3]
  <2>1. u \in L3(m) /\ v \in L3(m)
    BY MeetsTables
  <2>2. m[u][p[3]] = m[v][q[3]]
    BY <1>2, <1>3
  <2> QED
    BY <1>2, <1>3, <2>1, <2>2, LinkedOnce
<1>5. PICK x \in Meets(m, BootRoot, p, 2) : p[2] \in DOMAIN m[x] /\ u = m[x][p[2]]
  BY WalkLevels, FollowDef
<1>6. PICK y \in Meets(m, BootRoot, q, 2) : q[2] \in DOMAIN m[y] /\ u = m[y][q[2]]
  BY <1>4, WalkLevels, FollowDef
<1>7. x = y /\ p[2] = q[2]
  <2>1. x \in L2(m) /\ y \in L2(m)
    BY MeetsTables
  <2>2. m[x][p[2]] = m[y][q[2]]
    BY <1>5, <1>6
  <2> QED
    BY <1>5, <1>6, <2>1, <2>2, LinkedOnce
<1>8. p[1] \in DOMAIN m[BootRoot] /\ x = m[BootRoot][p[1]]
  BY WalkLevels, FollowDef
<1>9. q[1] \in DOMAIN m[BootRoot] /\ x = m[BootRoot][q[1]]
  BY <1>7, WalkLevels, FollowDef
<1>10. p[1] = q[1]
  <2>1. m[BootRoot][p[1]] = m[BootRoot][q[1]]
    BY <1>8, <1>9
  <2> QED
    BY <1>8, <1>9, <2>1, LinkedOnce
<1> QED
  BY <1>4, <1>7, <1>10

-----------------------------------------------------------------------------
(* What a store does to tables and walks.  One that leaves the upper three *)
(* levels alone leaves the tree alone. *)
LEMMA SameBelow ==
  ASSUME NEW m, NEW n, NEW ts, \A t \in ts : n[t] = m[t]
  PROVE  Below(n, ts) = Below(m, ts)
<1>1. ASSUME NEW x
      PROVE  x \in Below(n, ts) <=> x \in Below(m, ts)
  <2>1. (\E t \in ts : \E i \in DOMAIN n[t] : x = n[t][i])
          <=> (\E t \in ts : \E i \in DOMAIN m[t] : x = m[t][i])
    OBVIOUS
  <2> QED
    BY <2>1, BelowDef
<1> QED
  BY <1>1

LEMMA SameFollow ==
  ASSUME NEW m, NEW n, NEW ts, \A t \in ts : n[t] = m[t], NEW i
  PROVE  Follow(n, ts, i) = Follow(m, ts, i)
<1>1. ASSUME NEW x
      PROVE  x \in Follow(n, ts, i) <=> x \in Follow(m, ts, i)
  <2>1. (\E t \in ts : i \in DOMAIN n[t] /\ x = n[t][i])
          <=> (\E t \in ts : i \in DOMAIN m[t] /\ x = m[t][i])
    OBVIOUS
  <2> QED
    BY <2>1, FollowDef
<1> QED
  BY <1>1

LEMMA SameTables ==
  ASSUME NEW m, NEW n, \A t \in Parents(m, BootRoot) : n[t] = m[t]
  PROVE  /\ L2(n) = L2(m) /\ L3(n) = L3(m) /\ L4(n) = L4(m)
         /\ Parents(n, BootRoot) = Parents(m, BootRoot)
         /\ Tables(n, BootRoot) = Tables(m, BootRoot)
         /\ IsTree(m, BootRoot) => IsTree(n, BootRoot)
<1>1. \A t \in {BootRoot} \union L2(m) \union L3(m) : n[t] = m[t]
  BY Levels
<1>2. L2(n) = L2(m)
  BY <1>1, SameBelow DEF L2
<1>3. L3(n) = L3(m)
  BY <1>1, <1>2, SameBelow DEF L3
<1>4. L4(n) = L4(m)
  BY <1>1, <1>3, SameBelow DEF L4
<1>5. /\ Parents(n, BootRoot) = Parents(m, BootRoot)
      /\ Tables(n, BootRoot) = Tables(m, BootRoot)
  BY <1>2, <1>3, <1>4, Levels
<1>6. IsTree(m, BootRoot) => IsTree(n, BootRoot)
  BY <1>5 DEF IsTree
<1> QED
  BY <1>2, <1>3, <1>4, <1>5, <1>6

LEMMA SameMeets ==
  ASSUME NEW m, NEW n, \A t \in Parents(m, BootRoot) : n[t] = m[t],
         NEW p, NEW level \in 1 .. 4
  PROVE  Meets(n, BootRoot, p, level) = Meets(m, BootRoot, p, level)
<1>1. \A t \in {BootRoot} \union L2(m) \union L3(m) : n[t] = m[t]
  BY Levels
<1>2. Meets(n, BootRoot, p, 1) = Meets(m, BootRoot, p, 1)
  BY WalkLevels
<1>3. Meets(n, BootRoot, p, 2) = Meets(m, BootRoot, p, 2)
  BY <1>1, WalkLevels, SameFollow
<1>4. Meets(n, BootRoot, p, 3) = Meets(m, BootRoot, p, 3)
  <2>1. \A t \in Meets(m, BootRoot, p, 2) : n[t] = m[t]
    BY <1>1, MeetsTables
  <2> QED
    BY <1>3, <2>1, WalkLevels, SameFollow
<1>5. Meets(n, BootRoot, p, 4) = Meets(m, BootRoot, p, 4)
  <2>1. \A t \in Meets(m, BootRoot, p, 3) : n[t] = m[t]
    BY <1>1, MeetsTables
  <2> QED
    BY <1>4, <2>1, WalkLevels, SameFollow
<1> QED
  BY <1>2, <1>3, <1>4, <1>5

LEMMA SameWalks ==
  ASSUME NEW m, NEW n, \A t \in Tables(m, BootRoot) : n[t] = m[t], NEW p
  PROVE  Walk(n, BootRoot, p) = Walk(m, BootRoot, p)
<1>1. \A t \in Parents(m, BootRoot) : n[t] = m[t]
  BY Levels
<1>2. Meets(n, BootRoot, p, 4) = Meets(m, BootRoot, p, 4)
  BY <1>1, SameMeets
<1>3. \A t \in Meets(m, BootRoot, p, 4) : n[t] = m[t]
  BY Levels, MeetsTables
<1> QED
  BY <1>2, <1>3, WalkLevels, SameFollow

(* A new, cleared table f in entry i of table t, one level up. *)
Extends(m, n, t, i, f) ==
  /\ t \in Parents(m, BootRoot)
  /\ i \notin DOMAIN m[t]
  /\ f \notin Tables(m, BootRoot)
  /\ DOMAIN n[f] = {}
  /\ DOMAIN n[t] = DOMAIN m[t] \union {i}
  /\ n[t][i] = f
  /\ \A j \in DOMAIN m[t] : n[t][j] = m[t][j]
  /\ \A u \in Tables(m, BootRoot) \ {t} : n[u] = m[u]

LEMMA ExtendsBelow ==
  ASSUME NEW m, NEW n, NEW t, NEW i, NEW f, Extends(m, n, t, i, f),
         NEW ts, ts \subseteq Tables(m, BootRoot)
  PROVE  /\ t \in ts => Below(n, ts) = Below(m, ts) \union {f}
         /\ t \notin ts => Below(n, ts) = Below(m, ts)
         /\ Below(n, ts \union {f}) = Below(n, ts)
<1>1. ASSUME NEW x \in Below(n, ts)
      PROVE  x \in Below(m, ts) \/ (t \in ts /\ x = f)
  <2>1. PICK u \in ts : \E j \in DOMAIN n[u] : x = n[u][j]
    BY <1>1, BelowDef
  <2> QED
    BY <2>1, BelowDef DEF Extends
<1>2. ASSUME NEW x \in Below(m, ts)
      PROVE  x \in Below(n, ts)
  <2>1. PICK u \in ts : \E j \in DOMAIN m[u] : x = m[u][j]
    BY <1>2, BelowDef
  <2> QED
    BY <2>1, BelowDef DEF Extends
<1>3. t \in ts => f \in Below(n, ts)
  BY BelowDef DEF Extends
<1>4. Below(n, ts \union {f}) = Below(n, ts)
  <2>1. ASSUME NEW x
        PROVE  x \in Below(n, ts \union {f}) <=> x \in Below(n, ts)
    BY BelowDef DEF Extends
  <2> QED
    BY <2>1
<1>5. t \in ts => Below(n, ts) = Below(m, ts) \union {f}
  BY <1>1, <1>2, <1>3
<1>6. t \notin ts => Below(n, ts) = Below(m, ts)
  BY <1>1, <1>2
<1> QED
  BY <1>4, <1>5, <1>6

(* The tables are the old ones and the new one, still a tree. *)
LEMMA ExtendsTables ==
  ASSUME NEW m, IsTree(m, BootRoot), NEW n, NEW t, NEW i, NEW f, Extends(m, n, t, i, f)
  PROVE  /\ Tables(n, BootRoot) = Tables(m, BootRoot) \union {f}
         /\ Parents(n, BootRoot) \subseteq Parents(m, BootRoot) \union {f}
<1> DEFINE T1 == {BootRoot}
<1>1. /\ T1 \subseteq Tables(m, BootRoot) /\ L2(m) \subseteq Tables(m, BootRoot)
      /\ L3(m) \subseteq Tables(m, BootRoot)
  BY Levels
<1>2. t \in T1 \union L2(m) \union L3(m)
  BY Levels DEF Extends
<1>3. L2(n) = Below(n, T1) /\ L3(n) = Below(n, L2(n)) /\ L4(n) = Below(n, L3(n))
  BY DEF L2, L3, L4
<1>4. L2(m) = Below(m, T1) /\ L3(m) = Below(m, L2(m)) /\ L4(m) = Below(m, L3(m))
  BY DEF L2, L3, L4
<1> HIDE DEF T1
<1>5. ASSUME NEW ts, ts \subseteq Tables(m, BootRoot)
      PROVE  /\ t \in ts => Below(n, ts) = Below(m, ts) \union {f}
             /\ t \notin ts => Below(n, ts) = Below(m, ts)
             /\ Below(n, ts \union {f}) = Below(n, ts)
  BY <1>5, ExtendsBelow
<1>6. CASE t \in T1
  <2>1. t \notin L2(m) /\ t \notin L3(m)
    BY <1>6, LevelsApart DEF T1
  <2>2. L2(n) = L2(m) \union {f}
    BY <1>1, <1>3, <1>4, <1>6, <1>5
  <2>3. L3(n) = L3(m)
    BY <1>1, <1>3, <1>4, <2>1, <2>2, <1>5
  <2>4. L4(n) = L4(m)
    BY <1>1, <1>3, <1>4, <2>1, <2>3, <1>5
  <2> QED
    BY <2>2, <2>3, <2>4, Levels
<1>7. CASE t \in L2(m)
  <2>1. t \notin T1 /\ t \notin L3(m)
    BY <1>7, LevelsApart DEF T1
  <2>2. L2(n) = L2(m)
    BY <1>1, <1>3, <1>4, <2>1, <1>5
  <2>3. L3(n) = L3(m) \union {f}
    BY <1>1, <1>3, <1>4, <1>7, <2>2, <1>5
  <2>4. L4(n) = L4(m)
    BY <1>1, <1>3, <1>4, <2>1, <2>3, <1>5
  <2> QED
    BY <2>2, <2>3, <2>4, Levels
<1>8. CASE t \in L3(m)
  <2>1. t \notin T1 /\ t \notin L2(m)
    BY <1>8, LevelsApart DEF T1
  <2>2. L2(n) = L2(m)
    BY <1>1, <1>3, <1>4, <2>1, <1>5
  <2>3. L3(n) = L3(m)
    BY <1>1, <1>3, <1>4, <2>1, <2>2, <1>5
  <2>4. L4(n) = L4(m) \union {f}
    BY <1>1, <1>3, <1>4, <1>8, <2>3, <1>5
  <2> QED
    BY <2>2, <2>3, <2>4, Levels
<1> QED
  BY <1>2, <1>6, <1>7, <1>8

LEMMA ExtendsTree ==
  ASSUME NEW m, IsTree(m, BootRoot), NEW n, NEW t, NEW i, NEW f, Extends(m, n, t, i, f)
  PROVE  IsTree(n, BootRoot)
<1> SUFFICES ASSUME NEW u \in Parents(n, BootRoot), NEW v \in Parents(n, BootRoot),
                    NEW j \in DOMAIN n[u], NEW k \in DOMAIN n[v]
             PROVE  n[u][j] # BootRoot /\ (n[u][j] = n[v][k] => u = v /\ j = k)
  BY DEF IsTree
<1>1. u # f /\ v # f
  BY DEF Extends
<1>2. u \in Parents(m, BootRoot) /\ v \in Parents(m, BootRoot)
  BY <1>1, ExtendsTables
<1>3. \A x \in Parents(m, BootRoot) : x \in Tables(m, BootRoot)
  BY Levels
<1>4. BootRoot # f
  BY Levels DEF Extends
<1>5. ASSUME NEW x \in Parents(m, BootRoot), NEW y \in DOMAIN n[x]
      PROVE  \/ x = t /\ y = i /\ n[x][y] = f
             \/ y \in DOMAIN m[x] /\ n[x][y] = m[x][y] /\ n[x][y] # f
  <2>1. \A a \in DOMAIN m[x] : m[x][a] \in Tables(m, BootRoot)
    BY Levels, BelowDef DEF L2, L3, L4
  <2> QED
    BY <1>3, <2>1 DEF Extends
<1> QED
  BY <1>2, <1>4, <1>5 DEF IsTree

(* No walk ends elsewhere for it, and what a walk met it still meets. *)
LEMMA ExtendsWalks ==
  ASSUME NEW m, IsTree(m, BootRoot),
         NEW n, NEW t, NEW i, NEW f, Extends(m, n, t, i, f), NEW p
  PROVE  /\ \A level \in 1 .. 4 :
              /\ Meets(m, BootRoot, p, level) \subseteq Meets(n, BootRoot, p, level)
              /\ Meets(n, BootRoot, p, level) \subseteq Meets(m, BootRoot, p, level) \union {f}
         /\ Walk(n, BootRoot, p) = Walk(m, BootRoot, p)
<1> DEFINE Near(level) ==
             /\ Meets(m, BootRoot, p, level) \subseteq Meets(n, BootRoot, p, level)
             /\ Meets(n, BootRoot, p, level) \subseteq Meets(m, BootRoot, p, level) \union {f}
<1>1. ASSUME NEW ts \in SUBSET Parents(m, BootRoot), NEW us, NEW x,
             ts \subseteq us, us \subseteq ts \union {f}
      PROVE  /\ Follow(m, ts, x) \subseteq Follow(n, us, x)
             /\ Follow(n, us, x) \subseteq Follow(m, ts, x) \union {f}
  <2>1. \A u \in ts : u \in Tables(m, BootRoot)
    BY Levels
  <2> QED
    BY <1>1, <2>1, FollowDef DEF Extends
<1>2. /\ Meets(m, BootRoot, p, 1) \subseteq Parents(m, BootRoot)
      /\ Meets(m, BootRoot, p, 2) \subseteq Parents(m, BootRoot)
      /\ Meets(m, BootRoot, p, 3) \subseteq Parents(m, BootRoot)
      /\ Meets(m, BootRoot, p, 4) \subseteq L4(m)
  BY Levels, WalkLevels, MeetsTables
<1>3. Near(1)
  BY WalkLevels
<1>4. Near(2)
  BY <1>1, <1>2, <1>3, WalkLevels
<1>5. Near(3)
  BY <1>1, <1>2, <1>4, WalkLevels
<1>6. Near(4)
  BY <1>1, <1>2, <1>5, WalkLevels
<1>7. \A level \in 1 .. 4 : Near(level)
  BY <1>3, <1>4, <1>5, <1>6
<1>8. Walk(n, BootRoot, p) = Walk(m, BootRoot, p)
  <2>1. t \notin L4(m)
    BY Levels, LevelsApart DEF Extends
  <2>2. \A u \in Meets(m, BootRoot, p, 4) : n[u] = m[u]
    BY <1>2, <2>1, Levels DEF Extends
  <2>3. ASSUME NEW x
        PROVE  x \in Walk(n, BootRoot, p) <=> x \in Walk(m, BootRoot, p)
    <3>1. x \in Walk(n, BootRoot, p)
            <=> \E u \in Meets(n, BootRoot, p, 4) : p[4] \in DOMAIN n[u] /\ x = n[u][p[4]]
      BY WalkLevels, FollowDef
    <3>2. x \in Walk(m, BootRoot, p)
            <=> \E u \in Meets(m, BootRoot, p, 4) : p[4] \in DOMAIN m[u] /\ x = m[u][p[4]]
      BY WalkLevels, FollowDef
    <3> QED
      BY <1>6, <2>2, <3>1, <3>2 DEF Extends
  <2> QED
    BY <2>3
<1> QED
  BY <1>7, <1>8

(* A store to the entry of page p in its last table. *)
StoresLeaf(m, n, p, t) ==
  /\ t \in Meets(m, BootRoot, p, 4)
  /\ \A u \in Tables(m, BootRoot) \ {t} : n[u] = m[u]
  /\ DOMAIN n[t] \ {p[4]} = DOMAIN m[t] \ {p[4]}
  /\ \A j \in DOMAIN m[t] \ {p[4]} : n[t][j] = m[t][j]

LEMMA StoresLeafUpper ==
  ASSUME NEW m, IsTree(m, BootRoot), NEW n, NEW p, NEW t, StoresLeaf(m, n, p, t)
  PROVE  \A u \in Parents(m, BootRoot) : n[u] = m[u]
<1>1. t \in L4(m)
  BY MeetsTables DEF StoresLeaf
<1>2. t \notin Parents(m, BootRoot)
  BY <1>1, Levels, LevelsApart
<1> QED
  BY <1>2, Levels DEF StoresLeaf

LEMMA PageEqual ==
  ASSUME NEW p \in Page, NEW q \in Page,
         p[1] = q[1], p[2] = q[2], p[3] = q[3], p[4] = q[4]
  PROVE  p = q
<1>1. p = <<p[1], p[2], p[3], p[4]>> /\ q = <<q[1], q[2], q[3], q[4]>>
  BY DEF Page
<1> QED
  BY <1>1

(* Only that page is mapped anew. *)
LEMMA StoresLeafWalks ==
  ASSUME NEW m, IsTree(m, BootRoot), NEW n, NEW p \in Page, NEW t,
         StoresLeaf(m, n, p, t), NEW q \in Page
  PROVE  Walk(n, BootRoot, q) =
           IF q # p THEN Walk(m, BootRoot, q)
           ELSE IF p[4] \in DOMAIN n[t] THEN {n[t][p[4]]} ELSE {}
<1>1. Meets(n, BootRoot, q, 4) = Meets(m, BootRoot, q, 4)
  BY StoresLeafUpper, SameMeets
<1>2. \A u \in Meets(m, BootRoot, q, 4) : u \in Tables(m, BootRoot)
  BY Levels, MeetsTables
<1>3. CASE q = p
  <2>1. t \in Meets(m, BootRoot, p, 4)
    BY DEF StoresLeaf
  <2>2. \A u \in Meets(m, BootRoot, p, 4) : u = t
    BY <2>1, MeetsOne
  <2>3. ASSUME NEW x
        PROVE  x \in Walk(n, BootRoot, q) <=> p[4] \in DOMAIN n[t] /\ x = n[t][p[4]]
    BY <1>1, <1>3, <2>1, <2>2, WalkLevels, FollowDef
  <2> QED
    BY <1>3, <2>3
<1>4. CASE q # p /\ t \notin Meets(m, BootRoot, q, 4)
  <2>1. \A u \in Meets(m, BootRoot, q, 4) : n[u] = m[u]
    BY <1>2, <1>4 DEF StoresLeaf
  <2> QED
    BY <1>1, <1>4, <2>1, WalkLevels, SameFollow
<1>5. CASE q # p /\ t \in Meets(m, BootRoot, q, 4)
  <2>1. p[1] = q[1] /\ p[2] = q[2] /\ p[3] = q[3]
    BY <1>5, SameWay DEF StoresLeaf
  <2>2. p[4] # q[4]
    BY <1>5, <2>1, PageEqual
  <2>3. \A u \in Meets(m, BootRoot, q, 4) : u = t
    BY <1>5, MeetsOne
  <2>4. /\ q[4] \in DOMAIN n[t] <=> q[4] \in DOMAIN m[t]
        /\ q[4] \in DOMAIN m[t] => n[t][q[4]] = m[t][q[4]]
    BY <2>2 DEF StoresLeaf
  <2>5. ASSUME NEW x
        PROVE  x \in Walk(n, BootRoot, q) <=> x \in Walk(m, BootRoot, q)
    <3>1. x \in Walk(n, BootRoot, q) <=> q[4] \in DOMAIN n[t] /\ x = n[t][q[4]]
      BY <1>1, <1>5, <2>3, WalkLevels, FollowDef
    <3>2. x \in Walk(m, BootRoot, q) <=> q[4] \in DOMAIN m[t] /\ x = m[t][q[4]]
      BY <1>5, <2>3, WalkLevels, FollowDef
    <3> QED
      BY <2>4, <3>1, <3>2
  <2> QED
    BY <1>5, <2>5
<1> QED
  BY <1>3, <1>4, <1>5

LEMMA StoresLeafTree ==
  ASSUME NEW m, IsTree(m, BootRoot), NEW n, NEW p, NEW t, StoresLeaf(m, n, p, t)
  PROVE  /\ IsTree(n, BootRoot)
         /\ Tables(n, BootRoot) = Tables(m, BootRoot)
         /\ \A q : \A level \in 1 .. 4 :
              Meets(n, BootRoot, q, level) = Meets(m, BootRoot, q, level)
BY StoresLeafUpper, SameTables, SameMeets

(* What the model's own stores do. *)
LEMMA SetEntryIs ==
  ASSUME NEW m, NEW t \in DOMAIN m, NEW i, NEW f
  PROVE  /\ DOMAIN SetEntry(m, t, i, f) = DOMAIN m
         /\ \A u \in DOMAIN m \ {t} : SetEntry(m, t, i, f)[u] = m[u]
         /\ DOMAIN SetEntry(m, t, i, f)[t] = DOMAIN m[t] \union {i}
         /\ SetEntry(m, t, i, f)[t][i] = f
         /\ \A j \in DOMAIN m[t] \ {i} : SetEntry(m, t, i, f)[t][j] = m[t][j]
BY DEF SetEntry

LEMMA ClearEntryIs ==
  ASSUME NEW m, NEW t \in DOMAIN m, NEW i
  PROVE  /\ DOMAIN ClearEntry(m, t, i) = DOMAIN m
         /\ \A u \in DOMAIN m \ {t} : ClearEntry(m, t, i)[u] = m[u]
         /\ DOMAIN ClearEntry(m, t, i)[t] = DOMAIN m[t] \ {i}
         /\ \A j \in DOMAIN m[t] \ {i} : ClearEntry(m, t, i)[t][j] = m[t][j]
BY DEF ClearEntry

LEMMA ZeroIs ==
  ASSUME NEW m, NEW t \in DOMAIN m
  PROVE  /\ DOMAIN Zero(m, t) = DOMAIN m
         /\ \A u \in DOMAIN m \ {t} : Zero(m, t)[u] = m[u]
         /\ DOMAIN Zero(m, t)[t] = {}
         /\ Zero(m, t)[t] = Zeroed
BY DEF Zero, Zeroed

-----------------------------------------------------------------------------
(* Memory holds pages only, whatever is stored. *)
LEMMA NullPage == NULL \in Page
<1>1. \A level \in 1 .. 4 : Fan[level] \in Nat \ {0}
  BY PagingAssumption
<1>2. \A level \in 1 .. 4 : 0 \in Index(level)
  BY <1>1 DEF Index
<1> QED
  BY <1>2 DEF NULL, Page

LEMMA PoolPages == PoolFrames \union {NULL} \subseteq Page /\ BootRoot \in Page
BY NullPage, PagingAssumption

LEMMA StoresKeepMemory ==
  ASSUME NEW m, IsMemory(m), NEW t \in Page, NEW i, NEW f \in Page
  PROVE  IsMemory(SetEntry(m, t, i, f)) /\ IsMemory(ClearEntry(m, t, i)) /\ IsMemory(Zero(m, t))
<1>1. t \in DOMAIN m /\ m[t] \in [DOMAIN m[t] -> Page]
  BY DEF IsMemory
<1>2. ASSUME NEW n, DOMAIN n = DOMAIN m, \A u \in DOMAIN m \ {t} : n[u] = m[u],
             n[t] \in [DOMAIN n[t] -> Page]
      PROVE  IsMemory(n)
  BY <1>2 DEF IsMemory
<1>3. SetEntry(m, t, i, f)[t] \in [DOMAIN SetEntry(m, t, i, f)[t] -> Page]
  BY <1>1 DEF SetEntry
<1>4. ClearEntry(m, t, i)[t] \in [DOMAIN ClearEntry(m, t, i)[t] -> Page]
  BY <1>1 DEF ClearEntry
<1>5. Zero(m, t)[t] \in [DOMAIN Zero(m, t)[t] -> Page]
  BY <1>1, ZeroIs DEF Zeroed
<1>6. IsMemory(SetEntry(m, t, i, f))
  BY <1>1, <1>2, <1>3, SetEntryIs
<1>7. IsMemory(ClearEntry(m, t, i))
  BY <1>1, <1>2, <1>4, ClearEntryIs
<1>8. IsMemory(Zero(m, t))
  BY <1>1, <1>2, <1>5, ZeroIs
<1> QED
  BY <1>6, <1>7, <1>8

LEMMA WalksAreTyped ==
  ASSUME NEW m, IsMemory(m), NEW p
  PROVE  /\ \A level \in 1 .. 4 : Meets(m, BootRoot, p, level) \subseteq Page
         /\ Walk(m, BootRoot, p) \subseteq Page
<1>1. ASSUME NEW ts \in SUBSET Page, NEW i
      PROVE  Follow(m, ts, i) \subseteq Page
  BY FollowDef DEF IsMemory
<1>2. Meets(m, BootRoot, p, 1) \subseteq Page
  BY WalkLevels, PoolPages
<1>3. Meets(m, BootRoot, p, 2) \subseteq Page
  BY <1>1, WalkLevels, PoolPages
<1>4. Meets(m, BootRoot, p, 3) \subseteq Page
  BY <1>1, <1>3, WalkLevels
<1>5. Meets(m, BootRoot, p, 4) \subseteq Page
  BY <1>1, <1>4, WalkLevels
<1>6. Walk(m, BootRoot, p) \subseteq Page
  BY <1>1, <1>5, WalkLevels
<1> QED
  BY <1>2, <1>3, <1>4, <1>5, <1>6

LEMMA TablesAreTyped ==
  ASSUME NEW m, IsMemory(m)
  PROVE  Tables(m, BootRoot) \subseteq Page
<1>1. ASSUME NEW ts \in SUBSET Page
      PROVE  Below(m, ts) \subseteq Page
  BY BelowDef DEF IsMemory
<1>2. L2(m) \subseteq Page
  BY <1>1, PoolPages DEF L2
<1>3. L3(m) \subseteq Page
  BY <1>1, <1>2 DEF L3
<1>4. L4(m) \subseteq Page
  BY <1>1, <1>3 DEF L4
<1> QED
  BY <1>2, <1>3, <1>4, Levels, PoolPages

(* unmap_page(0) in vmm_init: the table it ends up at is the last one of   *)
(* page 0's walk.                                                          *)
LEMMA UnmapNullEffect ==
  ASSUME NEW m, IsMemory(m), IsTree(m, BootRoot), Meets(m, BootRoot, NULL, 4) # {}
  PROVE  /\ IsMemory(UnmapNull(m))
         /\ IsTree(UnmapNull(m), BootRoot)
         /\ Tables(UnmapNull(m), BootRoot) = Tables(m, BootRoot)
         /\ \A q \in Page : Walk(UnmapNull(m), BootRoot, q) =
                              IF q = NULL THEN {} ELSE Walk(m, BootRoot, q)
<1> DEFINE pt == m[m[m[BootRoot][NULL[1]]][NULL[2]]][NULL[3]]
           n == UnmapNull(m)
<1>1. pt \in Meets(m, BootRoot, NULL, 4)
  <2>1. PICK t \in Meets(m, BootRoot, NULL, 4) : TRUE
    OBVIOUS
  <2>2. PICK pdt \in Meets(m, BootRoot, NULL, 3) : t = m[pdt][NULL[3]]
    BY <2>1, WalkLevels, FollowDef
  <2>3. PICK pdpt \in Meets(m, BootRoot, NULL, 2) : pdt = m[pdpt][NULL[2]]
    BY <2>2, WalkLevels, FollowDef
  <2>4. pdpt = m[BootRoot][NULL[1]]
    BY <2>3, WalkLevels, FollowDef
  <2> QED
    BY <2>1, <2>2, <2>3, <2>4
<1>2. n = ClearEntry(m, pt, NULL[4])
  BY DEF UnmapNull
<1>3. pt \in Page
  BY <1>1, WalksAreTyped
<1> HIDE DEF pt, n
<1>4. IsMemory(n)
  BY <1>2, <1>3, NullPage, StoresKeepMemory
<1>5. pt \in DOMAIN m
  BY <1>3 DEF IsMemory
<1>6. \A u \in DOMAIN m \ {pt} : n[u] = m[u]
  BY <1>2, <1>5, ClearEntryIs
<1>7. DOMAIN n[pt] = DOMAIN m[pt] \ {NULL[4]}
  BY <1>2, <1>5, ClearEntryIs
<1>8. \A u \in Tables(m, BootRoot) \ {pt} : n[u] = m[u]
  BY <1>6, TablesAreTyped DEF IsMemory
<1>9. \A j \in DOMAIN m[pt] \ {NULL[4]} : n[pt][j] = m[pt][j]
  BY <1>2, <1>5, ClearEntryIs
<1>10. StoresLeaf(m, n, NULL, pt)
  BY <1>1, <1>7, <1>8, <1>9 DEF StoresLeaf
<1>11. \A q \in Page : Walk(n, BootRoot, q) = IF q = NULL THEN {} ELSE Walk(m, BootRoot, q)
  <2>1. NULL[4] \notin DOMAIN n[pt]
    BY <1>7
  <2> QED
    BY <1>10, <2>1, NullPage, StoresLeafWalks
<1>12. IsTree(n, BootRoot) /\ Tables(n, BootRoot) = Tables(m, BootRoot)
  BY <1>10, StoresLeafTree
<1> QED
  BY <1>4, <1>11, <1>12 DEF n

LEMMA BootMemory ==
  ASSUME NEW m \in BootMems, NEW f \in PoolFrames \union {NULL}
  PROVE  /\ IsMemory(UnmapNull(Zero(m, f)))
         /\ IsTree(UnmapNull(Zero(m, f)), BootRoot)
         /\ Tables(UnmapNull(Zero(m, f)), BootRoot) = Tables(m, BootRoot)
         /\ \A q \in Page : Walk(UnmapNull(Zero(m, f)), BootRoot, q) =
                              IF q = NULL THEN {} ELSE Walk(m, BootRoot, q)
<1> DEFINE n == Zero(m, f)
<1>1. /\ IsMemory(m) /\ IsTree(m, BootRoot) /\ Meets(m, BootRoot, NULL, 4) # {}
      /\ Tables(m, BootRoot) \intersect (PoolFrames \union {NULL}) = {}
  BY PagingAssumption DEF IsMemory
<1>2. f \in Page
  BY PoolPages
<1>3. IsMemory(n)
  BY <1>1, <1>2, StoresKeepMemory
<1>4. \A t \in Tables(m, BootRoot) : n[t] = m[t]
  BY <1>1, <1>2, ZeroIs, TablesAreTyped DEF IsMemory
<1>5. \A t \in Parents(m, BootRoot) : n[t] = m[t]
  BY <1>4, Levels
<1> HIDE DEF n
<1>6. IsTree(n, BootRoot) /\ Tables(n, BootRoot) = Tables(m, BootRoot)
  BY <1>1, <1>5, SameTables
<1>7. Meets(n, BootRoot, NULL, 4) # {}
  BY <1>1, <1>5, SameMeets
<1>8. \A q \in Page : Walk(n, BootRoot, q) = Walk(m, BootRoot, q)
  BY <1>4, SameWalks
<1> QED
  BY <1>3, <1>6, <1>7, <1>8, UnmapNullEffect DEF n

-----------------------------------------------------------------------------
(* The pool and the activations, as the actions use them. *)
LEMMA AllocIs ==
  ASSUME Types, NEW f, Alloc(f)
  PROVE  /\ \/ f \in free /\ f \in PoolFrames /\ free' = free \ {f} /\ ret' = f
            \/ f = NULL /\ free = {} /\ free' = {} /\ ret' = NULL
         /\ free' \subseteq free
         /\ free' \subseteq PoolFrames /\ granted' \subseteq PoolFrames
         /\ ret' \in PoolFrames \union {NULL}
         /\ f \in Page
BY PoolPages DEF Alloc, Pmm!Grant, Pmm!Refuse, Types

LEMMA TopIs ==
  ASSUME Types, stack # <<>>
  PROVE  /\ Len(stack) \in Nat \ {0} /\ Len(stack) \in DOMAIN stack
         /\ Top = stack[Len(stack)] /\ Top \in Activations
         /\ Top.page \in Page /\ Top.level \in 1 .. 4 /\ Top.table \in Page
<1>1. stack \in Seq(Activations)
  BY DEF Types
<1>2. Len(stack) \in Nat \ {0}
  BY <1>1, EmptySeq
<1>3. Len(stack) \in DOMAIN stack /\ stack[Len(stack)] \in Activations
  BY <1>1, <1>2, LenProperties, ElementOfSeq
<1> QED
  BY <1>2, <1>3 DEF Top, Activations

LEMMA StackLevels ==
  ASSUME Types
  PROVE  \A k \in DOMAIN stack : stack[k].level \in 1 .. 4
<1>1. stack \in Seq(Activations)
  BY DEF Types
<1>2. \A k \in DOMAIN stack : stack[k] \in Activations
  BY <1>1, LenProperties, ElementOfSeq
<1> QED
  BY <1>2 DEF Activations

LEMMA WithTopIs ==
  ASSUME Types, stack # <<>>, NEW a \in Activations
  PROVE  /\ WithTop(a) \in Seq(Activations)
         /\ Len(WithTop(a)) = Len(stack) /\ DOMAIN WithTop(a) = DOMAIN stack
         /\ WithTop(a)[Len(stack)] = a
         /\ \A k \in DOMAIN stack \ {Len(stack)} : WithTop(a)[k] = stack[k]
<1>1. stack \in Seq(Activations) /\ DOMAIN stack = 1 .. Len(stack)
  BY LenProperties DEF Types
<1> QED
  BY <1>1, TopIs DEF WithTop

LEMMA PoppedIs ==
  ASSUME Types, stack # <<>>
  PROVE  /\ Popped \in Seq(Activations)
         /\ Len(Popped) = Len(stack) - 1 /\ DOMAIN Popped = 1 .. Len(stack) - 1
         /\ DOMAIN Popped \subseteq DOMAIN stack
         /\ \A k \in DOMAIN Popped : Popped[k] = stack[k]
<1>1. stack \in Seq(Activations) /\ DOMAIN stack = 1 .. Len(stack) /\ Len(stack) \in Nat \ {0}
  BY LenProperties, TopIs DEF Types
<1>2. \A k \in 1 .. Len(stack) - 1 : stack[k] \in Activations
  BY <1>1, ElementOfSeq
<1>3. /\ Popped \in Seq(Activations) /\ Len(Popped) = Len(stack) - 1
      /\ \A k \in 1 .. Len(stack) - 1 : Popped[k] = stack[k]
  BY <1>1, <1>2, SubSeqProperties DEF Popped
<1>4. DOMAIN Popped = 1 .. Len(stack) - 1
  BY <1>3, LenProperties
<1> QED
  BY <1>1, <1>3, <1>4

LEMMA PushedIs ==
  ASSUME Types, NEW a \in Activations
  PROVE  /\ Append(stack, a) \in Seq(Activations)
         /\ Len(Append(stack, a)) = Len(stack) + 1
         /\ DOMAIN Append(stack, a) = DOMAIN stack \union {Len(stack) + 1}
         /\ Append(stack, a)[Len(stack) + 1] = a
         /\ \A k \in DOMAIN stack : Append(stack, a)[k] = stack[k]
<1>1. stack \in Seq(Activations) /\ DOMAIN stack = 1 .. Len(stack) /\ Len(stack) \in Nat
  BY LenProperties DEF Types
<1>2. /\ Append(stack, a) \in Seq(Activations) /\ Len(Append(stack, a)) = Len(stack) + 1
      /\ Append(stack, a)[Len(stack) + 1] = a
      /\ \A k \in 1 .. Len(stack) : Append(stack, a)[k] = stack[k]
  BY <1>1, AppendProperties
<1>3. DOMAIN Append(stack, a) = 1 .. Len(stack) + 1
  BY <1>2, LenProperties
<1> QED
  BY <1>1, <1>2, <1>3

LEMMA ReachIs ==
  ASSUME Types
  PROVE  /\ Reach # {} => stack # <<>>
         /\ stack # <<>> => Reach = Walk(mem, BootRoot, Top.table)
         /\ Reach \subseteq Page
BY WalksAreTyped DEF Reach, Translate, Types

(* As long as all is sound, the table an activation reads is in reach. *)
LEMMA ReachTop ==
  ASSUME Types, Sound, stack # <<>>
  PROVE  /\ Reach = {Top.table}
         /\ Top.table \in Meets(mem, BootRoot, Top.page, Top.level)
         /\ Top.table \in Tables(mem, BootRoot)
<1>1. Top.table \in Meets(mem, BootRoot, Top.page, Top.level)
  BY TopIs DEF Sound, OnTheWay
<1>2. Top.level \in 1 .. 4 /\ Top.table \in Page
  BY TopIs
<1>3. Top.table \in Tables(mem, BootRoot)
  BY <1>1, <1>2, MeetsTables, WalkLevels, Levels
<1>4. Top.table \in Walk(mem, BootRoot, Top.table) /\ Walk(mem, BootRoot, Top.table) \subseteq {Top.table}
  BY <1>2, <1>3 DEF Sound, OneToOne, Frame
<1> QED
  BY <1>1, <1>3, <1>4, ReachIs

LEMMA InitIInv == Init => IInv
<1> SUFFICES ASSUME Init PROVE IInv
  OBVIOUS
<1>1. mem \in BootMems /\ ~booted /\ ~faulted /\ free \subseteq PoolFrames /\ stack = <<>>
  BY PagingAssumption DEF Init
<1>2. Types
  <2>1. IsMemory(mem)
    BY <1>1, PagingAssumption DEF IsMemory
  <2> QED
    BY <1>1, <2>1, EmptySeq DEF Init, Types
<1>3. Apart
  BY <1>1, PagingAssumption DEF Apart
<1>4. OneToOne
  BY <1>1, PagingAssumption DEF OneToOne, Frame
<1>5. OnTheWay
  BY <1>1 DEF OnTheWay
<1> QED
  BY <1>1, <1>2, <1>3, <1>4, <1>5 DEF IInv, Sound

-----------------------------------------------------------------------------
(* The boot loader's tables map page by page: vmm_init clears the frame it *)
(* has allocated, and no other.                                            *)
LEMMA VmmInitStores ==
  ASSUME Types, vmm_init
  PROVE  \E f \in PoolFrames \union {NULL} :
            /\ Alloc(f)
            /\ f \in Translate(f)
            /\ mem' = UnmapNull(Zero(mem, f))
<1>1. mem \in BootMems /\ pml4 = BootRoot
  BY DEF vmm_init, Types
<1>2. PICK f \in PoolFrames \union {NULL} :
        Alloc(f) /\ \E frame \in Translate(f) : mem' = UnmapNull(Zero(mem, frame))
  BY DEF vmm_init
<1>3. Translate(f) \subseteq {f}
  BY <1>1, PoolPages, PagingAssumption DEF Translate
<1> QED
  BY <1>2, <1>3

(* The types, which hold whatever memory has become. *)
LEMMA VmmInitTypes == Types /\ vmm_init => Types'
<1> SUFFICES ASSUME Types, vmm_init PROVE Types'
  OBVIOUS
<1>1. PICK f \in PoolFrames \union {NULL} : Alloc(f) /\ mem' = UnmapNull(Zero(mem, f))
  BY VmmInitStores
<1>2. IsMemory(mem')
  <2>1. mem \in BootMems
    BY DEF vmm_init, Types
  <2> QED
    BY <1>1, <2>1, BootMemory
<1>3. free' \subseteq PoolFrames /\ granted' \subseteq PoolFrames /\ ret' \in PoolFrames \union {NULL}
  BY <1>1, AllocIs
<1> QED
  BY <1>2, <1>3 DEF Types, vmm_init, IsMemory

LEMMA MapPageTypes ==
  ASSUME Types, NEW p \in Requests, map_page(p)
  PROVE  Types'
<1>1. Activation(p) \in Activations
  BY PagingAssumption DEF Activation, Activations, Types
<1>2. stack' \in Seq(Activations)
  BY <1>1 DEF map_page
<1> QED
  BY <1>2 DEF Types, map_page, IsMemory, pool

LEMMA DeeperIs ==
  ASSUME NEW a \in Activations, NEW l \in 1 .. 4, NEW x \in Page
  PROVE  [a EXCEPT !.level = l, !.table = x] \in Activations
BY DEF Activations

LEMMA DescendTypes ==
  ASSUME Types, NEW t \in Reach, Descend(t)
  PROVE  Types'
<1>1. stack # <<>> /\ booted
  BY ReachIs DEF Types
<1>2. mem[t][Entry] \in Page
  BY ReachIs DEF Types, IsMemory, Descend, Present
<1>3. [Top EXCEPT !.level = @ + 1, !.table = mem[t][Entry]] \in Activations
  <2>1. Top \in Activations /\ Top.level + 1 \in 1 .. 4
    BY <1>1, TopIs DEF Descend
  <2> QED
    BY <1>2, <2>1, DeeperIs
<1>4. stack' \in Seq(Activations)
  BY <1>1, <1>3, WithTopIs DEF Descend
<1> QED
  BY <1>1, <1>4 DEF Types, Descend, IsMemory, pool

LEMMA AddTableTypes ==
  ASSUME Types, NEW t \in Reach, NEW f \in PoolFrames \union {NULL}, AddTable(t, f)
  PROVE  Types'
<1>1. stack # <<>> /\ booted
  BY ReachIs DEF Types
<1>2. PICK frame \in Translate(f) : mem' = Linked(Zero(mem, frame), t, Entry, f)
  BY DEF AddTable
<1>3. IsMemory(mem')
  <2>1. frame \in Page /\ t \in Page /\ f \in Page
    BY ReachIs, WalksAreTyped, PoolPages DEF Translate, Types
  <2>2. IsMemory(Zero(mem, frame))
    BY <2>1, StoresKeepMemory DEF Types
  <2> QED
    BY <1>2, <2>1, <2>2, StoresKeepMemory DEF Linked
<1>4. stack' \in Seq(Activations)
  <2>1. Activation(f) \in Activations
    BY PoolPages DEF Activation, Activations, Types
  <2> QED
    BY <2>1, PushedIs DEF AddTable
<1>5. free' \subseteq PoolFrames /\ granted' \subseteq PoolFrames /\ ret' \in PoolFrames \union {NULL}
  BY AllocIs DEF AddTable
<1> QED
  BY <1>1, <1>3, <1>4, <1>5 DEF Types, AddTable, IsMemory

LEMMA SetLeafTypes ==
  ASSUME Types, NEW t \in Reach, SetLeaf(t)
  PROVE  Types'
<1>1. stack # <<>> /\ booted
  BY ReachIs DEF Types
<1>2. IsMemory(mem')
  <2>1. t \in Page /\ Top.page \in Page
    BY <1>1, ReachIs, TopIs
  <2> QED
    BY <2>1, StoresKeepMemory DEF SetLeaf, LeafFrame, Types
<1>3. stack' \in Seq(Activations)
  BY <1>1, PoppedIs DEF SetLeaf
<1> QED
  BY <1>1, <1>2, <1>3 DEF Types, SetLeaf, IsMemory, pool

LEMMA FaultTypes == Types /\ Fault => Types'
<1> SUFFICES ASSUME Types, Fault PROVE Types'
  OBVIOUS
<1>1. free' \subseteq PoolFrames /\ granted' \subseteq PoolFrames /\ ret' \in PoolFrames \union {NULL}
  <2>1. CASE UNCHANGED pool
    BY <2>1 DEF pool, Types
  <2>2. CASE ClearFault
    BY <2>2, AllocIs DEF ClearFault
  <2> QED
    BY <2>1, <2>2 DEF Fault
<1> QED
  BY <1>1 DEF Types, Fault, IsMemory

LEMMA NextTypes == Types /\ [Next]_vars => Types'
<1> SUFFICES ASSUME Types, [Next]_vars PROVE Types'
  OBVIOUS
<1>1. CASE UNCHANGED vars
  BY <1>1 DEF vars, pool, Types, IsMemory
<1>2. CASE Next
  BY <1>2, VmmInitTypes, MapPageTypes, DescendTypes, AddTableTypes, SetLeafTypes, FaultTypes
    DEF Next, Step
<1> QED
  BY <1>1, <1>2

-----------------------------------------------------------------------------
(* Walks, one level at a time. *)
LEMMA NextMeets ==
  ASSUME NEW m, NEW p, NEW level \in 1 .. 3,
         NEW t \in Meets(m, BootRoot, p, level), p[level] \in DOMAIN m[t]
  PROVE  m[t][p[level]] \in Meets(m, BootRoot, p, level + 1)
<1>1. CASE level = 1
  BY <1>1, WalkLevels, FollowDef
<1>2. CASE level = 2
  BY <1>2, WalkLevels, FollowDef
<1>3. CASE level = 3
  BY <1>3, WalkLevels, FollowDef
<1> QED
  BY <1>1, <1>2, <1>3

LEMMA WalkGoesOn ==
  ASSUME NEW m, NEW p, Walk(m, BootRoot, p) # {},
         NEW level \in 1 .. 4, NEW t \in Meets(m, BootRoot, p, level)
  PROVE  p[level] \in DOMAIN m[t]
<1>1. PICK u4 \in Meets(m, BootRoot, p, 4) : p[4] \in DOMAIN m[u4]
  BY WalkLevels, FollowDef
<1>2. PICK u3 \in Meets(m, BootRoot, p, 3) : p[3] \in DOMAIN m[u3]
  BY <1>1, WalkLevels, FollowDef
<1>3. PICK u2 \in Meets(m, BootRoot, p, 2) : p[2] \in DOMAIN m[u2]
  BY <1>2, WalkLevels, FollowDef
<1>4. PICK u1 \in Meets(m, BootRoot, p, 1) : p[1] \in DOMAIN m[u1]
  BY <1>3, WalkLevels, FollowDef
<1>5. level = 1 \/ level = 2 \/ level = 3 \/ level = 4
  OBVIOUS
<1> QED
  BY <1>1, <1>2, <1>3, <1>4, <1>5, MeetsOne

-----------------------------------------------------------------------------
(* Once the pool has nothing but NULL, it answers nothing else. *)
LEMMA ExhaustedStays ==
  ASSUME Types, Exhausted, [Next]_vars
  PROVE  Exhausted'
<1>1. free = {} /\ ret = NULL
  BY DEF Exhausted
<1>2. ASSUME NEW f, Alloc(f)
      PROVE  free' = {} /\ ret' = NULL
  BY <1>1, <1>2, AllocIs
<1>3. CASE UNCHANGED vars
  BY <1>1, <1>3 DEF vars, pool, Exhausted
<1>4. CASE vmm_init
  BY <1>2, <1>4 DEF vmm_init, Exhausted
<1>5. ASSUME NEW p, map_page(p)
      PROVE  Exhausted'
  BY <1>1, <1>5 DEF map_page, pool, Exhausted
<1>6. ASSUME NEW t, Descend(t) \/ SetLeaf(t)
      PROVE  Exhausted'
  BY <1>1, <1>6 DEF Descend, SetLeaf, pool, Exhausted
<1>7. ASSUME NEW t, NEW f, AddTable(t, f)
      PROVE  Exhausted'
  BY <1>2, <1>7 DEF AddTable, Exhausted
<1>8. CASE Fault
  BY <1>1, <1>2, <1>8 DEF Fault, ClearFault, pool, Exhausted
<1> QED
  BY <1>3, <1>4, <1>5, <1>6, <1>7, <1>8 DEF Next, Step

-----------------------------------------------------------------------------
(* Frame 0 as a table: nothing else loses an entry, so that the way to     *)
(* page 0, and to the tables on it, stays.                                 *)
Grows(m, n) ==
  \A u \in Page \ {NULL} :
    DOMAIN m[u] \subseteq DOMAIN n[u] /\ \A i \in DOMAIN m[u] : n[u][i] = m[u][i]

LEMMA GrowsHeld ==
  ASSUME NEW m, IsMemory(m), NEW n, Grows(m, n), NEW p, Held(m, p)
  PROVE  /\ \A level \in 1 .. 4 : Meets(n, BootRoot, p, level) = Meets(m, BootRoot, p, level)
         /\ Held(n, p)
<1>1. ASSUME NEW level \in 1 .. 4
      PROVE  Follow(n, Meets(m, BootRoot, p, level), p[level])
               = Follow(m, Meets(m, BootRoot, p, level), p[level])
  <2>1. ASSUME NEW t \in Meets(m, BootRoot, p, level)
        PROVE  p[level] \in DOMAIN m[t] /\ p[level] \in DOMAIN n[t] /\ n[t][p[level]] = m[t][p[level]]
    <3>1. p[level] \in DOMAIN m[t]
      BY WalkGoesOn DEF Held
    <3>2. t \in Page \ {NULL}
      BY WalksAreTyped DEF Held
    <3> QED
      BY <3>1, <3>2 DEF Grows
  <2>2. ASSUME NEW x
        PROVE  x \in Follow(n, Meets(m, BootRoot, p, level), p[level])
                 <=> x \in Follow(m, Meets(m, BootRoot, p, level), p[level])
    BY <2>1, FollowDef
  <2> QED
    BY <2>2
<1>2. Meets(n, BootRoot, p, 1) = Meets(m, BootRoot, p, 1)
  BY WalkLevels
<1>3. Meets(n, BootRoot, p, 2) = Meets(m, BootRoot, p, 2)
  BY <1>1, <1>2, WalkLevels
<1>4. Meets(n, BootRoot, p, 3) = Meets(m, BootRoot, p, 3)
  BY <1>1, <1>3, WalkLevels
<1>5. Meets(n, BootRoot, p, 4) = Meets(m, BootRoot, p, 4)
  BY <1>1, <1>4, WalkLevels
<1>6. Walk(n, BootRoot, p) = Walk(m, BootRoot, p)
  BY <1>1, <1>5, WalkLevels
<1>7. \A level \in 1 .. 4 : Meets(n, BootRoot, p, level) = Meets(m, BootRoot, p, level)
  BY <1>2, <1>3, <1>4, <1>5
<1> QED
  BY <1>6, <1>7 DEF Held

LEMMA GrowsFixed ==
  ASSUME NEW m, IsMemory(m), NEW n, Grows(m, n), Fixed(m)
  PROVE  /\ \A level \in 1 .. 4 : Meets(n, BootRoot, NULL, level) = Meets(m, BootRoot, NULL, level)
         /\ Fixed(n)
BY GrowsHeld DEF Fixed

(* A store to a missing entry. *)
LEMMA SetEntryGrows ==
  ASSUME NEW m, IsMemory(m), NEW t \in Page, NEW i, i \notin DOMAIN m[t], NEW f
  PROVE  Grows(m, SetEntry(m, t, i, f))
<1>1. t \in DOMAIN m /\ DOMAIN m = Page
  BY DEF IsMemory
<1> QED
  BY <1>1, SetEntryIs DEF Grows

(* Clearing frame 0 and linking it in a missing entry. *)
LEMMA LinkNullGrows ==
  ASSUME NEW m, IsMemory(m), NEW t \in Page, NEW i, i \notin DOMAIN m[t]
  PROVE  Grows(m, SetEntry(Zero(m, NULL), t, i, NULL))
<1> DEFINE z == Zero(m, NULL)
<1>1. /\ DOMAIN z = Page
      /\ \A u \in Page \ {NULL} : z[u] = m[u]
      /\ DOMAIN z[NULL] = {}
  BY NullPage, ZeroIs DEF IsMemory
<1> HIDE DEF z
<1>2. /\ \A u \in Page \ {t} : SetEntry(z, t, i, NULL)[u] = z[u]
      /\ DOMAIN SetEntry(z, t, i, NULL)[t] = DOMAIN z[t] \union {i}
      /\ \A j \in DOMAIN z[t] \ {i} : SetEntry(z, t, i, NULL)[t][j] = z[t][j]
  BY <1>1, SetEntryIs
<1>3. Grows(m, SetEntry(z, t, i, NULL))
  BY <1>1, <1>2 DEF Grows
<1> QED
  BY <1>3 DEF z

(* While all is sound a mapped page 0 is on a way of its own. *)
LEMMA SoundFixes ==
  ASSUME Types, Sound, Walk(mem, BootRoot, NULL) # {}
  PROVE  Fixed(mem)
<1>1. NULL \notin Tables(mem, BootRoot)
  BY DEF Sound, Apart
<1>2. ASSUME NEW p, NEW level \in 1 .. 4
      PROVE  Meets(mem, BootRoot, p, level) \subseteq Tables(mem, BootRoot)
  BY MeetsTables, WalkLevels, Levels
<1>3. \A p : \A level \in 1 .. 4 : NULL \notin Meets(mem, BootRoot, p, level)
  BY <1>1, <1>2
<1>4. Held(mem, NULL)
  BY <1>3, NullPage DEF Held, Sound, OneToOne
<1>5. ASSUME NEW t \in Tables(mem, BootRoot)
      PROVE  Held(mem, t)
  BY <1>3, TablesAreTyped DEF Held, Sound, OneToOne, Frame, Types
<1> QED
  BY <1>2, <1>4, <1>5 DEF Fixed

(* Linking frame 0 anchors the tables, or leaves them anchored. *)
LEMMA AddNullAnchors ==
  ASSUME Types, Fixed(mem), NULL \in Requests, Len(stack) = 1,
         NEW t \in Reach, AddTable(t, NULL)
  PROVE  Anchored'
<1>1. stack # <<>> /\ booted /\ booted' /\ t \in Page
  BY ReachIs DEF Types, AddTable
<1>2. mem' = SetEntry(Zero(mem, NULL), t, Entry, NULL)
  <2>1. Translate(NULL) = {NULL}
    BY DEF Fixed, Held, Translate, Types
  <2> QED
    BY <2>1 DEF AddTable, Linked
<1>3. Grows(mem, mem')
  BY <1>1, <1>2, LinkNullGrows DEF AddTable, Missing, Present, Types
<1>4. Fixed(mem')
  BY <1>3, GrowsFixed DEF Types
<1>5. Activation(NULL) \in Activations
  BY NullPage, PoolPages DEF Activation, Activations, Types
<1>6. Len(stack') = 2 /\ stack'[2] = Activation(NULL)
  BY <1>5, PushedIs DEF AddTable
<1>7. BootRoot \in Meets(mem', BootRoot, NULL, 1)
  BY WalkLevels
<1> QED
  BY <1>1, <1>4, <1>6, <1>7 DEF Anchored, Activation, Types

(* There the inner activation reads a table on page 0's way. *)
LEMMA AnchoredTop ==
  ASSUME Types, Anchored, Len(stack) = 2, NEW t \in Reach
  PROVE  /\ Top.page = NULL /\ Top.level \in 1 .. 4 /\ t = Top.table
         /\ t \in Meets(mem, BootRoot, NULL, Top.level)
         /\ Present(mem, t, Entry)
<1>1. stack # <<>> /\ Top = stack[2] /\ Top.level \in 1 .. 4
  BY ReachIs, TopIs
<1>2. Top.page = NULL /\ Top.table \in Meets(mem, BootRoot, NULL, Top.level)
  BY <1>1 DEF Anchored
<1>3. t = Top.table
  BY <1>1, <1>2, ReachIs DEF Anchored, Fixed, Held
<1>4. NULL[Top.level] \in DOMAIN mem[t]
  <2>1. Walk(mem, BootRoot, NULL) # {}
    BY DEF Anchored, Fixed, Held
  <2> QED
    BY <1>1, <1>2, <1>3, <2>1, WalkGoesOn
<1> QED
  BY <1>1, <1>2, <1>3, <1>4 DEF Present, Entry

LEMMA DescendAnchored ==
  ASSUME Types, Anchored, NEW t \in Reach, Descend(t)
  PROVE  Anchored'
<1> DEFINE a == [Top EXCEPT !.level = @ + 1, !.table = mem[t][Entry]]
<1>1. stack # <<>>
  BY ReachIs
<1>2. Top \in Activations /\ Top.level \in 1 .. 3 /\ Top.level + 1 \in 1 .. 4
  BY <1>1, TopIs DEF Descend
<1>3. mem[t][Entry] \in Page
  BY ReachIs DEF Types, IsMemory, Descend, Present
<1>4. /\ a \in Activations /\ a.page = Top.page
      /\ a.level = Top.level + 1 /\ a.table = mem[t][Entry]
  BY <1>2, <1>3 DEF Activations
<1> HIDE DEF a
<1>5. Len(stack') = Len(stack) /\ stack'[Len(stack)] = a
  BY <1>1, <1>4, WithTopIs DEF Descend, a
<1>6. ASSUME Len(stack) = 2
      PROVE  a.page = NULL /\ a.table \in Meets(mem, BootRoot, NULL, a.level)
  <2>1. Top.page = NULL /\ t \in Meets(mem, BootRoot, NULL, Top.level) /\ NULL[Top.level] \in DOMAIN mem[t]
    BY <1>6, AnchoredTop DEF Entry, Present
  <2>2. mem[t][NULL[Top.level]] \in Meets(mem, BootRoot, NULL, Top.level + 1)
    BY <1>2, <2>1, NextMeets
  <2> QED
    BY <1>4, <2>1, <2>2 DEF Entry
<1> QED
  BY <1>5, <1>6 DEF Anchored, Descend

LEMMA SetLeafAnchored ==
  ASSUME Types, Anchored, NEW t \in Reach, SetLeaf(t)
  PROVE  Anchored'
<1>1. stack # <<>> /\ t \in Page /\ booted' = booted
  BY ReachIs DEF SetLeaf
<1>2. Grows(mem, mem')
  <2>1. CASE Present(mem, t, Entry)
    BY <2>1 DEF SetLeaf, Grows
  <2>2. CASE ~Present(mem, t, Entry)
    BY <1>1, <2>2, SetEntryGrows DEF SetLeaf, Present, Types
  <2> QED
    BY <2>1, <2>2
<1>3. Fixed(mem')
  BY <1>2, GrowsFixed DEF Types, Anchored
<1>4. Len(stack') <= 2 /\ Len(stack') # 2
  <2>1. Len(stack') = Len(stack) - 1 /\ Len(stack) \in Nat /\ Len(stack) <= 2
    BY <1>1, PoppedIs, TopIs DEF SetLeaf, Anchored
  <2>2. \A n, k \in Int : n <= 2 /\ k = n - 1 => k <= 2 /\ k # 2
    OBVIOUS
  <2> QED
    BY <2>1, <2>2
<1> QED
  BY <1>1, <1>3, <1>4 DEF Anchored

LEMMA AddTableAnchored ==
  ASSUME Types, Exhausted, Anchored,
         NEW t \in Reach, NEW f \in PoolFrames \union {NULL}, AddTable(t, f)
  PROVE  Anchored'
<1>1. f = NULL
  BY AllocIs DEF AddTable, Exhausted
<1>2. Len(stack) = 1
  <2>1. stack # <<>> /\ Len(stack) \in Nat \ {0} /\ Len(stack) <= 2
    BY ReachIs, TopIs DEF Anchored
  <2>2. Len(stack) # 2
    BY AnchoredTop DEF AddTable, Missing
  <2>3. \A n \in Nat \ {0} : n <= 2 /\ n # 2 => n = 1
    OBVIOUS
  <2> QED
    BY <2>1, <2>2, <2>3
<1> QED
  BY <1>1, <1>2, AddNullAnchors DEF Anchored

LEMMA AnchoredStays ==
  ASSUME Types, Exhausted, Anchored, [Next]_vars
  PROVE  Anchored'
<1>1. CASE UNCHANGED vars
  BY <1>1 DEF vars, Anchored
<1>2. ASSUME NEW p, map_page(p)
      PROVE  Anchored'
  <2>1. Len(stack') = 1
    BY <1>2 DEF map_page
  <2> QED
    BY <1>2, <2>1 DEF map_page, Anchored
<1>3. CASE Fault
  BY <1>3 DEF Fault, Anchored
<1>4. ~vmm_init
  BY DEF vmm_init, Anchored
<1> QED
  BY <1>1, <1>2, <1>3, <1>4, DescendAnchored, SetLeafAnchored, AddTableAnchored DEF Next, Step

-----------------------------------------------------------------------------
(* Each action leaves a sound address space. *)
LEMMA VmmInitSound ==
  ASSUME Types, Sound, vmm_init
  PROVE  Sound'
<1>1. PICK f \in PoolFrames \union {NULL} : Alloc(f) /\ mem' = UnmapNull(Zero(mem, f))
  BY VmmInitStores
<1>2. mem \in BootMems /\ stack = <<>>
  BY DEF vmm_init, Types
<1>3. /\ IsTree(mem', BootRoot)
      /\ Tables(mem', BootRoot) = Tables(mem, BootRoot)
      /\ \A q \in Page : Walk(mem', BootRoot, q) =
                           IF q = NULL THEN {} ELSE Walk(mem, BootRoot, q)
  BY <1>1, <1>2, BootMemory
<1>4. Tables(mem, BootRoot) \intersect (PoolFrames \union {NULL}) = {}
  BY <1>2, PagingAssumption
<1>5. Apart'
  BY <1>1, <1>3, <1>4, AllocIs DEF Apart
<1>6. OneToOne'
  <2>1. Frame' = Frame
    BY <1>3 DEF Frame
  <2>2. NULL \notin Frame /\ Frame \subseteq Page
    BY <1>4, PagingAssumption, TablesAreTyped DEF Frame, Types
  <2> QED
    BY <1>3, <2>1, <2>2, NullPage DEF Sound, OneToOne
<1>7. OnTheWay'
  <2>1. stack' = <<>>
    BY <1>2 DEF vmm_init
  <2>2. DOMAIN stack' = {} /\ Len(stack') = 0
    BY <2>1
  <2> QED
    BY <2>2 DEF OnTheWay
<1> QED
  BY <1>5, <1>6, <1>7 DEF Sound

LEMMA MapPageSound ==
  ASSUME Types, Sound, NEW p \in Requests, map_page(p)
  PROVE  Sound'
<1>1. DOMAIN stack' = {1} /\ stack'[1] = Activation(p) /\ Len(stack') = 1
  BY DEF map_page
<1>2. BootRoot \in Meets(mem, BootRoot, p, 1)
  BY WalkLevels
<1>3. OnTheWay'
  BY <1>1, <1>2 DEF OnTheWay, Activation, map_page, Types
<1>4. Apart' /\ OneToOne'
  BY DEF Sound, Apart, OneToOne, Frame, map_page, pool
<1> QED
  BY <1>3, <1>4 DEF Sound

LEMMA DescendSound ==
  ASSUME Types, Sound, NEW t \in Reach, Descend(t)
  PROVE  Sound'
<1> DEFINE a == [Top EXCEPT !.level = @ + 1, !.table = mem[t][Entry]]
<1>1. stack # <<>>
  BY ReachIs
<1>2. t = Top.table /\ t \in Meets(mem, BootRoot, Top.page, Top.level)
  BY <1>1, ReachTop
<1>3. Top \in Activations /\ Top.level \in 1 .. 3 /\ Top.level + 1 \in 1 .. 4
  BY <1>1, TopIs DEF Descend
<1>4. mem[t][Entry] \in Page
  BY ReachIs DEF Types, IsMemory, Descend, Present
<1>5. /\ a \in Activations /\ a.page = Top.page
      /\ a.level = Top.level + 1 /\ a.table = mem[t][Entry]
  BY <1>3, <1>4 DEF Activations
<1>6. a.table \in Meets(mem, BootRoot, a.page, a.level)
  BY <1>2, <1>3, <1>5, NextMeets DEF Entry, Descend, Present
<1> HIDE DEF a
<1>7. stack' = WithTop(a)
  BY DEF Descend, a
<1>8. OnTheWay'
  <2>1. /\ Len(stack') = Len(stack) /\ DOMAIN stack' = DOMAIN stack
        /\ stack'[Len(stack)] = a
        /\ \A k \in DOMAIN stack \ {Len(stack)} : stack'[k] = stack[k]
    BY <1>1, <1>5, <1>7, WithTopIs
  <2>2. Top.page = stack[Len(stack)].page /\ Len(stack) \in DOMAIN stack
    BY <1>1, TopIs
  <2>3. \A k \in DOMAIN stack : stack'[k].page = stack[k].page
    BY <1>5, <2>1, <2>2
  <2>4. \A k \in DOMAIN stack : stack'[k].table \in Meets(mem, BootRoot, stack'[k].page, stack'[k].level)
    BY <1>6, <2>1, <2>2 DEF Sound, OnTheWay
  <2>5. mem' = mem
    BY DEF Descend
  <2>6. Len(stack') <= 2 /\ (Len(stack') = 2 => stack'[2].page \in PoolFrames)
    BY <2>1, <2>2, <2>3 DEF Sound, OnTheWay
  <2> QED
    BY <2>1, <2>3, <2>4, <2>5, <2>6 DEF Sound, OnTheWay
<1>9. Apart' /\ OneToOne'
  BY DEF Sound, Apart, OneToOne, Frame, Descend, pool
<1> QED
  BY <1>8, <1>9 DEF Sound

(* A frame of the pool becomes a table: the store extends the tree. *)
LEMMA AddTableExtends ==
  ASSUME Types, Sound, NEW t \in Reach, NEW f \in free, AddTable(t, f)
  PROVE  Extends(mem, mem', t, Entry, f)
<1>1. stack # <<>>
  BY ReachIs
<1>2. t \in Meets(mem, BootRoot, Top.page, Top.level) /\ t \in Tables(mem, BootRoot)
  BY <1>1, ReachTop
<1>3. t \in Parents(mem, BootRoot) /\ Entry \notin DOMAIN mem[t]
  <2>1. Top.level \in 1 .. 3
    BY <1>1, TopIs DEF AddTable, Missing
  <2>2. t \in {BootRoot} \union L2(mem) \union L3(mem)
    BY <1>2, <2>1, MeetsTables, WalkLevels
  <2> QED
    BY <2>2, Levels DEF AddTable, Missing, Present
<1>4. f \notin Tables(mem, BootRoot) /\ f \in PoolFrames /\ f \in Page
  BY PoolPages DEF Sound, Apart, Types
<1>5. mem' = SetEntry(Zero(mem, f), t, Entry, f)
  <2>1. Walk(mem, BootRoot, f) \subseteq {f}
    BY <1>4 DEF Sound, OneToOne
  <2> QED
    BY <2>1 DEF AddTable, Translate, Linked, Types
<1>6. t \in Page /\ t # f
  BY <1>2, <1>4, TablesAreTyped DEF Types
<1>7. /\ DOMAIN Zero(mem, f) = Page
      /\ \A u \in Page \ {f} : Zero(mem, f)[u] = mem[u]
      /\ DOMAIN Zero(mem, f)[f] = {}
  BY <1>4, ZeroIs DEF Types, IsMemory
<1> DEFINE z == Zero(mem, f)
<1> HIDE DEF z
<1>8. /\ \A u \in Page \ {t} : SetEntry(z, t, Entry, f)[u] = z[u]
      /\ DOMAIN SetEntry(z, t, Entry, f)[t] = DOMAIN z[t] \union {Entry}
      /\ SetEntry(z, t, Entry, f)[t][Entry] = f
      /\ \A j \in DOMAIN z[t] \ {Entry} : SetEntry(z, t, Entry, f)[t][j] = z[t][j]
  BY <1>6, <1>7, SetEntryIs DEF z
<1>9. z[t] = mem[t]
  BY <1>6, <1>7 DEF z
<1>10. mem' = SetEntry(z, t, Entry, f)
  BY <1>5 DEF z
<1>11. DOMAIN mem'[f] = {}
  BY <1>4, <1>6, <1>7, <1>8, <1>10 DEF z
<1>12. /\ DOMAIN mem'[t] = DOMAIN mem[t] \union {Entry}
       /\ mem'[t][Entry] = f
       /\ \A j \in DOMAIN mem[t] : mem'[t][j] = mem[t][j]
  BY <1>3, <1>8, <1>9, <1>10
<1>13. \A u \in Tables(mem, BootRoot) \ {t} : mem'[u] = mem[u]
  <2>1. \A u \in Tables(mem, BootRoot) : u \in Page /\ u # f
    BY <1>4, TablesAreTyped DEF Types
  <2> QED
    BY <2>1, <1>7, <1>8, <1>10 DEF z
<1> QED
  BY <1>3, <1>4, <1>11, <1>12, <1>13 DEF Extends

(* Only the outermost activation adds tables. *)
LEMMA AddTableOutermost ==
  ASSUME Types, Sound, NEW t \in Reach, Missing(t)
  PROVE  Len(stack) = 1
<1>1. stack # <<>> /\ Len(stack) \in Nat \ {0}
  BY ReachIs, TopIs
<1>2. ASSUME Len(stack) = 2
      PROVE  FALSE
  <2>1. Top.page \in PoolFrames
    BY <1>1, <1>2, TopIs DEF Sound, OnTheWay
  <2>2. Walk(mem, BootRoot, Top.page) # {}
    BY <2>1 DEF Sound, OneToOne, Frame
  <2>3. Top.level \in 1 .. 4 /\ t \in Meets(mem, BootRoot, Top.page, Top.level)
    BY <1>1, TopIs, ReachTop
  <2>4. Top.page[Top.level] \in DOMAIN mem[t]
    BY <2>2, <2>3, WalkGoesOn
  <2> QED
    BY <2>4 DEF Missing, Present, Entry
<1> DEFINE n == Len(stack)
<1>3. n \in Nat \ {0} /\ n <= 2 /\ n # 2
  BY <1>1, <1>2 DEF Sound, OnTheWay
<1> HIDE DEF n
<1>4. n = 1
  BY <1>3
<1> QED
  BY <1>4 DEF n

LEMMA AddTableSound ==
  ASSUME Types, Sound, NEW t \in Reach, NEW f \in PoolFrames \union {NULL}, AddTable(t, f)
  PROVE  Sound' \/ (Exhausted' /\ Anchored')
<1>1. stack # <<>> /\ booted /\ booted'
  BY ReachIs DEF Types, AddTable
<1>2. CASE f = NULL /\ free = {} /\ free' = {} /\ ret' = NULL
  <2>1. Exhausted'
    BY <1>2 DEF Exhausted
  <2>2. Walk(mem, BootRoot, NULL) # {}
    BY <1>2 DEF AddTable, Translate, Types
  <2>3. NULL \in Requests
    BY <1>1, <2>2 DEF Sound, OneToOne
  <2>4. Fixed(mem)
    BY <2>2, SoundFixes
  <2>5. Len(stack) = 1
    BY AddTableOutermost DEF AddTable
  <2> QED
    BY <1>2, <2>1, <2>3, <2>4, <2>5, AddNullAnchors
<1>3. CASE f \in free /\ f \in PoolFrames /\ free' = free \ {f}
  <2>1. Extends(mem, mem', t, Entry, f)
    BY <1>3, AddTableExtends
  <2>2. IsTree(mem, BootRoot) /\ f # NULL
    BY <1>3, PagingAssumption DEF Sound, Apart
  <2>3. Tables(mem', BootRoot) = Tables(mem, BootRoot) \union {f} /\ IsTree(mem', BootRoot)
    BY <2>1, <2>2, ExtendsTables, ExtendsTree
  <2>4. ASSUME NEW p
        PROVE  /\ \A level \in 1 .. 4 :
                    Meets(mem, BootRoot, p, level) \subseteq Meets(mem', BootRoot, p, level)
               /\ Walk(mem', BootRoot, p) = Walk(mem, BootRoot, p)
    BY <2>1, <2>2, ExtendsWalks
  <2>5. Apart'
    BY <1>3, <2>2, <2>3 DEF Sound, Apart
  <2>6. OneToOne'
    <3>1. Frame' = Frame
      BY <1>3, <2>3 DEF Frame
    <3> QED
      BY <1>1, <2>4, <3>1 DEF Sound, OneToOne
  <2>7. OnTheWay'
    <3>1. Activation(f) \in Activations
      BY PoolPages DEF Activation, Activations, Types
    <3>2. /\ Len(stack) = 1 /\ Len(stack') = 2
          /\ DOMAIN stack' = DOMAIN stack \union {2}
          /\ stack'[2] = Activation(f)
          /\ \A k \in DOMAIN stack : stack'[k] = stack[k]
      BY <3>1, PushedIs, AddTableOutermost DEF AddTable
    <3>3. /\ Activation(f).table = BootRoot /\ Activation(f).page = f
          /\ Activation(f).level = 1
      BY DEF Activation, Types
    <3>4. BootRoot \in Meets(mem', BootRoot, f, 1)
      BY WalkLevels
    <3>5. \A k \in DOMAIN stack : stack[k].level \in 1 .. 4
      BY StackLevels
    <3>6. \A k \in DOMAIN stack :
            /\ stack[k].table \in Meets(mem', BootRoot, stack[k].page, stack[k].level)
            /\ stack[k].page \in Requests \union PoolFrames
      BY <2>4, <3>5 DEF Sound, OnTheWay
    <3> QED
      BY <1>3, <3>2, <3>3, <3>4, <3>6 DEF OnTheWay
  <2> QED
    BY <2>5, <2>6, <2>7 DEF Sound
<1> QED
  BY <1>2, <1>3, AllocIs DEF AddTable

(* The last level's store maps the page of the activation, and no other. *)
LEMMA SetLeafStores ==
  ASSUME Types, Sound, NEW t \in Reach, SetLeaf(t)
  PROVE  /\ Top.page \in Page
         /\ StoresLeaf(mem, mem', Top.page, t)
         /\ \A q \in Page : Walk(mem', BootRoot, q) =
                              IF q = Top.page THEN {q} ELSE Walk(mem, BootRoot, q)
<1> DEFINE p == Top.page
<1>1. stack # <<>> /\ p \in Page /\ Entry = p[4]
  BY ReachIs, TopIs DEF SetLeaf, Entry
<1>2. t \in Meets(mem, BootRoot, p, 4)
  BY <1>1, ReachTop DEF SetLeaf
<1>3. t \in Page /\ t \in DOMAIN mem
  BY <1>2, WalksAreTyped DEF Types, IsMemory
<1> HIDE DEF p
<1>4. CASE Present(mem, t, p[4])
  <2>1. mem' = mem
    BY <1>1, <1>4 DEF SetLeaf
  <2>2. mem[t][p[4]] \in Walk(mem, BootRoot, p)
    BY <1>2, <1>4, WalkLevels, FollowDef DEF Present
  <2>3. Walk(mem, BootRoot, p) = {p}
    BY <1>1, <2>2 DEF Sound, OneToOne
  <2>4. StoresLeaf(mem, mem', p, t)
    BY <1>2, <2>1 DEF StoresLeaf
  <2> QED
    BY <1>1, <2>1, <2>3, <2>4 DEF p
<1>5. CASE ~Present(mem, t, p[4])
  <2>1. mem' = SetEntry(mem, t, p[4], p)
    BY <1>1, <1>5 DEF SetLeaf, LeafFrame, p
  <2>2. \A u \in DOMAIN mem \ {t} : mem'[u] = mem[u]
    BY <1>3, <2>1, SetEntryIs
  <2>3. DOMAIN mem'[t] = DOMAIN mem[t] \union {p[4]} /\ mem'[t][p[4]] = p
    BY <1>3, <2>1, SetEntryIs
  <2>4. \A j \in DOMAIN mem[t] \ {p[4]} : mem'[t][j] = mem[t][j]
    BY <1>3, <2>1, SetEntryIs
  <2>5. StoresLeaf(mem, mem', p, t)
    <3>1. \A u \in Tables(mem, BootRoot) \ {t} : mem'[u] = mem[u]
      BY <2>2, TablesAreTyped DEF Types, IsMemory
    <3> QED
      BY <1>2, <2>3, <2>4, <3>1 DEF StoresLeaf
  <2>6. IsTree(mem, BootRoot)
    BY DEF Sound, Apart
  <2>7. \A q \in Page : Walk(mem', BootRoot, q) =
                          IF q # p THEN Walk(mem, BootRoot, q)
                          ELSE IF p[4] \in DOMAIN mem'[t] THEN {mem'[t][p[4]]} ELSE {}
    BY <1>1, <2>5, <2>6, StoresLeafWalks
  <2>8. \A q \in Page : Walk(mem', BootRoot, q) = IF q = p THEN {q} ELSE Walk(mem, BootRoot, q)
    BY <2>3, <2>7
  <2> QED
    BY <1>1, <2>5, <2>8 DEF p
<1> QED
  BY <1>4, <1>5

LEMMA SetLeafSound ==
  ASSUME Types, Sound, NEW t \in Reach, SetLeaf(t)
  PROVE  Sound'
<1>1. stack # <<>> /\ IsTree(mem, BootRoot) /\ booted' = booted /\ free' = free
  BY ReachIs DEF Sound, Apart, SetLeaf, pool
<1>2. /\ IsTree(mem', BootRoot)
      /\ Tables(mem', BootRoot) = Tables(mem, BootRoot)
      /\ \A q : \A level \in 1 .. 4 :
           Meets(mem', BootRoot, q, level) = Meets(mem, BootRoot, q, level)
  BY <1>1, SetLeafStores, StoresLeafTree
<1>3. Apart'
  BY <1>1, <1>2 DEF Sound, Apart
<1>4. OneToOne'
  <2>1. Frame' = Frame /\ Frame \subseteq Page
    BY <1>2, PoolPages, TablesAreTyped DEF Frame, Types
  <2>2. Top.page \in Requests \union PoolFrames
    BY <1>1, TopIs DEF Sound, OnTheWay
  <2>3. NULL \notin Requests => Top.page # NULL
    BY <2>2, PagingAssumption
  <2>4. \A p \in Page : Walk(mem', BootRoot, p) \subseteq {p}
    BY SetLeafStores DEF Sound, OneToOne
  <2>5. \A f \in Frame : f \in Walk(mem', BootRoot, f)
    BY <2>1, SetLeafStores DEF Sound, OneToOne
  <2>6. booted /\ NULL \notin Requests => Walk(mem', BootRoot, NULL) = {}
    BY <2>3, SetLeafStores, NullPage DEF Sound, OneToOne
  <2> QED
    BY <1>1, <2>1, <2>4, <2>5, <2>6 DEF OneToOne
<1>5. OnTheWay'
  <2>1. /\ Len(stack') = Len(stack) - 1 /\ DOMAIN stack' \subseteq DOMAIN stack
        /\ \A k \in DOMAIN stack' : stack'[k] = stack[k]
    BY <1>1, PoppedIs DEF SetLeaf
  <2>2. Len(stack) \in Nat /\ Len(stack) <= 2
    BY <1>1, TopIs DEF Sound, OnTheWay
  <2>3. \A k \in DOMAIN stack : stack[k].level \in 1 .. 4
    BY StackLevels
  <2>4. \A k \in DOMAIN stack :
          /\ stack[k].table \in Meets(mem', BootRoot, stack[k].page, stack[k].level)
          /\ stack[k].page \in Requests \union PoolFrames
    BY <1>2, <2>3 DEF Sound, OnTheWay
  <2>5. \A k \in DOMAIN stack' :
          /\ stack'[k].table \in Meets(mem', BootRoot, stack'[k].page, stack'[k].level)
          /\ stack'[k].page \in Requests \union PoolFrames
    BY <2>1, <2>4
  <2>6. \A n, k \in Int : n <= 2 /\ k = n - 1 => k <= 2 /\ k # 2
    OBVIOUS
  <2>7. Len(stack') <= 2 /\ Len(stack') # 2
    BY <2>1, <2>2, <2>6
  <2> QED
    BY <2>5, <2>7 DEF OnTheWay
<1> QED
  BY <1>3, <1>4, <1>5 DEF Sound

(* A fault is an empty pool's: what it has handed out is mapped. *)
LEMMA FaultSound ==
  ASSUME Types, Sound, Fault
  PROVE  Sound' /\ Exhausted'
<1>1. stack # <<>> => Reach # {}
  BY ReachTop
<1>2. PICK f \in PoolFrames \union {NULL} : Alloc(f) /\ Translate(f) = {}
  BY <1>1 DEF Fault, ClearFault
<1>3. f \notin PoolFrames
  BY <1>2 DEF Sound, OneToOne, Frame, Translate, Types
<1>4. free' = {} /\ ret' = NULL /\ free' \subseteq free
  BY <1>2, <1>3, AllocIs
<1>5. Exhausted'
  BY <1>4 DEF Exhausted
<1>6. Apart' /\ OneToOne' /\ OnTheWay'
  BY <1>4 DEF Sound, Apart, OneToOne, OnTheWay, Frame, Fault
<1> QED
  BY <1>5, <1>6 DEF Sound

-----------------------------------------------------------------------------
LEMMA NextIInv == IInv /\ [Next]_vars => IInv'
<1> SUFFICES ASSUME IInv, [Next]_vars PROVE IInv'
  OBVIOUS
<1>1. Types /\ Types'
  BY NextTypes DEF IInv
<1>2. faulted' => Exhausted'
  <2>1. CASE Exhausted
    BY <1>1, <2>1, ExhaustedStays
  <2>2. CASE ~Exhausted /\ Fault
    BY <1>1, <2>2, FaultSound DEF IInv
  <2>3. CASE ~Exhausted /\ ~Fault
    <3>1. ~faulted
      BY <2>3 DEF IInv
    <3>2. faulted' = faulted
      BY <2>3 DEF Next, Step, vars, vmm_init, map_page, Descend, SetLeaf, AddTable
    <3> QED
      BY <3>1, <3>2
  <2> QED
    BY <2>1, <2>2, <2>3
<1>3. CASE Sound
  <2>1. CASE UNCHANGED vars
    BY <1>1, <1>2, <1>3, <2>1
      DEF IInv, Sound, Apart, OneToOne, OnTheWay, Frame, vars, pool
  <2>2. CASE vmm_init
    BY <1>1, <1>2, <1>3, <2>2, VmmInitSound DEF IInv
  <2>3. ASSUME NEW p \in Requests, map_page(p)
        PROVE  Sound'
    BY <1>1, <1>3, <2>3, MapPageSound
  <2>4. ASSUME NEW t \in Reach, Descend(t) \/ SetLeaf(t)
        PROVE  Sound'
    BY <1>1, <1>3, <2>4, DescendSound, SetLeafSound
  <2>5. ASSUME NEW t \in Reach, NEW f \in PoolFrames \union {NULL}, AddTable(t, f)
        PROVE  Sound' \/ (Exhausted' /\ Anchored')
    BY <1>1, <1>3, <2>5, AddTableSound
  <2>6. CASE Fault
    BY <1>1, <1>2, <1>3, <2>6, FaultSound DEF IInv
  <2> QED
    BY <1>1, <1>2, <2>1, <2>2, <2>3, <2>4, <2>5, <2>6 DEF IInv, Next, Step
<1>4. CASE Exhausted /\ Anchored
  BY <1>1, <1>2, <1>4, ExhaustedStays, AnchoredStays DEF IInv
<1> QED
  BY <1>3, <1>4 DEF IInv

(* The invariant holds in every state: vmm_init and map_page, interrupted  *)
(* by their own recursion, keep the tables a tree outside of the pool.     *)
THEOREM Invariance == Spec => []IInv
<1>1. Init => IInv
  BY InitIInv
<1>2. IInv /\ [Next]_vars => IInv'
  BY NextIInv
<1> QED
  BY <1>1, <1>2, PTL DEF Spec

(* The state of vmm.c stays in its types, even after frame 0 has become a  *)
(* table: entries hold pages, and activations are at levels 1 to 4.        *)
THEOREM TypeCorrect == Spec => []TypeOK
<1>1. IInv => TypeOK
  <2> SUFFICES ASSUME IInv PROVE TypeOK
    OBVIOUS
  <2>1. Types
    BY DEF IInv
  <2>2. pml4 \in Page
    BY <2>1, PoolPages DEF Types
  <2> QED
    BY <2>1, <2>2 DEF TypeOK, Types, IsMemory, Activations
<1> QED
  BY <1>1, Invariance, PTL

(* vmm_init and map_page fault, or link frame 0 as a table, only when      *)
(* pmm_allocz has nothing left to give: the tables they read, those just   *)
(* linked included, are always mapped.                                     *)
THEOREM OnlyLackOfMemoryFaults == Spec => []FaultMeansNoMemory
<1>1. IInv => FaultMeansNoMemory
  BY DEF IInv, FaultMeansNoMemory, Exhausted, Types, Sound, Apart
<1> QED
  BY <1>1, Invariance, PTL

LEMMA SpoiledOrSound == IInv => Spoiled \/ (Types /\ Sound)
BY NullPage DEF IInv, Types, Spoiled, OutOfMemory, Exhausted, Anchored, Fixed, Held, MappedPages, Translate

(* Whatever pages are requested, page 0 included: until pmm_allocz has     *)
(* answered NULL with page 0 mapped, no frame is two tables, and no table  *)
(* is a frame pmm_alloc still has to give.                                 *)
THEOREM TablesStayATree == Spec => []TablesFormATree
<1>1. IInv => TablesFormATree
  BY SpoiledOrSound DEF Types, Sound, Apart, TablesFormATree
<1> QED
  BY <1>1, Invariance, PTL

(* The stack never holds more than two activations of map_page, not even   *)
(* while frame 0 is linked as a table: its own page is mapped by then.     *)
THEOREM StackStaysShallow == Spec => []RecursionIsShallow
<1>1. IInv => RecursionIsShallow
  BY DEF IInv, Sound, OnTheWay, Anchored, RecursionIsShallow
<1> QED
  BY <1>1, Invariance, PTL

(* vmm_init's promise, a NULL pointer faults, is kept to a kernel that     *)
(* never asks for page 0: kheap_init does.                                 *)
THEOREM NullIsProtected ==
  ASSUME NULL \notin Requests
  PROVE  Spec => []NullStaysUnmapped
<1>1. IInv => NullStaysUnmapped
  BY DEF IInv, Types, Sound, OneToOne, Anchored, NullStaysUnmapped, MappedPages, Translate
<1> QED
  BY <1>1, Invariance, PTL

-----------------------------------------------------------------------------
(* The abstract address space: what the tables translate. *)
MapOf(m) == {p \in Page : Walk(m, BootRoot, p) # {}}
SpaceOf(m) == [p \in MapOf(m) |-> CHOOSE f \in Page : f \in Walk(m, BootRoot, p)]
Pending(s) == IF s = <<>> THEN {} ELSE {s[1].page}

LEMMA SpaceOfIs ==
  ASSUME NEW m, \A p \in Page : Walk(m, BootRoot, p) \subseteq {p}
  PROVE  SpaceOf(m) = [p \in MapOf(m) |-> p]
<1>1. ASSUME NEW p \in MapOf(m)
      PROVE  (CHOOSE f \in Page : f \in Walk(m, BootRoot, p)) = p
  <2>1. p \in Page /\ Walk(m, BootRoot, p) = {p}
    BY <1>1 DEF MapOf
  <2> QED
    BY <2>1
<1> QED
  BY <1>1 DEF SpaceOf

(* The abstract actions, on the translations of the tables. *)
LEMMA SpaceVars ==
  ASSUME pml4 = BootRoot, pml4' = BootRoot
  PROVE  /\ UNCHANGED Space!vars <=> /\ booted' = booted
                                     /\ SpaceOf(mem') = SpaceOf(mem)
                                     /\ Pending(stack') = Pending(stack)
         /\ Space!Protect <=> /\ ~booted
                              /\ booted' = TRUE
                              /\ SpaceOf(mem') = [p \in DOMAIN SpaceOf(mem) \ {NULL} |-> SpaceOf(mem)[p]]
                              /\ Pending(stack') = Pending(stack)
         /\ \A p : Space!Request(p) <=> /\ booted
                                        /\ Pending(stack) = {}
                                        /\ Pending(stack') = {p}
                                        /\ booted' = booted
                                        /\ SpaceOf(mem') = SpaceOf(mem)
         /\ \A p : Space!Complete(p) <=>
                     /\ p \in Pending(stack)
                     /\ Pending(stack') = {}
                     /\ SpaceOf(mem') = [q \in DOMAIN SpaceOf(mem) \union {p} |->
                                           IF q \in DOMAIN SpaceOf(mem) THEN SpaceOf(mem)[q] ELSE q]
                     /\ booted' = booted
<1> DEFINE S == [p \in MappedPages |-> CHOOSE f \in Page : f \in Translate(p)]
           P == IF stack = <<>> THEN {} ELSE {stack[1].page}
<1>1. S = SpaceOf(mem) /\ P = Pending(stack)
  BY DEF MappedPages, Translate, SpaceOf, MapOf, Pending
<1>2. S' = SpaceOf(mem') /\ P' = Pending(stack')
  BY DEF MappedPages, Translate, SpaceOf, MapOf, Pending
<1>3. UNCHANGED Space!vars <=> booted' = booted /\ S' = S /\ P' = P
  BY DEF Space!vars
<1>4. Space!Protect <=> /\ ~booted /\ booted' = TRUE
                        /\ S' = [p \in DOMAIN S \ {NULL} |-> S[p]]
                        /\ P' = P
  BY DEF Space!Protect, Space!Mapped
<1>5. \A p : Space!Request(p) <=> /\ booted /\ P = {} /\ P' = {p}
                                  /\ booted' = booted /\ S' = S
  BY DEF Space!Request
<1>6. \A p : Space!Complete(p) <=>
               /\ p \in P /\ P' = {}
               /\ S' = [q \in DOMAIN S \union {p} |-> IF q \in DOMAIN S THEN S[q] ELSE q]
               /\ booted' = booted
  BY DEF Space!Complete, Space!Mapped
<1> HIDE DEF S, P
<1>7. UNCHANGED Space!vars <=> /\ booted' = booted
                               /\ SpaceOf(mem') = SpaceOf(mem)
                               /\ Pending(stack') = Pending(stack)
  BY <1>1, <1>2, <1>3
<1>8. Space!Protect <=> /\ ~booted
                        /\ booted' = TRUE
                        /\ SpaceOf(mem') = [p \in DOMAIN SpaceOf(mem) \ {NULL} |-> SpaceOf(mem)[p]]
                        /\ Pending(stack') = Pending(stack)
  BY <1>1, <1>2, <1>4
<1>9. \A p : Space!Request(p) <=> /\ booted
                                  /\ Pending(stack) = {}
                                  /\ Pending(stack') = {p}
                                  /\ booted' = booted
                                  /\ SpaceOf(mem') = SpaceOf(mem)
  BY <1>1, <1>2, <1>5
<1>10. \A p : Space!Complete(p) <=>
                /\ p \in Pending(stack)
                /\ Pending(stack') = {}
                /\ SpaceOf(mem') = [q \in DOMAIN SpaceOf(mem) \union {p} |->
                                      IF q \in DOMAIN SpaceOf(mem) THEN SpaceOf(mem)[q] ELSE q]
                /\ booted' = booted
  BY <1>1, <1>2, <1>6
<1> QED
  BY <1>7, <1>8, <1>9, <1>10

LEMMA SpaceInit == Init => Space!Init
<1> SUFFICES ASSUME Init PROVE Space!Init
  OBVIOUS
<1>1. pml4 = BootRoot /\ booted = FALSE /\ stack = <<>> /\ mem \in BootMems
  BY DEF Init
<1> DEFINE S == [p \in MappedPages |-> CHOOSE f \in Page : f \in Translate(p)]
           P == IF stack = <<>> THEN {} ELSE {stack[1].page}
<1>2. S = [p \in MapOf(mem) |-> p]
  <2>1. S = SpaceOf(mem)
    BY <1>1 DEF MappedPages, Translate, SpaceOf, MapOf
  <2> QED
    BY <1>1, <2>1, PagingAssumption, SpaceOfIs
<1>3. P = {}
  BY <1>1
<1>4. Space!Init <=> booted = FALSE /\ DOMAIN S \subseteq Page /\ S = [p \in DOMAIN S |-> p] /\ P = {}
  BY DEF Space!Init, Space!Mapped
<1> HIDE DEF S, P
<1>5. DOMAIN S = MapOf(mem) /\ MapOf(mem) \subseteq Page
  BY <1>2 DEF MapOf
<1> QED
  BY <1>1, <1>2, <1>3, <1>4, <1>5

LEMMA PendingIs ==
  ASSUME Types, stack # <<>>
  PROVE  /\ Pending(stack) = {stack[1].page}
         /\ stack[1].page \in Page
<1>1. stack \in Seq(Activations) /\ Len(stack) \in Nat \ {0}
  BY TopIs DEF Types
<1>2. stack[1] \in Activations
  BY <1>1, ElementOfSeq
<1> QED
  BY <1>2 DEF Pending, Activations

(* What a step does to the translations: until SetLeaf, nothing. *)
LEMMA SameSpace ==
  ASSUME NEW m, NEW n, \A p \in Page : Walk(n, BootRoot, p) = Walk(m, BootRoot, p)
  PROVE  SpaceOf(n) = SpaceOf(m)
<1>1. MapOf(n) = MapOf(m)
  BY DEF MapOf
<1>2. \A p \in MapOf(m) : (CHOOSE f \in Page : f \in Walk(n, BootRoot, p))
                            = (CHOOSE f \in Page : f \in Walk(m, BootRoot, p))
  BY DEF MapOf
<1> QED
  BY <1>1, <1>2 DEF SpaceOf

LEMMA VmmInitProtects ==
  ASSUME Types, Sound, Types', vmm_init
  PROVE  Space!Protect
<1>1. PICK f \in PoolFrames \union {NULL} : mem' = UnmapNull(Zero(mem, f))
  BY VmmInitStores
<1>2. \A q \in Page : Walk(mem', BootRoot, q) = IF q = NULL THEN {} ELSE Walk(mem, BootRoot, q)
  BY <1>1, BootMemory DEF vmm_init, Types
<1>3. MapOf(mem') = MapOf(mem) \ {NULL}
  BY <1>2 DEF MapOf
<1>4. SpaceOf(mem) = [p \in MapOf(mem) |-> p] /\ SpaceOf(mem') = [p \in MapOf(mem') |-> p]
  <2>1. \A p \in Page : Walk(mem, BootRoot, p) \subseteq {p}
    BY DEF Sound, OneToOne
  <2>2. \A p \in Page : Walk(mem', BootRoot, p) \subseteq {p}
    BY <1>2, <2>1
  <2> QED
    BY <2>1, <2>2, SpaceOfIs
<1>5. SpaceOf(mem') = [p \in DOMAIN SpaceOf(mem) \ {NULL} |-> SpaceOf(mem)[p]]
  BY <1>3, <1>4
<1>6. Pending(stack') = Pending(stack)
  BY DEF vmm_init
<1>7. pml4 = BootRoot /\ pml4' = BootRoot
  BY DEF Types
<1> QED
  BY <1>5, <1>6, <1>7, SpaceVars DEF vmm_init

LEMMA MapPageRequests ==
  ASSUME Types, Types', NEW p \in Requests, map_page(p)
  PROVE  p \in Page /\ Space!Request(p)
<1>1. Pending(stack) = {} /\ Pending(stack') = {p} /\ mem' = mem
  BY DEF map_page, Pending, Activation
<1>2. pml4 = BootRoot /\ pml4' = BootRoot
  BY DEF Types
<1> QED
  BY <1>1, <1>2, SpaceVars, PagingAssumption DEF map_page

LEMMA DescendStutters ==
  ASSUME Types, Types', NEW t \in Reach, Descend(t)
  PROVE  UNCHANGED Space!vars
<1> DEFINE a == [Top EXCEPT !.level = @ + 1, !.table = mem[t][Entry]]
<1>1. stack # <<>> /\ Len(stack) \in Nat \ {0} /\ stack \in Seq(Activations)
  BY ReachIs, TopIs DEF Types
<1>2. Top \in Activations /\ Top.level + 1 \in 1 .. 4
  BY <1>1, TopIs DEF Descend
<1>3. mem[t][Entry] \in Page
  BY ReachIs DEF Types, IsMemory, Descend, Present
<1>4. a \in Activations /\ a.page = Top.page
  BY <1>2, <1>3 DEF Activations
<1> HIDE DEF a
<1>5. stack' = WithTop(a)
  BY DEF Descend, a
<1>6. /\ stack'[Len(stack)] = a /\ Len(stack') = Len(stack)
      /\ \A k \in DOMAIN stack \ {Len(stack)} : stack'[k] = stack[k]
  BY <1>1, <1>4, <1>5, WithTopIs
<1>7. 1 \in DOMAIN stack /\ Top = stack[Len(stack)]
  BY <1>1, TopIs, LenProperties
<1>8. stack'[1].page = stack[1].page
  BY <1>4, <1>6, <1>7
<1>9. stack' # <<>>
  BY <1>1, <1>6, EmptySeq
<1>10. Pending(stack') = Pending(stack)
  BY <1>1, <1>8, <1>9 DEF Pending
<1>11. pml4 = BootRoot /\ pml4' = BootRoot /\ mem' = mem /\ booted' = booted
  BY DEF Types, Descend
<1> QED
  BY <1>10, <1>11, SpaceVars

LEMMA AddTableStutters ==
  ASSUME Types, Sound, Types', ~Spoiled',
         NEW t \in Reach, NEW f \in PoolFrames \union {NULL}, AddTable(t, f)
  PROVE  UNCHANGED Space!vars
<1>1. stack # <<>> /\ booted /\ booted' /\ Len(stack) \in Nat \ {0} /\ stack \in Seq(Activations)
  BY ReachIs, TopIs DEF Types, AddTable
<1>2. f \in free
  <2>1. CASE f = NULL /\ free = {} /\ free' = {} /\ ret' = NULL
    <3>1. Walk(mem, BootRoot, NULL) # {}
      BY <2>1 DEF AddTable, Translate, Types
    <3>2. NULL \in Requests /\ Fixed(mem) /\ Len(stack) = 1
      BY <1>1, <3>1, SoundFixes, AddTableOutermost DEF Sound, OneToOne, AddTable
    <3>3. Anchored'
      BY <2>1, <3>2, AddNullAnchors
    <3> QED
      BY <1>1, <2>1, <3>3, NullPage
        DEF Spoiled, OutOfMemory, Anchored, Fixed, Held, MappedPages, Translate, Types
  <2> QED
    BY <2>1, AllocIs DEF AddTable
<1>3. Extends(mem, mem', t, Entry, f) /\ IsTree(mem, BootRoot)
  BY <1>2, AddTableExtends DEF Sound, Apart
<1>4. \A p \in Page : Walk(mem', BootRoot, p) = Walk(mem, BootRoot, p)
  BY <1>3, ExtendsWalks
<1>5. SpaceOf(mem') = SpaceOf(mem)
  BY <1>4, SameSpace
<1>6. Pending(stack') = Pending(stack)
  <2>1. Activation(f) \in Activations
    BY PoolPages DEF Activation, Activations, Types
  <2>2. stack' # <<>> /\ \A k \in 1 .. Len(stack) : stack'[k] = stack[k]
    BY <1>1, <2>1, AppendProperties DEF AddTable
  <2>3. stack'[1] = stack[1]
    BY <1>1, <2>2
  <2> QED
    BY <1>1, <2>2, <2>3 DEF Pending
<1>7. pml4 = BootRoot /\ pml4' = BootRoot /\ booted' = booted
  BY DEF Types, AddTable
<1> QED
  BY <1>5, <1>6, <1>7, SpaceVars

(* The store of the outermost activation completes the request; that of an *)
(* inner one finds its frame mapped.                                       *)
LEMMA SetLeafCompletes ==
  ASSUME Types, Sound, Types', NEW t \in Reach, SetLeaf(t)
  PROVE  UNCHANGED Space!vars \/ \E p \in Page : Space!Complete(p)
<1>1. stack # <<>> /\ stack \in Seq(Activations) /\ Len(stack) \in Nat \ {0} /\ Top = stack[Len(stack)]
  BY ReachIs, TopIs DEF Types
<1>2. pml4 = BootRoot /\ pml4' = BootRoot /\ booted' = booted
  BY DEF Types, SetLeaf
<1>3. /\ Top.page \in Page
      /\ \A q \in Page : Walk(mem', BootRoot, q) =
                           IF q = Top.page THEN {q} ELSE Walk(mem, BootRoot, q)
  BY SetLeafStores
<1>4. \A q \in Page : Walk(mem, BootRoot, q) \subseteq {q}
  BY DEF Sound, OneToOne
<1>5. Len(stack') = Len(stack) - 1 /\ \A k \in 1 .. Len(stack) - 1 : stack'[k] = stack[k]
  BY <1>1, PoppedIs DEF SetLeaf
<1>6. CASE Len(stack) = 1
  <2>1. stack' \in Seq(Activations) /\ Len(stack') = 0
    BY <1>5, <1>6 DEF Types
  <2>2. Pending(stack') = {}
    BY <2>1, EmptySeq DEF Pending
  <2>3. Pending(stack) = {Top.page}
    BY <1>1, <1>6, PendingIs
  <2>4. MapOf(mem') = MapOf(mem) \union {Top.page}
    BY <1>3 DEF MapOf
  <2>5. SpaceOf(mem) = [q \in MapOf(mem) |-> q] /\ SpaceOf(mem') = [q \in MapOf(mem') |-> q]
    <3>1. \A q \in Page : Walk(mem', BootRoot, q) \subseteq {q}
      BY <1>3, <1>4
    <3> QED
      BY <1>4, <3>1, SpaceOfIs
  <2>6. SpaceOf(mem') = [q \in DOMAIN SpaceOf(mem) \union {Top.page} |->
                           IF q \in DOMAIN SpaceOf(mem) THEN SpaceOf(mem)[q] ELSE q]
    BY <2>4, <2>5
  <2>7. PICK p \in Page : p = Top.page
    BY <1>3
  <2>8. p \in Pending(stack)
    BY <2>3, <2>7
  <2>9. SpaceOf(mem') = [q \in DOMAIN SpaceOf(mem) \union {p} |->
                           IF q \in DOMAIN SpaceOf(mem) THEN SpaceOf(mem)[q] ELSE q]
    BY <2>6, <2>7
  <2>10. Space!Complete(p)
    BY <1>2, <2>2, <2>8, <2>9, SpaceVars
  <2> QED
    BY <2>10
<1>7. CASE Len(stack) # 1
  <2>1. Len(stack) = 2
    <3> DEFINE n == Len(stack)
    <3>1. n \in Nat \ {0} /\ n <= 2 /\ n # 1
      BY <1>1, <1>7 DEF Sound, OnTheWay
    <3> HIDE DEF n
    <3>2. n = 2
      BY <3>1
    <3> QED
      BY <3>2 DEF n
  <2>2. Top.page \in Walk(mem, BootRoot, Top.page)
    BY <1>1, <2>1 DEF Sound, OneToOne, OnTheWay, Frame
  <2>3. \A q \in Page : Walk(mem', BootRoot, q) = Walk(mem, BootRoot, q)
    BY <1>3, <1>4, <2>2
  <2>4. SpaceOf(mem') = SpaceOf(mem)
    BY <2>3, SameSpace
  <2>5. Len(stack') = 1 /\ stack'[1] = stack[1]
    BY <1>5, <2>1
  <2>6. stack' # <<>>
    BY <2>5, EmptySeq
  <2>7. Pending(stack') = Pending(stack)
    BY <1>1, <2>5, <2>6 DEF Pending
  <2> QED
    BY <1>2, <2>4, <2>7, SpaceVars
<1> QED
  BY <1>6, <1>7

LEMMA SpaceNext ==
  IInv /\ IInv' /\ [Next]_vars => [Space!Next \/ Spoiled']_(Space!vars)
<1> SUFFICES ASSUME IInv, IInv', [Next]_vars, ~Spoiled'
             PROVE  Space!Next \/ UNCHANGED Space!vars
  OBVIOUS
<1>1. Types /\ Types'
  BY DEF IInv
<1>2. Sound
  <2>1. CASE Exhausted /\ Anchored
    <3>1. Exhausted' /\ Anchored'
      BY <1>1, <2>1, ExhaustedStays, AnchoredStays
    <3> QED
      BY <1>1, <3>1, NullPage
        DEF Spoiled, OutOfMemory, Exhausted, Anchored, Fixed, Held, MappedPages, Translate, Types
  <2> QED
    BY <2>1 DEF IInv
<1>3. pml4 = BootRoot /\ pml4' = BootRoot
  BY <1>1 DEF Types
<1>4. CASE UNCHANGED vars
  BY <1>3, <1>4, SpaceVars DEF vars
<1>5. CASE vmm_init
  BY <1>1, <1>2, <1>5, VmmInitProtects DEF Space!Next
<1>6. ASSUME NEW p \in Requests, map_page(p)
      PROVE  Space!Next
  BY <1>1, <1>6, MapPageRequests DEF Space!Next
<1>7. ASSUME NEW t \in Reach, Descend(t)
      PROVE  UNCHANGED Space!vars
  BY <1>1, <1>7, DescendStutters
<1>8. ASSUME NEW t \in Reach, SetLeaf(t)
      PROVE  Space!Next \/ UNCHANGED Space!vars
  BY <1>1, <1>2, <1>8, SetLeafCompletes DEF Space!Next
<1>9. ASSUME NEW t \in Reach, NEW f \in PoolFrames \union {NULL}, AddTable(t, f)
      PROVE  UNCHANGED Space!vars
  BY <1>1, <1>2, <1>9, AddTableStutters
<1>10. CASE Fault
  BY <1>3, <1>10, SpaceVars DEF Fault
<1> QED
  BY <1>4, <1>5, <1>6, <1>7, <1>8, <1>9, <1>10 DEF Next, Step

(* vmm.c implements the one map from pages to frames of AddressSpace until *)
(* its pool has answered NULL with page 0 mapped: each action of map_page  *)
(* and its recursion is a step of that map or changes nothing.             *)
THEOREM SpaceIsImplemented == Spec => ImplementsSpace
<1>1. Init => Space!Init
  BY SpaceInit
<1>2. IInv /\ IInv' /\ [Next]_vars => [Space!Next \/ Spoiled']_(Space!vars)
  BY SpaceNext
<1> QED
  BY <1>1, <1>2, Invariance, PTL DEF Spec, ImplementsSpace
=============================================================================
