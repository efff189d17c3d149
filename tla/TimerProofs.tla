---------------------------- MODULE TimerProofs -----------------------------
(***************************************************************************)
(* Proofs about the timer interrupt, for every counter width, every number *)
(* of ticks and every depth of nesting.                                    *)
(***************************************************************************)
EXTENDS Timer, SequenceTheorems, TLAPS

(* Every activation but the innermost one was interrupted after its end of *)
(* interrupt, with only iret left to execute.                              *)
OuterHandlersDone ==
  \A i \in DOMAIN handlers : i # Len(handlers) => handlers[i].at = 4

(* The local APIC holds further timer interrupts back exactly while the    *)
(* innermost activation has not signalled its end.                         *)
InServiceUntilEoi ==
  isr <=> (handlers # <<>> /\ Top.at <= 3)

(* No one stored to pit_ticks since the innermost activation loaded it.    *)
LoadedIsFresh ==
  (handlers # <<>> /\ Top.at = 2) => Top.eax = pit_ticks

(* Accepted interrupts whose tick has been written back. *)
WrittenBack ==
  IF handlers # <<>> /\ Top.at <= 2 THEN accepted - 1 ELSE accepted

Counted ==
  /\ handlers # <<>> => accepted >= 1
  /\ pit_ticks = U32(WrittenBack)

(* The inductive invariant. *)
IInv ==
  /\ TypeOK
  /\ OuterHandlersDone
  /\ InServiceUntilEoi
  /\ LoadedIsFresh
  /\ Counted

-----------------------------------------------------------------------------
LEMMA Division ==
  ASSUME NEW M \in Nat \ {0}, NEW n \in Nat
  PROVE  /\ n = M * (n \div M) + (n % M)
         /\ n \div M \in Nat
         /\ n % M \in 0 .. M - 1
OBVIOUS

(* Quotient and remainder are unique. *)
LEMMA Remainder ==
  ASSUME NEW M \in Nat \ {0}, NEW q \in Nat, NEW r \in 0 .. M - 1
  PROVE  (M * q + r) % M = r
<1> DEFINE n == M * q + r
           q2 == n \div M
           r2 == n % M
<1>1. n \in Nat
  OBVIOUS
<1>2. n = M * q2 + r2 /\ q2 \in Nat /\ r2 \in 0 .. M - 1
  BY <1>1, Division
<1> HIDE DEF q2, r2
<1>3. /\ M * (q - q2) = r2 - r
      /\ r2 - r < M
      /\ r2 - r > -M
      /\ q - q2 \in Int
  BY <1>2
<1>4. CASE q - q2 >= 1
  <2>1. M * (q - q2) >= M
    BY <1>3, <1>4
  <2> QED  BY <2>1, <1>2, <1>3
<1>5. CASE q - q2 <= -1
  <2>1. M * (q - q2) <= -M
    BY <1>3, <1>5
  <2> QED  BY <2>1, <1>2, <1>3
<1>6. CASE q = q2
  <2>1. r2 = r
    BY <1>2, <1>6
  <2> QED  BY <2>1 DEF r2
<1> QED  BY <1>2, <1>3, <1>4, <1>5, <1>6

(* uint32_t values are closed under addition. *)
LEMMA WordRange ==
  ASSUME NEW n \in Nat
  PROVE  U32(n) \in 0 .. TickMod - 1
BY TimerAssumption, Division DEF U32

(* Counting on a wrapped counter counts modulo its width. *)
LEMMA WrappedIncrement ==
  ASSUME NEW n \in Nat
  PROVE  U32(U32(n) + 1) = U32(n + 1)
<1> DEFINE q == n \div TickMod
           r == n % TickMod
<1>1. TickMod \in Nat \ {0} /\ n = TickMod * q + r /\ q \in Nat /\ r \in 0 .. TickMod - 1
  BY TimerAssumption, Division
<1> HIDE DEF q, r
<1>2. CASE r + 1 < TickMod
  <2>1. n + 1 = TickMod * q + (r + 1) /\ r + 1 \in 0 .. TickMod - 1
    BY <1>1, <1>2
  <2>2. (n + 1) % TickMod = r + 1
    BY <1>1, <2>1, Remainder
  <2>3. r + 1 = TickMod * 0 + (r + 1)
    BY <1>1
  <2>4. (r + 1) % TickMod = r + 1
    BY <1>1, <2>1, <2>3, Remainder
  <2> QED  BY <2>2, <2>4 DEF U32, r
<1>3. CASE r + 1 = TickMod
  <2>1. n + 1 = TickMod * (q + 1) + 0 /\ 0 \in 0 .. TickMod - 1 /\ q + 1 \in Nat
    BY <1>1, <1>3
  <2>2. (n + 1) % TickMod = 0
    BY <1>1, <2>1, Remainder
  <2>3. r + 1 = TickMod * 1 + 0
    BY <1>1, <1>3
  <2>4. (r + 1) % TickMod = 0
    BY <1>1, <2>1, <2>3, Remainder
  <2> QED  BY <2>2, <2>4 DEF U32, r
<1> QED  BY <1>1, <1>2, <1>3

(* Which activation a step of irq0 finds on top. *)
LEMMA TopOfStack ==
  ASSUME TypeOK, handlers # <<>>
  PROVE  /\ Len(handlers) \in DOMAIN handlers
         /\ Len(handlers) \in Nat \ {0}
         /\ DOMAIN handlers = 1 .. Len(handlers)
         /\ Top \in Activation
         /\ Top.at \in 1 .. 4
         /\ Top.eax \in 0 .. TickMod - 1
         /\ Top.saved \in BOOLEAN
         /\ Running("load") <=> Top.at = 1
         /\ Running("store") <=> Top.at = 2
         /\ Running("eoi") <=> Top.at = 3
         /\ Running("iret") <=> Top.at = 4
<1>1. handlers \in Seq(Activation)
  BY DEF TypeOK
<1>2. /\ Len(handlers) \in DOMAIN handlers
      /\ Len(handlers) \in Nat \ {0}
      /\ DOMAIN handlers = 1 .. Len(handlers)
  BY <1>1, EmptySeq, LenProperties
<1>3. Top \in Activation
  BY <1>1, <1>2, ElementOfSeq DEF Top
<1>4. Top.at \in 1 .. 4 /\ Top.eax \in 0 .. TickMod - 1 /\ Top.saved \in BOOLEAN
  BY <1>3 DEF Activation
<1>5. CASE Top.at = 1
  BY <1>2, <1>3, <1>4, <1>5 DEF Running, Step, irq0
<1>6. CASE Top.at = 2
  BY <1>2, <1>3, <1>4, <1>6 DEF Running, Step, irq0
<1>7. CASE Top.at = 3
  BY <1>2, <1>3, <1>4, <1>7 DEF Running, Step, irq0
<1>8. CASE Top.at = 4
  BY <1>2, <1>3, <1>4, <1>8 DEF Running, Step, irq0
<1> QED  BY <1>2, <1>3, <1>4, <1>5, <1>6, <1>7, <1>8

(* The innermost activation moves on; the stack keeps its shape. *)
LEMMA AdvanceStep ==
  ASSUME TypeOK, OuterHandlersDone, handlers # <<>>, Top.at <= 3,
         NEW eax \in 0 .. TickMod - 1, Advance(eax)
  PROVE  /\ handlers' \in Seq(Activation)
         /\ handlers' # <<>>
         /\ Top'.at = Top.at + 1
         /\ Top'.eax = eax
         /\ Top'.saved = Top.saved
         /\ OuterHandlersDone'
<1> DEFINE top == [at |-> Top.at + 1, eax |-> eax, saved |-> Top.saved]
           n == Len(handlers)
<1>1. handlers \in Seq(Activation) /\ n \in DOMAIN handlers /\ n \in Nat \ {0}
  BY TopOfStack DEF TypeOK
<1>2. top \in Activation
  BY TopOfStack DEF Activation
<1>3. handlers' = [handlers EXCEPT ![n] = top]
  BY DEF Advance
<1> HIDE DEF top
<1>4. /\ handlers' \in Seq(Activation)
      /\ Len(handlers') = n
      /\ DOMAIN handlers' = DOMAIN handlers
      /\ \A i \in DOMAIN handlers : handlers'[i] = IF i = n THEN top ELSE handlers[i]
  BY <1>1, <1>2, <1>3, ExceptSeq, LenProperties
<1>5. handlers' # <<>>
  BY <1>1, <1>4, EmptySeq
<1>6. Top' = top
  BY <1>1, <1>4 DEF Top
<1>7. OuterHandlersDone'
  BY <1>4 DEF OuterHandlersDone
<1> QED  BY <1>4, <1>5, <1>6, <1>7 DEF top

(* A new activation is put on top of ones that have signalled their end.   *)
LEMMA PushStep ==
  ASSUME TypeOK, OuterHandlersDone, NEW h \in Activation,
         handlers = <<>> \/ Top.at = 4,
         handlers' = Append(handlers, h)
  PROVE  /\ handlers' \in Seq(Activation)
         /\ handlers' # <<>>
         /\ Top' = h
         /\ OuterHandlersDone'
<1> DEFINE n == Len(handlers)
<1>1. handlers \in Seq(Activation) /\ n \in Nat
  BY LenProperties DEF TypeOK
<1>2. /\ handlers' \in Seq(Activation)
      /\ Len(handlers') = n + 1
      /\ handlers'[n + 1] = h
      /\ \A i \in 1 .. n : handlers'[i] = handlers[i]
  BY <1>1, AppendProperties
<1>3. handlers' # <<>> /\ DOMAIN handlers' = 1 .. n + 1
  BY <1>1, <1>2, EmptySeq, LenProperties
<1>4. Top' = h
  BY <1>2 DEF Top
<1>5. ASSUME NEW i \in DOMAIN handlers', i # Len(handlers')
      PROVE  handlers'[i].at = 4
  <2>1. i \in 1 .. n /\ handlers'[i] = handlers[i] /\ i \in DOMAIN handlers
    BY <1>1, <1>2, <1>3, <1>5, LenProperties
  <2>2. CASE i = n
    BY <2>1, <2>2, <1>1, EmptySeq DEF Top
  <2>3. CASE i # n
    BY <2>1, <2>3 DEF OuterHandlersDone
  <2> QED  BY <2>2, <2>3
<1> QED  BY <1>2, <1>3, <1>4, <1>5 DEF OuterHandlersDone

(* iret uncovers an activation that has signalled its end, or the thread.  *)
LEMMA PopStep ==
  ASSUME TypeOK, OuterHandlersDone, handlers # <<>>,
         handlers' = SubSeq(handlers, 1, Len(handlers) - 1)
  PROVE  /\ handlers' \in Seq(Activation)
         /\ handlers' # <<>> => Top'.at = 4
         /\ OuterHandlersDone'
<1> DEFINE n == Len(handlers)
<1>1. /\ handlers \in Seq(Activation)
      /\ n \in Nat \ {0}
      /\ DOMAIN handlers = 1 .. n
  BY TopOfStack DEF TypeOK
<1>2. /\ handlers' \in Seq(Activation)
      /\ Len(handlers') = n - 1
      /\ \A i \in 1 .. n - 1 : handlers'[i] = handlers[i]
  BY <1>1, SubSeqProperties, ElementOfSeq
<1>3. DOMAIN handlers' = 1 .. n - 1
  BY <1>2, LenProperties
<1>4. \A i \in DOMAIN handlers' : handlers'[i].at = 4
  BY <1>1, <1>2, <1>3 DEF OuterHandlersDone
<1>5. handlers' # <<>> => Top'.at = 4
  <2> SUFFICES ASSUME handlers' # <<>> PROVE Top'.at = 4
    OBVIOUS
  <2>1. Len(handlers') \in DOMAIN handlers'
    BY <1>1, <1>2, <1>3, EmptySeq
  <2>2. Top' = handlers'[Len(handlers')]
    BY DEF Top
  <2> QED  BY <1>4, <2>1, <2>2
<1> QED  BY <1>2, <1>4, <1>5 DEF OuterHandlersDone

-----------------------------------------------------------------------------
LEMMA InitInvariant == Init => IInv
<1> SUFFICES ASSUME Init PROVE IInv
  OBVIOUS
<1>1. U32(0) = 0
  <2>1. 0 = TickMod * 0 + 0 /\ 0 \in 0 .. TickMod - 1 /\ TickMod \in Nat \ {0}
    BY TimerAssumption
  <2> QED  BY <2>1, Remainder DEF U32
<1>2. TypeOK
  <2>1. handlers \in Seq(Activation)
    BY DEF Init
  <2>2. 0 \in 0 .. TickMod - 1
    BY TimerAssumption
  <2>3. slept \in [ticks : Nat, from : Nat]
    BY DEF Init
  <2> QED  BY <2>1, <2>2, <2>3 DEF Init, TypeOK
<1>3. OuterHandlersDone
  BY DEF Init, OuterHandlersDone
<1>4. InServiceUntilEoi
  BY DEF Init, InServiceUntilEoi
<1>5. LoadedIsFresh
  BY DEF Init, LoadedIsFresh
<1>6. Counted
  BY <1>1 DEF Init, Counted, WrittenBack
<1> QED
  BY <1>2, <1>3, <1>4, <1>5, <1>6 DEF IInv

LEMMA NextInvariant == IInv /\ [Next]_vars => IInv'
<1> SUFFICES ASSUME IInv, [Next]_vars
             PROVE  IInv'
  OBVIOUS
<1> USE DEF IInv
<1>1. CASE PitEdge
  <2>1. UNCHANGED <<IF_flag, isr, handlers, pit_ticks, main, e_ticks, slept, accepted>>
    BY <1>1 DEF PitEdge, thread
  <2>2. TypeOK'
    BY <1>1, <2>1 DEF PitEdge, TypeOK
  <2> QED  BY <2>1, <2>2 DEF OuterHandlersDone, InServiceUntilEoi, LoadedIsFresh,
                             Counted, WrittenBack, Top
<1>2. CASE Accept
  <2> DEFINE h == [at |-> 1, eax |-> 0, saved |-> IF_flag]
  <2>1. /\ UNCHANGED <<pit_ticks, main, e_ticks, slept>>
        /\ ~isr /\ isr' = TRUE /\ irr' = FALSE
        /\ accepted' = accepted + 1
        /\ IF_flag' \in BOOLEAN
        /\ handlers' = Append(handlers, h)
    BY <1>2 DEF Accept, thread
  <2>2. h \in Activation /\ h.at = 1
    BY TimerAssumption DEF Activation, TypeOK
  <2>3. handlers = <<>> \/ Top.at = 4
    BY <2>1, TopOfStack DEF InServiceUntilEoi
  <2> HIDE DEF h
  <2>4. /\ handlers' \in Seq(Activation)
        /\ handlers' # <<>>
        /\ Top' = h
        /\ OuterHandlersDone'
    BY <2>1, <2>2, <2>3, PushStep
  <2>5. TypeOK'
    <3>1. isr' \in BOOLEAN /\ irr' \in BOOLEAN
      BY <2>1
    <3>2. accepted' \in Nat
      BY <2>1 DEF TypeOK
    <3> QED  BY <2>1, <2>4, <3>1, <3>2 DEF TypeOK
  <2>6. InServiceUntilEoi'
    BY <2>1, <2>2, <2>4 DEF InServiceUntilEoi
  <2>7. LoadedIsFresh'
    BY <2>2, <2>4 DEF LoadedIsFresh
  <2>8. WrittenBack = accepted /\ WrittenBack' = accepted
    BY <2>1, <2>2, <2>3, <2>4 DEF WrittenBack, TypeOK
  <2>9. Counted'
    BY <2>1, <2>8 DEF Counted, TypeOK, U32
  <2> QED  BY <2>4, <2>5, <2>6, <2>7, <2>9
<1>3. CASE LoadTicks
  <2>1. handlers # <<>> /\ Top.at = 1 /\ Advance(pit_ticks)
    BY <1>3, TopOfStack DEF LoadTicks, Running
  <2>2. UNCHANGED <<IF_flag, irr, isr, pit_ticks, main, e_ticks, slept, accepted>>
    BY <1>3 DEF LoadTicks, hardware, thread
  <2>3. pit_ticks \in 0 .. TickMod - 1
    BY DEF TypeOK
  <2>4. /\ handlers' \in Seq(Activation)
        /\ handlers' # <<>>
        /\ Top'.at = 2
        /\ Top'.eax = pit_ticks
        /\ OuterHandlersDone'
    BY <2>1, <2>3, AdvanceStep
  <2>5. TypeOK'
    BY <2>2, <2>4 DEF TypeOK
  <2>6. InServiceUntilEoi' /\ LoadedIsFresh'
    BY <2>1, <2>2, <2>4 DEF InServiceUntilEoi, LoadedIsFresh
  <2>7. Counted'
    BY <2>1, <2>2, <2>4 DEF Counted, WrittenBack, U32
  <2> QED  BY <2>4, <2>5, <2>6, <2>7
<1>4. CASE StoreTicks
  <2>1. handlers # <<>> /\ Top.at = 2 /\ Advance(Top.eax) /\ pit_ticks' = U32(Top.eax + 1)
    BY <1>4, TopOfStack DEF StoreTicks, Running
  <2>2. UNCHANGED <<IF_flag, irr, isr, main, e_ticks, slept, accepted>>
    BY <1>4 DEF StoreTicks, hardware, thread
  <2>3. Top.eax \in 0 .. TickMod - 1 /\ Top.eax = pit_ticks
    BY <2>1, TopOfStack DEF LoadedIsFresh
  <2>4. /\ handlers' \in Seq(Activation)
        /\ handlers' # <<>>
        /\ Top'.at = 3
        /\ OuterHandlersDone'
    BY <2>1, <2>3, AdvanceStep
  <2>5. pit_ticks' \in 0 .. TickMod - 1
    <3>1. Top.eax + 1 \in Nat
      BY <2>3
    <3> QED  BY <2>1, <3>1, WordRange
  <2>6. TypeOK'
    BY <2>2, <2>4, <2>5 DEF TypeOK
  <2>7. InServiceUntilEoi' /\ LoadedIsFresh'
    BY <2>1, <2>2, <2>4 DEF InServiceUntilEoi, LoadedIsFresh
  <2>8. accepted - 1 \in Nat /\ accepted \in Nat
    BY <2>1 DEF Counted, TypeOK
  <2>9. pit_ticks = U32(accepted - 1) /\ pit_ticks' = U32(U32(accepted - 1) + 1)
    BY <2>1, <2>3 DEF Counted, WrittenBack
  <2>10. pit_ticks' = U32(accepted)
    <3>1. U32(U32(accepted - 1) + 1) = U32(accepted - 1 + 1)
      BY <2>8, WrappedIncrement
    <3>2. accepted - 1 + 1 = accepted
      BY <2>8
    <3> QED  BY <2>9, <3>1, <3>2
  <2>11. Counted'
    BY <2>1, <2>2, <2>4, <2>10 DEF Counted, WrittenBack, U32
  <2> QED  BY <2>4, <2>6, <2>7, <2>11
<1>5. CASE lapic_send_eoi
  <2>1. handlers # <<>> /\ Top.at = 3 /\ Advance(Top.eax) /\ isr' = FALSE
    BY <1>5, TopOfStack DEF lapic_send_eoi, Running
  <2>2. UNCHANGED <<IF_flag, irr, pit_ticks, main, e_ticks, slept, accepted>>
    BY <1>5 DEF lapic_send_eoi, thread
  <2>3. Top.eax \in 0 .. TickMod - 1
    BY <2>1, TopOfStack
  <2>4. /\ handlers' \in Seq(Activation)
        /\ handlers' # <<>>
        /\ Top'.at = 4
        /\ OuterHandlersDone'
    BY <2>1, <2>3, AdvanceStep
  <2>5. TypeOK'
    BY <2>1, <2>2, <2>4 DEF TypeOK
  <2>6. InServiceUntilEoi' /\ LoadedIsFresh'
    BY <2>1, <2>4 DEF InServiceUntilEoi, LoadedIsFresh
  <2>7. Counted'
    BY <2>1, <2>2, <2>4 DEF Counted, WrittenBack, U32
  <2> QED  BY <2>4, <2>5, <2>6, <2>7
<1>6. CASE Iret
  <2>1. /\ handlers # <<>>
        /\ Top.at = 4
        /\ Top.saved \in BOOLEAN
        /\ IF_flag' = Top.saved
        /\ handlers' = SubSeq(handlers, 1, Len(handlers) - 1)
    BY <1>6, TopOfStack DEF Iret, Running
  <2>2. UNCHANGED <<irr, isr, pit_ticks, main, e_ticks, slept, accepted>>
    BY <1>6 DEF Iret, thread
  <2>3. /\ handlers' \in Seq(Activation)
        /\ handlers' # <<>> => Top'.at = 4
        /\ OuterHandlersDone'
    BY <2>1, PopStep
  <2>4. TypeOK'
    BY <2>1, <2>2, <2>3 DEF TypeOK
  <2>5. InServiceUntilEoi' /\ LoadedIsFresh'
    BY <2>1, <2>2, <2>3 DEF InServiceUntilEoi, LoadedIsFresh
  <2>6. Counted'
    BY <2>1, <2>2, <2>3 DEF Counted, WrittenBack, U32
  <2> QED  BY <2>3, <2>4, <2>5, <2>6
<1>7. CASE sti
  <2>1. UNCHANGED <<irr, isr, handlers, pit_ticks, e_ticks, accepted, slept>>
    BY <1>7 DEF sti
  <2>2. TypeOK'
    BY <1>7, <2>1 DEF sti, TypeOK
  <2> QED  BY <2>1, <2>2 DEF OuterHandlersDone, InServiceUntilEoi, LoadedIsFresh,
                             Counted, WrittenBack, Top, U32
<1>8. ASSUME NEW n \in Sleeps, pit_sleep(n)
      PROVE  IInv'
  <2>1. /\ UNCHANGED <<IF_flag, irr, isr, handlers, pit_ticks, accepted>>
        /\ main' = "asleep"
        /\ e_ticks' = U32(pit_ticks + n)
        /\ slept' = [ticks |-> n, from |-> accepted]
    BY <1>8 DEF pit_sleep, hardware
  <2>2. n \in Nat /\ pit_ticks + n \in Nat /\ accepted \in Nat
    BY TimerAssumption DEF TypeOK
  <2>3. e_ticks' \in 0 .. TickMod - 1
    BY <2>1, <2>2, WordRange
  <2>4. TypeOK'
    BY <2>1, <2>2, <2>3 DEF TypeOK
  <2> QED  BY <2>1, <2>4 DEF OuterHandlersDone, InServiceUntilEoi, LoadedIsFresh,
                             Counted, WrittenBack, Top, U32
<1>9. CASE Wake
  <2>1. UNCHANGED <<IF_flag, irr, isr, handlers, pit_ticks, e_ticks, accepted, slept>>
    BY <1>9 DEF Wake, hardware
  <2>2. TypeOK'
    BY <1>9, <2>1 DEF Wake, TypeOK
  <2> QED  BY <2>1, <2>2 DEF OuterHandlersDone, InServiceUntilEoi, LoadedIsFresh,
                             Counted, WrittenBack, Top, U32
<1>10. CASE UNCHANGED vars
  BY <1>10 DEF vars, TypeOK, OuterHandlersDone, InServiceUntilEoi, LoadedIsFresh,
               Counted, WrittenBack, Top, U32
<1> QED
  BY <1>1, <1>2, <1>3, <1>4, <1>5, <1>6, <1>7, <1>8, <1>9, <1>10 DEF Next, Handler

LEMMA InvariantHolds == Spec => []IInv
BY InitInvariant, NextInvariant, PTL DEF Spec

(* Every variable keeps its type: pit_ticks never leaves uint32_t.         *)
THEOREM TypeCorrect == Spec => []TypeOK
<1>1. IInv => TypeOK
  BY DEF IInv
<1> QED  BY <1>1, InvariantHolds, PTL

(* irq0's read-modify-write of pit_ticks is never entered twice, although  *)
(* the trap gate leaves interrupts enabled in the handler.                 *)
THEOREM CriticalSection == Spec => []OneUpdateAtATime
<1>1. IInv => OneUpdateAtATime
  BY DEF IInv, OneUpdateAtATime, OuterHandlersDone
<1> QED  BY <1>1, InvariantHolds, PTL

(* pit_ticks is the number of accepted timer interrupts, modulo its width, *)
(* less the one whose update is under way.                                 *)
THEOREM NoTickLost == Spec => []TicksCounted
<1>1. IInv => TicksCounted
  <2> SUFFICES ASSUME IInv PROVE TicksCounted
    OBVIOUS
  <2>1. CASE handlers # <<>> /\ Top.at <= 2
    <3>1. Len(handlers) \in Uncounted
      BY <2>1, TopOfStack DEF IInv, Uncounted, Top
    <3> QED  BY <2>1, <3>1 DEF IInv, Counted, WrittenBack, TicksCounted
  <2>2. CASE ~(handlers # <<>> /\ Top.at <= 2)
    <3>1. Uncounted = {}
      BY <2>2 DEF IInv, OuterHandlersDone, Uncounted, Top
    <3>2. accepted - 0 = accepted
      BY DEF IInv, TypeOK
    <3> QED  BY <2>2, <3>1, <3>2 DEF IInv, Counted, WrittenBack, TicksCounted
  <2> QED  BY <2>1, <2>2
<1> QED  BY <1>1, InvariantHolds, PTL

-----------------------------------------------------------------------------
(* While the tick counter has not wrapped, pit_sleep's deadline is exact.  *)
DeadlineExact ==
  /\ accepted <= MaxTicks
  /\ irr => accepted < MaxTicks
  /\ main = "asleep" =>
       /\ slept.from + slept.ticks <= MaxTicks
       /\ e_ticks = slept.from + slept.ticks

(* Below the width of the counter nothing is wrapped. *)
LEMMA NoWrap ==
  ASSUME NEW n \in 0 .. TickMod - 1
  PROVE  U32(n) = n
<1>1. n = TickMod * 0 + n /\ TickMod \in Nat \ {0}
  BY TimerAssumption
<1> QED  BY <1>1, Remainder DEF U32

LEMMA DeadlineStep ==
  ASSUME MaxTicks < TickMod
  PROVE  IInv /\ DeadlineExact /\ [Next]_vars => DeadlineExact'
<1> SUFFICES ASSUME IInv, DeadlineExact, [Next]_vars
             PROVE  DeadlineExact'
  OBVIOUS
<1>0. /\ accepted \in Nat
      /\ MaxTicks \in Nat
      /\ TickMod \in Nat \ {0}
      /\ main \in {"boot", "awake", "asleep"}
  BY TimerAssumption DEF IInv, TypeOK
<1>1. CASE PitEdge
  BY <1>1 DEF PitEdge, thread, DeadlineExact
<1>2. CASE Accept
  <2>1. accepted' = accepted + 1 /\ irr /\ ~irr' /\ UNCHANGED <<main, e_ticks, slept>>
    BY <1>2 DEF Accept, thread
  <2> QED  BY <1>0, <2>1 DEF DeadlineExact
<1>3. CASE Handler
  BY <1>3 DEF Handler, LoadTicks, StoreTicks, lapic_send_eoi, Iret, hardware,
              thread, DeadlineExact
<1>4. CASE sti
  BY <1>4 DEF sti, DeadlineExact
<1>5. ASSUME NEW n \in Sleeps, pit_sleep(n)
      PROVE  DeadlineExact'
  <2>1. /\ UNCHANGED <<irr, accepted>>
        /\ handlers = <<>>
        /\ accepted + n <= MaxTicks
        /\ e_ticks' = U32(pit_ticks + n)
        /\ slept' = [ticks |-> n, from |-> accepted]
    BY <1>5 DEF pit_sleep, hardware
  <2>2. pit_ticks = accepted
    <3>1. pit_ticks = U32(accepted)
      BY <2>1 DEF IInv, Counted, WrittenBack
    <3>2. accepted \in 0 .. TickMod - 1
      BY <1>0 DEF DeadlineExact
    <3> QED  BY <3>1, <3>2, NoWrap
  <2>3. n \in Nat
    BY TimerAssumption
  <2>4. e_ticks' = accepted + n
    <3>1. accepted + n \in 0 .. TickMod - 1
      BY <1>0, <2>1, <2>3
    <3> QED  BY <2>1, <2>2, <3>1, NoWrap
  <2> QED  BY <2>1, <2>3, <2>4 DEF DeadlineExact
<1>6. CASE Wake
  BY <1>6 DEF Wake, hardware, DeadlineExact
<1>7. CASE UNCHANGED vars
  BY <1>7 DEF vars, DeadlineExact
<1> QED  BY <1>1, <1>2, <1>3, <1>4, <1>5, <1>6, <1>7 DEF Next

(* pit_sleep(n) returns only after n interrupts were accepted during the   *)
(* call, as long as the system does not run for 2^32 ticks.                *)
THEOREM SleepIsLongEnough ==
  ASSUME MaxTicks < TickMod
  PROVE  Spec => SleepLasts
<1>1. Init => DeadlineExact
  BY TimerAssumption DEF Init, DeadlineExact
<1>2. IInv /\ DeadlineExact /\ [Next]_vars => DeadlineExact'
  BY DeadlineStep
<1>3. IInv /\ DeadlineExact /\ [Next]_vars
        => [(main = "asleep" /\ main' = "awake")
              => accepted - slept.from >= slept.ticks]_vars
  <2> SUFFICES ASSUME IInv, DeadlineExact, Next, main = "asleep", main' = "awake"
               PROVE  accepted - slept.from >= slept.ticks
    BY DEF vars
  <2>1. CASE Wake
    <3>1. handlers = <<>> /\ pit_ticks >= e_ticks
      BY <2>1 DEF Wake, Expired
    <3>2. /\ accepted \in 0 .. TickMod - 1
          /\ slept.from \in Nat
          /\ slept.ticks \in Nat
          /\ e_ticks = slept.from + slept.ticks
      BY TimerAssumption DEF IInv, TypeOK, DeadlineExact
    <3>3. pit_ticks = U32(accepted)
      BY <3>1 DEF IInv, Counted, WrittenBack
    <3>4. pit_ticks = accepted
      BY <3>2, <3>3, NoWrap
    <3> QED  BY <3>1, <3>2, <3>4
  <2>2. CASE ~Wake
    BY <2>2 DEF Next, PitEdge, Accept, Handler, LoadTicks, StoreTicks,
                lapic_send_eoi, Iret, sti, pit_sleep, thread
  <2> QED  BY <2>1, <2>2
<1> QED  BY <1>1, <1>2, <1>3, InvariantHolds, PTL DEF Spec, SleepLasts
=============================================================================
