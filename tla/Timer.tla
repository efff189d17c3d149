------------------------------- MODULE Timer --------------------------------
(***************************************************************************)
(* The timer interrupt: IRQ 0 (interrupts/irq.c) counts PIT edges in       *)
(* pit_ticks, and pit_sleep (timer/pit.c) spins on that counter from the   *)
(* interrupted thread.  The gate the interrupt goes through is the one     *)
(* set_idt_desc (interrupts/IDT.c) writes, and the end of the interrupt is *)
(* signalled by lapic_send_eoi (pic/lapic.c).                              *)
(*                                                                         *)
(* The counter is read and written back in two machine steps, as the       *)
(* unoptimised build of kernel/buildall.sh does, and the handler may be    *)
(* interrupted between any two of its own steps.                           *)
(***************************************************************************)
EXTENDS Integers, Sequences

CONSTANTS
  TickMod,   \* number of values of pit_ticks (2^32 for uint32_t)
  Sleeps,    \* the arguments pit_sleep is called with
  MaxTicks   \* bound: timer interrupts accepted since power-on

ASSUME TimerAssumption ==
  /\ TickMod \in Nat \ {0}
  /\ MaxTicks \in Nat
  /\ Sleeps \subseteq Nat

VARIABLES
  IF_flag,    \* the processor's interrupt flag
  irr,        \* local APIC: vector 0x20 is requested
  isr,        \* local APIC: vector 0x20 is in service, no EOI seen yet
  handlers,   \* activations of irq0, innermost last
  pit_ticks,
  main,       \* the interrupted kernel thread
  e_ticks,    \* pit_sleep's local: the tick it waits for
  accepted,   \* history: interrupts the processor has accepted
  slept       \* history: the argument and start of the current pit_sleep

hardware == <<IF_flag, irr, isr>>
thread == <<main, e_ticks, slept>>
vars == <<IF_flag, irr, isr, handlers, pit_ticks, main, e_ticks, accepted,
          slept>>

-----------------------------------------------------------------------------
TRAP_GATE_FLAGS == 143
INT_GATE_FLAGS == 142
IntGate == 14
TrapGate == 15

(* The gate type set_idt_desc stores.  Its flags argument is not used.     *)
set_idt_desc(flags) == TrapGate

(* Accepting an interrupt clears the flag only through an interrupt gate.  *)
irq0_gate == set_idt_desc(INT_GATE_FLAGS)

irq0_EoiFirst == <<"eoi", "load", "store", "iret">>
irq0_EoiTwice == <<"load", "store", "eoi", "eoi">>
irq0_NoEoi == <<"load", "store", "iret">>

(* The machine steps of irq0: pit_ticks++ is a load and a store.           *)
irq0 == <<"load", "store", "eoi", "iret">>

Activation == [at : 1 .. 4, eax : 0 .. TickMod - 1, saved : BOOLEAN]

Top == handlers[Len(handlers)]
Step(h) == irq0[h.at]

(* The next step of the innermost activation, which leaves it at step      *)
(* at + 1 with eax.                                                        *)
Running(step) == handlers # <<>> /\ Step(Top) = step

Advance(eax) ==
  handlers' = [handlers EXCEPT ![Len(handlers)] =
                 [at |-> Top.at + 1, eax |-> eax, saved |-> Top.saved]]

(* Addition on uint32_t. *)
U32(x) == x % TickMod

-----------------------------------------------------------------------------
(* An edge of the PIT reaches the local APIC.  An edge that finds the      *)
(* request already pending merges with it and changes nothing.             *)
PitEdge ==
  /\ ~irr
  /\ accepted < MaxTicks
  /\ irr' = TRUE
  /\ UNCHANGED <<IF_flag, isr, handlers, pit_ticks, thread, accepted>>

(* The processor accepts vector 0x20 unless one is still in service.       *)
Accept ==
  /\ IF_flag
  /\ irr
  /\ ~isr
  /\ irr' = FALSE
  /\ isr' = TRUE
  /\ IF_flag' = (irq0_gate # IntGate)
  /\ handlers' = Append(handlers, [at |-> 1, eax |-> 0, saved |-> IF_flag])
  /\ accepted' = accepted + 1
  /\ UNCHANGED <<pit_ticks, thread>>

LoadTicks ==
  /\ Running("load")
  /\ Advance(pit_ticks)
  /\ UNCHANGED <<hardware, pit_ticks, thread, accepted>>

StoreTicks ==
  /\ Running("store")
  /\ pit_ticks' = U32(Top.eax + 1)
  /\ Advance(Top.eax)
  /\ UNCHANGED <<hardware, thread, accepted>>

lapic_send_eoi ==
  /\ Running("eoi")
  /\ isr' = FALSE
  /\ Advance(Top.eax)
  /\ UNCHANGED <<IF_flag, irr, pit_ticks, thread, accepted>>

Iret ==
  /\ Running("iret")
  /\ IF_flag' = Top.saved
  /\ handlers' = SubSeq(handlers, 1, Len(handlers) - 1)
  /\ UNCHANGED <<irr, isr, pit_ticks, thread, accepted>>

(* The kernel thread runs only while no activation of irq0 does. *)
sti ==
  /\ main = "boot"
  /\ IF_flag' = TRUE
  /\ main' = "awake"
  /\ UNCHANGED <<irr, isr, handlers, pit_ticks, e_ticks, accepted, slept>>

(* pit_sleep up to its loop; the sum is 32 bits wide before it is widened. *)
pit_sleep(n) ==
  /\ main = "awake"
  /\ handlers = <<>>
  /\ accepted + n <= MaxTicks
  /\ e_ticks' = U32(pit_ticks + n)
  /\ main' = "asleep"
  /\ slept' = [ticks |-> n, from |-> accepted]
  /\ UNCHANGED <<hardware, handlers, pit_ticks, accepted>>

Expired_Early == pit_ticks + 1 >= e_ticks

(* The condition that ends while (pit_ticks < e_ticks). *)
Expired == pit_ticks >= e_ticks

Wake ==
  /\ main = "asleep"
  /\ handlers = <<>>
  /\ Expired
  /\ main' = "awake"
  /\ UNCHANGED <<hardware, handlers, pit_ticks, e_ticks, accepted, slept>>

-----------------------------------------------------------------------------
Init ==
  /\ IF_flag = FALSE
  /\ irr = FALSE
  /\ isr = FALSE
  /\ handlers = <<>>
  /\ pit_ticks = 0
  /\ main = "boot"
  /\ e_ticks = 0
  /\ accepted = 0
  /\ slept = [ticks |-> 0, from |-> 0]

Handler == LoadTicks \/ StoreTicks \/ lapic_send_eoi \/ Iret

Next ==
  \/ PitEdge
  \/ Accept
  \/ Handler
  \/ sti
  \/ \E n \in Sleeps : pit_sleep(n)
  \/ Wake

(* The PIT runs freely, the processor accepts what it can, and a thread    *)
(* that can execute its next instruction does.                             *)
Fairness ==
  /\ WF_vars(PitEdge)
  /\ WF_vars(Accept)
  /\ WF_vars(Handler)
  /\ WF_vars(sti)
  /\ WF_vars(Wake)

Spec == Init /\ [][Next]_vars
FairSpec == Spec /\ Fairness

-----------------------------------------------------------------------------
TypeOK ==
  /\ IF_flag \in BOOLEAN
  /\ irr \in BOOLEAN
  /\ isr \in BOOLEAN
  /\ handlers \in Seq(Activation)
  /\ pit_ticks \in 0 .. TickMod - 1
  /\ main \in {"boot", "awake", "asleep"}
  /\ e_ticks \in 0 .. TickMod - 1
  /\ accepted \in Nat
  /\ slept \in [ticks : Nat, from : Nat]

(* Activations that have not written their tick back yet. *)
Uncounted == {i \in DOMAIN handlers : handlers[i].at <= 2}

(* The counter update of irq0 is a critical section although nothing masks *)
(* interrupts around it (the gate is a trap gate): while an activation is  *)
(* before its end-of-interrupt no other one starts.                        *)
OneUpdateAtATime ==
  \A i, j \in DOMAIN handlers :
    (handlers[i].at <= 3 /\ handlers[j].at <= 3) => i = j

(* No accepted tick is lost to a nested interrupt: pit_ticks is the number *)
(* of accepted interrupts, less the one whose update is under way, even    *)
(* when the 32-bit counter wraps around.                                   *)
TicksCounted ==
  pit_ticks = U32(accepted - (IF Uncounted = {} THEN 0 ELSE 1))

(* pit_sleep(n) returns only after n ticks were counted during the call.   *)
SleepLasts ==
  [][(main = "asleep" /\ main' = "awake")
       => accepted - slept.from >= slept.ticks]_vars

(* Every pit_sleep returns. *)
SleepEnds == (main = "asleep") ~> (main = "awake")
=============================================================================
