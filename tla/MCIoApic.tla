------------------------------ MODULE MCIoApic ------------------------------
(* A chip of three pins, and the entries a firmware leaves behind. *)
EXTENDS IoApic

Row(m, v, d) == [masked |-> m, vector |-> v, dest |-> d]

MCRows == {Row(TRUE, 0, 1), Row(FALSE, 8, 1), Row(TRUE, 0, 0)}

M(overrides, after) ==
  [records |-> <<LocalApic(0, 0), LocalApic(1, 1), IoApicAt(1, 0)>> \o overrides,
   after |-> after \o <<Other(0)>>, bsp |-> 0]

Plain == M(<<>>, <<>>)

(* A boot processor that is not APIC ID 0. *)
Far == [Plain EXCEPT !.bsp = 1]

(* What follows the table looks like overrides of IRQ 0: of a pin there is, *)
(* of one there is not, and of one whose registers wrap round to those of   *)
(* the first.                                                               *)
Littered == {M(<<>>, <<Override(0, n)>>) : n \in {1, 7, 128}}

(* A second chip, further down the numbering, which the kernel uses. *)
TwoChips == M(<<IoApicAt(2, 3)>>, <<>>)

MCMachines ==
  {Plain, Far, TwoChips,
   M(<<Override(9, 1), Override(0, 2)>>, <<Override(0, 1)>>),
   M(<<Override(9, 0), Override(0, 2)>>, <<>>),
   [M(<<Override(0, 1), Override(0, 2)>>, <<>>) EXCEPT !.bsp = 1]} \union Littered
=============================================================================
