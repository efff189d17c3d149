----------------------------- MODULE MCSmpBoot ------------------------------
(* Machines for what the code says of SmpBoot.                             *)
EXTENDS SmpBoot

Nothing == <<Other(0)>>
M(records, bsp) == [records |-> records, after |-> Nothing, bsp |-> bsp]

One == M(<<LocalApic(0, 0)>>, 0)
Three == M(<<LocalApic(0, 0), LocalApic(1, 1), IoApicAt(1, 0), LocalApic(2, 2)>>, 0)
BspLast == M([k \in 1 .. 4 |-> LocalApic(4 - k, 4 - k)], 0)

MCMachines == {One, Three, BspLast}

MCStray == {0}
=============================================================================
