----------------------------- MODULE MCPhysMem ------------------------------
(* Small memory maps for PhysMem. *)
EXTENDS PhysMem

E(first, pages, t) ==
  [base |-> first * PAGE_SIZE, length |-> pages * PAGE_SIZE, type |-> t]

Low  == E(1, 2, "USABLE")
Mid  == E(4, 1, "USABLE")
High == E(8, 3, "USABLE")
None == E(6, 0, "USABLE")
Rom  == [base |-> 100, length |-> 5000, type |-> "RESERVED"]
Boot == E(12, 2, "BOOTLOADER_RECLAIMABLE")
Kern == E(16, 1, "KERNEL_AND_MODULES")

(* Usable entries first, last, in the middle, out of address order, empty, *)
(* adjacent to one another, and maps with nothing to give.                 *)
MCMemMaps ==
  { <<Low, Rom, High, Boot>>,
    <<Rom, High, Kern, Low, None, Mid>>,
    <<None, Kern, E(1, 1, "USABLE"), E(2, 2, "USABLE"), Boot>>,
    <<Boot, Rom, Kern>>,
    <<>> }

MCWordMod == 1000000000
=============================================================================
