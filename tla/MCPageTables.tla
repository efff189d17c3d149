---------------------------- MODULE MCPageTables ----------------------------
(* A small machine for PageTables: tables of 2, 2, 2 and 12 entries, and a  *)
(* bootloader that maps the twelve frames of RAM one to one.                *)
EXTENDS PageTables

MCFan == <<2, 2, 2, 12>>

F(n) == <<0, 0, 0, n>>

Root == F(1)
Pdpt == F(2)
Pd == F(3)
Pt == F(4)

(* The bootloader's tables, with or without a mapping of the NULL page.    *)
BootTable(f, low) ==
  CASE f = Root -> [i \in {0} |-> Pdpt]
    [] f = Pdpt -> [i \in {0} |-> Pd]
    [] f = Pd   -> [i \in {0} |-> Pt]
    [] f = Pt   -> [i \in low .. 11 |-> F(i)]
    [] OTHER    -> [i \in 0 .. 1 |-> F(11)]

MCBootMems == {[f \in Page |-> BootTable(f, low)] : low \in {0, 1}}

(* Enough frames for the requests below, and one too few. *)
Plenty == {F(n) : n \in 5 .. 10}
Scarce == {F(n) : n \in 5 .. 8}

High == <<1, 0, 0, 3>>
Near == <<1, 0, 1, 3>>
Low == <<0, 0, 1, 7>>

(* Or none at all, when vmm_init starts. *)
MCPools == {Scarce, {}}
PlentyPools == {Plenty}

(* Pages above RAM, and the NULL page: kheap_init asks for the page of     *)
(* address 0x500.                                                          *)
AboveRam == {NULL, High, Near, Low, F(9)}
Heap == {NULL, High, Low}
=============================================================================
