------------------------------- MODULE MCPci --------------------------------
(* Machines with devices in the first and the last places.                 *)
EXTENDS Pci, TLC

D(v, d, c, s) == [vendor |-> v, device |-> d, class |-> c, subclass |-> s,
                  bar5 |-> <<v + 1, d + 1>>]

Empty == << >>

(* Two controllers of the class asked for, one of another subclass first,  *)
(* one that differs from it in a single bit of its slot.                   *)
Usual == <<0, 0, 0>> :> D(10, 20, 6, 0)
      @@ <<0, 4, 1>> :> D(11, 21, 1, 1)
      @@ <<0, 9, 5>> :> D(12, 22, 1, 6)
      @@ <<0, 31, 7>> :> D(13, 23, 1, 6)
      @@ <<3, 0, 0>> :> D(14, 24, 2, 0)

LastPlace == <<255, 31, 7>> :> D(15, 25, 1, 6)

MCMachines == {Empty, Usual, LastPlace}
MCRequests == {<<1, 6>>, <<2, 0>>, <<255, 255>>}
=============================================================================
