---------------------------- MODULE AddressSpace ----------------------------
(***************************************************************************)
(* What the virtual memory manager promises, with no page table in sight:  *)
(* one map from pages to frames.  It starts as the bootloader's map, loses *)
(* the NULL page once, and from then on only grows, one requested page at  *)
(* a time, each mapped to the frame of the same address.                   *)
(***************************************************************************)
CONSTANTS
  Page,   \* page addresses, which are frame addresses too
  NULL

VARIABLES
  ready,    \* the NULL page has been taken out
  space,    \* the map, a function on the mapped pages
  pending   \* the page whose request is being served, if any

vars == <<ready, space, pending>>

Mapped == DOMAIN space

Init ==
  /\ ready = FALSE
  /\ Mapped \subseteq Page
  /\ space = [p \in Mapped |-> p]
  /\ pending = {}

Protect ==
  /\ ~ready
  /\ ready' = TRUE
  /\ space' = [p \in Mapped \ {NULL} |-> space[p]]
  /\ UNCHANGED pending

Request(p) ==
  /\ ready
  /\ pending = {}
  /\ pending' = {p}
  /\ UNCHANGED <<ready, space>>

(* A request ends with its page mapped; a page mapped before keeps its     *)
(* frame.                                                                  *)
Complete(p) ==
  /\ p \in pending
  /\ pending' = {}
  /\ space' = [q \in Mapped \union {p} |-> IF q \in Mapped THEN space[q] ELSE q]
  /\ UNCHANGED ready

Next == Protect \/ \E p \in Page : Request(p) \/ Complete(p)

Spec == Init /\ [][Next]_vars
=============================================================================
