--------------------------- MODULE FrameAllocator ---------------------------
(***************************************************************************)
(* What the physical memory manager promises its callers, with no memory   *)
(* map in sight: a pool of free frames from which every request takes one  *)
(* frame, and a NULL answer only when the pool is empty.                   *)
(***************************************************************************)
CONSTANTS
  Frames,   \* every frame address that a memory map could offer
  NULL      \* the answer when no frame is left

VARIABLES
  free,     \* frames nobody owns
  granted,  \* frames handed out so far
  ret       \* answer to the last request

vars == <<free, granted, ret>>

Init ==
  /\ free \in SUBSET Frames
  /\ granted = {}
  /\ ret = NULL

Grant(f) ==
  /\ f \in free
  /\ free' = free \ {f}
  /\ granted' = granted \union {f}
  /\ ret' = f

Refuse ==
  /\ free = {}
  /\ ret' = NULL
  /\ UNCHANGED <<free, granted>>

Next == Refuse \/ \E f \in Frames : Grant(f)

Spec == Init /\ [][Next]_vars
=============================================================================
