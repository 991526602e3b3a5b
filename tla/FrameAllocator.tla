--------------------------- MODULE FrameAllocator ---------------------------
(***************************************************************************)
(* What pmm.h promises its callers: they lend memory, frames of it are     *)
(* handed out to one caller at a time and come back.  Pmm.tla implements   *)
(* it on addresses, with one frame too many lent by each region.           *)
(***************************************************************************)
CONSTANT Frame

VARIABLES
  lent,    \* the memory of the regions in the manager's care
  avail,   \* what of it can be handed out
  held     \* what of it callers hold

vars == << lent, avail, held >>

Init == lent = {} /\ avail = {} /\ held = {}

AddRegion(S) ==
  /\ S \cap lent = {}
  /\ lent' = lent \cup S
  /\ avail' = avail \cup S
  /\ UNCHANGED held

RemoveRegion(S) ==
  /\ S \subseteq avail
  /\ lent' = lent \ S
  /\ avail' = avail \ S
  /\ UNCHANGED held

Grant(S) ==
  /\ S \subseteq avail
  /\ avail' = avail \ S
  /\ held' = held \cup S
  /\ UNCHANGED lent

Release(S) ==
  /\ S \subseteq held
  /\ held' = held \ S
  /\ avail' = avail \cup S
  /\ UNCHANGED lent

Next == \E S \in SUBSET Frame :
          AddRegion(S) \/ RemoveRegion(S) \/ Grant(S) \/ Release(S)

Spec == Init /\ [][Next]_vars
=============================================================================
