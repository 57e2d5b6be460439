--------------------------- MODULE DurableArchive ---------------------------
(***************************************************************************)
(* What the write path promises to whoever watches acknowledgements only:  *)
(* frames become durable in whatever way, are counted one after the other  *)
(* when they are, and the archive is over when the last one is counted.    *)
(***************************************************************************)
EXTENDS Naturals

CONSTANT EndSeq         \* the number of the archive_end frame

VARIABLES
    held,               \* frames that are on a medium
    taken,              \* frames counted as acknowledged: 0 to taken - 1
    over

vars == <<held, taken, over>>

Init == held = {} /\ taken = 0 /\ over = FALSE

\* A medium may hold frames nobody counts, and none is ever lost.
Hold ==
    /\ held \subseteq held' /\ held' \subseteq 0 .. EndSeq
    /\ UNCHANGED <<taken, over>>

Count ==
    /\ ~over /\ taken \in held
    /\ taken' = taken + 1
    /\ over' \in {FALSE, taken = EndSeq}
    /\ UNCHANGED held

Next == Hold \/ Count

Spec == Init /\ [][Next]_vars
=============================================================================
