----------------------------- MODULE MCPlanner ------------------------------
(***************************************************************************)
(* Two sources, the second inside the first: a directory of seven names    *)
(* with two subdirectories, one on another device, and a file linked twice. *)
(***************************************************************************)
EXTENDS Planner

MCEntries == {"r", "a", "b", "c", "d", "e", "x", "y", "p", "q"}
MCKind == [n \in MCEntries |-> IF n \in {"r", "a", "e", "p", "d"} THEN "d" ELSE "f"]
MCSize == [n \in MCEntries |-> CASE n = "b" -> 3 [] n = "x" -> 2 [] n \in {"c", "q"} -> 9
                                 [] n = "y" -> 1 [] OTHER -> 0]
MCInode == [n \in MCEntries |-> IF n = "q" THEN "c" ELSE n]
MCDevice == [n \in MCEntries |-> IF n \in {"d", "y"} THEN 2 ELSE 1]
MCChildren == [n \in MCEntries |->
    CASE n = "r" -> <<"a", "b", "c", "d", "e", "p", "x">>
      [] n = "a" -> <<"q">>
      [] n = "d" -> <<"y">>
      [] OTHER -> <<>>]
MCSources == <<"r", "d">>

\* What the theorem about the plan asks of the file system holds of this one.
ASSUME DirectoriesLinkedOnce
=============================================================================
