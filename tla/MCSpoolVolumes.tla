--------------------------- MODULE MCSpoolVolumes ---------------------------
(***************************************************************************)
(* A spool directory, archives of three data frames in two slices.         *)
(***************************************************************************)
EXTENDS SpoolVolumes

F(t) == [kind |-> "frame", type |-> t]

MCStream ==
    << F("slice-0"), F("slice-0"), [kind |-> "mark"],
       F("slice-1"), [kind |-> "mark"], F("archive-end") >>
=============================================================================
