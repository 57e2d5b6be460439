--------------------------- MODULE MCWritePipeline ---------------------------
(***************************************************************************)
(* Small instances of the writing pipeline: three data frames in two       *)
(* slices (0 1 | 2) and the archive_end frame 3.                           *)
(***************************************************************************)
EXTENDS WritePipeline

MCSliceEnds == {1, 2}
=============================================================================
