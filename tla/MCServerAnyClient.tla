-------------------------- MODULE MCServerAnyClient --------------------------
(* Small instances: three data frames in two slices (0 1 | 2). *)
EXTENDS ServerAnyClient

MCSliceEnds == {1, 2}
=============================================================================
