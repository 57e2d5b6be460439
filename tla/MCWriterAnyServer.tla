-------------------------- MODULE MCWriterAnyServer --------------------------
(* Small instances: three data frames in two slices (0 1 | 2). *)
EXTENDS WriterAnyServer

MCSliceEnds == {1, 2}
=============================================================================
