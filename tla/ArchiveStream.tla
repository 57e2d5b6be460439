---------------------------- MODULE ArchiveStream ----------------------------
(***************************************************************************)
(* One archive as its producer emits it: data frames numbered from 0 by    *)
(* their global_frame_seq_num, some of which are the last of their slice,  *)
(* and after all of them the archive_end frame, whose number is EndSeq.    *)
(* The producer hands the server frames, a tape_eof item after each slice  *)
(* and one done item; the server builds the archive_end frame from the     *)
(* latter.  Payloads, hashes and signatures are abstracted to the number.  *)
(***************************************************************************)
EXTENDS Naturals, Sequences, FiniteSets

CONSTANTS
    NumFrames,      \* data frames of the archive, 0 for an empty input
    SliceEnds       \* numbers of the frames that end a slice

ASSUME StreamAssumption ==
    /\ NumFrames \in Nat
    /\ SliceEnds \subseteq 0 .. NumFrames - 1
    /\ NumFrames > 0 => NumFrames - 1 \in SliceEnds

EndSeq == NumFrames
DataSeqs == 0 .. NumFrames - 1
FrameSeqs == 0 .. EndSeq

(***************************************************************************)
(* A VolumeRecord.  seq is the builder's next global number when the item  *)
(* was pushed: a frame's own number, and the archive_end number of done.   *)
(* Nothing reads it in a tape_eof item, where the code stores 0; here it   *)
(* tells how far the queue has been emptied.                               *)
(***************************************************************************)
FrameItem(n) == [kind |-> "frame", seq |-> n]
EofItem(n)   == [kind |-> "tape_eof", seq |-> n]
DoneItem(n)  == [kind |-> "done", seq |-> n]

Items == [kind : {"frame", "tape_eof", "done"}, seq : FrameSeqs]
=============================================================================
