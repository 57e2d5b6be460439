---------------------------- MODULE FrameBuilder ----------------------------
(***************************************************************************)
(* FrameBuilder as operators on its state b, a record; out is the queue of *)
(* VolumeRecords its caller fills.  Payload bytes are tagged units, of     *)
(* which a frame holds Capacity.  A frame has the fields FrameValidator    *)
(* reads; its hash is computed when the server assigns it a volume.        *)
(***************************************************************************)
EXTENDS Naturals, Sequences

CONSTANT Capacity           \* payload_capacity

ASSUME CapacityAssumption == Capacity \in Nat \ {0}

NewBuilder == [global |-> 0, slice |-> 0, channel |-> "content", chSeq |-> 0,
               pending |-> <<>>, out |-> <<>>]

BeginChannel(b, s, c) == [b EXCEPT !.slice = s, !.channel = c, !.chSeq = 0]

\* The i-th frame built from here on.
BuildFrame(b, i, payload, final) ==
    [archive |-> "archive", seq |-> b.global + i - 1, slice |-> b.slice,
     channel |-> b.channel, chSeq |-> b.chSeq + i - 1, end |-> final,
     body |-> payload, check |-> "ok"]

\* Cuts k full frames off the bytes; the rest stays pending.
CutFrames(b, bytes, k) ==
    [b EXCEPT !.global = @ + k, !.chSeq = @ + k,
              !.pending = SubSeq(bytes, k * Capacity + 1, Len(bytes)),
              !.out = @ \o [i \in 1 .. k |->
                  BuildFrame(b, i, SubSeq(bytes, (i - 1) * Capacity + 1,
                                          i * Capacity), FALSE)]]

\* Mutant: a frame is built as soon as it is full.
FeedEagerly(b, bytes) ==
    LET all == b.pending \o bytes
    IN  CutFrames(b, all, Len(all) \div Capacity)

\* A full frame is built only when a further byte has come: the run's last
\* bytes are left for the frame that carries END.
Feed(b, bytes) ==
    LET all == b.pending \o bytes
    IN  IF all = <<>> THEN b
        ELSE CutFrames(b, all, (Len(all) - 1) \div Capacity)

Flush(b) ==
    IF b.pending = <<>> THEN b
    ELSE [b EXCEPT !.global = @ + 1, !.chSeq = @ + 1, !.pending = <<>>,
                   !.out = Append(@, BuildFrame(b, 1, b.pending, TRUE))]

\* build_archive_end_record, with the number the done item carries.
ArchiveEnd(b) ==
    [archive |-> "archive", seq |-> b.global, slice |-> 0,
     channel |-> "archive_end", chSeq |-> 0, end |-> TRUE, body |-> <<>>,
     check |-> "ok"]
=============================================================================
