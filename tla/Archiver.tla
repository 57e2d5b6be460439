------------------------------ MODULE Archiver ------------------------------
(***************************************************************************)
(* The archiver's producer: the pax writer, whose callbacks feed a frame   *)
(* builder, which fills the frame queue; and behind the queue a validator: *)
(* the extractor's, which has seen the archive from its first frame and is *)
(* stricter than a writer's, which is seeded.  How the queue ends is the   *)
(* volume server's matter.                                                 *)
(***************************************************************************)
EXTENDS PaxPipeline, FrameBuilder

CONSTANTS
    CatalogUnits,       \* length of the plan file, 0 when it is not written
    QueueCapacity,      \* of the frame queue
    HistoryLimit        \* of the validator

ASSUME ArchiverAssumption ==
    CatalogUnits \in Nat /\ QueueCapacity \in Nat \ {0}

VARIABLES
    builder,        \* the FrameBuilder, and all it has put into the queue
    taken,          \* how many of its records were taken from the queue
    checked,        \* the FrameValidator they were given to
    delivered       \* the bytes the callbacks brought for each slice

archiverVars == <<vars, builder, taken, checked, delivered>>

V == INSTANCE FrameValidator

TapeEof == [channel |-> "tape_eof"]

\* write_catalog: the plan file is the metadata run of slice 0.
Catalog == [i \in 1 .. CatalogUnits |-> <<"plan", i>>]
WriteCatalog(b) ==
    BeginChannel(Flush(Feed(BeginChannel(b, 0, "metadata"), Catalog)),
                 0, "content")

StartBuilder == IF CatalogUnits = 0 THEN NewBuilder ELSE WriteCatalog(NewBuilder)

Units(c) ==
    [i \in 1 .. IF Route(Stream!Contents(plan, c.slice)[c.entry]) = "stream"
                THEN 2 ELSE 1 |-> <<c.slice, c.entry, c.part, i>>]

\* Mutant: the pending bytes wait for the next slice.
EndSliceUnflushed(b) == [b EXCEPT !.out = Append(@, TapeEof)]
EndOfSlice(b) == [Flush(b) EXCEPT !.out = Append(@, TapeEof)]

\* make_server_callbacks.  Slices are numbered from 0.
Callback(b, c) ==
    CASE c.call = "begin_slice" -> BeginChannel(b, c.slice - 1, "content")
      [] c.call = "write_chunk" -> Feed(b, Units(c))
      [] c.call = "end_slice"   -> EndOfSlice(b)

Delivering(c) ==
    IF c.call = "write_chunk"
    THEN [delivered EXCEPT ![c.slice] = @ \o Units(c)] ELSE delivered

\* The pax writer has returned: the done item becomes the archive_end frame.
Finished(b) ==
    LET c == Flush(b) IN [c EXCEPT !.out = Append(@, ArchiveEnd(c))]

\* push_frames waits for room before its first record; the further records of
\* one call are let through.
QueueHasRoom == Len(builder.out) - taken < QueueCapacity

Returns == main # "done" /\ main' = "done"

\* What the builder does in a step of the pax writer.
Feeding ==
    /\ \/ /\ calls' = calls /\ ~Returns
          /\ UNCHANGED <<builder, delivered>>
       \/ /\ calls' # calls
          /\ builder' = Callback(builder, calls'[Len(calls')])
          /\ delivered' = Delivering(calls'[Len(calls')])
       \/ /\ Returns
          /\ builder' = Finished(builder)
          /\ UNCHANGED delivered
    /\ builder'.out # builder.out => QueueHasRoom
    /\ UNCHANGED <<taken, checked>>

Refused == [V!Unused EXCEPT !.archive = "refused"]

\* The validator sees the frames; a slice's mark is none.
Check ==
    LET f == builder.out[taken + 1] IN
    /\ taken < Len(builder.out)
    /\ taken' = taken + 1
    /\ checked' = IF f = TapeEof THEN checked
                  ELSE IF checked # Refused /\ V!IsNext(checked, f, FALSE)
                  THEN V!Accepted(checked, f) ELSE Refused
    /\ UNCHANGED <<vars, builder, delivered>>

ArchiverInit ==
    /\ Init
    /\ builder = StartBuilder
    /\ taken = 0 /\ checked = V!Unused
    /\ delivered = [s \in 1 .. Len(plan) |-> <<>>]

ArchiverNext == (Next /\ Feeding) \/ Check

ArchiverSpec == ArchiverInit /\ [][ArchiverNext]_archiverVars

FairArchiverSpec ==
    /\ ArchiverSpec
    /\ WF_archiverVars(MainNext /\ Feeding)
    /\ WF_archiverVars(SerializerNext /\ Feeding)
    /\ WF_archiverVars(OutputNext /\ Feeding)
    /\ \A w \in Workers : WF_archiverVars(WorkerNext(w) /\ Feeding)
    /\ WF_archiverVars(Check)
-----------------------------------------------------------------------------
SliceIsEmpty(s) ==
    /\ Stream!Done(Stream!EndCall(s)) /\ delivered[s] = <<>>
    /\ s = 1 => CatalogUnits = 0

\* A validator accepts what the archiver emits, frame by frame and with the
\* archive_end frame, as long as no slice came out empty: the writers that
\* check every frame they store have nothing to refuse (FrameBuilder,
\* make_server_callbacks, FrameValidator::validate).
FramesAccepted ==
    (\A s \in 1 .. slice : ~SliceIsEmpty(s)) => checked # Refused

\* The k-th frame's share of these bytes.
Share(all, k) ==
    SubSeq(all, k * Capacity + 1,
           IF (k + 1) * Capacity < Len(all) THEN (k + 1) * Capacity
                                            ELSE Len(all))

\* The content frames of a closed slice are, in order, the bytes the pax
\* writer delivered for it, cut into full frames, of which the last alone may
\* be shorter and alone has END.
SlicesAreWhole ==
    \A s \in 1 .. slice : Stream!Done(Stream!EndCall(s)) =>
        LET all == delivered[s]
            run == {i \in DOMAIN builder.out :
                        /\ builder.out[i].channel = "content"
                        /\ builder.out[i].slice = s - 1}
            Place(i) == builder.out[i].chSeq
        IN  /\ \A i \in run :
                   /\ Place(i) * Capacity < Len(all)
                   /\ builder.out[i].body = Share(all, Place(i))
                   /\ builder.out[i].end <=> Len(all) <= (Place(i) + 1) * Capacity
            /\ \A k \in 0 .. Len(all) : k * Capacity < Len(all) =>
                   \E i \in run : Place(i) = k
            /\ \A i, j \in run : i < j => Place(i) < Place(j)

Frames == SelectSeq(builder.out, LAMBDA f : f # TapeEof)

\* What the format says of the numbers of slices: they start at 0 and grow
\* by 1.  The first frame of every slice follows one of the slice before.
SlicesNumberedWithoutGap ==
    \A i \in DOMAIN Frames : Frames[i].channel # "archive_end" =>
        \/ Frames[i].slice = 0
        \/ i > 1 /\ Frames[i].slice - Frames[i - 1].slice \in {0, 1}
=============================================================================
