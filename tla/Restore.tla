------------------------------- MODULE Restore -------------------------------
(***************************************************************************)
(* Reading an archive back: neotape-read, run by an operator for one       *)
(* medium after the other, sends the records it finds to neotape-extractor,*)
(* which validates them, suppresses replays and writes the output.         *)
(***************************************************************************)
EXTENDS MediaLayout, FrameValidator, FiniteSets

CONSTANTS
    Stream,         \* the frames of the archive, number n at n + 1
    Archives,       \* identities of archives
    Layouts,        \* the ways it may lie on media
    Damageable,     \* numbers of the frames whose copies may be damaged
    DamageKinds,    \* what damage does to a record
    MaxDamage,      \* damaged records
    MaxFaults,      \* readers killed and connections reset
    Options,        \* the ways the programs may be run
    AnyOrder        \* the operator may load any medium and not rewind

\* A frame as the archive has it: whole, and without the archive's identity,
\* which its records hold.
StreamFrames ==
    [archive : {NoArchive}, seq : Nat, slice : Nat,
     channel : SliceChannels \cup {"archive_end"}, chSeq : Nat, end : BOOLEAN,
     body : Nat, check : {"ok"}]

\* What the writer, and the recovery bundle, leave on media.
MediaRecords ==
    [kind : {"frame"}, archive : Archives, seq : 0 .. Len(Stream) - 1, check : {"ok"}]
    \cup [kind : {"mark", "junk"}]

ASSUME RestoreAssumption ==
    /\ Stream \in Seq(StreamFrames)
    /\ \A n \in DOMAIN Stream :
          /\ Stream[n].seq = n - 1
          /\ Stream[n].channel = "archive_end" <=> n = Len(Stream)
    /\ NoArchive \notin Archives
    /\ Layouts \subseteq Seq(Seq(MediaRecords))
    /\ \A layout \in Layouts : Replayable(layout)
    /\ DamageKinds \subseteq {"bad_hash", "bad_size", "torn", "unreadable"}
    /\ MaxDamage \in Nat /\ MaxFaults \in Nat /\ AnyOrder \in BOOLEAN
    /\ Options \subseteq
           [spool : BOOLEAN,    \* the media are spool directories, not tapes
            salvage : BOOLEAN,  \* neotape-extractor --salvage
            keys : BOOLEAN,     \* it verifies signatures; the archive is signed
            flushMayFail : BOOLEAN]

VARIABLES
    option,         \* how the programs are run
    media,          \* the media as they are now
    loaded,         \* the medium in the drive, or 0
    pos,            \* the record behind which its head stands
    reader,         \* where neotape-read is
    sawFrame,       \* saw_neotape_frame
    endAcked,       \* archive_end_acked
    readerExit,     \* how the last reader ended
    ext,            \* where neotape-extractor is
    v,              \* its FrameValidator
    output,         \* the output file: numbers of the frames written to it
    buffered,       \* written, not flushed
    metadata,       \* the metadata output
    outSlice,       \* output_slice_seq, or NoSlice
    toExtractor, toReader, readerAlive, extractorAlive,     \* see Wire
    faults

INSTANCE Wire WITH toServer <- toExtractor, toWriter <- toReader,
                   writerAlive <- readerAlive, serverAlive <- extractorAlive,
                   readShut <- FALSE

readerVars == <<loaded, pos, reader, sawFrame, endAcked, readerExit>>
extractorVars == <<ext, v, output, buffered, metadata, outSlice>>
linkVars == <<toExtractor, toReader, readerAlive, extractorAlive>>
vars == <<option, media, readerVars, extractorVars, linkVars, faults>>

NoSlice == Len(Stream)

\* The frame a record holds; its archive is the record's.
Frame(r) == [Stream[r.seq + 1] EXCEPT !.archive = r.archive, !.check = r.check]

Carrying(r) == [type |-> "frame_record", record |-> r]

\* A spool directory holds NeoTape files only, and its records have the size
\* they are read with.  Bound: salvage is given media of one archive, since
\* media of two that alternate would be written again and again.
MayHold(layout) ==
    LET Records == UNION {{layout[m][i] : i \in DOMAIN layout[m]} : m \in DOMAIN layout}
    IN  /\ option.spool => \A r \in Records : r.kind # "junk"
        /\ option.salvage => \E a \in Archives : \A r \in Records :
                                 IsFrame(r) => r.archive = a
Decay == IF option.spool THEN DamageKinds \ {"bad_size"} ELSE DamageKinds

\* Damage strikes a record: its payload, its size, its header behind the
\* magic, or all of it.
Damaged(r, kind) ==
    IF kind \in Checks THEN [r EXCEPT !.check = kind] ELSE [r EXCEPT !.kind = kind]

\* The frames of a layout, by medium and place.
Copies(layout) == UNION {{<<m, i>> : i \in FramesOf(layout[m])} : m \in DOMAIN layout}
Places(layout) == {p \in Copies(layout) : layout[p[1]][p[2]].seq \in Damageable}

Init ==
    /\ option \in Options
    /\ \E layout \in {l \in Layouts : MayHold(l)} :
       \E struck \in {S \in SUBSET Places(layout) : Cardinality(S) <= MaxDamage} :
       \E kind \in [struck -> Decay] :
           media = [m \in DOMAIN layout |-> [i \in DOMAIN layout[m] |->
                        IF <<m, i>> \in struck
                        THEN Damaged(layout[m][i], kind[<<m, i>>])
                        ELSE layout[m][i]]]
    /\ loaded = 0 /\ pos = 0 /\ reader = "off" /\ sawFrame = FALSE
    /\ endAcked = FALSE /\ readerExit = "none"
    /\ ext = "accept" /\ v = Unused /\ outSlice = NoSlice
    /\ output = <<>> /\ buffered = <<>> /\ metadata = <<>>
    /\ WireInit /\ faults = 0

-----------------------------------------------------------------------------
(* The operator. *)

\* The next medium after one that was read to its end, else the same again.
NextMedium == IF readerExit \in {"none", "eof"} THEN loaded + 1 ELSE loaded

\* A medium is loaded and rewound, or, on tape, read on from where it stands.
Connect ==
    /\ reader = "off" /\ ext = "accept"
    /\ loaded' \in DOMAIN media
    /\ AnyOrder \/ loaded' = NextMedium
    /\ \/ pos' = 0
       \/ AnyOrder /\ ~option.spool /\ loaded' = loaded /\ UNCHANGED pos
    /\ reader' = "request" /\ sawFrame' = FALSE /\ endAcked' = FALSE
    /\ readerExit' = "none"
    /\ ext' = "serve" /\ v' = BeginConnection(v)
    /\ toExtractor' = <<>> /\ toReader' = <<NextFrame>>
    /\ readerAlive' = TRUE /\ extractorAlive' = TRUE
    /\ UNCHANGED <<option, media, output, buffered, metadata, outSlice, faults>>

-----------------------------------------------------------------------------
(* The reader. *)

Volume == media[loaded]

\* The tape file record i of the volume lies in, and what a spool directory
\* names the file by: the slice of its first frame, or archive_end.
FileOf(i) == {j \in 1 .. i : \A k \in j .. i : Volume[k] # Mark}
NamedBy(r) == LET f == Stream[r.seq + 1]
              IN  IF f.channel = "archive_end" THEN NoSlice ELSE f.slice
NameAgrees(i) ==
    \A j \in FileOf(i) :
        (\A k \in FileOf(i) : j <= k) => NamedBy(Volume[j]) = NamedBy(Volume[i])

\* Nothing can be sent for record i, and the reader gives up: a header that
\* cannot be parsed before the first one that can; on a spool directory a
\* read error, or a frame that is not one its file is named for.
CannotRead(i) ==
    \/ Volume[i].kind = "torn" /\ ~sawFrame
    \/ /\ option.spool
       /\ \/ Volume[i].kind = "unreadable"
          \/ IsFrame(Volume[i]) /\ Intact(Volume[i]) /\ ~NameAgrees(i)

\* Filemarks, records in front of the first frame, unreadable blocks of a
\* tape and, later, headers that cannot be parsed are passed over.
Stops == {i \in pos + 1 .. Len(Volume) : IsFrame(Volume[i]) \/ CannotRead(i)}

ReaderLeaves(how) ==
    /\ reader' = "off" /\ readerExit' = how
    /\ readerAlive' = FALSE

SendTapeEof ==
    /\ Stops = {}
    /\ pos' = Len(Volume)
    /\ toExtractor' = Sent(toExtractor, extractorAlive, TapeEof)
    /\ \/ ReaderLeaves("eof")
       \/ WriterWriteMayFail /\ ReaderLeaves("error")
    /\ UNCHANGED <<sawFrame, endAcked>>

SendRecord ==
    /\ pos' \in Stops /\ \A i \in Stops : pos' <= i
    /\ IF CannotRead(pos')
       THEN ReaderLeaves("error") /\ UNCHANGED <<toExtractor, sawFrame>>
       ELSE /\ toExtractor' = Sent(toExtractor, extractorAlive, Carrying(Volume[pos']))
            /\ sawFrame' = TRUE
            /\ \/ reader' = "ack" /\ UNCHANGED <<readerExit, readerAlive>>
               \/ WriterWriteMayFail /\ ReaderLeaves("error")
    /\ UNCHANGED endAcked

ReadAnswer(m) ==
    /\ reader = "ack"
    /\ IF m = AckFrame(Volume[pos].seq)
       THEN /\ reader' = "request"
            /\ endAcked' = (Frame(Volume[pos]).channel = "archive_end")
            /\ UNCHANGED <<readerExit, readerAlive>>
       ELSE ReaderLeaves("error") /\ UNCHANGED endAcked
    /\ UNCHANGED <<toExtractor, pos, sawFrame>>

ReadError(m) ==
    /\ reader = "request" /\ m # NextFrame
    /\ ReaderLeaves("error")
    /\ UNCHANGED <<toExtractor, pos, sawFrame, endAcked>>

ReaderReads ==
    /\ reader # "off" /\ toReader # <<>>
    /\ LET m == Head(toReader)
       IN  \/ reader = "request" /\ m = NextFrame /\ (SendTapeEof \/ SendRecord)
           \/ ReadAnswer(m) \/ ReadError(m)
    /\ toReader' = Tail(toReader)

\* Mutant: the end of the connection is the end of the archive.
ReaderMeetsEofContent ==
    /\ reader # "off" /\ toReader = <<>> /\ ~extractorAlive
    /\ ReaderLeaves(IF reader = "request" THEN "complete" ELSE "error")
    /\ UNCHANGED <<toExtractor, toReader, pos, sawFrame, endAcked>>

ReaderMeetsEof ==
    /\ reader # "off" /\ toReader = <<>> /\ ~extractorAlive
    /\ ReaderLeaves(IF reader = "request" /\ endAcked THEN "complete" ELSE "error")
    /\ UNCHANGED <<toExtractor, toReader, pos, sawFrame, endAcked>>

Reader ==
    /\ ReaderReads \/ ReaderMeetsEof
    /\ UNCHANGED <<option, media, loaded, extractorVars, extractorAlive, faults>>

-----------------------------------------------------------------------------
(* The extractor. *)

Emitted == output \o buffered
Piece(f) == [archive |-> f.archive, seq |-> f.seq, check |-> f.check]

Flush == output' = Emitted /\ buffered' = <<>>

\* A failed fflush may have written a part and drops the rest.
FlushFails ==
    /\ option.flushMayFail /\ buffered # <<>>
    /\ \E k \in 0 .. Len(buffered) - 1 :
           output' = output \o SubSeq(buffered, 1, k)
    /\ buffered' = <<>>

Disconnect(next) == ext' = next /\ extractorAlive' = FALSE

Fatal ==
    /\ Disconnect("failed")
    /\ toReader' = Sent(toReader, readerAlive, Error("validation"))

\* Mutant: the next frame is not asked for.
AcknowledgeOnly(f) ==
    /\ toReader' = Sent(toReader, readerAlive, AckFrame(f.seq))
    /\ UNCHANGED <<ext, extractorAlive>>

\* A frame taken is acknowledged, and the next one asked for.
Acknowledge(f) ==
    /\ toReader' = IF readerAlive THEN toReader \o <<AckFrame(f.seq), NextFrame>>
                   ELSE toReader
    /\ UNCHANGED <<ext, extractorAlive>>

\* Mutant: only content frames need a signature that holds.
ForgedContent(f) == option.keys /\ ~Intact(f) /\ f.channel = "content"

\* With keys a wrong hash means that a signature does not hold.
Forged(f) == option.keys /\ ~Intact(f)

Repetition(f) == IF option.salvage THEN IsSalvageReplay(v, f) ELSE IsReplay(v, f)
Fresh(f) == IF option.salvage THEN IsSalvaged(v, f) ELSE IsNextRestored(v, f)

\* Mutant: what a replay brings is written again.
SuppressReplayWriting(f) ==
    /\ ~Forged(f) /\ Repetition(f)
    /\ v' = Replayed(v, f)
    /\ buffered' = Append(buffered, Piece(f))
    /\ Acknowledge(f)
    /\ UNCHANGED <<output, metadata, outSlice>>

SuppressReplay(f) ==
    /\ ~Forged(f) /\ Repetition(f)
    /\ v' = Replayed(v, f)
    /\ Acknowledge(f)
    /\ UNCHANGED <<output, buffered, metadata, outSlice>>

RefuseFrame(f) ==
    /\ Forged(f) \/ ~(option.salvage \/ Repetition(f) \/ Fresh(f))
    /\ Fatal
    /\ UNCHANGED <<v, output, buffered, metadata, outSlice>>

SkipFrame(f) ==
    /\ option.salvage /\ ~Forged(f) /\ ~Repetition(f) /\ ~Fresh(f)
    /\ Acknowledge(f)
    /\ UNCHANGED <<v, output, buffered, metadata, outSlice>>

\* Mutant: metadata is written whatever its hash.
TakeMetadataUnchecked(f) ==
    /\ f.channel = "metadata"
    /\ metadata' = Append(metadata, Piece(f))
    /\ Acknowledge(f)
    /\ UNCHANGED <<output, buffered, outSlice>>

TakeMetadata(f) ==
    /\ f.channel = "metadata"
    /\ metadata' = IF Intact(f) THEN Append(metadata, Piece(f)) ELSE metadata
    /\ Acknowledge(f)
    /\ UNCHANGED <<output, buffered, outSlice>>

\* Mutant: the output is not flushed at the end.
TakeEndUnflushed(f) ==
    /\ f.channel = "archive_end"
    /\ Disconnect("done")
    /\ toReader' = Sent(toReader, readerAlive, AckFrame(f.seq))
    /\ UNCHANGED <<output, buffered, metadata, outSlice>>

TakeEnd(f) ==
    /\ f.channel = "archive_end"
    /\ \/ /\ Flush /\ Disconnect("done")
          /\ toReader' = Sent(toReader, readerAlive, AckFrame(f.seq))
       \/ FlushFails /\ Fatal
    /\ UNCHANGED <<metadata, outSlice>>

\* The output is flushed where a slice ends, if the first frame of the next
\* one is a content frame.
SliceChanged(f) ==
    IF option.salvage THEN outSlice \notin {NoSlice, f.slice} ELSE f.slice # v.slice

TakeContent(f) ==
    /\ f.channel = "content"
    /\ \/ /\ IF SliceChanged(f)
             THEN output' = Emitted /\ buffered' = <<Piece(f)>>
             ELSE buffered' = Append(buffered, Piece(f)) /\ UNCHANGED output
          /\ outSlice' = f.slice
          /\ Acknowledge(f)
       \/ SliceChanged(f) /\ FlushFails /\ Fatal /\ UNCHANGED outSlice
    /\ UNCHANGED metadata

TakeFrame(f) ==
    /\ ~Forged(f) /\ Fresh(f)
    /\ v' = IF option.salvage THEN Salvaged(v, f) ELSE Accepted(v, f)
    /\ TakeMetadata(f) \/ TakeEnd(f) \/ TakeContent(f)

TakeTapeEof ==
    /\ Flush \/ FlushFails
    /\ Disconnect("accept")
    /\ UNCHANGED <<toReader, v, metadata, outSlice>>

ProcessMessage ==
    /\ toExtractor # <<>>
    /\ LET m == Head(toExtractor)
       IN  \/ /\ m.type = "frame_record"
              /\ LET f == Frame(m.record)
                 IN  SuppressReplay(f) \/ RefuseFrame(f) \/ SkipFrame(f)
                     \/ TakeFrame(f)
           \/ m = TapeEof /\ TakeTapeEof
    /\ toExtractor' = Tail(toExtractor)

ExtractorMeetsEof ==
    /\ toExtractor = <<>> /\ ~readerAlive
    /\ Disconnect("accept")
    /\ UNCHANGED <<toExtractor, toReader, v, output, buffered, metadata, outSlice>>

Extractor ==
    /\ ext = "serve"
    /\ ProcessMessage \/ ExtractorMeetsEof
    /\ UNCHANGED <<option, media, readerVars, readerAlive, faults>>

-----------------------------------------------------------------------------

Fault == faults < MaxFaults /\ faults' = faults + 1 /\ UNCHANGED <<option, media>>

KillReader ==
    /\ Fault /\ reader # "off"
    /\ ReaderLeaves("killed")
    /\ toExtractor' \in Truncations(toExtractor)
    /\ UNCHANGED <<loaded, pos, sawFrame, endAcked, extractorVars, toReader,
                   extractorAlive>>

LinkReset ==
    /\ Fault /\ readerAlive /\ extractorAlive
    /\ readerAlive' = FALSE /\ extractorAlive' = FALSE
    /\ toExtractor' \in Truncations(toExtractor)
    /\ toReader' \in Truncations(toReader)
    /\ UNCHANGED <<readerVars, extractorVars>>

Finished == ext \in {"done", "failed"} /\ reader = "off" /\ UNCHANGED vars

Next == Connect \/ Reader \/ Extractor \/ KillReader \/ LinkReset \/ Finished

Spec == Init /\ [][Next]_vars

\* Both programs keep running and the operator keeps loading media.
Fairness == WF_vars(Connect) /\ WF_vars(Reader) /\ WF_vars(Extractor)

FairSpec == Spec /\ Fairness

-----------------------------------------------------------------------------

\* The channel's frames among the first n of archive a, undamaged.
FramesBefore(channel, a, n) ==
    {[archive |-> a, seq |-> k, check |-> "ok"] :
        k \in {j \in 0 .. n - 1 : Stream[j + 1].channel = channel}}

Ascending(s) == \A i, j \in DOMAIN s : i < j => s[i].seq < s[j].seq

\* The sequence s lists the frames of S, each once and in their order.
Lists(s, S) == Ascending(s) /\ {s[i] : i \in DOMAIN s} = S

\* Whatever media are loaded in whatever order, however often readers and
\* connections fail and whatever is damaged: the output is the beginning of
\* one archive's content, each frame once.
OutputIsPrefix ==
    ~option.salvage =>
        Lists(Emitted, FramesBefore("content", v.archive, v.expected))

\* An extractor that reports success has written all of the content.
DoneIsComplete ==
    ~option.salvage /\ ext = "done" =>
        Lists(output, FramesBefore("content", v.archive, Len(Stream)))

\* Metadata may be passed over, but no damaged, repeated or reordered frame
\* of it reaches the metadata output.
MetadataIsSound ==
    /\ \A i \in DOMAIN metadata : metadata[i].check = "ok"
    /\ option.salvage \/ Ascending(metadata)

\* With keys, an extractor that reports success has met no frame whose
\* signature does not hold: the metadata is complete as well.
DoneIsAuthentic ==
    option.keys /\ ~option.salvage /\ ext = "done" =>
        Lists(metadata, FramesBefore("metadata", v.archive, Len(Stream)))

\* A reader's exit: success at the end of the archive means that the
\* extractor is done, success at the end of a medium that it has taken every
\* frame of it.  Salvage promises neither: it acknowledges what it skips.
ReaderExitIsTruthful ==
    ~option.salvage =>
        /\ readerExit = "complete" => ext = "done"
        /\ readerExit = "eof" =>
             \A n \in 0 .. Len(Stream) - 1 : FrameOn(Volume, n) => n < v.expected

\* From undamaged media the archive is restored, whatever reader and
\* connection go through.
RestoreCompletes == media \in Layouts => <>(ext = "done")

\* Every reader ends: none waits for an extractor that waits for it.
ReadersLeave == (reader # "off") ~> (reader = "off")

\* Salvage of one archive never writes a damaged frame, a frame twice or one
\* behind a later one.
SalvageInOrder ==
    option.salvage =>
        /\ \A i \in DOMAIN Emitted : Intact(Emitted[i])
        /\ Ascending(Emitted)

\* The undamaged records, as they were loaded, come in the order of the
\* archive and none of them twice, and no medium was read again because a
\* reader or a connection failed.
Undamaged(m, i) == IsFrame(media[m][i]) /\ Intact(media[m][i])
Before(m, i, n, j) == m < n \/ (m = n /\ i < j)
ReadInOrder ==
    /\ faults = 0
    /\ \A m, n \in DOMAIN media : \A i \in DOMAIN media[m], j \in DOMAIN media[n] :
          Undamaged(m, i) /\ Undamaged(n, j) /\ Before(m, i, n, j) =>
              media[m][i].seq < media[n][j].seq

\* The last medium has been read, with or without an end of the archive.
AllRead ==
    /\ ext \in {"accept", "done"} /\ reader = "off"
    /\ loaded = Len(media) /\ readerExit \in {"eof", "complete"}

\* Salvage that has read such media has written every content frame that has
\* an undamaged copy, whether or not it found the end of the archive.
SalvageLosesOnlyDamaged ==
    option.salvage /\ ReadInOrder /\ (ext = "done" \/ AllRead) =>
        \A m \in DOMAIN media : \A i \in DOMAIN media[m] :
            LET r == media[m][i] IN
            IsFrame(r) /\ Intact(Frame(r)) /\ Frame(r).channel = "content" =>
                \E k \in DOMAIN output : output[k] = Piece(Frame(r))
=============================================================================
