---------------------------- MODULE RestoreProofs ----------------------------
(***************************************************************************)
(* The restore for every archive, every layout of it on media, every       *)
(* damage, order of media and number of failures: what the extractor has   *)
(* written is told by two fields of its validator, the archive and the     *)
(* next number, and every acknowledgement on its way is for a frame below  *)
(* that number.                                                            *)
(***************************************************************************)
EXTENDS Restore, SequenceTheorems, TLAPS

\* The records that can be parsed, as they may lie on the media.
FrameRecords ==
    [kind : {"frame"}, archive : Archives, seq : 0 .. Len(Stream) - 1, check : Checks]

OnMedia == {r \in FrameRecords :
               \E m \in DOMAIN media : \E i \in DOMAIN media[m] : media[m][i] = r}

ToExtractor == {Carrying(r) : r \in OnMedia} \cup {TapeEof}

ToReader ==
    {NextFrame, Error("validation")} \cup {AckFrame(n) : n \in 0 .. Len(Stream) - 1}

Pieces == [archive : Archives, seq : 0 .. Len(Stream) - 1, check : Checks]

MediaOK ==
    \A m \in DOMAIN media :
        /\ Len(media[m]) \in Nat /\ DOMAIN media[m] = 1 .. Len(media[m])
        /\ \A i \in DOMAIN media[m] : IsFrame(media[m][i]) => media[m][i] \in FrameRecords

TypeOK ==
    /\ option \in Options
    /\ MediaOK
    /\ reader # "off" \/ readerExit = "eof" => loaded \in DOMAIN media
    /\ pos \in Nat
    /\ reader = "ack" => pos \in DOMAIN Volume /\ IsFrame(Volume[pos])
    /\ ext \in {"accept", "serve", "done", "failed"}
    /\ DOMAIN v = DOMAIN Unused /\ v.expected \in Nat
    /\ v.archive \in Archives \cup {NoArchive}
    /\ output \in Seq(Pieces) /\ buffered \in Seq(Pieces) /\ metadata \in Seq(Pieces)
    /\ toExtractor \in Seq(ToExtractor) /\ toReader \in Seq(ToReader)

-----------------------------------------------------------------------------
(* Restoring, not salvage. *)

\* The validator's end of the archive is the extractor's.
EndKnown ==
    /\ v.archive = NoArchive => v.expected = 0
    /\ v.endSeen => v.expected = Len(Stream) /\ ext \in {"done", "failed"}
    /\ ~v.endSeen => v.expected < Len(Stream) \/ v.expected = 0
    /\ ext = "done" => v.endSeen /\ buffered = <<>>

OutputKnown == Lists(Emitted, FramesBefore("content", v.archive, v.expected))

MetadataKnown ==
    /\ Ascending(metadata)
    /\ \A i \in DOMAIN metadata : metadata[i].seq < v.expected
    /\ option.keys => Lists(metadata, FramesBefore("metadata", v.archive, v.expected))

\* An acknowledgement is for an accepted frame; that of the last one is sent
\* by an extractor that is done.
AcksKnown ==
    \A i \in DOMAIN toReader : toReader[i].type = "ack_frame" =>
        /\ toReader[i].seq < v.expected
        /\ toReader[i].seq = Len(Stream) - 1 => ext = "done"

\* The frames of the medium up to record n are accepted.
TakenTo(n) ==
    \A i \in DOMAIN Volume : i <= n /\ IsFrame(Volume[i]) => Volume[i].seq < v.expected

ReaderKnown ==
    /\ endAcked \/ readerExit = "complete" => ext = "done"
    /\ ~AnyOrder =>
          /\ reader = "request" => TakenTo(pos)
          /\ reader = "ack" => TakenTo(pos - 1)
          /\ readerExit = "eof" => TakenTo(Len(Volume))

\* Salvage of one archive.
SalvageKnown ==
    /\ \E a \in Archives :
          /\ \A r \in OnMedia : r.archive = a
          /\ v.archive \in {NoArchive, a}
    /\ v.archive = NoArchive => Emitted = <<>>
    /\ Ascending(Emitted)
    /\ \A i \in DOMAIN Emitted : Emitted[i].check = "ok" /\ Emitted[i].seq < v.expected

MetadataIntact == \A i \in DOMAIN metadata : metadata[i].check = "ok"

\* What was written and not flushed may be lost where a flush may fail.
OutputInv == ~option.salvage /\ ~option.flushMayFail => OutputKnown

RestoreInv ==
    /\ TypeOK
    /\ MetadataIntact /\ OutputInv
    /\ ~option.salvage => EndKnown /\ MetadataKnown /\ AcksKnown /\ ReaderKnown
    /\ option.salvage => SalvageKnown

-----------------------------------------------------------------------------
(* Sequences. *)

LEMMA TruncationTyped ==
    ASSUME NEW S, NEW q \in Seq(S), NEW t \in Truncations(q)
    PROVE  /\ t \in Seq(S)
           /\ \A i \in DOMAIN t : i \in DOMAIN q /\ t[i] = q[i]
<1>1. PICK k \in 0 .. Len(q) : t = SubSeq(q, 1, k)
    BY DEF Truncations
<1>2. Len(q) \in Nat /\ k \in Int /\ DOMAIN q = 1 .. Len(q) /\ 1 \in Int
    OBVIOUS
<1>3. \A i \in 1 .. k : q[i] \in S /\ i \in DOMAIN q
    BY <1>2
<1>4. /\ t \in Seq(S) /\ Len(t) = (IF 1 <= k THEN k - 1 + 1 ELSE 0)
      /\ \A i \in 1 .. k - 1 + 1 : t[i] = q[1 + i - 1]
    BY <1>1, <1>2, <1>3, SubSeqProperties
<1>5. Len(t) = k /\ DOMAIN t = 1 .. k
    BY <1>2, <1>4
<1> QED BY <1>2, <1>3, <1>4, <1>5

LEMMA SentTyped ==
    ASSUME NEW S, NEW q \in Seq(S), NEW alive, NEW m \in S
    PROVE  /\ Sent(q, alive, m) \in Seq(S)
           /\ \A i \in DOMAIN Sent(q, alive, m) :
                 \/ i \in DOMAIN q /\ Sent(q, alive, m)[i] = q[i]
                 \/ Sent(q, alive, m)[i] = m
<1>1. CASE alive
  <2>1. Sent(q, alive, m) = Append(q, m)
    BY <1>1 DEF Sent
  <2> QED BY <2>1
<1>2. CASE ~alive
    BY <1>2 DEF Sent
<1> QED BY <1>1, <1>2

LEMMA TailTyped ==
    ASSUME NEW S, NEW q \in Seq(S), q # <<>>
    PROVE  /\ Head(q) \in S /\ Tail(q) \in Seq(S)
           /\ 1 \in DOMAIN q /\ Head(q) = q[1]
           /\ \A i \in DOMAIN Tail(q) : i + 1 \in DOMAIN q /\ Tail(q)[i] = q[i + 1]
    OBVIOUS

\* A list of records, one longer by a later one.
LEMMA ListAppend ==
    ASSUME NEW s \in Seq(Pieces), NEW e \in Pieces,
           \A i \in DOMAIN s : s[i].seq < e.seq
    PROVE  /\ Ascending(s) => Ascending(Append(s, e))
           /\ \A S : Lists(s, S) => Lists(Append(s, e), S \cup {e})
<1> DEFINE t == Append(s, e)
           n == Len(s)
<1>1. /\ n \in Nat /\ DOMAIN s = 1 .. n /\ DOMAIN t = 1 .. n + 1
      /\ t[n + 1] = e /\ \A i \in 1 .. n : t[i] = s[i]
    OBVIOUS
<1> HIDE DEF t, n
<1>2. ASSUME Ascending(s) PROVE Ascending(t)
  <2> SUFFICES ASSUME NEW i \in 1 .. n + 1, NEW j \in 1 .. n + 1, i < j
               PROVE  t[i].seq < t[j].seq
    BY <1>1 DEF Ascending
  <2>1. i \in 1 .. n /\ (j \in 1 .. n \/ j = n + 1)
    BY <1>1
  <2> QED BY <1>1, <1>2, <2>1 DEF Ascending
<1>3. {t[i] : i \in DOMAIN t} = {s[i] : i \in DOMAIN s} \cup {e}
  <2>1. \A i \in DOMAIN t : i \in DOMAIN s \/ i = n + 1
    BY <1>1
  <2>2. \A i \in DOMAIN s : i \in DOMAIN t
    BY <1>1
  <2>3. n + 1 \in DOMAIN t
    BY <1>1
  <2> QED BY <1>1, <2>1, <2>2, <2>3
<1> QED BY <1>2, <1>3 DEF Lists, t

LEMMA EmptyLists == Ascending(<<>>) /\ Lists(<<>>, {})
    BY DEF Ascending, Lists

-----------------------------------------------------------------------------
(* Frames. *)

LEMMA FrameFacts ==
    ASSUME NEW r \in FrameRecords, NEW f, f = Frame(r)
    PROVE  /\ f.seq = r.seq /\ f.archive = r.archive /\ f.check = r.check
           /\ f.channel = Stream[r.seq + 1].channel
           /\ f.channel \in {"content", "metadata", "archive_end"}
           /\ f.channel = "archive_end" <=> r.seq = Len(Stream) - 1
           /\ Len(Stream) \in Nat /\ r.seq \in 0 .. Len(Stream) - 1
           /\ f.archive \in Archives /\ f.archive # NoArchive
           /\ Piece(f) = [archive |-> r.archive, seq |-> r.seq, check |-> r.check]
           /\ Piece(f) \in Pieces /\ Piece(f).seq = r.seq /\ Piece(f).check = r.check
<1>1. /\ r.seq \in 0 .. Len(Stream) - 1 /\ r.archive \in Archives /\ r.check \in Checks
      /\ NoArchive \notin Archives
    BY RestoreAssumption DEF FrameRecords
<1>2. Len(Stream) \in Nat /\ DOMAIN Stream = 1 .. Len(Stream) /\ r.seq + 1 \in DOMAIN Stream
    BY <1>1, RestoreAssumption
<1> DEFINE s == Stream[r.seq + 1]
<1>3. /\ s \in StreamFrames /\ s.seq = r.seq
      /\ s.channel = "archive_end" <=> r.seq = Len(Stream) - 1
    BY <1>1, <1>2, RestoreAssumption
<1> HIDE DEF s
<1>4. f = [s EXCEPT !.archive = r.archive, !.check = r.check]
    BY DEF Frame, s
<1>5. /\ f.seq = r.seq /\ f.archive = r.archive /\ f.check = r.check
      /\ f.channel = s.channel /\ s.channel \in SliceChannels \cup {"archive_end"}
    BY <1>3, <1>4 DEF StreamFrames
<1>6. Piece(f) = [archive |-> r.archive, seq |-> r.seq, check |-> r.check]
    BY <1>5 DEF Piece
<1> QED BY <1>1, <1>2, <1>3, <1>5, <1>6 DEF s, SliceChannels, Pieces

LEMMA MediaUnchanged ==
    ASSUME UNCHANGED media
    PROVE  OnMedia' = OnMedia /\ ToExtractor' = ToExtractor /\ (MediaOK <=> MediaOK')
    BY DEF OnMedia, ToExtractor, MediaOK

LEMMA CarryingFacts ==
    ASSUME NEW m \in ToExtractor
    PROVE  /\ m.type = "frame_record" =>
                  m.record \in OnMedia /\ m.record \in FrameRecords /\ m = Carrying(m.record)
           /\ m.type # "frame_record" => m = TapeEof
    BY DEF ToExtractor, Carrying, TapeEof, OnMedia

LEMMA AckFacts ==
    ASSUME NEW n PROVE AckFrame(n).type = "ack_frame" /\ AckFrame(n).seq = n
    BY DEF AckFrame

LEMMA OtherReplies ==
    /\ NextFrame.type # "ack_frame" /\ \A e : Error(e).type # "ack_frame"
    /\ \A n, e : AckFrame(n) # NextFrame /\ AckFrame(n) # Error(e)
    BY DEF NextFrame, Error, AckFrame

-----------------------------------------------------------------------------
(* What the validator's operators do to the fields that count here. *)

LEMMA ValidatorFields ==
    /\ DOMAIN Unused = {"archive", "expected", "slice", "anyFrame", "endSeen", "seeded",
                        "nextSeq", "seen", "ended", "unknown", "history", "replayNext"}
    /\ Unused.expected = 0 /\ Unused.archive = NoArchive /\ ~Unused.endSeen
    BY DEF Unused

LEMMA ReplayedFields ==
    ASSUME NEW w, DOMAIN w = DOMAIN Unused, NEW f, NEW a,
           a \in {Replayed(w, f), BeginConnection(w)}
    PROVE  /\ DOMAIN a = DOMAIN Unused /\ a.expected = w.expected
           /\ a.archive = w.archive /\ a.endSeen = w.endSeen
<1>1. \A x : LET b == [w EXCEPT !.replayNext = x]
             IN  /\ DOMAIN b = DOMAIN Unused /\ b.expected = w.expected
                 /\ b.archive = w.archive /\ b.endSeen = w.endSeen
    BY ValidatorFields
<1> QED BY <1>1 DEF Replayed, BeginConnection

LEMMA AcceptedExpects ==
    ASSUME NEW w, DOMAIN w = DOMAIN Unused, NEW f, NEW a, a = Accepted(w, f)
    PROVE  /\ DOMAIN a = DOMAIN Unused /\ a.expected = f.seq + 1 /\ a.archive = f.archive
           /\ f.channel = "archive_end" => a.endSeen
           /\ f.channel # "archive_end" => a.endSeen = w.endSeen
<1> DEFINE w1 == [w EXCEPT !.archive = f.archive, !.expected = f.seq + 1,
                           !.history = Remember(w, f)]
           sl == InSliceOf(w1, f)
<1>1. /\ DOMAIN w1 = DOMAIN Unused /\ w1.expected = f.seq + 1 /\ w1.archive = f.archive
      /\ w1.endSeen = w.endSeen
    BY ValidatorFields
<1> HIDE DEF w1
<1>2. CASE f.channel = "archive_end"
  <2>1. a = [w1 EXCEPT !.endSeen = TRUE]
    BY <1>2 DEF Accepted, w1
  <2> QED BY <1>1, <1>2, <2>1, ValidatorFields
<1>3. CASE f.channel # "archive_end"
  <2>1. /\ DOMAIN sl = DOMAIN Unused /\ sl.expected = w1.expected
        /\ sl.archive = w1.archive /\ sl.endSeen = w1.endSeen
    BY <1>1, ValidatorFields DEF InSliceOf
  <2>2. a = [sl EXCEPT !.nextSeq[f.channel] = f.chSeq + 1, !.seen[f.channel] = TRUE,
                       !.ended[f.channel] = f.end, !.unknown[f.channel] = FALSE]
    BY <1>3 DEF Accepted, w1
  <2> HIDE DEF sl
  <2>3. /\ DOMAIN a = DOMAIN Unused /\ a.expected = sl.expected
        /\ a.archive = sl.archive /\ a.endSeen = sl.endSeen
    BY <2>1, <2>2, ValidatorFields
  <2> QED BY <1>1, <1>3, <2>1, <2>3
<1> QED BY <1>2, <1>3

LEMMA SalvagedExpects ==
    ASSUME NEW w, DOMAIN w = DOMAIN Unused, NEW f, NEW a, a = Salvaged(w, f)
    PROVE  /\ DOMAIN a = DOMAIN Unused /\ a.expected = f.seq + 1 /\ a.archive = f.archive
<1> DEFINE w1 == InArchiveOf(w, f)
<1>1. DOMAIN w1 = DOMAIN Unused /\ w1.archive = f.archive
    BY ValidatorFields DEF InArchiveOf
<1>2. a = [w1 EXCEPT !.expected = f.seq + 1, !.history = Remember(w1, f)]
    BY DEF Salvaged
<1> HIDE DEF w1
<1> QED BY <1>1, <1>2, ValidatorFields

-----------------------------------------------------------------------------
(* Types: the reader's steps. *)

LEMMA VolumeFacts ==
    ASSUME TypeOK, reader # "off" \/ readerExit = "eof"
    PROVE  /\ Len(Volume) \in Nat /\ DOMAIN Volume = 1 .. Len(Volume)
           /\ \A i \in DOMAIN Volume : IsFrame(Volume[i]) =>
                  Volume[i] \in FrameRecords /\ Volume[i] \in OnMedia
           /\ \A i \in Stops : i \in DOMAIN Volume /\ i \in Nat /\ i > pos
           /\ \A i \in Stops : ~CannotRead(i) => IsFrame(Volume[i])
<1>1. loaded \in DOMAIN media /\ pos \in Nat
    BY DEF TypeOK
<1>2. /\ Len(Volume) \in Nat /\ DOMAIN Volume = 1 .. Len(Volume)
      /\ \A i \in DOMAIN Volume : IsFrame(Volume[i]) => Volume[i] \in FrameRecords
    BY <1>1 DEF TypeOK, MediaOK, Volume
<1>3. \A i \in DOMAIN Volume : IsFrame(Volume[i]) => Volume[i] \in OnMedia
    BY <1>1, <1>2 DEF OnMedia, Volume
<1>4. \A i \in Stops : i \in pos + 1 .. Len(Volume) /\ (~CannotRead(i) => IsFrame(Volume[i]))
    BY DEF Stops
<1>5. \A i \in Stops : i \in DOMAIN Volume /\ i \in Nat /\ i > pos
    BY <1>1, <1>2, <1>4
<1> QED BY <1>2, <1>3, <1>4, <1>5

LEMMA ToExtractorMembers ==
    /\ TapeEof \in ToExtractor
    /\ \A r \in OnMedia : Carrying(r) \in ToExtractor
    BY DEF ToExtractor

\* What every step of the reader leaves alone or takes.
LEMMA ReaderFrame ==
    ASSUME Reader
    PROVE  /\ UNCHANGED <<option, media, loaded, ext, v, output, buffered, metadata>>
           /\ reader # "off"
           /\ toReader' = toReader \/ (toReader # <<>> /\ toReader' = Tail(toReader))
    BY DEF Reader, ReaderReads, ReaderMeetsEof, extractorVars

LEMMA SendRecordFacts ==
    ASSUME TypeOK, reader # "off", SendRecord
    PROVE  /\ pos' \in Stops /\ pos' \in Nat /\ pos' \in DOMAIN Volume
           /\ toExtractor' \in Seq(ToExtractor)
           /\ reader' \in {"ack", "off"}
           /\ reader' = "ack" => IsFrame(Volume[pos'])
<1>1. pos' \in Stops /\ pos' \in Nat /\ pos' \in DOMAIN Volume
    BY VolumeFacts DEF SendRecord
<1>2. toExtractor \in Seq(ToExtractor)
    BY DEF TypeOK
<1>3. CASE CannotRead(pos')
    BY <1>1, <1>2, <1>3 DEF SendRecord, ReaderLeaves
<1>4. CASE ~CannotRead(pos')
  <2>1. IsFrame(Volume[pos']) /\ Volume[pos'] \in OnMedia
    BY <1>1, <1>4, VolumeFacts
  <2>2. Carrying(Volume[pos']) \in ToExtractor
    BY <2>1, ToExtractorMembers
  <2>3. toExtractor' = Sent(toExtractor, extractorAlive, Carrying(Volume[pos']))
    BY <1>4 DEF SendRecord
  <2>4. toExtractor' \in Seq(ToExtractor)
    BY <1>2, <2>2, <2>3, SentTyped
  <2>5. reader' \in {"ack", "off"}
    BY <1>4 DEF SendRecord, ReaderLeaves
  <2> QED BY <1>1, <2>1, <2>4, <2>5
<1> QED BY <1>3, <1>4

LEMMA SendTapeEofFacts ==
    ASSUME TypeOK, reader # "off", SendTapeEof
    PROVE  pos' \in Nat /\ pos' = Len(Volume) /\ reader' = "off"
           /\ toExtractor' \in Seq(ToExtractor)
<1>1. toExtractor' = Sent(toExtractor, extractorAlive, TapeEof) /\ TapeEof \in ToExtractor
      /\ toExtractor \in Seq(ToExtractor)
    BY ToExtractorMembers DEF SendTapeEof, TypeOK
<1>2. toExtractor' \in Seq(ToExtractor)
    BY <1>1, SentTyped
<1>3. pos' \in Nat /\ pos' = Len(Volume) /\ reader' = "off"
    BY VolumeFacts DEF SendTapeEof, ReaderLeaves
<1> QED BY <1>2, <1>3

LEMMA ReaderTypes ==
    ASSUME TypeOK, Reader PROVE TypeOK'
<1>1. /\ UNCHANGED <<option, media, loaded, ext, v, output, buffered, metadata>>
      /\ reader # "off"
    BY ReaderFrame
<1>2. toReader' \in Seq(ToReader)
  <2>1. toReader \in Seq(ToReader)
    BY DEF TypeOK
  <2>2. CASE toReader' = toReader
    BY <2>1, <2>2
  <2>3. CASE toReader # <<>> /\ toReader' = Tail(toReader)
    BY <2>1, <2>3, TailTyped
  <2> QED BY <2>2, <2>3, ReaderFrame
<1>3. /\ pos' \in Nat /\ toExtractor' \in Seq(ToExtractor)
      /\ reader' = "ack" => pos' \in DOMAIN Volume /\ IsFrame(Volume[pos'])
  <2>1. CASE SendTapeEof
    BY <1>1, <2>1, SendTapeEofFacts
  <2>2. CASE SendRecord
    BY <1>1, <2>2, SendRecordFacts
  <2>3. ASSUME NEW m, ReadAnswer(m) \/ ReadError(m)
        PROVE  UNCHANGED <<pos, toExtractor>> /\ reader' \in {"off", "request"}
    BY <2>3 DEF ReadAnswer, ReadError, ReaderLeaves
  <2>4. CASE ReaderMeetsEof
    BY <2>4 DEF ReaderMeetsEof, ReaderLeaves, TypeOK
  <2>5. CASE UNCHANGED <<pos, toExtractor>> /\ reader' \in {"off", "request"}
    BY <2>5 DEF TypeOK
  <2> QED BY <2>1, <2>2, <2>3, <2>4, <2>5 DEF Reader, ReaderReads
<1>4. Volume' = Volume
    BY <1>1 DEF Volume
<1>5. ToExtractor' = ToExtractor /\ MediaOK'
    BY <1>1, MediaUnchanged DEF TypeOK
<1>6. ToReader' = ToReader
    BY DEF ToReader
<1>7. loaded' \in DOMAIN media'
    BY <1>1 DEF TypeOK
<1>8. /\ option' \in Options /\ ext' \in {"accept", "serve", "done", "failed"}
      /\ DOMAIN v' = DOMAIN Unused /\ v'.expected \in Nat
      /\ v'.archive \in Archives \cup {NoArchive}
      /\ output' \in Seq(Pieces) /\ buffered' \in Seq(Pieces) /\ metadata' \in Seq(Pieces)
    BY <1>1 DEF TypeOK
<1> QED BY <1>2, <1>3, <1>4, <1>5, <1>6, <1>7, <1>8 DEF TypeOK

-----------------------------------------------------------------------------
(* The extractor's output. *)

LEMMA EmittedTyped == TypeOK => Emitted \in Seq(Pieces)
    BY DEF TypeOK, Emitted

LEMMA FlushFacts ==
    ASSUME TypeOK, Flush
    PROVE  /\ output' \in Seq(Pieces) /\ buffered' \in Seq(Pieces)
           /\ buffered' = <<>> /\ Emitted' = Emitted /\ output' = Emitted
<1>1. output' = Emitted /\ buffered' = <<>> /\ Emitted \in Seq(Pieces)
    BY EmittedTyped DEF Flush
<1>2. Emitted' = output' \o buffered'
    BY DEF Emitted
<1>3. output' \o <<>> = output'
    BY <1>1, ConcatEmptySeq
<1> QED BY <1>1, <1>2, <1>3

\* What a failing flush leaves is a beginning of what was written.
LEMMA FlushFailsFacts ==
    ASSUME TypeOK, FlushFails
    PROVE  /\ output' \in Seq(Pieces) /\ buffered' \in Seq(Pieces)
           /\ option.flushMayFail
           /\ \A i \in DOMAIN Emitted' : i \in DOMAIN Emitted /\ Emitted'[i] = Emitted[i]
<1>1. output \in Seq(Pieces) /\ buffered \in Seq(Pieces)
    BY DEF TypeOK
<1>2. PICK k \in 0 .. Len(buffered) - 1 : output' = output \o SubSeq(buffered, 1, k)
    BY DEF FlushFails
<1> DEFINE b == SubSeq(buffered, 1, k)
<1>3. /\ Len(buffered) \in Nat /\ Len(output) \in Nat /\ k \in Int /\ 1 \in Int
      /\ DOMAIN buffered = 1 .. Len(buffered) /\ DOMAIN output = 1 .. Len(output)
    BY <1>1
<1>4. \A i \in 1 .. k : buffered[i] \in Pieces
    BY <1>1, <1>3
<1>5. /\ b \in Seq(Pieces) /\ Len(b) = (IF 1 <= k THEN k - 1 + 1 ELSE 0)
      /\ \A i \in 1 .. k - 1 + 1 : b[i] = buffered[1 + i - 1]
    BY <1>3, <1>4, SubSeqProperties
<1>6. Len(b) = k
    BY <1>3, <1>5
<1>7. \A i \in 1 .. k : b[i] = buffered[i]
    BY <1>3, <1>5
<1> HIDE DEF b
<1>8. /\ output' \in Seq(Pieces) /\ Len(output') = Len(output) + k
      /\ \A i \in 1 .. Len(output) + k :
            output'[i] = IF i <= Len(output) THEN output[i] ELSE b[i - Len(output)]
    BY <1>1, <1>2, <1>5, <1>6, ConcatProperties DEF b
<1>9. /\ Emitted \in Seq(Pieces) /\ Len(Emitted) = Len(output) + Len(buffered)
      /\ \A i \in 1 .. Len(output) + Len(buffered) :
            Emitted[i] = IF i <= Len(output) THEN output[i] ELSE buffered[i - Len(output)]
    BY <1>1, ConcatProperties DEF Emitted
<1>10. buffered' = <<>> /\ option.flushMayFail
    BY DEF FlushFails
<1>11. Emitted' = output'
  <2>1. Emitted' = output' \o <<>>
    BY <1>10 DEF Emitted
  <2> QED BY <1>8, <2>1, ConcatEmptySeq
<1>12. ASSUME NEW i \in 1 .. Len(output) + k
       PROVE  i \in 1 .. Len(output) + Len(buffered) /\ output'[i] = Emitted[i]
  <2>1. i \in 1 .. Len(output) + Len(buffered)
    BY <1>3
  <2>2. CASE i <= Len(output)
    BY <1>8, <1>9, <2>1, <2>2
  <2>3. CASE ~ (i <= Len(output))
    <3>1. i - Len(output) \in 1 .. k
      BY <1>3, <2>3
    <3> QED BY <1>7, <1>8, <1>9, <2>1, <2>3, <3>1
  <2> QED BY <2>1, <2>2, <2>3
<1>13. DOMAIN Emitted = 1 .. Len(output) + Len(buffered)
       /\ DOMAIN output' = 1 .. Len(output) + k
    BY <1>8, <1>9
<1> QED BY <1>8, <1>10, <1>11, <1>12, <1>13

LEMMA WriteFacts ==
    ASSUME TypeOK, NEW e \in Pieces,
           \/ output' = Emitted /\ buffered' = <<e>>
           \/ output' = output /\ buffered' = Append(buffered, e)
    PROVE  /\ output' \in Seq(Pieces) /\ buffered' \in Seq(Pieces)
           /\ Emitted' = Append(Emitted, e)
<1>1. output \in Seq(Pieces) /\ buffered \in Seq(Pieces) /\ Emitted \in Seq(Pieces)
    BY EmittedTyped DEF TypeOK
<1>2. Emitted' = output' \o buffered'
    BY DEF Emitted
<1>3. CASE output' = Emitted /\ buffered' = <<e>>
  <2> DEFINE t == <<e>>
  <2>1. t \in Seq(Pieces)
    OBVIOUS
  <2>2. Emitted \o <<e>> = Append(Emitted, e)
    BY <1>1
  <2> QED BY <1>1, <1>2, <1>3, <2>1, <2>2
<1>4. CASE output' = output /\ buffered' = Append(buffered, e)
  <2>1. Append(buffered, e) \in Seq(Pieces)
    BY <1>1
  <2>2. output \o Append(buffered, e) = Append(output \o buffered, e)
    BY <1>1
  <2> QED BY <1>1, <1>2, <1>4, <2>1, <2>2 DEF Emitted
<1> QED BY <1>3, <1>4

-----------------------------------------------------------------------------
(* The extractor's answers. *)

\* The answers that follow are old ones or acknowledge frame n.
Answered(n) ==
    /\ toReader' \in Seq(ToReader)
    /\ \A i \in DOMAIN toReader' : toReader'[i].type = "ack_frame" =>
           \/ i \in DOMAIN toReader /\ toReader'[i] = toReader[i]
           \/ toReader'[i].seq = n

AnsweredNothing ==
    /\ toReader' \in Seq(ToReader)
    /\ \A i \in DOMAIN toReader' : toReader'[i].type = "ack_frame" =>
           i \in DOMAIN toReader /\ toReader'[i] = toReader[i]

LEMMA AcknowledgeFacts ==
    ASSUME TypeOK, NEW f, f.seq \in 0 .. Len(Stream) - 1, Acknowledge(f)
    PROVE  Answered(f.seq) /\ ext' = ext
<1> DEFINE x == AckFrame(f.seq)
           two == <<x, NextFrame>>
<1>1. toReader \in Seq(ToReader) /\ x \in ToReader /\ NextFrame \in ToReader
      /\ x.seq = f.seq /\ NextFrame.type # "ack_frame"
    BY AckFacts, OtherReplies DEF TypeOK, ToReader
<1>2. toReader' = (IF readerAlive THEN toReader \o two ELSE toReader) /\ ext' = ext
    BY DEF Acknowledge
<1> HIDE DEF x
<1>3. CASE ~readerAlive
    BY <1>1, <1>2, <1>3 DEF Answered
<1>4. CASE readerAlive
  <2>1. two \in Seq(ToReader) /\ Len(two) = 2 /\ two[1] = x /\ two[2] = NextFrame
    BY <1>1
  <2> HIDE DEF two
  <2> DEFINE n == Len(toReader)
             t == toReader \o two
  <2>2. n \in Nat /\ DOMAIN toReader = 1 .. n
    BY <1>1
  <2>3. /\ t \in Seq(ToReader) /\ Len(t) = n + 2
        /\ \A i \in 1 .. n + 2 : t[i] = IF i <= n THEN toReader[i] ELSE two[i - n]
    <3>1. /\ t \in Seq(ToReader) /\ Len(t) = n + Len(two)
          /\ \A i \in 1 .. n + Len(two) :
                t[i] = IF i <= n THEN toReader[i] ELSE two[i - n]
      BY <1>1, <2>1, ConcatProperties
    <3> HIDE DEF n, t
    <3> QED BY <2>1, <3>1
  <2>4. DOMAIN t = 1 .. n + 2
    BY <2>3
  <2> HIDE DEF n, t
  <2>5. ASSUME NEW i \in 1 .. n + 2, t[i].type = "ack_frame"
        PROVE  (i \in DOMAIN toReader /\ t[i] = toReader[i]) \/ t[i].seq = f.seq
    <3>1. CASE i <= n
      BY <2>2, <2>3, <3>1
    <3>2. CASE i = n + 1
      <4>1. ~ (i <= n) /\ i - n = 1
        BY <2>2, <3>2
      <4> QED BY <1>1, <2>1, <2>3, <4>1
    <3>3. CASE i = n + 2
      <4>1. ~ (i <= n) /\ i - n = 2
        BY <2>2, <3>3
      <4>2. t[i] = NextFrame
        BY <2>1, <2>3, <4>1
      <4> QED BY <1>1, <2>5, <4>2
    <3> QED BY <2>2, <3>1, <3>2, <3>3
  <2>6. toReader' = t
    BY <1>2, <1>4 DEF t
  <2> QED BY <1>2, <2>3, <2>4, <2>5, <2>6 DEF Answered
<1> QED BY <1>3, <1>4

LEMMA FatalFacts ==
    ASSUME TypeOK, Fatal
    PROVE  AnsweredNothing /\ ext' = "failed"
<1> DEFINE e == Error("validation")
<1>1. toReader \in Seq(ToReader) /\ e \in ToReader /\ e.type # "ack_frame"
    BY OtherReplies DEF TypeOK, ToReader
<1>2. toReader' = Sent(toReader, readerAlive, e) /\ ext' = "failed"
    BY DEF Fatal, Disconnect
<1> HIDE DEF e
<1>3. /\ toReader' \in Seq(ToReader)
      /\ \A i \in DOMAIN toReader' :
            (i \in DOMAIN toReader /\ toReader'[i] = toReader[i]) \/ toReader'[i] = e
    BY <1>1, <1>2, SentTyped
<1> QED BY <1>1, <1>2, <1>3 DEF AnsweredNothing

LEMMA LastAckFacts ==
    ASSUME TypeOK, NEW n \in 0 .. Len(Stream) - 1,
           toReader' = Sent(toReader, readerAlive, AckFrame(n))
    PROVE  Answered(n)
<1> DEFINE e == AckFrame(n)
<1>1. toReader \in Seq(ToReader) /\ e \in ToReader /\ e.seq = n
    BY AckFacts DEF TypeOK, ToReader
<1>2. toReader' = Sent(toReader, readerAlive, e)
    OBVIOUS
<1> HIDE DEF e
<1>3. /\ toReader' \in Seq(ToReader)
      /\ \A i \in DOMAIN toReader' :
            (i \in DOMAIN toReader /\ toReader'[i] = toReader[i]) \/ toReader'[i] = e
    BY <1>1, <1>2, SentTyped
<1> QED BY <1>1, <1>3 DEF Answered

LEMMA AckTyped ==
    ASSUME TypeOK, NEW i \in DOMAIN toReader, toReader[i].type = "ack_frame"
    PROVE  toReader[i].seq \in 0 .. Len(Stream) - 1 /\ toReader[i] = AckFrame(toReader[i].seq)
<1>1. toReader[i] \in ToReader
    BY DEF TypeOK
<1> QED BY <1>1, AckFacts, OtherReplies DEF ToReader

LEMMA AcksAfter ==
    ASSUME TypeOK, ext # "done", AcksKnown, NEW n \in 0 .. Len(Stream) - 1, Answered(n),
           v'.expected \in Nat, v.expected <= v'.expected, n < v'.expected,
           n = Len(Stream) - 1 => ext' = "done"
    PROVE  AcksKnown'
<1> SUFFICES ASSUME NEW i \in DOMAIN toReader', toReader'[i].type = "ack_frame"
             PROVE  /\ toReader'[i].seq < v'.expected
                    /\ toReader'[i].seq = Len(Stream) - 1 => ext' = "done"
    BY DEF AcksKnown
<1>1. CASE toReader'[i].seq = n
    BY <1>1
<1>2. CASE i \in DOMAIN toReader /\ toReader'[i] = toReader[i]
  <2>1. toReader[i].seq < v.expected /\ toReader[i].seq # Len(Stream) - 1
    BY <1>2 DEF AcksKnown
  <2>2. toReader[i].seq \in Int /\ v.expected \in Int
    BY <1>2, AckTyped DEF TypeOK
  <2> QED BY <1>2, <2>1, <2>2
<1> QED BY <1>1, <1>2 DEF Answered

LEMMA AcksAfterNothing ==
    ASSUME TypeOK, AcksKnown, AnsweredNothing,
           v'.expected \in Nat, v.expected <= v'.expected, ext = "done" => ext' = "done"
    PROVE  AcksKnown'
<1> SUFFICES ASSUME NEW i \in DOMAIN toReader', toReader'[i].type = "ack_frame"
             PROVE  /\ toReader'[i].seq < v'.expected
                    /\ toReader'[i].seq = Len(Stream) - 1 => ext' = "done"
    BY DEF AcksKnown
<1>1. i \in DOMAIN toReader /\ toReader'[i] = toReader[i]
    BY DEF AnsweredNothing
<1>2. toReader[i].seq < v.expected /\ (toReader[i].seq = Len(Stream) - 1 => ext = "done")
    BY <1>1 DEF AcksKnown
<1>3. toReader[i].seq \in Int /\ v.expected \in Int
    BY <1>1, AckTyped DEF TypeOK
<1> QED BY <1>1, <1>2, <1>3

\* Whatever the extractor does, the frames of the medium stay accepted.
LEMMA ReaderKnownAfter ==
    ASSUME TypeOK, ReaderKnown, ext # "done", UNCHANGED <<media, readerVars>>,
           v'.expected \in Nat, v.expected <= v'.expected
    PROVE  ReaderKnown'
<1>1. UNCHANGED <<media, loaded, pos, reader, readerExit, endAcked>> /\ Volume' = Volume
    BY DEF readerVars, Volume
<1>2. ASSUME reader # "off" \/ readerExit = "eof", NEW n, TakenTo(n)
      PROVE  TakenTo(n)'
  <2> SUFFICES ASSUME NEW i \in DOMAIN Volume, i <= n, IsFrame(Volume[i])
               PROVE  Volume[i].seq < v'.expected
    BY <1>1 DEF TakenTo
  <2>1. Volume[i].seq < v.expected
    BY <1>2 DEF TakenTo
  <2>2. Volume[i].seq \in Int /\ v.expected \in Int
    BY <1>2, VolumeFacts DEF FrameRecords, TypeOK
  <2> QED BY <2>1, <2>2
<1>3. ~endAcked /\ readerExit # "complete"
    BY DEF ReaderKnown
<1>4. ASSUME ~AnyOrder
      PROVE  /\ reader = "request" => TakenTo(pos)'
             /\ reader = "ack" => TakenTo(pos - 1)'
             /\ readerExit = "eof" => TakenTo(Len(Volume))'
  <2>1. CASE reader = "request"
    <3>1. TakenTo(pos)
      BY <1>4, <2>1 DEF ReaderKnown
    <3>2. TakenTo(pos)'
      BY <1>1, <1>2, <2>1, <3>1 DEF TakenTo
    <3>3. readerExit = "eof" => TakenTo(Len(Volume))'
      BY <1>1, <1>2, <1>4 DEF ReaderKnown, TakenTo
    <3> QED BY <2>1, <3>2, <3>3
  <2>2. CASE reader = "ack"
    <3>1. TakenTo(pos - 1)
      BY <1>4, <2>2 DEF ReaderKnown
    <3>2. TakenTo(pos - 1)'
      BY <1>1, <1>2, <2>2, <3>1 DEF TakenTo
    <3>3. readerExit = "eof" => TakenTo(Len(Volume))'
      BY <1>1, <1>2, <1>4 DEF ReaderKnown, TakenTo
    <3> QED BY <2>2, <3>2, <3>3
  <2>3. CASE reader \notin {"request", "ack"}
    BY <1>1, <1>2, <1>4, <2>3 DEF ReaderKnown, TakenTo
  <2> QED BY <2>1, <2>2, <2>3
<1> QED BY <1>1, <1>3, <1>4 DEF ReaderKnown

-----------------------------------------------------------------------------
(* What the frames of an archive come to. *)

\* What frame number n adds to them.
Gain(c, x, n) == IF Stream[n + 1].channel = c
                 THEN {[archive |-> x, seq |-> n, check |-> "ok"]} ELSE {}

LEMMA FramesGrow ==
    ASSUME NEW c, NEW x, NEW a, NEW n \in Nat, a = x \/ n = 0
    PROVE  FramesBefore(c, x, n + 1) = FramesBefore(c, a, n) \cup Gain(c, x, n)
<1> DEFINE Old == {j \in 0 .. n - 1 : Stream[j + 1].channel = c}
           New == {j \in 0 .. (n + 1) - 1 : Stream[j + 1].channel = c}
           Item(k) == [archive |-> x, seq |-> k, check |-> "ok"]
<1>1. New = Old \cup (IF Stream[n + 1].channel = c THEN {n} ELSE {})
    OBVIOUS
<1>2. FramesBefore(c, x, n + 1) = {Item(k) : k \in New}
    BY DEF FramesBefore
<1>3. FramesBefore(c, a, n) = {Item(k) : k \in Old}
  <2>1. CASE a = x
    BY <2>1 DEF FramesBefore
  <2>2. CASE n = 0
    <3>1. Old = {} /\ {j \in 0 .. 0 - 1 : Stream[j + 1].channel = c} = {}
      BY <2>2
    <3> HIDE DEF Old
    <3> QED BY <2>2, <3>1 DEF FramesBefore
  <2> QED BY <2>1, <2>2
<1> HIDE DEF Old, New
<1>4. {Item(k) : k \in New} = {Item(k) : k \in Old} \cup
          (IF Stream[n + 1].channel = c THEN {Item(n)} ELSE {})
    BY <1>1
<1> QED BY <1>2, <1>3, <1>4 DEF Gain

\* Those below the next number, once the frame of that number is accepted.
LEMMA FramesAccepted ==
    ASSUME NEW c, NEW r, r.seq \in Nat, r.seq = v.expected,
           v.archive = r.archive \/ v.expected = 0
    PROVE  FramesBefore(c, r.archive, r.seq + 1) =
               FramesBefore(c, v.archive, v.expected) \cup Gain(c, r.archive, r.seq)
    BY FramesGrow

LEMMA FramesBelow ==
    ASSUME NEW c, NEW a, NEW n \in Nat, NEW s, Lists(s, FramesBefore(c, a, n))
    PROVE  Ascending(s) /\ \A i \in DOMAIN s : s[i].seq < n
<1>1. \A x \in FramesBefore(c, a, n) : x.seq < n
    BY DEF FramesBefore
<1> QED BY <1>1 DEF Lists

LEMMA NoFramesBefore ==
    ASSUME NEW c, NEW a PROVE FramesBefore(c, a, 0) = {}
    BY DEF FramesBefore

-----------------------------------------------------------------------------
(* The extractor processes a message. *)

FrameArrives(r) ==
    /\ ext = "serve" /\ r \in OnMedia /\ r \in FrameRecords
    /\ toExtractor' \in Seq(ToExtractor)
    /\ UNCHANGED <<option, media, readerVars>>

\* The parts of the invariant that a step of the extractor may disturb.
ExtractorInv ==
    /\ MetadataIntact /\ OutputInv
    /\ ~option.salvage => EndKnown /\ MetadataKnown /\ AcksKnown /\ ReaderKnown
    /\ option.salvage => SalvageKnown

LEMMA TypesAfter ==
    ASSUME TypeOK, UNCHANGED <<option, media, readerVars>>,
           toExtractor' \in Seq(ToExtractor), toReader' \in Seq(ToReader),
           ext' \in {"accept", "serve", "done", "failed"},
           DOMAIN v' = DOMAIN Unused, v'.expected \in Nat,
           v'.archive \in Archives \cup {NoArchive},
           output' \in Seq(Pieces), buffered' \in Seq(Pieces), metadata' \in Seq(Pieces)
    PROVE  TypeOK'
<1>1. UNCHANGED <<option, media, loaded, pos, reader, readerExit>> /\ Volume' = Volume
    BY DEF readerVars, Volume
<1>2. ToExtractor' = ToExtractor /\ MediaOK' /\ ToReader' = ToReader
    BY <1>1, MediaUnchanged DEF TypeOK, ToReader
<1> QED BY <1>1, <1>2 DEF TypeOK

\* A step that leaves output and validator alone.
LEMMA NothingTaken ==
    ASSUME RestoreInv, UNCHANGED <<option, media>>,
           UNCHANGED <<output, buffered, metadata>>,
           v'.expected = v.expected, v'.archive = v.archive, v'.endSeen = v.endSeen
    PROVE  /\ OutputInv' /\ MetadataIntact'
           /\ ~option.salvage => MetadataKnown'
           /\ option.salvage => SalvageKnown'
<1>1. Emitted' = Emitted /\ OnMedia' = OnMedia
    BY MediaUnchanged DEF Emitted
<1>2. OutputInv'
    BY <1>1 DEF RestoreInv, OutputInv, OutputKnown
<1>3. MetadataIntact' /\ (~option.salvage => MetadataKnown')
    BY DEF RestoreInv, MetadataIntact, MetadataKnown
<1>4. option.salvage => SalvageKnown'
    BY <1>1 DEF RestoreInv, SalvageKnown
<1> QED BY <1>2, <1>3, <1>4

LEMMA BeforeTheEnd ==
    ASSUME RestoreInv, ~option.salvage, ext = "serve" \/ ext = "accept"
    PROVE  ~v.endSeen /\ (v.expected < Len(Stream) \/ v.expected = 0)
    BY DEF RestoreInv, EndKnown

LEMMA SuppressStep ==
    ASSUME RestoreInv, NEW r, FrameArrives(r), SuppressReplay(Frame(r))
    PROVE  TypeOK' /\ ExtractorInv'
<1> DEFINE f == Frame(r)
<1>1. /\ f.seq = r.seq /\ r.seq \in 0 .. Len(Stream) - 1 /\ Len(Stream) \in Nat
    BY FrameFacts DEF FrameArrives
<1> HIDE DEF f
<1>2. /\ v' = Replayed(v, f) /\ Acknowledge(f) /\ Repetition(f)
      /\ UNCHANGED <<output, buffered, metadata>>
    BY DEF SuppressReplay, f
<1>3. TypeOK /\ DOMAIN v = DOMAIN Unused /\ v.expected \in Nat
    BY DEF RestoreInv, TypeOK
<1>4. /\ DOMAIN v' = DOMAIN Unused /\ v'.expected = v.expected
      /\ v'.archive = v.archive /\ v'.endSeen = v.endSeen
    BY <1>2, <1>3, ReplayedFields
<1>5. Answered(r.seq) /\ ext' = ext /\ ext = "serve"
    BY <1>1, <1>2, <1>3, AcknowledgeFacts DEF FrameArrives
<1>6. TypeOK'
    BY <1>2, <1>3, <1>4, <1>5, TypesAfter DEF FrameArrives, Answered, TypeOK
<1>7. ASSUME ~option.salvage
      PROVE  EndKnown' /\ AcksKnown' /\ ReaderKnown'
  <2>1. EndKnown /\ AcksKnown /\ ReaderKnown
    BY <1>7 DEF RestoreInv
  <2>2. r.seq < v.expected
    BY <1>1, <1>2, <1>7 DEF Repetition, IsReplay, IsOld
  <2>3. r.seq # Len(Stream) - 1
    BY <1>1, <1>3, <1>5, <1>7, <2>2, BeforeTheEnd
  <2>4. AcksKnown'
    BY <1>1, <1>3, <1>4, <1>5, <2>1, <2>2, <2>3, AcksAfter
  <2>5. ReaderKnown'
    BY <1>3, <1>4, <1>5, <2>1, ReaderKnownAfter DEF FrameArrives
  <2> QED BY <1>2, <1>4, <1>5, <2>1, <2>4, <2>5 DEF EndKnown
<1>8. UNCHANGED <<option, media>>
    BY DEF FrameArrives
<1> QED BY <1>2, <1>4, <1>6, <1>7, <1>8, NothingTaken DEF ExtractorInv

LEMMA RefuseStep ==
    ASSUME RestoreInv, NEW r, FrameArrives(r), RefuseFrame(Frame(r))
    PROVE  TypeOK' /\ ExtractorInv'
<1>1. Fatal /\ UNCHANGED <<v, output, buffered, metadata>>
    BY DEF RefuseFrame
<1>2. TypeOK /\ v.expected \in Nat /\ ext = "serve" /\ UNCHANGED <<option, media, readerVars>>
    BY DEF RestoreInv, TypeOK, FrameArrives
<1>3. AnsweredNothing /\ ext' = "failed"
    BY <1>1, <1>2, FatalFacts
<1>4. TypeOK'
    BY <1>1, <1>2, <1>3, TypesAfter DEF FrameArrives, AnsweredNothing, TypeOK
<1>5. ASSUME ~option.salvage
      PROVE  EndKnown' /\ AcksKnown' /\ ReaderKnown'
  <2>1. EndKnown /\ AcksKnown /\ ReaderKnown
    BY <1>5 DEF RestoreInv
  <2>2. AcksKnown'
    BY <1>1, <1>2, <1>3, <2>1, AcksAfterNothing
  <2>3. ReaderKnown'
    BY <1>1, <1>2, <2>1, ReaderKnownAfter
  <2> QED BY <1>1, <1>2, <1>3, <2>1, <2>2, <2>3 DEF EndKnown
<1> QED BY <1>1, <1>2, <1>4, <1>5, NothingTaken DEF ExtractorInv

LEMMA SkipStep ==
    ASSUME RestoreInv, NEW r, FrameArrives(r), SkipFrame(Frame(r))
    PROVE  TypeOK' /\ ExtractorInv'
<1> DEFINE f == Frame(r)
<1>1. /\ f.seq = r.seq /\ r.seq \in 0 .. Len(Stream) - 1
    BY FrameFacts DEF FrameArrives
<1> HIDE DEF f
<1>2. Acknowledge(f) /\ option.salvage /\ UNCHANGED <<v, output, buffered, metadata>>
    BY DEF SkipFrame, f
<1>3. TypeOK /\ UNCHANGED <<option, media, readerVars>>
    BY DEF RestoreInv, FrameArrives
<1>4. Answered(r.seq) /\ ext' = ext
    BY <1>1, <1>2, <1>3, AcknowledgeFacts
<1>5. TypeOK'
    BY <1>2, <1>3, <1>4, TypesAfter DEF FrameArrives, Answered, TypeOK
<1> QED BY <1>2, <1>3, <1>5, NothingTaken DEF ExtractorInv

\* A frame that restoring takes is the one it wants.
LEMMA FreshFacts ==
    ASSUME NEW f, IsNextRestored(v, f)
    PROVE  /\ f.seq = v.expected /\ ~v.endSeen /\ v.archive \in {NoArchive, f.archive}
           /\ f.check = "ok" \/ f.channel = "metadata"
    BY DEF IsNextRestored, IsNext, Intact

\* What the three kinds of frames do.
MetadataTaken(r) ==
    /\ Frame(r).channel = "metadata" /\ Answered(r.seq) /\ ext' = ext
    /\ Emitted' = Emitted /\ UNCHANGED buffered
    /\ metadata' = IF r.check = "ok" THEN Append(metadata, Piece(Frame(r))) ELSE metadata

EndTaken(r) ==
    /\ Frame(r).channel = "archive_end" /\ UNCHANGED metadata
    /\ \/ Answered(r.seq) /\ ext' = "done" /\ Emitted' = Emitted /\ buffered' = <<>>
       \/ FlushFails /\ AnsweredNothing /\ ext' = "failed"

ContentTaken(r) ==
    /\ Frame(r).channel = "content" /\ UNCHANGED metadata
    /\ \/ Answered(r.seq) /\ ext' = ext /\ Emitted' = Append(Emitted, Piece(Frame(r)))
       \/ FlushFails /\ AnsweredNothing /\ ext' = "failed"

LEMMA TakeTyped ==
    ASSUME TypeOK, NEW r, FrameArrives(r), TakeFrame(Frame(r))
    PROVE  /\ TypeOK' /\ v'.expected = r.seq + 1 /\ v'.archive = r.archive
           /\ MetadataTaken(r) \/ EndTaken(r) \/ ContentTaken(r)
<1> DEFINE f == Frame(r)
           e == Piece(f)
<1>1. /\ f.seq = r.seq /\ f.archive = r.archive /\ f.check = r.check
      /\ r.seq \in 0 .. Len(Stream) - 1 /\ e \in Pieces /\ r.archive \in Archives
    BY FrameFacts DEF FrameArrives
<1>2. /\ v' = (IF option.salvage THEN Salvaged(v, f) ELSE Accepted(v, f))
      /\ TakeMetadata(f) \/ TakeEnd(f) \/ TakeContent(f)
    BY DEF TakeFrame
<1> HIDE DEF f, e
<1>3. DOMAIN v = DOMAIN Unused /\ output \in Seq(Pieces) /\ buffered \in Seq(Pieces)
      /\ metadata \in Seq(Pieces) /\ ext = "serve"
    BY DEF TypeOK, FrameArrives
<1>4. DOMAIN v' = DOMAIN Unused /\ v'.expected = r.seq + 1 /\ v'.archive = r.archive
  <2>1. CASE option.salvage
    <3>1. v' = Salvaged(v, f)
      BY <1>2, <2>1
    <3>2. DOMAIN v' = DOMAIN Unused /\ v'.expected = f.seq + 1 /\ v'.archive = f.archive
      BY <1>3, <3>1, SalvagedExpects
    <3> QED BY <1>1, <3>2
  <2>2. CASE ~option.salvage
    <3>1. v' = Accepted(v, f)
      BY <1>2, <2>2
    <3>2. DOMAIN v' = DOMAIN Unused /\ v'.expected = f.seq + 1 /\ v'.archive = f.archive
      BY <1>3, <3>1, AcceptedExpects
    <3> QED BY <1>1, <3>2
  <2> QED BY <2>1, <2>2
<1>5. v'.expected \in Nat /\ v'.archive \in Archives \cup {NoArchive}
    BY <1>1, <1>4
<1> DEFINE Written == /\ output' \in Seq(Pieces) /\ buffered' \in Seq(Pieces)
                      /\ metadata' \in Seq(Pieces)
           Told == toReader' \in Seq(ToReader) /\ ext' \in {"serve", "done", "failed"}
<1>6. Written /\ Told => TypeOK'
    BY <1>4, <1>5, TypesAfter DEF FrameArrives
<1>7. CASE TakeMetadata(f)
  <2>1. /\ f.channel = "metadata" /\ Acknowledge(f) /\ UNCHANGED <<output, buffered>>
        /\ metadata' = IF r.check = "ok" THEN Append(metadata, e) ELSE metadata
    BY <1>1, <1>7 DEF TakeMetadata, Intact, e
  <2>2. Answered(r.seq) /\ ext' = ext
    BY <1>1, <2>1, AcknowledgeFacts
  <2>3. Emitted' = Emitted
    BY <2>1 DEF Emitted
  <2>4. metadata' \in Seq(Pieces)
    BY <1>1, <1>3, <2>1
  <2>5. Written /\ Told
    BY <1>3, <2>1, <2>2, <2>4 DEF Answered
  <2> HIDE DEF Written, Told
  <2> QED BY <1>4, <1>6, <2>1, <2>2, <2>3, <2>5 DEF f, e, MetadataTaken
<1>8. CASE TakeEnd(f)
  <2>1. f.channel = "archive_end" /\ UNCHANGED metadata
    BY <1>8 DEF TakeEnd
  <2>2. CASE Flush /\ Disconnect("done")
             /\ toReader' = Sent(toReader, readerAlive, AckFrame(f.seq))
    <3>1. Answered(r.seq) /\ ext' = "done"
      BY <1>1, <2>2, LastAckFacts DEF Disconnect
    <3>2. Emitted' = Emitted /\ buffered' = <<>> /\ Written
      BY <1>3, <2>1, <2>2, FlushFacts
    <3>3. Told
      BY <3>1 DEF Answered
    <3> HIDE DEF Written, Told
    <3> QED BY <1>4, <1>6, <2>1, <3>1, <3>2, <3>3 DEF f, EndTaken
  <2>3. CASE FlushFails /\ Fatal
    <3>1. AnsweredNothing /\ ext' = "failed"
      BY <2>3, FatalFacts
    <3>2. Written
      BY <1>3, <2>1, <2>3, FlushFailsFacts
    <3>3. Told
      BY <3>1 DEF AnsweredNothing
    <3> HIDE DEF Written, Told
    <3> QED BY <1>4, <1>6, <2>1, <2>3, <3>1, <3>2, <3>3 DEF f, EndTaken
  <2> QED BY <1>8, <2>2, <2>3 DEF TakeEnd
<1>9. CASE TakeContent(f)
  <2>1. f.channel = "content" /\ UNCHANGED metadata
    BY <1>9 DEF TakeContent
  <2>2. CASE /\ \/ output' = Emitted /\ buffered' = <<e>>
                \/ output' = output /\ buffered' = Append(buffered, e)
             /\ Acknowledge(f)
    <3>1. Answered(r.seq) /\ ext' = ext
      BY <1>1, <2>2, AcknowledgeFacts
    <3>2. Emitted' = Append(Emitted, e) /\ Written
      BY <1>1, <1>3, <2>1, <2>2, WriteFacts
    <3>3. Told
      BY <1>3, <3>1 DEF Answered
    <3> HIDE DEF Written, Told
    <3> QED BY <1>4, <1>6, <2>1, <3>1, <3>2, <3>3 DEF f, e, ContentTaken
  <2>3. CASE FlushFails /\ Fatal
    <3>1. AnsweredNothing /\ ext' = "failed"
      BY <2>3, FatalFacts
    <3>2. Written
      BY <1>3, <2>1, <2>3, FlushFailsFacts
    <3>3. Told
      BY <3>1 DEF AnsweredNothing
    <3> HIDE DEF Written, Told
    <3> QED BY <1>4, <1>6, <2>1, <2>3, <3>1, <3>2, <3>3 DEF f, ContentTaken
  <2> QED BY <1>9, <2>2, <2>3 DEF TakeContent, e
<1> QED BY <1>2, <1>7, <1>8, <1>9

LEMMA MetadataAppend ==
    ASSUME TypeOK, MetadataKnown, ~option.salvage, UNCHANGED option,
           NEW r \in FrameRecords, r.seq = v.expected,
           v.archive \in {NoArchive, r.archive}, v.archive = NoArchive => v.expected = 0,
           r.archive # NoArchive,
           v'.expected = r.seq + 1, v'.archive = r.archive,
           option.keys => r.check = "ok",
           IF Frame(r).channel = "metadata" /\ r.check = "ok"
           THEN metadata' = Append(metadata, Piece(Frame(r)))
           ELSE metadata' = metadata
    PROVE  MetadataKnown'
<1> DEFINE e == Piece(Frame(r))
<1>1. /\ metadata \in Seq(Pieces) /\ v.expected \in Nat /\ r.seq \in Nat
      /\ e \in Pieces /\ e.seq = r.seq
      /\ e = [archive |-> r.archive, seq |-> r.seq, check |-> r.check]
      /\ Frame(r).channel = Stream[r.seq + 1].channel
    BY FrameFacts DEF TypeOK
<1> HIDE DEF e
<1>2. \A i \in DOMAIN metadata : metadata[i].seq < r.seq /\ metadata[i].seq \in Int
  <2>1. \A i \in DOMAIN metadata : metadata[i] \in Pieces
    BY <1>1
  <2> QED BY <2>1 DEF MetadataKnown, Pieces
<1>3. /\ Ascending(Append(metadata, e))
      /\ \A S : Lists(metadata, S) => Lists(Append(metadata, e), S \cup {e})
    BY <1>1, <1>2, ListAppend DEF MetadataKnown
<1>4. Ascending(metadata')
    BY <1>3 DEF MetadataKnown, e
<1>5. \A i \in DOMAIN metadata' : metadata'[i].seq < v'.expected
  <2>1. \A i \in DOMAIN metadata : metadata[i].seq < r.seq + 1
    BY <1>1, <1>2
  <2>2. CASE metadata' = Append(metadata, e)
    <3>1. \A i \in DOMAIN metadata' :
              (i \in DOMAIN metadata /\ metadata'[i] = metadata[i]) \/ metadata'[i] = e
      BY <1>1, <2>2
    <3> QED BY <1>1, <2>1, <3>1
  <2> QED BY <2>1, <2>2 DEF e
<1>6. ASSUME option.keys
      PROVE  Lists(metadata', FramesBefore("metadata", v'.archive, v'.expected))
  <2>1. Lists(metadata, FramesBefore("metadata", v.archive, v.expected))
    BY <1>6 DEF MetadataKnown
  <2>2. FramesBefore("metadata", r.archive, r.seq + 1) =
            FramesBefore("metadata", v.archive, v.expected) \cup
            (IF Frame(r).channel = "metadata"
             THEN {[archive |-> r.archive, seq |-> r.seq, check |-> "ok"]} ELSE {})
    <3>1. v.archive = r.archive \/ v.expected = 0
      OBVIOUS
    <3>2. FramesBefore("metadata", r.archive, r.seq + 1) =
              FramesBefore("metadata", v.archive, v.expected)
              \cup Gain("metadata", r.archive, r.seq)
      BY <1>1, <3>1, FramesAccepted
    <3> QED BY <1>1, <3>2 DEF Gain
  <2>3. CASE Frame(r).channel = "metadata"
    <3>1. e = [archive |-> r.archive, seq |-> r.seq, check |-> "ok"]
          /\ metadata' = Append(metadata, e)
      BY <1>1, <1>6, <2>3 DEF e
    <3> QED BY <1>3, <2>1, <2>2, <2>3, <3>1
  <2>4. CASE Frame(r).channel # "metadata"
    BY <2>1, <2>2, <2>4
  <2> QED BY <2>3, <2>4
<1> QED BY <1>4, <1>5, <1>6 DEF MetadataKnown

LEMMA IntactAppend ==
    ASSUME metadata \in Seq(Pieces), MetadataIntact, NEW r \in FrameRecords,
           \/ r.check = "ok" /\ metadata' = Append(metadata, Piece(Frame(r)))
           \/ metadata' = metadata
    PROVE  MetadataIntact'
<1> DEFINE e == Piece(Frame(r))
<1>1. e \in Pieces /\ e.check = r.check
    BY FrameFacts
<1> HIDE DEF e
<1>2. CASE r.check = "ok" /\ metadata' = Append(metadata, e)
  <2>1. \A i \in DOMAIN metadata' :
            (i \in DOMAIN metadata /\ metadata'[i] = metadata[i]) \/ metadata'[i] = e
    BY <1>1, <1>2
  <2> QED BY <1>1, <1>2, <2>1 DEF MetadataIntact
<1>3. CASE metadata' = metadata
    BY <1>3 DEF MetadataIntact
<1> QED BY <1>2, <1>3 DEF e

LEMMA OutputAppend ==
    ASSUME TypeOK, OutputKnown, NEW r \in FrameRecords, r.seq = v.expected,
           v.archive \in {NoArchive, r.archive}, v.archive = NoArchive => v.expected = 0,
           v'.expected = r.seq + 1, v'.archive = r.archive,
           IF Frame(r).channel = "content"
           THEN r.check = "ok" /\ Emitted' = Append(Emitted, Piece(Frame(r)))
           ELSE Emitted' = Emitted
    PROVE  OutputKnown'
<1> DEFINE e == Piece(Frame(r))
<1>1. /\ Emitted \in Seq(Pieces) /\ v.expected \in Nat /\ r.seq \in Nat
      /\ e \in Pieces /\ e.seq = r.seq
      /\ e = [archive |-> r.archive, seq |-> r.seq, check |-> r.check]
      /\ Frame(r).channel = Stream[r.seq + 1].channel
    BY FrameFacts, EmittedTyped DEF TypeOK
<1> HIDE DEF e
<1>2. \A i \in DOMAIN Emitted : Emitted[i].seq < e.seq
    BY <1>1, FramesBelow DEF OutputKnown
<1>3. \A S : Lists(Emitted, S) => Lists(Append(Emitted, e), S \cup {e})
    BY <1>1, <1>2, ListAppend
<1>4. FramesBefore("content", r.archive, r.seq + 1) =
            FramesBefore("content", v.archive, v.expected) \cup
            (IF Frame(r).channel = "content"
             THEN {[archive |-> r.archive, seq |-> r.seq, check |-> "ok"]} ELSE {})
  <2>1. v.archive = r.archive \/ v.expected = 0
    OBVIOUS
  <2>2. FramesBefore("content", r.archive, r.seq + 1) =
            FramesBefore("content", v.archive, v.expected)
            \cup Gain("content", r.archive, r.seq)
    BY <1>1, <2>1, FramesAccepted
  <2> QED BY <1>1, <2>2 DEF Gain
<1>5. CASE Frame(r).channel = "content"
  <2>1. e = [archive |-> r.archive, seq |-> r.seq, check |-> "ok"] /\ Emitted' = Append(Emitted, e)
    BY <1>1, <1>5 DEF e
  <2> QED BY <1>3, <1>4, <1>5, <2>1 DEF OutputKnown
<1>6. CASE Frame(r).channel # "content"
    BY <1>4, <1>6 DEF OutputKnown
<1> QED BY <1>5, <1>6

\* Restoring: the frame is the next one, and the archive's last one ends it.
LEMMA TakeRestoring ==
    ASSUME RestoreInv, ~option.salvage, NEW r, FrameArrives(r), TakeFrame(Frame(r))
    PROVE  ExtractorInv'
<1> DEFINE f == Frame(r)
<1>1. /\ f.seq = r.seq /\ f.archive = r.archive /\ f.check = r.check
      /\ r.seq \in 0 .. Len(Stream) - 1 /\ Len(Stream) \in Nat
      /\ r.archive \in Archives /\ r.archive # NoArchive
      /\ f.channel = "archive_end" <=> r.seq = Len(Stream) - 1
      /\ r \in FrameRecords
    BY FrameFacts DEF FrameArrives
<1>2. /\ TypeOK' /\ v'.expected = r.seq + 1 /\ v'.archive = r.archive
      /\ MetadataTaken(r) \/ EndTaken(r) \/ ContentTaken(r)
    BY TakeTyped DEF RestoreInv
<1> HIDE DEF f
<1>3. ~Forged(f) /\ IsNextRestored(v, f) /\ v' = Accepted(v, f)
    BY DEF TakeFrame, Fresh, f
<1>4. /\ r.seq = v.expected /\ ~v.endSeen /\ v.archive \in {NoArchive, r.archive}
      /\ r.check = "ok" \/ f.channel = "metadata"
      /\ option.keys => r.check = "ok"
    BY <1>1, <1>3, FreshFacts DEF Forged, Intact
<1>5. /\ TypeOK /\ MetadataIntact /\ OutputInv /\ EndKnown /\ MetadataKnown /\ AcksKnown
      /\ ReaderKnown /\ v.expected \in Nat /\ DOMAIN v = DOMAIN Unused
      /\ UNCHANGED <<option, media, readerVars>> /\ ext = "serve"
    BY DEF RestoreInv, TypeOK, FrameArrives
<1>6. v'.endSeen <=> r.seq = Len(Stream) - 1
  <2>1. /\ f.channel = "archive_end" => v'.endSeen
        /\ f.channel # "archive_end" => v'.endSeen = v.endSeen
    BY <1>3, <1>5, AcceptedExpects
  <2>2. CASE f.channel = "archive_end"
    BY <1>1, <2>1, <2>2
  <2>3. CASE f.channel # "archive_end"
    <3>1. ~v'.endSeen
      BY <1>4, <2>1, <2>3
    <3> QED BY <1>1, <2>3, <3>1
  <2> QED BY <2>2, <2>3
<1>7. EndKnown'
  <2>1. v'.archive # NoArchive
    BY <1>1, <1>2
  <2>2. CASE r.seq = Len(Stream) - 1
    <3>1. EndTaken(r)
      BY <1>1, <1>2, <2>2 DEF MetadataTaken, ContentTaken, f
    <3>2. v'.endSeen /\ v'.expected = Len(Stream)
      BY <1>1, <1>2, <1>6, <2>2
    <3>3. ext' = "failed" \/ (ext' = "done" /\ buffered' = <<>>)
      BY <3>1 DEF EndTaken
    <3> QED BY <2>1, <3>2, <3>3 DEF EndKnown
  <2>3. CASE r.seq # Len(Stream) - 1
    <3>1. ~EndTaken(r)
      BY <1>1, <2>3 DEF EndTaken, f
    <3>2. ~v'.endSeen /\ v'.expected < Len(Stream)
      BY <1>1, <1>2, <1>6, <2>3
    <3>3. ext' # "done"
      BY <1>2, <1>5, <3>1 DEF MetadataTaken, ContentTaken
    <3> QED BY <2>1, <3>2, <3>3 DEF EndKnown
  <2> QED BY <2>2, <2>3
<1>8. v'.expected \in Nat /\ v.expected <= v'.expected /\ r.seq < v'.expected
    BY <1>1, <1>2, <1>4
<1>9. AcksKnown'
  <2>1. CASE AnsweredNothing
    BY <1>5, <1>8, <2>1, AcksAfterNothing
  <2>2. CASE Answered(r.seq) /\ (r.seq = Len(Stream) - 1 => ext' = "done")
    BY <1>1, <1>5, <1>8, <2>2, AcksAfter
  <2>3. r.seq = Len(Stream) - 1 => EndTaken(r)
    BY <1>1, <1>2 DEF MetadataTaken, ContentTaken, f
  <2> QED BY <1>2, <2>1, <2>2, <2>3 DEF MetadataTaken, ContentTaken, EndTaken
<1>10. ReaderKnown'
    BY <1>5, <1>8, ReaderKnownAfter
<1>11. IF f.channel = "metadata" /\ r.check = "ok"
       THEN metadata' = Append(metadata, Piece(f)) ELSE metadata' = metadata
    BY <1>2 DEF MetadataTaken, ContentTaken, EndTaken, f
<1>12. v.archive = NoArchive => v.expected = 0
    BY <1>5 DEF EndKnown
<1>13. MetadataKnown'
    BY <1>1, <1>2, <1>4, <1>5, <1>11, <1>12, MetadataAppend DEF f
<1>14. MetadataIntact'
    BY <1>1, <1>5, <1>11, IntactAppend DEF f, TypeOK
<1>15. ASSUME ~option.flushMayFail
       PROVE  OutputKnown'
  <2>1. ~FlushFails
    BY <1>15 DEF FlushFails
  <2>2. IF f.channel = "content"
        THEN r.check = "ok" /\ Emitted' = Append(Emitted, Piece(f)) ELSE Emitted' = Emitted
    BY <1>2, <1>4, <2>1 DEF MetadataTaken, ContentTaken, EndTaken, f
  <2>3. OutputKnown
    BY <1>5, <1>15 DEF OutputInv
  <2> QED BY <1>1, <1>2, <1>4, <1>5, <1>12, <2>2, <2>3, OutputAppend DEF f
<1> QED BY <1>5, <1>7, <1>9, <1>10, <1>13, <1>14, <1>15 DEF ExtractorInv, OutputInv

\* Salvage: the frame is behind all that was written.
LEMMA TakeSalvaging ==
    ASSUME RestoreInv, option.salvage, NEW r, FrameArrives(r), TakeFrame(Frame(r))
    PROVE  ExtractorInv'
<1> DEFINE f == Frame(r)
           e == Piece(f)
<1>1. /\ f.seq = r.seq /\ f.archive = r.archive /\ f.check = r.check
      /\ r.seq \in Nat /\ r.archive # NoArchive /\ r.archive \in Archives
      /\ r \in FrameRecords /\ r \in OnMedia
      /\ e \in Pieces /\ e.seq = r.seq /\ e.check = r.check
    BY FrameFacts DEF FrameArrives
<1>2. /\ TypeOK' /\ v'.expected = r.seq + 1 /\ v'.archive = r.archive
      /\ MetadataTaken(r) \/ EndTaken(r) \/ ContentTaken(r)
    BY TakeTyped DEF RestoreInv
<1> HIDE DEF f, e
<1>3. IsSalvaged(v, f)
    BY DEF TakeFrame, Fresh, f
<1>4. /\ TypeOK /\ MetadataIntact /\ SalvageKnown /\ Emitted \in Seq(Pieces)
      /\ v.expected \in Nat /\ UNCHANGED <<option, media>>
    BY EmittedTyped DEF RestoreInv, TypeOK, FrameArrives
<1>5. PICK a \in Archives : (\A x \in OnMedia : x.archive = a) /\ v.archive \in {NoArchive, a}
    BY <1>4 DEF SalvageKnown
<1>6. r.archive = a /\ OnMedia' = OnMedia
    BY <1>1, <1>4, <1>5, MediaUnchanged
<1>7. r.check = "ok" /\ ~(f.seq < InArchiveOf(v, f).expected)
    BY <1>1, <1>3 DEF IsSalvaged, Intact, MayBeNew, IsOld
<1>8. \A i \in DOMAIN Emitted : Emitted[i].check = "ok" /\ Emitted[i].seq < r.seq
  <2>1. CASE v.archive = NoArchive
    <3>1. Emitted = <<>>
      BY <1>4, <2>1 DEF SalvageKnown
    <3> QED BY <3>1
  <2>2. CASE v.archive = a
    <3>1. InArchiveOf(v, f) = v
      BY <1>1, <1>6, <2>2 DEF InArchiveOf
    <3>2. v.expected <= r.seq
      BY <1>1, <1>4, <1>7, <3>1
    <3>3. \A i \in DOMAIN Emitted : Emitted[i] \in Pieces
      BY <1>4
    <3>4. \A i \in DOMAIN Emitted : Emitted[i].seq \in Int
      BY <3>3 DEF Pieces
    <3>5. \A i \in DOMAIN Emitted : Emitted[i].check = "ok" /\ Emitted[i].seq < v.expected
      BY <1>4 DEF SalvageKnown
    <3> QED BY <1>1, <1>4, <3>2, <3>4, <3>5
  <2> QED BY <1>5, <2>1, <2>2
<1> DEFINE Sound(s) == /\ Ascending(s)
                       /\ \A i \in DOMAIN s : s[i].check = "ok" /\ s[i].seq < r.seq + 1
<1>9. Sound(Emitted)
  <2>1. \A i \in DOMAIN Emitted : Emitted[i] \in Pieces
    BY <1>4
  <2>2. \A i \in DOMAIN Emitted : Emitted[i].seq \in Int
    BY <2>1 DEF Pieces
  <2>3. \A i \in DOMAIN Emitted : Emitted[i].seq < r.seq + 1
    BY <1>1, <1>8, <2>2
  <2> QED BY <1>4, <1>8, <2>3 DEF SalvageKnown
<1>10. Sound(Append(Emitted, e))
  <2>1. Ascending(Append(Emitted, e))
    BY <1>1, <1>4, <1>8, ListAppend DEF SalvageKnown
  <2>2. \A i \in DOMAIN Append(Emitted, e) :
            (i \in DOMAIN Emitted /\ Append(Emitted, e)[i] = Emitted[i])
            \/ Append(Emitted, e)[i] = e
    BY <1>4
  <2>3. e.check = "ok" /\ e.seq < r.seq + 1
    BY <1>1, <1>7
  <2> QED BY <1>9, <2>1, <2>2, <2>3
<1>11. ASSUME FlushFails PROVE Sound(Emitted')
  <2>1. \A i \in DOMAIN Emitted' : i \in DOMAIN Emitted /\ Emitted'[i] = Emitted[i]
    BY <1>4, <1>11, FlushFailsFacts
  <2> QED BY <1>9, <2>1 DEF Ascending
<1>12. Emitted' = Emitted \/ Emitted' = Append(Emitted, e) \/ FlushFails
    BY <1>2 DEF MetadataTaken, EndTaken, ContentTaken, e, f
<1>13. Sound(Emitted')
    BY <1>9, <1>10, <1>11, <1>12
<1>14. SalvageKnown'
    BY <1>1, <1>2, <1>5, <1>6, <1>13 DEF SalvageKnown
<1>15. metadata' = metadata \/ metadata' = Append(metadata, e)
    BY <1>2 DEF MetadataTaken, EndTaken, ContentTaken, e, f
<1>16. MetadataIntact'
    BY <1>1, <1>4, <1>7, <1>15, IntactAppend DEF e, f, TypeOK
<1> QED BY <1>4, <1>14, <1>16 DEF ExtractorInv, OutputInv

\* What is flushed, or lost, when a medium ends.
LEMMA TapeEofStep ==
    ASSUME RestoreInv, ext = "serve", UNCHANGED <<option, media, readerVars>>,
           toExtractor' \in Seq(ToExtractor), TakeTapeEof
    PROVE  TypeOK' /\ ExtractorInv'
<1>1. /\ TypeOK /\ toReader \in Seq(ToReader) /\ metadata \in Seq(Pieces)
      /\ DOMAIN v = DOMAIN Unused /\ v.expected \in Nat
      /\ v.archive \in Archives \cup {NoArchive}
    BY DEF RestoreInv, TypeOK
<1>2. Flush \/ FlushFails
    BY DEF TakeTapeEof
<1>3. ext' = "accept" /\ UNCHANGED <<toReader, v, metadata>>
    BY DEF TakeTapeEof, Disconnect
<1>4. /\ output' \in Seq(Pieces) /\ buffered' \in Seq(Pieces)
      /\ \A i \in DOMAIN Emitted' : i \in DOMAIN Emitted /\ Emitted'[i] = Emitted[i]
      /\ Emitted' = Emitted \/ option.flushMayFail
    BY <1>1, <1>2, FlushFacts, FlushFailsFacts
<1>5. TypeOK'
    BY <1>1, <1>3, <1>4, TypesAfter
<1>6. MetadataIntact'
    BY <1>3 DEF RestoreInv, MetadataIntact
<1>7. OutputInv'
    BY <1>3, <1>4 DEF RestoreInv, OutputInv, OutputKnown
<1>8. ASSUME option.salvage PROVE SalvageKnown'
  <2>1. SalvageKnown /\ OnMedia' = OnMedia
    BY <1>8, MediaUnchanged DEF RestoreInv
  <2>2. Ascending(Emitted')
    BY <1>4, <2>1 DEF SalvageKnown, Ascending
  <2>3. v.archive = NoArchive => Emitted' = <<>>
    <3>1. v.archive = NoArchive => Emitted = <<>>
      BY <2>1 DEF SalvageKnown
    <3>2. Emitted' \in Seq(Pieces)
      BY <1>4, ConcatProperties DEF Emitted
    <3>3. Emitted = <<>> => DOMAIN Emitted' = {}
      <4> DEFINE em == Emitted
                 en == Emitted'
      <4>1. \A i \in DOMAIN en : i \in DOMAIN em
        BY <1>4
      <4> HIDE DEF em, en
      <4>2. em = <<>> => DOMAIN em = {}
        OBVIOUS
      <4>3. em = <<>> => DOMAIN en = {}
        BY <4>1, <4>2
      <4> QED BY <4>3 DEF em, en
    <3> QED BY <3>1, <3>2, <3>3
  <2> QED BY <1>3, <1>4, <2>1, <2>2, <2>3 DEF SalvageKnown
<1>9. ASSUME ~option.salvage
      PROVE  EndKnown' /\ MetadataKnown' /\ AcksKnown' /\ ReaderKnown'
  <2>1. EndKnown /\ MetadataKnown /\ AcksKnown /\ ReaderKnown /\ ~v.endSeen
    BY <1>9, BeforeTheEnd DEF RestoreInv
  <2>2. EndKnown' /\ MetadataKnown'
    BY <1>3, <2>1 DEF EndKnown, MetadataKnown
  <2>3. AcksKnown'
    BY <1>3, <2>1 DEF AcksKnown
  <2>4. ReaderKnown'
    BY <1>1, <1>3, <2>1, ReaderKnownAfter
  <2> QED BY <2>2, <2>3, <2>4
<1> QED BY <1>5, <1>6, <1>7, <1>8, <1>9 DEF ExtractorInv

LEMMA LostReaderStep ==
    ASSUME RestoreInv, ext = "serve", UNCHANGED <<option, media, readerVars>>,
           ExtractorMeetsEof
    PROVE  TypeOK' /\ ExtractorInv'
<1>1. /\ TypeOK /\ toReader \in Seq(ToReader) /\ metadata \in Seq(Pieces)
      /\ output \in Seq(Pieces) /\ buffered \in Seq(Pieces)
      /\ DOMAIN v = DOMAIN Unused /\ v.expected \in Nat
      /\ v.archive \in Archives \cup {NoArchive} /\ toExtractor \in Seq(ToExtractor)
    BY DEF RestoreInv, TypeOK
<1>2. ext' = "accept" /\ UNCHANGED <<toExtractor, toReader, v, output, buffered, metadata>>
    BY DEF ExtractorMeetsEof, Disconnect
<1>3. TypeOK'
    BY <1>1, <1>2, TypesAfter
<1>4. ASSUME ~option.salvage
      PROVE  EndKnown' /\ AcksKnown' /\ ReaderKnown'
  <2>1. EndKnown /\ AcksKnown /\ ReaderKnown /\ ~v.endSeen
    BY <1>4, BeforeTheEnd DEF RestoreInv
  <2>2. EndKnown'
    BY <1>2, <2>1 DEF EndKnown
  <2>3. AcksKnown'
    BY <1>2, <2>1 DEF AcksKnown
  <2>4. ReaderKnown'
    BY <1>1, <1>2, <2>1, ReaderKnownAfter
  <2> QED BY <2>2, <2>3, <2>4
<1> QED BY <1>2, <1>3, <1>4, NothingTaken DEF ExtractorInv

\* Every step of the extractor.
LEMMA ExtractorStep ==
    ASSUME RestoreInv, Extractor PROVE RestoreInv'
<1> SUFFICES TypeOK' /\ ExtractorInv'
    BY DEF RestoreInv, ExtractorInv
<1>1. ext = "serve" /\ UNCHANGED <<option, media, readerVars>>
    BY DEF Extractor
<1>2. CASE ProcessMessage
  <2> DEFINE m == Head(toExtractor)
  <2>1. /\ toExtractor \in Seq(ToExtractor) /\ toExtractor # <<>>
        /\ toExtractor' = Tail(toExtractor)
    BY <1>2 DEF ProcessMessage, RestoreInv, TypeOK
  <2>2. m \in ToExtractor /\ toExtractor' \in Seq(ToExtractor)
    BY <2>1, TailTyped
  <2>3. \/ /\ m.type = "frame_record"
           /\ \/ SuppressReplay(Frame(m.record)) \/ RefuseFrame(Frame(m.record))
              \/ SkipFrame(Frame(m.record)) \/ TakeFrame(Frame(m.record))
        \/ TakeTapeEof
    BY <1>2 DEF ProcessMessage
  <2> HIDE DEF m
  <2>4. CASE TakeTapeEof
    BY <1>1, <2>2, <2>4, TapeEofStep
  <2>5. CASE m.type = "frame_record"
             /\ \/ SuppressReplay(Frame(m.record)) \/ RefuseFrame(Frame(m.record))
                \/ SkipFrame(Frame(m.record)) \/ TakeFrame(Frame(m.record))
    <3> DEFINE r == m.record
    <3>1. FrameArrives(r)
      BY <1>1, <2>2, <2>5, CarryingFacts DEF FrameArrives
    <3>2. \/ SuppressReplay(Frame(r)) \/ RefuseFrame(Frame(r))
          \/ SkipFrame(Frame(r)) \/ TakeFrame(Frame(r))
      BY <2>5
    <3> HIDE DEF r
    <3>3. CASE TakeFrame(Frame(r))
      <4>1. TypeOK'
        BY <3>1, <3>3, TakeTyped DEF RestoreInv
      <4>2. ExtractorInv'
        BY <3>1, <3>3, TakeRestoring, TakeSalvaging
      <4> QED BY <4>1, <4>2
    <3>4. CASE SuppressReplay(Frame(r))
      BY <3>1, <3>4, SuppressStep
    <3>5. CASE RefuseFrame(Frame(r))
      BY <3>1, <3>5, RefuseStep
    <3>6. CASE SkipFrame(Frame(r))
      BY <3>1, <3>6, SkipStep
    <3> QED BY <3>2, <3>3, <3>4, <3>5, <3>6
  <2> QED BY <2>3, <2>4, <2>5
<1>3. CASE ExtractorMeetsEof
    BY <1>1, <1>3, LostReaderStep
<1> QED BY <1>2, <1>3 DEF Extractor

-----------------------------------------------------------------------------
(* The reader's steps. *)

\* The parts of the invariant that speak of the extractor's own state.
OwnInv ==
    /\ MetadataIntact /\ OutputInv
    /\ ~option.salvage => EndKnown /\ MetadataKnown
    /\ option.salvage => SalvageKnown

LEMMA OwnUnchanged ==
    ASSUME RestoreInv, UNCHANGED <<option, media, ext, v, output, buffered, metadata>>
    PROVE  OwnInv'
<1>1. Emitted' = Emitted /\ OnMedia' = OnMedia
    BY MediaUnchanged DEF Emitted
<1>2. OutputInv'
    BY <1>1 DEF RestoreInv, OutputInv, OutputKnown
<1>3. MetadataIntact' /\ (~option.salvage => MetadataKnown' /\ EndKnown')
    BY DEF RestoreInv, MetadataIntact, MetadataKnown, EndKnown
<1>4. option.salvage => SalvageKnown'
    BY <1>1 DEF RestoreInv, SalvageKnown
<1> QED BY <1>2, <1>3, <1>4 DEF OwnInv

\* Answers that are read or lost.
LEMMA AcksFewer ==
    ASSUME AcksKnown, toReader \in Seq(ToReader), UNCHANGED <<v, ext>>,
           \/ toReader' = toReader
           \/ toReader # <<>> /\ toReader' = Tail(toReader)
           \/ toReader' \in Truncations(toReader)
           \/ toReader' = <<NextFrame>>
    PROVE  AcksKnown'
<1>1. CASE toReader' = toReader
    BY <1>1 DEF AcksKnown
<1>2. CASE toReader # <<>> /\ toReader' = Tail(toReader)
  <2>1. \A i \in DOMAIN toReader' : i + 1 \in DOMAIN toReader /\ toReader'[i] = toReader[i + 1]
    BY <1>2, TailTyped
  <2> QED BY <2>1 DEF AcksKnown
<1>3. CASE toReader' \in Truncations(toReader)
  <2>1. \A i \in DOMAIN toReader' : i \in DOMAIN toReader /\ toReader'[i] = toReader[i]
    BY <1>3, TruncationTyped
  <2> QED BY <2>1 DEF AcksKnown
<1>4. CASE toReader' = <<NextFrame>>
  <2>1. \A i \in DOMAIN toReader' : toReader'[i] = NextFrame
    BY <1>4
  <2> QED BY <2>1, OtherReplies DEF AcksKnown
<1> QED BY <1>1, <1>2, <1>3, <1>4

\* The next message the reader finds, if it is an acknowledgement.
LEMMA AckRead ==
    ASSUME TypeOK, AcksKnown, toReader # <<>>, NEW n, Head(toReader) = AckFrame(n)
    PROVE  n < v.expected /\ (n = Len(Stream) - 1 => ext = "done")
<1>1. 1 \in DOMAIN toReader /\ toReader[1] = AckFrame(n)
    BY TailTyped DEF TypeOK
<1> QED BY <1>1, AckFacts DEF AcksKnown

\* No frame lies between the head and the record it stops at.
LEMMA PassedOver ==
    ASSUME TypeOK, reader # "off", TakenTo(pos), NEW n \in Int,
           \A i \in Stops : n < i
    PROVE  TakenTo(n)
<1> SUFFICES ASSUME NEW i \in DOMAIN Volume, i <= n, IsFrame(Volume[i])
             PROVE  Volume[i].seq < v.expected
    BY DEF TakenTo
<1>1. DOMAIN Volume = 1 .. Len(Volume) /\ Len(Volume) \in Nat /\ pos \in Nat
    BY VolumeFacts DEF TypeOK
<1>2. i \notin Stops
    BY <1>1
<1>3. ~(i \in pos + 1 .. Len(Volume))
    BY <1>2 DEF Stops
<1>4. i <= pos
    BY <1>1, <1>3
<1> QED BY <1>4 DEF TakenTo

LEMMA ReaderKnows ==
    ASSUME RestoreInv, ~option.salvage, Reader PROVE ReaderKnown'
<1>1. TypeOK /\ AcksKnown /\ ReaderKnown
    BY DEF RestoreInv
<1>2. UNCHANGED <<media, loaded, ext, v>> /\ reader # "off" /\ Volume' = Volume
    BY ReaderFrame DEF Volume
<1>3. \A n : TakenTo(n)' <=> TakenTo(n)
    BY <1>2 DEF TakenTo
<1> DEFINE Ends == endAcked' \/ readerExit' = "complete" => ext = "done"
           Taken == ~AnyOrder =>
                       /\ reader' = "request" => TakenTo(pos')
                       /\ reader' = "ack" => TakenTo(pos' - 1)
                       /\ readerExit' = "eof" => TakenTo(Len(Volume))
<1>4. SUFFICES Ends /\ Taken
  <2>1. TakenTo(pos)' <=> TakenTo(pos')
    BY <1>2 DEF TakenTo
  <2>2. TakenTo(pos - 1)' <=> TakenTo(pos' - 1)
    BY <1>2 DEF TakenTo
  <2>3. TakenTo(Len(Volume))' <=> TakenTo(Len(Volume))
    BY <1>2 DEF TakenTo
  <2> QED BY <1>2, <2>1, <2>2, <2>3 DEF ReaderKnown
<1>5. ASSUME reader = "request", SendTapeEof PROVE Ends /\ Taken
  <2>1. Stops = {} /\ reader' = "off" /\ readerExit' \in {"eof", "error"}
        /\ endAcked' = endAcked
    BY <1>5 DEF SendTapeEof, ReaderLeaves
  <2>2. Ends
    BY <1>1, <2>1 DEF ReaderKnown
  <2>3. ASSUME ~AnyOrder PROVE TakenTo(Len(Volume))
    <3>1. TakenTo(pos) /\ Len(Volume) \in Int
      BY <1>1, <1>2, <1>5, <2>3, VolumeFacts DEF ReaderKnown
    <3> QED BY <1>1, <1>2, <2>1, <3>1, PassedOver
  <2> QED BY <2>1, <2>2, <2>3
<1>6. ASSUME reader = "request", SendRecord PROVE Ends /\ Taken
  <2>1. /\ reader' \in {"ack", "off"} /\ endAcked' = endAcked
        /\ readerExit' \in {"error", readerExit}
    BY <1>6 DEF SendRecord, ReaderLeaves
  <2>2. Ends
    BY <1>1, <2>1 DEF ReaderKnown
  <2>3. ASSUME ~AnyOrder PROVE TakenTo(pos' - 1)
    <3>1. TakenTo(pos) /\ pos' \in Nat
      BY <1>1, <1>2, <1>6, <2>3, SendRecordFacts DEF ReaderKnown
    <3>2. \A i \in Stops : i \in Nat /\ pos' <= i
      BY <1>1, <1>2, <1>6, VolumeFacts DEF SendRecord
    <3>3. pos' - 1 \in Int /\ \A i \in Stops : pos' - 1 < i
      BY <3>1, <3>2
    <3> QED BY <1>1, <1>2, <3>1, <3>3, PassedOver
  <2>4. ~AnyOrder => (readerExit' = "eof" => TakenTo(Len(Volume)))
    BY <1>1, <2>1 DEF ReaderKnown
  <2> QED BY <2>1, <2>2, <2>3, <2>4
<1>7. ASSUME toReader # <<>>, ReadAnswer(Head(toReader)) PROVE Ends /\ Taken
  <2> DEFINE n == Volume[pos].seq
  <2>1. reader = "ack" /\ pos' = pos /\ pos \in Nat
    BY <1>1, <1>7 DEF ReadAnswer, TypeOK
  <2>2. CASE Head(toReader) = AckFrame(n)
    <3>1. /\ reader' = "request" /\ readerExit' = readerExit
          /\ endAcked' = (Frame(Volume[pos]).channel = "archive_end")
      BY <1>7, <2>2 DEF ReadAnswer
    <3>2. n < v.expected /\ (n = Len(Stream) - 1 => ext = "done")
      BY <1>1, <1>7, <2>2, AckRead
    <3>3. Volume[pos] \in FrameRecords
      BY <1>1, <1>2, <2>1, VolumeFacts DEF TypeOK
    <3>4. Frame(Volume[pos]).channel = "archive_end" <=> n = Len(Stream) - 1
      BY <3>3, FrameFacts
    <3>5. Ends
      BY <1>1, <3>1, <3>2, <3>4 DEF ReaderKnown
    <3>6. ASSUME ~AnyOrder PROVE TakenTo(pos)
      <4>1. TakenTo(pos - 1) /\ DOMAIN Volume = 1 .. Len(Volume) /\ Len(Volume) \in Nat
        BY <1>1, <1>2, <2>1, <3>6, VolumeFacts DEF ReaderKnown
      <4>2. \A i \in DOMAIN Volume : i <= pos => i <= pos - 1 \/ i = pos
        BY <2>1, <4>1
      <4> QED BY <3>2, <4>1, <4>2 DEF TakenTo
    <3>7. ~AnyOrder => (readerExit' = "eof" => TakenTo(Len(Volume)))
      BY <1>1, <3>1 DEF ReaderKnown
    <3> QED BY <2>1, <3>1, <3>5, <3>6, <3>7
  <2>3. CASE Head(toReader) # AckFrame(n)
    <3>1. reader' = "off" /\ readerExit' = "error" /\ endAcked' = endAcked
      BY <1>7, <2>3 DEF ReadAnswer, ReaderLeaves
    <3> QED BY <1>1, <3>1 DEF ReaderKnown
  <2> QED BY <2>2, <2>3
<1>8. ASSUME ReadError(Head(toReader)) PROVE Ends /\ Taken
  <2>1. reader' = "off" /\ readerExit' = "error" /\ endAcked' = endAcked
    BY <1>8 DEF ReadError, ReaderLeaves
  <2> QED BY <1>1, <2>1 DEF ReaderKnown
<1>9. ASSUME ReaderMeetsEof PROVE Ends /\ Taken
  <2>1. /\ reader' = "off" /\ endAcked' = endAcked
        /\ readerExit' = "error" \/ (readerExit' = "complete" /\ endAcked)
    BY <1>9 DEF ReaderMeetsEof, ReaderLeaves
  <2> QED BY <1>1, <2>1 DEF ReaderKnown
<1> HIDE DEF Ends, Taken
<1> QED BY <1>5, <1>6, <1>7, <1>8, <1>9 DEF Reader, ReaderReads

LEMMA ReaderStep == ASSUME RestoreInv, Reader PROVE RestoreInv'
<1>1. TypeOK /\ toReader \in Seq(ToReader)
    BY DEF RestoreInv, TypeOK
<1>2. /\ UNCHANGED <<option, media, ext, v, output, buffered, metadata>>
      /\ toReader' = toReader \/ (toReader # <<>> /\ toReader' = Tail(toReader))
    BY ReaderFrame
<1>3. TypeOK'
    BY <1>1, ReaderTypes
<1>4. OwnInv'
    BY <1>2, OwnUnchanged
<1>5. ASSUME ~option.salvage PROVE AcksKnown' /\ ReaderKnown'
  <2>1. AcksKnown
    BY <1>5 DEF RestoreInv
  <2> QED BY <1>1, <1>2, <1>5, <2>1, AcksFewer, ReaderKnows
<1> QED BY <1>2, <1>3, <1>4, <1>5 DEF RestoreInv, OwnInv

-----------------------------------------------------------------------------
(* The operator, failures, and the beginning. *)

LEMMA ConnectStep == ASSUME RestoreInv, Connect PROVE RestoreInv'
<1>1. /\ ext = "accept" /\ ext' = "serve" /\ reader' = "request" /\ endAcked' = FALSE
      /\ readerExit' = "none" /\ loaded' \in DOMAIN media /\ v' = BeginConnection(v)
      /\ toExtractor' = <<>> /\ toReader' = <<NextFrame>>
      /\ UNCHANGED <<option, media, output, buffered, metadata>>
      /\ pos' = 0 \/ (AnyOrder /\ pos' = pos)
    BY DEF Connect
<1>2. /\ TypeOK /\ DOMAIN v = DOMAIN Unused /\ pos \in Nat /\ v.expected \in Nat
      /\ v.archive \in Archives \cup {NoArchive} /\ option \in Options
      /\ output \in Seq(Pieces) /\ buffered \in Seq(Pieces) /\ metadata \in Seq(Pieces)
    BY DEF RestoreInv, TypeOK
<1>3. /\ DOMAIN v' = DOMAIN Unused /\ v'.expected = v.expected
      /\ v'.archive = v.archive /\ v'.endSeen = v.endSeen
    BY <1>1, <1>2, ReplayedFields
<1>4. MediaOK' /\ ToReader' = ToReader
    BY <1>1, <1>2, MediaUnchanged DEF TypeOK, ToReader
<1>5. toReader' \in Seq(ToReader) /\ \A i \in DOMAIN toReader' : toReader'[i] = NextFrame
  <2> DEFINE t == <<NextFrame>>
  <2>1. NextFrame \in ToReader
    BY DEF ToReader
  <2>2. t \in Seq(ToReader) /\ \A i \in DOMAIN t : t[i] = NextFrame
    BY <2>1
  <2> QED BY <1>1, <2>2
<1>6. TypeOK'
  <2>1. toExtractor' \in Seq(ToExtractor)' /\ pos' \in Nat
    BY <1>1, <1>2
  <2> QED BY <1>1, <1>2, <1>3, <1>4, <1>5, <2>1 DEF TypeOK
<1>7. ASSUME ~option.salvage PROVE EndKnown' /\ AcksKnown' /\ ReaderKnown'
  <2>1. ~v.endSeen /\ EndKnown
    BY <1>1, <1>7, BeforeTheEnd DEF RestoreInv
  <2>2. EndKnown'
    BY <1>1, <1>3, <2>1 DEF EndKnown
  <2>3. AcksKnown'
    BY <1>5, OtherReplies DEF AcksKnown
  <2>4. ASSUME ~AnyOrder PROVE TakenTo(pos)'
    <3>1. \A i \in DOMAIN Volume' : i \in 1 .. Len(Volume') /\ Len(Volume') \in Nat
      BY <1>1, <1>4 DEF MediaOK, Volume
    <3>2. pos' = 0
      BY <1>1, <2>4
    <3> QED BY <3>1, <3>2 DEF TakenTo
  <2> QED BY <1>1, <2>2, <2>3, <2>4 DEF ReaderKnown
<1> QED BY <1>1, <1>3, <1>6, <1>7, NothingTaken DEF RestoreInv

LEMMA FaultStep ==
    ASSUME RestoreInv, KillReader \/ LinkReset PROVE RestoreInv'
<1>1. /\ UNCHANGED <<option, media, loaded, pos, endAcked, ext, v>>
      /\ UNCHANGED <<output, buffered, metadata>>
      /\ \/ reader' = "off" /\ readerExit' = "killed"
         \/ UNCHANGED <<reader, readerExit>>
      /\ toExtractor' \in Truncations(toExtractor)
      /\ toReader' = toReader \/ toReader' \in Truncations(toReader)
    BY DEF KillReader, LinkReset, Fault, ReaderLeaves, extractorVars, readerVars
<1>2. TypeOK /\ toReader \in Seq(ToReader) /\ toExtractor \in Seq(ToExtractor)
    BY DEF RestoreInv, TypeOK
<1>3. Volume' = Volume /\ MediaOK' /\ ToExtractor' = ToExtractor /\ ToReader' = ToReader
    BY <1>1, <1>2, MediaUnchanged DEF Volume, ToReader, TypeOK
<1>4. toExtractor' \in Seq(ToExtractor)
    BY <1>1, <1>2, TruncationTyped
<1>5. toReader' \in Seq(ToReader)
    BY <1>1, <1>2, TruncationTyped
<1>6. TypeOK'
    BY <1>1, <1>2, <1>3, <1>4, <1>5 DEF TypeOK
<1>7. OwnInv'
    BY <1>1, OwnUnchanged
<1>8. ASSUME ~option.salvage PROVE AcksKnown' /\ ReaderKnown'
  <2>1. AcksKnown /\ ReaderKnown
    BY <1>8 DEF RestoreInv
  <2>2. AcksKnown'
    BY <1>1, <1>2, <2>1, AcksFewer
  <2>3. TakenTo(pos)' = TakenTo(pos) /\ TakenTo(pos - 1)' = TakenTo(pos - 1)
        /\ TakenTo(Len(Volume))' = TakenTo(Len(Volume))
    BY <1>1, <1>3 DEF TakenTo
  <2>4. ReaderKnown'
    BY <1>1, <2>1, <2>3 DEF ReaderKnown
  <2> QED BY <2>2, <2>4
<1> QED BY <1>1, <1>6, <1>7, <1>8 DEF RestoreInv, OwnInv

LEMMA IdleStep == ASSUME RestoreInv, UNCHANGED vars PROVE RestoreInv'
<1>1. /\ UNCHANGED <<option, media, loaded, pos, reader, readerExit, endAcked, ext, v>>
      /\ UNCHANGED <<output, buffered, metadata, toExtractor, toReader>>
    BY DEF vars, readerVars, extractorVars, linkVars
<1>2. Volume' = Volume /\ MediaOK' /\ ToExtractor' = ToExtractor /\ ToReader' = ToReader
    BY <1>1, MediaUnchanged DEF Volume, ToReader, RestoreInv, TypeOK
<1>3. TypeOK'
    BY <1>1, <1>2 DEF RestoreInv, TypeOK
<1>4. OwnInv'
    BY <1>1, OwnUnchanged
<1>5. ASSUME ~option.salvage PROVE AcksKnown' /\ ReaderKnown'
    BY <1>1, <1>2, <1>5 DEF RestoreInv, AcksKnown, ReaderKnown, TakenTo
<1> QED BY <1>1, <1>3, <1>4, <1>5 DEF RestoreInv, OwnInv

LEMMA DamagedFacts ==
    ASSUME NEW r \in MediaRecords, IsFrame(r), NEW kind \in DamageKinds
    PROVE  IsFrame(Damaged(r, kind)) =>
               Damaged(r, kind) \in FrameRecords /\ Damaged(r, kind).archive = r.archive
<1>1. r \in [kind : {"frame"}, archive : Archives, seq : 0 .. Len(Stream) - 1, check : {"ok"}]
    BY DEF MediaRecords, IsFrame
<1>2. kind \in {"bad_hash", "bad_size", "torn", "unreadable"}
    BY RestoreAssumption
<1>3. CASE kind \in Checks
    BY <1>1, <1>3 DEF Damaged, FrameRecords
<1>4. CASE kind \notin Checks
    BY <1>1, <1>2, <1>4 DEF Damaged, IsFrame, Checks
<1> QED BY <1>3, <1>4

LEMMA InitMedia ==
    ASSUME Init
    PROVE  MediaOK /\ (option.salvage => \E a \in Archives : \A r \in OnMedia : r.archive = a)
<1> DEFINE Struck(layout, S, kind) ==
               media = [m \in DOMAIN layout |-> [i \in DOMAIN layout[m] |->
                           IF <<m, i>> \in S THEN Damaged(layout[m][i], kind[<<m, i>>])
                           ELSE layout[m][i]]]
<1>1. PICK layout \in Layouts :
          /\ MayHold(layout)
          /\ \E S \in SUBSET Places(layout) : \E kind \in [S -> Decay] : Struck(layout, S, kind)
    BY DEF Init
<1>2. PICK S \in SUBSET Places(layout) : \E kind \in [S -> Decay] : Struck(layout, S, kind)
    BY <1>1
<1>3. PICK kind \in [S -> Decay] : Struck(layout, S, kind)
    BY <1>2
<1>4. /\ MayHold(layout)
      /\ media = [m \in DOMAIN layout |-> [i \in DOMAIN layout[m] |->
                      IF <<m, i>> \in S THEN Damaged(layout[m][i], kind[<<m, i>>])
                      ELSE layout[m][i]]]
    BY <1>1, <1>3
<1>5. layout \in Seq(Seq(MediaRecords))
    BY RestoreAssumption
<1>6. \A m \in DOMAIN layout : layout[m] \in Seq(MediaRecords)
    BY <1>5
<1>7. ASSUME NEW m \in DOMAIN media
      PROVE  /\ m \in DOMAIN layout /\ DOMAIN media[m] = DOMAIN layout[m]
             /\ \A i \in DOMAIN media[m] :
                   media[m][i] = IF <<m, i>> \in S THEN Damaged(layout[m][i], kind[<<m, i>>])
                                 ELSE layout[m][i]
    BY <1>4, <1>7
<1>8. ASSUME NEW m \in DOMAIN media
      PROVE  Len(media[m]) \in Nat /\ DOMAIN media[m] = 1 .. Len(media[m])
  <2> DEFINE q == media[m]
             T == {q[i] : i \in DOMAIN q}
             n == Len(layout[m])
  <2>1. n \in Nat /\ DOMAIN q = 1 .. n
    BY <1>6, <1>7
  <2>2. q = [i \in DOMAIN q |-> q[i]]
    BY <1>4, <1>7
  <2> HIDE DEF q
  <2>3. q \in [1 .. n -> T]
    BY <2>1, <2>2
  <2> HIDE DEF n, T
  <2>4. q \in Seq(T)
    BY <2>1, <2>3, SeqDef
  <2> QED BY <2>1, <2>4, LenProperties DEF q
<1>9. ASSUME NEW m \in DOMAIN media, NEW i \in DOMAIN media[m], IsFrame(media[m][i])
      PROVE  /\ media[m][i] \in FrameRecords /\ IsFrame(layout[m][i])
             /\ media[m][i].archive = layout[m][i].archive
             /\ m \in DOMAIN layout /\ i \in DOMAIN layout[m]
  <2> DEFINE r == layout[m][i]
  <2>1. r \in MediaRecords /\ m \in DOMAIN layout /\ i \in DOMAIN layout[m]
    BY <1>6, <1>7
  <2>2. CASE <<m, i>> \in S
    <3>1. IsFrame(r) /\ kind[<<m, i>>] \in Decay
      <4>1. <<m, i>> \in Copies(layout)
        BY <2>2 DEF Places
      <4>2. PICK n \in DOMAIN layout : <<m, i>> \in {<<n, j>> : j \in FramesOf(layout[n])}
        BY <4>1 DEF Copies
      <4>3. i \in FramesOf(layout[m])
        BY <4>2
      <4> QED BY <2>2, <4>3, <1>4 DEF FramesOf
    <3>2. kind[<<m, i>>] \in DamageKinds
      BY <3>1 DEF Decay
    <3>3. media[m][i] = Damaged(r, kind[<<m, i>>])
      BY <1>7, <2>2
    <3> HIDE DEF r
    <3>4. media[m][i] \in FrameRecords /\ media[m][i].archive = r.archive
      BY <1>9, <2>1, <3>1, <3>2, <3>3, DamagedFacts
    <3> QED BY <2>1, <3>1, <3>4 DEF r
  <2>3. CASE <<m, i>> \notin S
    <3>1. media[m][i] = r
      BY <1>7, <2>3
    <3> HIDE DEF r
    <3>2. r \in FrameRecords
      BY <1>9, <2>1, <3>1 DEF MediaRecords, IsFrame, FrameRecords, Checks
    <3> QED BY <1>9, <2>1, <3>1, <3>2 DEF r
  <2> QED BY <2>2, <2>3
<1>10. MediaOK
    BY <1>8, <1>9 DEF MediaOK
<1>11. ASSUME option.salvage PROVE \E a \in Archives : \A r \in OnMedia : r.archive = a
  <2>1. PICK a \in Archives : \A m \in DOMAIN layout : \A i \in DOMAIN layout[m] :
                IsFrame(layout[m][i]) => layout[m][i].archive = a
    BY <1>4, <1>11 DEF MayHold
  <2>2. ASSUME NEW r \in OnMedia PROVE r.archive = a
    <3>1. PICK m \in DOMAIN media : \E i \in DOMAIN media[m] : media[m][i] = r
      BY DEF OnMedia
    <3>2. PICK i \in DOMAIN media[m] : media[m][i] = r
      BY <3>1
    <3>3. IsFrame(media[m][i])
      BY <3>2 DEF OnMedia, FrameRecords, IsFrame
    <3> QED BY <1>9, <2>1, <3>2, <3>3
  <2> QED BY <2>2
<1> QED BY <1>10, <1>11

LEMMA InitInv == Init => RestoreInv
<1> SUFFICES ASSUME Init PROVE RestoreInv
    OBVIOUS
<1>1. /\ option \in Options /\ loaded = 0 /\ pos = 0 /\ reader = "off"
      /\ ~endAcked /\ readerExit = "none" /\ ext = "accept" /\ v = Unused
      /\ output = <<>> /\ buffered = <<>> /\ metadata = <<>>
      /\ toExtractor = <<>> /\ toReader = <<>>
    BY DEF Init, WireInit
<1>2. MediaOK
    BY InitMedia
<1>3. Emitted = <<>>
    BY <1>1 DEF Emitted
<1>4. v.expected = 0 /\ v.archive = NoArchive /\ ~v.endSeen
    BY <1>1, ValidatorFields
<1>5. \A S : <<>> \in Seq(S)
    OBVIOUS
<1>6. TypeOK
    BY <1>1, <1>2, <1>4, <1>5 DEF TypeOK
<1>7. Ascending(<<>>) /\ \A c : Lists(<<>>, FramesBefore(c, v.archive, v.expected))
    BY <1>4, EmptyLists, NoFramesBefore
<1>8. DOMAIN Emitted = {} /\ DOMAIN metadata = {} /\ DOMAIN toReader = {}
    BY <1>1, <1>3
<1>9. MetadataIntact /\ OutputInv
    BY <1>3, <1>7, <1>8 DEF MetadataIntact, OutputInv, OutputKnown
<1>10. EndKnown /\ MetadataKnown /\ AcksKnown /\ ReaderKnown
    BY <1>1, <1>4, <1>7, <1>8 DEF EndKnown, MetadataKnown, AcksKnown, ReaderKnown
<1>11. option.salvage => SalvageKnown
    BY <1>3, <1>4, <1>7, <1>8, InitMedia DEF SalvageKnown
<1> QED BY <1>6, <1>9, <1>10, <1>11 DEF RestoreInv

LEMMA StepInv == RestoreInv /\ [Next]_vars => RestoreInv'
<1> SUFFICES ASSUME RestoreInv, [Next]_vars PROVE RestoreInv'
    OBVIOUS
<1>1. CASE Connect
    BY <1>1, ConnectStep
<1>2. CASE Reader
    BY <1>2, ReaderStep
<1>3. CASE Extractor
    BY <1>3, ExtractorStep
<1>4. CASE KillReader \/ LinkReset
    BY <1>4, FaultStep
<1>5. CASE Finished \/ UNCHANGED vars
    BY <1>5, IdleStep DEF Finished
<1> QED BY <1>1, <1>2, <1>3, <1>4, <1>5 DEF Next

-----------------------------------------------------------------------------
(* What salvage may lose. *)

\* The operator's and the media's part: nothing is read again or out of order,
\* and what is written stays written.
Orderly == option.salvage /\ ~option.flushMayFail /\ ReadInOrder

\* An undamaged copy lies at place i of medium m.
Good(m, i) == m \in DOMAIN media /\ i \in DOMAIN media[m] /\ Undamaged(m, i)

Number(m, i) == media[m][i].seq

\* The sequence s has the content of all undamaged copies below n.
Written(n, s) ==
    \A m, i : Good(m, i) /\ Number(m, i) < n /\ Frame(media[m][i]).channel = "content" =>
        \E k \in DOMAIN s : s[k] = Piece(Frame(media[m][i]))

\* The drive has passed the place.
Behind(m, i) == m < loaded \/ (m = loaded /\ i <= pos)

\* What it passed last is not processed yet, or never will be.
OnItsWay(m, i) ==
    /\ m = loaded /\ i = pos
    /\ (reader = "ack" /\ toReader = <<>>) \/ (reader = "off" /\ readerExit = "error")

PassedIsTaken ==
    \A m, i : Good(m, i) /\ Behind(m, i) => Number(m, i) < v.expected \/ OnItsWay(m, i)

\* Where the reader gives up in every pass over the medium.
Impassable(i) ==
    \/ Volume[i].kind = "torn" /\ \A j \in 1 .. i - 1 : ~IsFrame(Volume[j])
    \/ /\ option.spool
       /\ \/ Volume[i].kind = "unreadable"
          \/ IsFrame(Volume[i]) /\ Intact(Volume[i]) /\ ~NameAgrees(i)

\* Everything that is still to come is new, ...
Going ==
    /\ v.replayNext = NoReplay
    /\ \A m, i : Good(m, i) /\ (~Behind(m, i) \/ OnItsWay(m, i)) => v.expected <= Number(m, i)

\* ... or nothing new will come, because the medium cannot be read to its end.
Stuck ==
    /\ loaded \in DOMAIN media
    /\ reader = "off" => readerExit = "error"
    /\ \E i \in DOMAIN Volume :
          /\ Impassable(i)
          /\ reader # "off" => pos < i
          /\ \A j \in 1 .. i - 1 : Good(loaded, j) => Number(loaded, j) < v.expected

\* Without faults at most one message is under way.
Dialogue ==
    \/ /\ reader = "request" /\ toExtractor = <<>> /\ toReader = <<NextFrame>>
    \/ /\ reader = "ack" /\ toExtractor = <<Carrying(Volume[pos])>> /\ toReader = <<>>
    \/ /\ reader = "ack" /\ toExtractor = <<>>
       /\ toReader = <<AckFrame(Volume[pos].seq), NextFrame>>
    \/ /\ reader = "off" /\ readerExit = "error" /\ toExtractor = <<>> /\ Stuck
    \/ /\ reader = "off" /\ readerExit = "eof" /\ toExtractor = <<TapeEof>>
       /\ pos = Len(Volume)

Serving ==
    /\ extractorAlive /\ (readerAlive <=> reader # "off") /\ loaded \in DOMAIN media
    /\ Dialogue
    /\ reader # "off" => (sawFrame <=> \E j \in 1 .. pos : IsFrame(Volume[j]))

Waiting ==
    /\ reader = "off" /\ toExtractor = <<>>
    /\ \/ readerExit = "none" /\ loaded = 0
       \/ readerExit = "error" /\ Stuck
       \/ /\ readerExit = "eof" /\ loaded \in DOMAIN media
          /\ pos = Len(Volume) /\ buffered = <<>>

Live ==
    /\ Written(v.expected, Emitted) /\ PassedIsTaken /\ (Going \/ Stuck)
    /\ v.archive = NoArchive => v.expected = 0 /\ v.replayNext = NoReplay
    /\ ext = "serve" => Serving
    /\ ext = "accept" => Waiting

LossInv ==
    /\ faults \in Nat /\ Len(media) \in Nat /\ DOMAIN media = 1 .. Len(media)
    /\ Orderly =>
          /\ ext = "done" => Written(Len(Stream), output)
          /\ ext \in {"accept", "serve"} => Live

LEMMA GoodFacts ==
    ASSUME TypeOK, NEW m, NEW i, Good(m, i)
    PROVE  /\ media[m][i] \in FrameRecords /\ media[m][i] \in OnMedia
           /\ media[m][i].check = "ok" /\ IsFrame(media[m][i])
           /\ Number(m, i) \in 0 .. Len(Stream) - 1 /\ Number(m, i) \in Nat
           /\ i \in 1 .. Len(media[m]) /\ Len(media[m]) \in Nat
<1>1. media[m][i] \in FrameRecords /\ i \in 1 .. Len(media[m]) /\ Len(media[m]) \in Nat
    BY DEF Good, Undamaged, TypeOK, MediaOK
<1>2. media[m][i] \in OnMedia
    BY <1>1 DEF Good, OnMedia
<1>3. media[m][i].seq \in 0 .. Len(Stream) - 1
    BY <1>1 DEF FrameRecords
<1> QED BY <1>1, <1>2, <1>3 DEF Good, Undamaged, Intact, Number

LEMMA PlacesStay ==
    ASSUME UNCHANGED media
    PROVE  /\ \A m, i : Good(m, i)' <=> Good(m, i)
           /\ \A m, i : Number(m, i)' = Number(m, i)
           /\ \A n, s : Written(n, s) => Written(n, s)'
    BY DEF Good, Number, Undamaged, Written

LEMMA ImpassableStays ==
    ASSUME UNCHANGED <<media, option, loaded>>, NEW i, Impassable(i)
    PROVE  Impassable(i)'
<1>1. Volume' = Volume
    BY DEF Volume
<1>2. NameAgrees(i)' <=> NameAgrees(i)
    BY <1>1 DEF NameAgrees, FileOf
<1> QED BY <1>1, <1>2 DEF Impassable
LEMMA OrderlyMedia ==
    ASSUME TypeOK, Orderly, NEW m, NEW i, NEW n, NEW j, Good(m, i), Good(n, j),
           m \in Nat, n \in Nat
    PROVE  /\ Before(m, i, n, j) => Number(m, i) < Number(n, j)
           /\ Number(n, j) <= Number(m, i) => Before(n, j, m, i) \/ (n = m /\ j = i)
<1>1. Before(m, i, n, j) => Number(m, i) < Number(n, j)
    BY DEF Orderly, ReadInOrder, Good, Number
<1>2. /\ Number(m, i) \in Nat /\ Number(n, j) \in Nat /\ i \in Nat /\ j \in Nat
    BY GoodFacts
<1>3. Before(m, i, n, j) \/ Before(n, j, m, i) \/ (n = m /\ j = i)
    BY <1>2 DEF Before
<1> QED BY <1>1, <1>2, <1>3

\* In the reader's words: it stops at every frame, and where it must.
LEMMA StopsFacts ==
    ASSUME TypeOK, Serving, reader # "off"
    PROVE  /\ \A i \in DOMAIN Volume : i > pos =>
                 /\ IsFrame(Volume[i]) => i \in Stops
                 /\ Impassable(i) => i \in Stops /\ CannotRead(i)
           /\ \A p \in Stops : (\A i \in Stops : p <= i) /\ CannotRead(p) => Impassable(p)
<1>1. /\ pos \in Nat /\ loaded \in DOMAIN media /\ Len(Volume) \in Nat
      /\ DOMAIN Volume = 1 .. Len(Volume)
      /\ sawFrame <=> \E j \in 1 .. pos : IsFrame(Volume[j])
    BY VolumeFacts DEF TypeOK, Serving
<1>2. Stops = {i \in pos + 1 .. Len(Volume) : IsFrame(Volume[i]) \/ CannotRead(i)}
    BY DEF Stops
<1>3. ASSUME NEW i \in DOMAIN Volume, i > pos
      PROVE  /\ IsFrame(Volume[i]) => i \in Stops
             /\ Impassable(i) => i \in Stops /\ CannotRead(i)
  <2>1. i \in pos + 1 .. Len(Volume)
    BY <1>1, <1>3
  <2>2. Impassable(i) => CannotRead(i)
    <3>1. CASE Volume[i].kind = "torn" /\ \A j \in 1 .. i - 1 : ~IsFrame(Volume[j])
      <4>1. ~sawFrame
        BY <1>1, <1>3, <3>1
      <4> QED BY <3>1, <4>1 DEF CannotRead
    <3> QED BY <3>1 DEF Impassable, CannotRead
  <2> QED BY <1>2, <2>1, <2>2
<1>4. ASSUME NEW p \in Stops, \A i \in Stops : p <= i, CannotRead(p)
      PROVE  Impassable(p)
  <2>1. p \in pos + 1 .. Len(Volume)
    BY <1>2
  <2>2. CASE Volume[p].kind = "torn" /\ ~sawFrame
    <3>1. ASSUME NEW j \in 1 .. p - 1, IsFrame(Volume[j])
          PROVE  FALSE
      <4>1. CASE j <= pos
        BY <1>1, <2>2, <3>1, <4>1
      <4>2. CASE j > pos
        <5>1. j \in DOMAIN Volume /\ ~(p <= j)
          BY <1>1, <2>1
        <5> QED BY <1>3, <1>4, <3>1, <4>2, <5>1
      <4> QED BY <1>1, <4>1, <4>2
    <3> QED BY <2>2, <3>1 DEF Impassable
  <2> QED BY <1>4, <2>2 DEF Impassable, CannotRead
<1> QED BY <1>3, <1>4

\* The reader's step moves the head on.
LEMMA MovedOn ==
    ASSUME TypeOK, loaded \in DOMAIN media, Len(media) \in Nat,
           DOMAIN media = 1 .. Len(media), UNCHANGED <<media, loaded>>,
           pos' \in Nat, pos <= pos',
           \A i \in DOMAIN Volume : pos < i /\ i < pos' => ~IsFrame(Volume[i])
    PROVE  \A m, i : Good(m, i) /\ Behind(m, i)' =>
               Behind(m, i) \/ (m = loaded /\ i = pos' /\ pos < i)
<1> SUFFICES ASSUME NEW m, NEW i, Good(m, i), Behind(m, i)', ~Behind(m, i)
             PROVE  m = loaded /\ i = pos' /\ pos < i
    OBVIOUS
<1>1. m \in Nat /\ loaded \in Nat /\ i \in Nat /\ pos \in Nat
    BY GoodFacts DEF Good, TypeOK
<1>2. m = loaded /\ pos < i /\ i <= pos'
    BY <1>1 DEF Behind
<1>3. i \in DOMAIN Volume /\ IsFrame(Volume[i])
    BY <1>2, GoodFacts DEF Good, Volume
<1> QED BY <1>1, <1>2, <1>3
\* What a step leaves alone that takes nothing and moves nothing.
LEMMA WrittenStays ==
    ASSUME UNCHANGED media, v'.expected = v.expected, Emitted' = Emitted,
           Written(v.expected, Emitted)
    PROVE  Written(v.expected, Emitted)'
<1>1. \A m, i : (Good(m, i)' <=> Good(m, i)) /\ Number(m, i)' = Number(m, i)
    BY PlacesStay
<1>2. \A r : Frame(r)' = Frame(r)
    BY DEF Frame
<1> QED BY <1>1, <1>2 DEF Written

LEMMA StuckStays ==
    ASSUME TypeOK, UNCHANGED <<media, option, loaded>>, v'.expected = v.expected, Stuck,
           pos' \in Nat, reader' = "off" => readerExit' = "error",
           reader' # "off" => \A i \in DOMAIN Volume :
               Impassable(i) /\ (reader # "off" => pos < i) => pos' < i
    PROVE  Stuck'
<1>1. PICK i \in DOMAIN Volume :
          /\ Impassable(i) /\ (reader # "off" => pos < i)
          /\ \A j \in 1 .. i - 1 : Good(loaded, j) => Number(loaded, j) < v.expected
    BY DEF Stuck
<1>2. Impassable(i)' /\ Volume' = Volume /\ i \in DOMAIN Volume'
  <2>1. Impassable(i)'
    BY <1>1, ImpassableStays
  <2> QED BY <2>1 DEF Volume
<1>3. \A j \in 1 .. i - 1 : Good(loaded, j)' => Number(loaded, j)' < v'.expected
    BY <1>1, PlacesStay
<1>4. reader' # "off" => pos' < i
    BY <1>1
<1> QED BY <1>2, <1>3, <1>4 DEF Stuck

\* The reader sends a record.
LEMMA SendRecordLoss ==
    ASSUME TypeOK, Live, ext = "serve", Len(media) \in Nat, DOMAIN media = 1 .. Len(media),
           UNCHANGED <<option, media, loaded, extractorVars, extractorAlive>>,
           reader = "request", toReader' = Tail(toReader), SendRecord
    PROVE  Live'
<1>0. PICK p : p = pos'
    OBVIOUS
<1>1. /\ Serving /\ extractorAlive /\ readerAlive /\ loaded \in DOMAIN media
      /\ toExtractor = <<>> /\ toReader = <<NextFrame>> /\ pos \in Nat
      /\ UNCHANGED <<v, ext, output, buffered>>
    BY DEF Live, Serving, Dialogue, TypeOK, extractorVars
<1>2. /\ p \in Stops /\ \A i \in Stops : p <= i
      /\ p \in Nat /\ p \in DOMAIN Volume /\ p > pos
    BY <1>0, <1>1, SendRecordFacts, VolumeFacts DEF SendRecord
<1>3. /\ Len(Volume) \in Nat /\ DOMAIN Volume = 1 .. Len(Volume) /\ Volume' = Volume
    BY VolumeFacts DEF Volume
<1>4. \A i \in DOMAIN Volume : pos < i /\ i < p => ~IsFrame(Volume[i])
    BY <1>1, <1>2, <1>3, StopsFacts
<1>5. \A m, i : Good(m, i) /\ Behind(m, i)' =>
          Behind(m, i) \/ (m = loaded /\ i = p /\ pos < i)
  <2>1. pos <= pos' /\ pos' \in Nat
    BY <1>0, <1>1, <1>2
  <2>2. \A i \in DOMAIN Volume : pos < i /\ i < pos' => ~IsFrame(Volume[i])
    BY <1>0, <1>4
  <2>3. UNCHANGED <<media, loaded>>
    OBVIOUS
  <2> QED BY ONLY <1>0, TypeOK, Len(media) \in Nat, DOMAIN media = 1 .. Len(media), <1>1,
                  <2>1, <2>2, <2>3, MovedOn
<1>6. toReader' = <<>>
    BY <1>1
<1>7. \A m, i : Good(m, i) /\ Behind(m, i) => Number(m, i) < v.expected
    BY <1>1 DEF Live, PassedIsTaken, OnItsWay
<1>8. /\ Written(v.expected, Emitted)'
      /\ v'.archive = NoArchive => v'.expected = 0 /\ v'.replayNext = NoReplay
    BY <1>1, WrittenStays DEF Live, Emitted
<1>9. \A m, i : (Good(m, i)' <=> Good(m, i)) /\ Number(m, i)' = Number(m, i)
    BY PlacesStay
<1>10. CASE CannotRead(p)
  <2>1. /\ reader' = "off" /\ readerExit' = "error" /\ readerAlive' = FALSE
        /\ toExtractor' = <<>>
    BY <1>0, <1>1, <1>10 DEF SendRecord, ReaderLeaves
  <2>2. PassedIsTaken'
    <3> SUFFICES ASSUME NEW m, NEW i, Good(m, i), Behind(m, i)'
                 PROVE  Number(m, i) < v.expected \/ (m = loaded /\ i = p)
      BY <1>0, <1>1, <1>9, <2>1 DEF PassedIsTaken, OnItsWay
    <3> QED BY <1>5, <1>7
  <2>3. Impassable(p)' /\ p \in DOMAIN Volume'
    <3>1. Impassable(p)
      BY <1>1, <1>2, <1>10, StopsFacts
    <3>2. Impassable(p)'
      BY <3>1, ImpassableStays
    <3> QED BY <1>2, <1>3, <3>2
  <2>4. \A j \in 1 .. p - 1 : Good(loaded, j)' => Number(loaded, j)' < v'.expected
    <3> SUFFICES ASSUME NEW j \in 1 .. p - 1, Good(loaded, j)
                 PROVE  Number(loaded, j) < v.expected
      BY <1>1, <1>9
    <3>1. j <= pos
      BY <1>1, <1>2, <1>3, <1>4, GoodFacts DEF Good, Volume
    <3> QED BY <1>7, <3>1 DEF Behind
  <2>5. Stuck'
    <3>1. loaded' \in DOMAIN media' /\ (reader' = "off" => readerExit' = "error")
      BY <1>1, <2>1
    <3> QED BY <2>1, <2>3, <2>4, <3>1 DEF Stuck
  <2>6. Serving'
    BY <1>1, <2>1, <2>5 DEF Serving, Dialogue
  <2> QED BY <1>1, <1>8, <2>2, <2>5, <2>6 DEF Live
<1>11. CASE ~CannotRead(p)
  <2>1. /\ reader' = "ack" /\ UNCHANGED readerAlive /\ sawFrame' = TRUE
        /\ toExtractor' = Sent(toExtractor, extractorAlive, Carrying(Volume[p]))
    BY <1>0, <1>1, <1>11 DEF SendRecord, WriterWriteMayFail
  <2>2. toExtractor' = <<Carrying(Volume'[pos'])>>
    BY <1>0, <1>1, <1>3, <2>1 DEF Sent
  <2>3. IsFrame(Volume[p])
    BY <1>1, <1>2, <1>11, VolumeFacts
  <2>4. PassedIsTaken'
    <3> SUFFICES ASSUME NEW m, NEW i, Good(m, i), Behind(m, i)'
                 PROVE  Number(m, i) < v.expected \/ (m = loaded /\ i = p)
      BY <1>0, <1>1, <1>6, <1>9, <2>1 DEF PassedIsTaken, OnItsWay
    <3> QED BY <1>5, <1>7
  <2>5. Going => Going'
    <3> SUFFICES ASSUME Going, NEW m, NEW i, Good(m, i), ~Behind(m, i)' \/ (m = loaded /\ i = p)
                 PROVE  v.expected <= Number(m, i)
      BY <1>0, <1>1, <1>9 DEF Going, OnItsWay
    <3>1. m \in Nat /\ i \in Nat /\ loaded \in Nat
      BY <1>1, GoodFacts DEF Good
    <3>2. ~Behind(m, i)
      BY <1>0, <1>1, <1>2, <3>1 DEF Behind
    <3> QED BY <3>2 DEF Going
  <2>6. Stuck => Stuck'
    <3>1. \A i \in DOMAIN Volume : Impassable(i) /\ pos < i => p < i
      BY <1>1, <1>2, <1>3, <1>11, StopsFacts
    <3> QED BY <1>0, <1>1, <1>2, <2>1, <3>1, StuckStays
  <2>7. \E j \in 1 .. pos' : IsFrame(Volume'[j])
    BY <1>0, <1>2, <1>3, <2>3
  <2>8. Serving'
    BY <1>1, <1>6, <2>1, <2>2, <2>7 DEF Serving, Dialogue
  <2> QED BY <1>1, <1>8, <2>4, <2>5, <2>6, <2>8 DEF Live
<1> QED BY <1>10, <1>11
\* The reader has nothing more to send.
LEMMA SendTapeEofLoss ==
    ASSUME TypeOK, Live, ext = "serve", Len(media) \in Nat, DOMAIN media = 1 .. Len(media),
           UNCHANGED <<option, media, loaded, extractorVars, extractorAlive>>,
           reader = "request", toReader' = Tail(toReader), SendTapeEof
    PROVE  Live'
<1>1. /\ Serving /\ extractorAlive /\ readerAlive /\ loaded \in DOMAIN media
      /\ toExtractor = <<>> /\ toReader = <<NextFrame>> /\ pos \in Nat
      /\ UNCHANGED <<v, ext, output, buffered>>
    BY DEF Live, Serving, Dialogue, TypeOK, extractorVars
<1>2. /\ Stops = {} /\ pos' = Len(Volume) /\ reader' = "off" /\ readerExit' = "eof"
      /\ readerAlive' = FALSE /\ toExtractor' = <<TapeEof>>
    BY <1>1 DEF SendTapeEof, ReaderLeaves, WriterWriteMayFail, Sent
<1>3. /\ Len(Volume) \in Nat /\ DOMAIN Volume = 1 .. Len(Volume) /\ Volume' = Volume
    BY <1>1, VolumeFacts DEF Volume
<1>4. \A i \in DOMAIN Volume : pos < i => ~IsFrame(Volume[i]) /\ ~Impassable(i)
    BY <1>1, <1>2, StopsFacts
<1>5. ASSUME NEW m, NEW i, Good(m, i), Behind(m, i)'
      PROVE  Behind(m, i)
  <2>1. m \in Nat /\ i \in Nat /\ loaded \in Nat
    BY <1>1, <1>5, GoodFacts DEF Good
  <2>2. CASE m = loaded
    <3>1. i \in DOMAIN Volume /\ IsFrame(Volume[i])
      BY <1>5, <2>2, GoodFacts DEF Good, Volume
    <3> QED BY <1>1, <1>4, <2>1, <2>2, <3>1 DEF Behind
  <2>3. CASE m # loaded
    BY <1>5, <2>1, <2>3 DEF Behind
  <2> QED BY <2>2, <2>3
<1>6. \A m, i : Good(m, i) /\ Behind(m, i) => Number(m, i) < v.expected
    BY <1>1 DEF Live, PassedIsTaken, OnItsWay
<1>7. /\ Written(v.expected, Emitted)'
      /\ v'.archive = NoArchive => v'.expected = 0 /\ v'.replayNext = NoReplay
    BY <1>1, WrittenStays DEF Live, Emitted
<1>8. \A m, i : (Good(m, i)' <=> Good(m, i)) /\ Number(m, i)' = Number(m, i)
    BY PlacesStay
<1>9. PassedIsTaken'
    BY <1>1, <1>5, <1>6, <1>8 DEF PassedIsTaken
<1>10. ~Stuck
    BY <1>1, <1>4 DEF Stuck
<1>11. Going'
  <2>1. Going
    BY <1>10 DEF Live
  <2> SUFFICES ASSUME NEW m, NEW i, Good(m, i), ~Behind(m, i)'
               PROVE  v.expected <= Number(m, i)
    BY <1>1, <1>2, <1>8, <2>1 DEF Going, OnItsWay
  <2>2. m \in Nat /\ i \in Nat /\ loaded \in Nat
    BY <1>1, GoodFacts DEF Good
  <2>3. CASE ~Behind(m, i)
    BY <2>1, <2>3 DEF Going
  <2>4. CASE Behind(m, i)
    <3>1. m = loaded /\ i <= pos /\ i > Len(Volume)
      BY <1>2, <1>3, <2>2, <2>4 DEF Behind
    <3>2. i \in DOMAIN Volume
      BY <3>1 DEF Good, Volume
    <3> QED BY <1>3, <3>1, <3>2
  <2> QED BY <2>3, <2>4
<1>12. Serving'
    BY <1>1, <1>2, <1>3 DEF Serving, Dialogue
<1> QED BY <1>1, <1>7, <1>9, <1>11, <1>12 DEF Live

\* The reader takes an answer.
LEMMA ReadAnswerLoss ==
    ASSUME TypeOK, Live, ext = "serve", Len(media) \in Nat, DOMAIN media = 1 .. Len(media),
           UNCHANGED <<option, media, loaded, extractorVars, extractorAlive>>,
           toReader # <<>>, toReader' = Tail(toReader), ReadAnswer(Head(toReader))
    PROVE  Live'
<1>1. /\ Serving /\ extractorAlive /\ readerAlive /\ loaded \in DOMAIN media
      /\ reader = "ack" /\ toExtractor = <<>> /\ pos \in Nat
      /\ toReader = <<AckFrame(Volume[pos].seq), NextFrame>>
      /\ UNCHANGED <<v, ext, output, buffered, toExtractor, pos, sawFrame>>
    BY DEF Live, Serving, Dialogue, TypeOK, extractorVars, ReadAnswer
<1>2. /\ reader' = "request" /\ UNCHANGED <<readerExit, readerAlive>>
      /\ toReader' = <<NextFrame>> /\ Volume' = Volume
    BY <1>1 DEF ReadAnswer, Volume
<1>3. /\ Written(v.expected, Emitted)'
      /\ v'.archive = NoArchive => v'.expected = 0 /\ v'.replayNext = NoReplay
    BY <1>1, WrittenStays DEF Live, Emitted
<1>4. \A m, i : (Good(m, i)' <=> Good(m, i)) /\ Number(m, i)' = Number(m, i)
    BY PlacesStay
<1>5. \A m, i : /\ Behind(m, i)' <=> Behind(m, i)
                /\ ~OnItsWay(m, i) /\ ~OnItsWay(m, i)'
    BY <1>1, <1>2 DEF Behind, OnItsWay
<1>6. PassedIsTaken' /\ (Going => Going')
    BY <1>1, <1>4, <1>5 DEF Live, PassedIsTaken, Going
<1>7. Stuck => Stuck'
    BY <1>1, <1>2, StuckStays
<1>8. Serving'
    BY <1>1, <1>2 DEF Serving, Dialogue
<1> QED BY <1>1, <1>3, <1>6, <1>7, <1>8 DEF Live

LEMMA ReaderLoss ==
    ASSUME TypeOK, Live, ext \in {"serve", "accept"},
           Len(media) \in Nat, DOMAIN media = 1 .. Len(media), Reader
    PROVE  Live'
<1>1. reader # "off" /\ UNCHANGED <<option, media, loaded, extractorVars, extractorAlive>>
    BY DEF Reader, ReaderReads, ReaderMeetsEof
<1>2. ext = "serve" /\ Serving /\ extractorAlive
    BY <1>1 DEF Live, Waiting, Serving
<1>3. ReaderReads
    BY <1>2 DEF Reader, ReaderMeetsEof
<1>4. toReader # <<>> /\ toReader' = Tail(toReader)
    BY <1>3 DEF ReaderReads
<1>5. CASE reader = "request"
  <2>1. Head(toReader) = NextFrame
    BY <1>2, <1>5 DEF Serving, Dialogue
  <2>2. SendTapeEof \/ SendRecord
    BY <1>3, <1>5, <2>1 DEF ReaderReads, ReadAnswer, ReadError
  <2> QED BY <1>1, <1>2, <1>4, <1>5, <2>2, SendTapeEofLoss, SendRecordLoss
<1>6. CASE reader # "request"
  <2>1. ReadAnswer(Head(toReader))
    BY <1>3, <1>6 DEF ReaderReads, ReadError
  <2> QED BY <1>1, <1>2, <1>4, <2>1, ReadAnswerLoss
<1> QED BY <1>5, <1>6

-----------------------------------------------------------------------------
(* Salvage chooses what to take. *)

LEMMA SalvageChoice ==
    ASSUME RestoreInv, option.salvage, NEW r, r \in OnMedia, r \in FrameRecords,
           v.archive = NoArchive => v.expected = 0 /\ v.replayNext = NoReplay
    PROVE  /\ Repetition(Frame(r)) => r.check = "ok" /\ r.seq < v.expected
           /\ Fresh(Frame(r)) <=>
                  r.check = "ok" /\ v.expected <= r.seq /\ v.replayNext = NoReplay
           /\ TakeFrame(Frame(r)) => v'.replayNext = NoReplay
<1> DEFINE f == Frame(r)
           w == InArchiveOf(v, f)
<1>1. f.seq = r.seq /\ f.archive = r.archive /\ f.check = r.check /\ r.seq \in Nat
    BY FrameFacts
<1>2. v.archive \in {NoArchive, r.archive} /\ v.expected \in Nat /\ DOMAIN v = DOMAIN Unused
    BY DEF RestoreInv, SalvageKnown, TypeOK
<1> HIDE DEF f
<1>3. w.expected = v.expected /\ w.replayNext = v.replayNext /\ DOMAIN w = DOMAIN Unused
  <2>1. CASE v.archive = f.archive
    BY <1>2, <2>1 DEF InArchiveOf
  <2>2. CASE v.archive # f.archive
    <3>1. v.archive = NoArchive
      BY <1>1, <1>2, <2>2
    <3>2. w = [v EXCEPT !.archive = f.archive, !.expected = 0,
                        !.history = <<>>, !.replayNext = NoReplay]
      BY <2>2 DEF InArchiveOf
    <3>3. w.expected = 0 /\ w.replayNext = NoReplay /\ DOMAIN w = DOMAIN Unused
      BY <1>2, <3>2, ValidatorFields
    <3> QED BY <3>1, <3>3
  <2> QED BY <2>1, <2>2
<1>4. Repetition(f) => f.check = "ok" /\ f.seq < w.expected
    BY DEF Repetition, IsSalvageReplay, IsReplay, IsOld, Intact, w
<1>5. Fresh(f) <=> f.check = "ok" /\ ~(f.seq < w.expected) /\ w.replayNext = NoReplay
    BY DEF Fresh, IsSalvaged, MayBeNew, IsOld, Intact, w
<1>6. ASSUME TakeFrame(f) PROVE v'.replayNext = NoReplay
  <2>1. v' = Salvaged(v, f) /\ w.replayNext = NoReplay
    BY <1>5, <1>6 DEF TakeFrame
  <2>2. v' = [w EXCEPT !.expected = f.seq + 1, !.history = Remember(w, f)]
    BY <2>1 DEF Salvaged, w
  <2> HIDE DEF w
  <2> QED BY <1>3, <2>1, <2>2, ValidatorFields
<1> HIDE DEF w
<1>7. ~(f.seq < w.expected) <=> v.expected <= r.seq
    BY <1>1, <1>2, <1>3
<1> QED BY <1>1, <1>3, <1>4, <1>5, <1>6, <1>7 DEF f

\* A frame arrives: the one the head stands behind.
LEMMA ArrivingFrame ==
    ASSUME TypeOK, Serving, toExtractor # <<>>, NEW r,
           Head(toExtractor).type = "frame_record", r = Head(toExtractor).record
    PROVE  /\ reader = "ack" /\ readerAlive /\ toReader = <<>>
           /\ r = Volume[pos] /\ r \in OnMedia /\ r \in FrameRecords
           /\ Tail(toExtractor) = <<>> /\ pos \in DOMAIN Volume
<1>1. CASE toExtractor = <<Carrying(Volume[pos])>>
  <2>1. r = Volume[pos] /\ Tail(toExtractor) = <<>>
    BY <1>1 DEF Carrying
  <2>2. reader = "ack" /\ toReader = <<>> /\ readerAlive
    BY <1>1 DEF Serving, Dialogue, Carrying, TapeEof
  <2>3. pos \in DOMAIN Volume /\ IsFrame(Volume[pos])
    BY <2>2 DEF TypeOK
  <2> QED BY <2>1, <2>2, <2>3, VolumeFacts
<1>2. CASE toExtractor = <<TapeEof>>
    BY <1>2 DEF TapeEof
<1> QED BY <1>1, <1>2 DEF Serving, Dialogue

LEMMA AnsweredServes ==
    ASSUME TypeOK, Serving, UNCHANGED <<media, readerVars, readerAlive>>, reader = "ack",
           readerAlive, toReader = <<>>, toExtractor' = <<>>,
           NEW f, f.seq = Volume[pos].seq, Acknowledge(f)
    PROVE  /\ Serving' /\ ext' = ext
           /\ \A m, i : ~OnItsWay(m, i)' /\ (Behind(m, i)' <=> Behind(m, i))
<1>1. UNCHANGED <<loaded, pos, reader, sawFrame, readerExit, extractorAlive, ext>>
      /\ Volume' = Volume
    BY DEF readerVars, Acknowledge, Volume
<1>2. toReader' = <<AckFrame(Volume[pos].seq), NextFrame>>
  <2> DEFINE two == <<AckFrame(f.seq), NextFrame>>
  <2>1. toReader' = toReader \o two
    BY DEF Acknowledge
  <2>2. two \in Seq({AckFrame(f.seq), NextFrame})
    OBVIOUS
  <2>3. <<>> \o two = two
    BY <2>2, ConcatEmptySeq
  <2> QED BY <2>1, <2>3
<1>3. Serving'
    BY <1>1, <1>2 DEF Serving, Dialogue
<1>4. \A m, i : ~OnItsWay(m, i)'
  <2>1. toReader' # <<>>
    BY <1>2
  <2> QED BY <1>1, <2>1 DEF OnItsWay
<1> QED BY <1>1, <1>3, <1>4 DEF Behind

FrameLies(r) ==
    /\ ext = "serve" /\ toExtractor # <<>> /\ toExtractor' = Tail(toExtractor)
    /\ Head(toExtractor).type = "frame_record" /\ r = Head(toExtractor).record
    /\ UNCHANGED <<option, media, readerVars, readerAlive>>

\* The place the frame lies at.
LEMMA FrameLiesFacts ==
    ASSUME RestoreInv, Live, option.salvage, NEW r, FrameLies(r)
    PROVE  /\ Serving /\ FrameArrives(r) /\ toExtractor' = <<>>
           /\ reader = "ack" /\ readerAlive /\ toReader = <<>>
           /\ r = Volume[pos] /\ loaded \in DOMAIN media /\ pos \in DOMAIN Volume
           /\ pos \in Nat /\ UNCHANGED <<loaded, pos, reader, readerExit>>
           /\ OnItsWay(loaded, pos) /\ Number(loaded, pos) = r.seq
           /\ Good(loaded, pos) <=> r.check = "ok"
           /\ Stuck /\ r.check = "ok" => r.seq < v.expected
           /\ Going /\ r.check = "ok" => v.expected <= r.seq /\ v.replayNext = NoReplay
<1>1. Serving /\ TypeOK /\ loaded \in DOMAIN media /\ pos \in Nat
    BY DEF Live, FrameLies, RestoreInv, Serving, TypeOK
<1>2. /\ reader = "ack" /\ readerAlive /\ toReader = <<>>
      /\ r = Volume[pos] /\ r \in OnMedia /\ r \in FrameRecords
      /\ Tail(toExtractor) = <<>> /\ pos \in DOMAIN Volume
    BY <1>1, ArrivingFrame DEF FrameLies
<1>3. FrameArrives(r) /\ toExtractor' = <<>> /\ UNCHANGED <<loaded, pos, reader, readerExit>>
  <2>1. toExtractor' = <<>> /\ \A S : <<>> \in Seq(S)
    BY <1>2 DEF FrameLies
  <2> QED BY <1>2, <2>1 DEF FrameArrives, FrameLies, readerVars
<1>4. OnItsWay(loaded, pos) /\ Number(loaded, pos) = r.seq
    BY <1>2 DEF OnItsWay, Number, Volume
<1>5. Good(loaded, pos) <=> r.check = "ok"
    BY <1>1, <1>2 DEF Good, Undamaged, Intact, Volume, TypeOK
<1>6. ASSUME Stuck, r.check = "ok" PROVE r.seq < v.expected
  <2>1. PICK i \in DOMAIN Volume :
            /\ reader # "off" => pos < i
            /\ \A j \in 1 .. i - 1 : Good(loaded, j) => Number(loaded, j) < v.expected
    BY <1>6 DEF Stuck
  <2>2. DOMAIN Volume = 1 .. Len(Volume) /\ Len(Volume) \in Nat
    BY <1>1, <1>2, VolumeFacts
  <2>3. pos \in 1 .. i - 1
    BY <1>2, <2>1, <2>2
  <2> QED BY <1>4, <1>5, <1>6, <2>1, <2>3
<1>7. Going /\ r.check = "ok" => v.expected <= r.seq /\ v.replayNext = NoReplay
    BY <1>4, <1>5 DEF Going
<1> QED BY <1>1, <1>2, <1>3, <1>4, <1>5, <1>6, <1>7

\* A frame that is not taken: it is damaged or old.
LEMMA NotTakenLoss ==
    ASSUME RestoreInv, Live, option.salvage, NEW r, FrameLies(r),
           Acknowledge(Frame(r)), UNCHANGED <<output, buffered>>,
           v'.expected = v.expected, v'.archive = v.archive,
           r.check = "ok" => r.seq < v.expected,
           v' = v \/ r.check = "ok"
    PROVE  Live'
<1>1. /\ Serving /\ toExtractor' = <<>> /\ reader = "ack" /\ readerAlive /\ toReader = <<>>
      /\ r = Volume[pos] /\ loaded \in DOMAIN media /\ pos \in Nat
      /\ UNCHANGED <<loaded, pos, reader, readerExit, media, option, readerVars, readerAlive>>
      /\ Number(loaded, pos) = r.seq /\ (Good(loaded, pos) <=> r.check = "ok")
      /\ r \in FrameRecords /\ TypeOK /\ ext = "serve"
      /\ Going /\ r.check = "ok" => v.expected <= r.seq
    BY FrameLiesFacts DEF FrameLies, FrameArrives, RestoreInv
<1>2. /\ Serving' /\ ext' = "serve"
      /\ \A m, i : ~OnItsWay(m, i)' /\ (Behind(m, i)' <=> Behind(m, i))
  <2>1. Frame(r).seq = Volume[pos].seq
    BY <1>1, FrameFacts
  <2> QED BY <1>1, <2>1, AnsweredServes
<1>3. \A m, i : (Good(m, i)' <=> Good(m, i)) /\ Number(m, i)' = Number(m, i)
    BY <1>1, PlacesStay
<1>4. Written(v.expected, Emitted)'
    BY <1>1, WrittenStays DEF Live, Emitted
<1>5. PassedIsTaken'
  <2> SUFFICES ASSUME NEW m, NEW i, Good(m, i), Behind(m, i)
               PROVE  Number(m, i) < v.expected
    BY <1>2, <1>3 DEF PassedIsTaken
  <2>1. CASE OnItsWay(m, i)
    BY <1>1, <2>1 DEF OnItsWay
  <2>2. CASE ~OnItsWay(m, i)
    BY <2>2 DEF Live, PassedIsTaken
  <2> QED BY <2>1, <2>2
<1>6. Stuck => Stuck'
    BY <1>1, StuckStays
<1>7. Going /\ r.check # "ok" => Going'
    BY <1>2, <1>3 DEF Going
<1>8. v.expected \in Nat /\ r.seq \in Nat
    BY <1>1, FrameFacts DEF TypeOK
<1>9. Going' \/ Stuck'
    BY <1>1, <1>6, <1>7, <1>8 DEF Live
<1>10. v'.archive = NoArchive => v'.expected = 0 /\ v'.replayNext = NoReplay
    BY <1>8 DEF Live
<1> QED BY <1>2, <1>4, <1>5, <1>9, <1>10 DEF Live

LEMMA SuppressLoss ==
    ASSUME RestoreInv, Live, option.salvage, NEW r, FrameLies(r), SuppressReplay(Frame(r))
    PROVE  Live'
<1>1. /\ Repetition(Frame(r)) /\ v' = Replayed(v, Frame(r)) /\ Acknowledge(Frame(r))
      /\ UNCHANGED <<output, buffered>>
    BY DEF SuppressReplay
<1>2. r \in OnMedia /\ r \in FrameRecords /\ DOMAIN v = DOMAIN Unused
    BY FrameLiesFacts DEF FrameArrives, RestoreInv, TypeOK
<1>3. r.check = "ok" /\ r.seq < v.expected
    BY <1>1, <1>2, SalvageChoice DEF Live
<1>4. v'.expected = v.expected /\ v'.archive = v.archive
    BY <1>1, <1>2, ReplayedFields
<1> QED BY <1>1, <1>3, <1>4, NotTakenLoss

LEMMA SkipLoss ==
    ASSUME RestoreInv, Live, option.salvage, NEW r, FrameLies(r), SkipFrame(Frame(r))
    PROVE  Live'
<1>1. /\ ~Fresh(Frame(r)) /\ UNCHANGED v /\ Acknowledge(Frame(r))
      /\ UNCHANGED <<output, buffered>>
    BY DEF SkipFrame
<1>2. r \in OnMedia /\ r \in FrameRecords
    BY FrameLiesFacts DEF FrameArrives
<1>3. r.check = "ok" => ~Going
    BY <1>1, <1>2, FrameLiesFacts, SalvageChoice DEF Live
<1>4. r.check = "ok" => r.seq < v.expected
    BY <1>3, FrameLiesFacts DEF Live
<1> QED BY <1>1, <1>4, NotTakenLoss

\* Written stays written.
LEMMA EmittedGrows ==
    ASSUME TypeOK, NEW e \in Pieces, Emitted' = Emitted \/ Emitted' = Append(Emitted, e)
    PROVE  /\ \A k \in DOMAIN Emitted : k \in DOMAIN Emitted' /\ Emitted'[k] = Emitted[k]
           /\ Emitted' = Append(Emitted, e) => \E k \in DOMAIN Emitted' : Emitted'[k] = e
<1>1. PICK s \in Seq(Pieces) : s = Emitted
    BY EmittedTyped
<1> DEFINE t == Append(s, e)
<1>2. /\ \A k \in DOMAIN s : k \in DOMAIN t /\ t[k] = s[k]
      /\ \E k \in DOMAIN t : t[k] = e
  <2>1. /\ Len(s) \in Nat /\ DOMAIN s = 1 .. Len(s) /\ DOMAIN t = 1 .. Len(s) + 1
        /\ t[Len(s) + 1] = e /\ \A k \in 1 .. Len(s) : t[k] = s[k]
    OBVIOUS
  <2> HIDE DEF t
  <2>2. Len(s) + 1 \in DOMAIN t
    BY <2>1
  <2> QED BY <2>1, <2>2
<1> HIDE DEF t
<1> QED BY <1>1, <1>2 DEF t

\* Every copy below the number of the frame taken lies before it.
LEMMA WrittenGrows ==
    ASSUME RestoreInv, Live, Orderly, NEW r, FrameLies(r),
           Len(media) \in Nat, DOMAIN media = 1 .. Len(media), r.check = "ok",
           \/ Emitted' = Append(Emitted, Piece(Frame(r)))
           \/ Emitted' = Emitted /\ Frame(r).channel # "content"
    PROVE  \A n \in Nat : n <= r.seq + 1 => Written(n, Emitted')
<1> DEFINE e == Piece(Frame(r))
<1>1. /\ loaded \in DOMAIN media /\ loaded \in Nat /\ Number(loaded, pos) = r.seq
      /\ Good(loaded, pos) /\ r = media[loaded][pos] /\ TypeOK /\ e \in Pieces
      /\ r.seq \in Nat
    BY FrameLiesFacts, FrameFacts DEF Orderly, FrameArrives, RestoreInv, Volume
<1>2. /\ \A k \in DOMAIN Emitted : k \in DOMAIN Emitted' /\ Emitted'[k] = Emitted[k]
      /\ Emitted' = Append(Emitted, e) => \E k \in DOMAIN Emitted' : Emitted'[k] = e
    BY <1>1, EmittedGrows
<1> HIDE DEF e
<1>3. SUFFICES ASSUME NEW m, NEW i, Good(m, i), Number(m, i) <= r.seq,
                      Frame(media[m][i]).channel = "content"
               PROVE  \E k \in DOMAIN Emitted' : Emitted'[k] = Piece(Frame(media[m][i]))
  <2> SUFFICES ASSUME NEW n \in Nat, n <= r.seq + 1, NEW m, NEW i, Good(m, i), Number(m, i) < n,
                      Frame(media[m][i]).channel = "content"
               PROVE  \E k \in DOMAIN Emitted' : Emitted'[k] = Piece(Frame(media[m][i]))
    BY DEF Written
  <2>1. Number(m, i) \in Nat
    BY <1>1, GoodFacts
  <2>2. Number(m, i) <= r.seq
    BY <1>1, <2>1
  <2> QED BY <1>3, <2>2
<1>4. CASE m = loaded /\ i = pos
    BY <1>1, <1>2, <1>3, <1>4 DEF e
<1>5. CASE ~(m = loaded /\ i = pos)
  <2>1. m \in Nat
    BY <1>3 DEF Good
  <2>2. Before(m, i, loaded, pos)
    BY <1>1, <1>3, <1>5, <2>1, OrderlyMedia
  <2>3. i \in Nat /\ pos \in Nat
    BY <1>1, <1>3, GoodFacts
  <2>4. Behind(m, i) /\ ~OnItsWay(m, i)
    BY <1>5, <2>2, <2>3 DEF Before, Behind, OnItsWay
  <2>5. Number(m, i) < v.expected
    BY <1>3, <2>4 DEF Live, PassedIsTaken
  <2>6. \E k \in DOMAIN Emitted : Emitted[k] = Piece(Frame(media[m][i]))
    BY <1>3, <2>5 DEF Live, Written
  <2> QED BY <1>2, <2>6
<1> QED BY <1>4, <1>5

\* A new frame is taken.
LEMMA TakeLoss ==
    ASSUME RestoreInv, Live, Orderly, NEW r, FrameLies(r),
           Len(media) \in Nat, DOMAIN media = 1 .. Len(media), TakeFrame(Frame(r))
    PROVE  /\ ext' = "done" => Written(Len(Stream), output)'
           /\ ext' \in {"accept", "serve"} => Live'
<1> DEFINE f == Frame(r)
           e == Piece(f)
<1>1. /\ Serving /\ toExtractor' = <<>> /\ reader = "ack" /\ readerAlive /\ toReader = <<>>
      /\ r = Volume[pos] /\ loaded \in DOMAIN media /\ loaded \in Nat /\ pos \in Nat
      /\ UNCHANGED <<loaded, pos, reader, readerExit, media, option, readerVars, readerAlive>>
      /\ Number(loaded, pos) = r.seq /\ (Good(loaded, pos) <=> r.check = "ok")
      /\ r \in FrameRecords /\ r \in OnMedia /\ TypeOK /\ ext = "serve"
      /\ FrameArrives(r) /\ option.salvage /\ ~option.flushMayFail
    BY FrameLiesFacts DEF FrameLies, FrameArrives, RestoreInv, Orderly
<1>2. /\ f.seq = r.seq /\ r.seq \in 0 .. Len(Stream) - 1 /\ r.seq \in Nat
      /\ Len(Stream) \in Nat /\ e \in Pieces
      /\ f.channel = "archive_end" <=> r.seq = Len(Stream) - 1
      /\ r.archive # NoArchive
    BY <1>1, FrameFacts
<1>3. /\ Fresh(f) /\ r.check = "ok" /\ v.expected <= r.seq /\ v'.replayNext = NoReplay
    BY <1>1, SalvageChoice DEF Live, TakeFrame
<1>4. v'.expected = r.seq + 1 /\ v'.archive = r.archive
    BY <1>1, TakeTyped DEF RestoreInv
<1>5. ~FlushFails /\ (TakeMetadata(f) \/ TakeEnd(f) \/ TakeContent(f))
    BY <1>1 DEF FlushFails, TakeFrame
<1>6. Going
  <2>1. v.expected \in Nat
    BY <1>1 DEF TypeOK
  <2>2. ~Stuck
    BY <1>1, <1>2, <1>3, <2>1, FrameLiesFacts
  <2> QED BY <2>2 DEF Live
<1>7. \A m, i : (Good(m, i)' <=> Good(m, i)) /\ Number(m, i)' = Number(m, i)
    BY <1>1, PlacesStay
<1>8. \A m, i : Good(m, i) => (Behind(m, i) <=> Number(m, i) < r.seq + 1)
  <2> SUFFICES ASSUME NEW m, NEW i, Good(m, i)
               PROVE  Behind(m, i) <=> Number(m, i) < r.seq + 1
    OBVIOUS
  <2>1. m \in Nat /\ i \in Nat /\ Number(m, i) \in Nat /\ Good(loaded, pos)
    BY <1>1, <1>3, GoodFacts DEF Good
  <2>2. CASE m = loaded /\ i = pos
    BY <1>1, <1>2, <2>2 DEF Behind
  <2>3. CASE Before(m, i, loaded, pos)
    <3>1. Number(m, i) < r.seq
      BY <1>1, <2>1, <2>3, OrderlyMedia
    <3> QED BY <1>1, <1>2, <2>1, <2>3, <3>1 DEF Behind, Before
  <2>4. CASE Before(loaded, pos, m, i)
    <3>1. r.seq < Number(m, i)
      BY <1>1, <2>1, <2>4, OrderlyMedia
    <3> QED BY <1>1, <1>2, <2>1, <2>4, <3>1 DEF Behind, Before
  <2> QED BY <1>1, <2>1, <2>2, <2>3, <2>4 DEF Before
<1>9. ASSUME Acknowledge(f),
             \/ Emitted' = Append(Emitted, e)
             \/ Emitted' = Emitted /\ f.channel # "content"
      PROVE  Live' /\ ext' = "serve"
  <2>1. /\ Serving' /\ ext' = "serve"
        /\ \A m, i : ~OnItsWay(m, i)' /\ (Behind(m, i)' <=> Behind(m, i))
    BY <1>1, <1>2, <1>9, AnsweredServes
  <2>2. PassedIsTaken' /\ Going'
    <3>1. \A m, i : Good(m, i) => Number(m, i) \in Nat
      BY <1>1, GoodFacts
    <3>2. \A m, i : Good(m, i) /\ ~(Number(m, i) < r.seq + 1) => r.seq + 1 <= Number(m, i)
      BY <1>2, <3>1
    <3>3. PassedIsTaken'
      BY <1>4, <1>7, <1>8, <2>1 DEF PassedIsTaken
    <3>4. Going'
      BY <1>3, <1>4, <1>7, <1>8, <2>1, <3>2 DEF Going
    <3> QED BY <3>3, <3>4
  <2>3. Written(v.expected, Emitted)'
    <3>1. \A n \in Nat : n <= r.seq + 1 => Written(n, Emitted')
      BY <1>3, <1>9, WrittenGrows
    <3>2. Written(r.seq + 1, Emitted')
      BY <1>2, <3>1
    <3>3. \A x : Frame(x)' = Frame(x)
      BY DEF Frame
    <3> QED BY <1>1, <1>4, <1>7, <3>2, <3>3 DEF Written
  <2> QED BY <1>2, <1>4, <2>1, <2>2, <2>3 DEF Live
<1>10. CASE TakeMetadata(f)
  <2>1. Acknowledge(f) /\ f.channel # "content" /\ Emitted' = Emitted
    BY <1>10 DEF TakeMetadata, Emitted
  <2> QED BY <1>9, <2>1
<1>11. CASE TakeContent(f)
  <2>1. /\ Acknowledge(f)
        /\ \/ output' = Emitted /\ buffered' = <<e>>
           \/ output' = output /\ buffered' = Append(buffered, e)
    BY <1>5, <1>11 DEF TakeContent
  <2>2. Emitted' = Append(Emitted, e)
    BY <1>1, <1>2, <2>1, WriteFacts
  <2> QED BY <1>9, <2>1, <2>2
<1>12. CASE TakeEnd(f)
  <2>1. f.channel = "archive_end" /\ Flush /\ ext' = "done"
    BY <1>5, <1>12 DEF TakeEnd, Disconnect
  <2>2. Emitted' = Emitted /\ output' = Emitted
    BY <1>1, <2>1, FlushFacts
  <2>3. Written(Len(Stream), Emitted')
    BY <1>2, <1>3, <2>1, <2>2, WrittenGrows
  <2>4. \A x : Frame(x)' = Frame(x)
    BY DEF Frame
  <2> QED BY <1>1, <1>7, <2>1, <2>2, <2>3, <2>4 DEF Written
<1> QED BY <1>5, <1>10, <1>11, <1>12

\* Nothing is under way, and the medium goes on or is stuck as before.
LEMMA LeftAlone ==
    ASSUME TypeOK, Live, UNCHANGED <<option, media, readerVars, toReader, v>>,
           Emitted' = Emitted
    PROVE  /\ Written(v.expected, Emitted)' /\ PassedIsTaken' /\ (Going' \/ Stuck')
           /\ Stuck => Stuck'
           /\ v'.archive = NoArchive => v'.expected = 0 /\ v'.replayNext = NoReplay
<1>1. UNCHANGED <<loaded, pos, reader, readerExit>> /\ pos \in Nat
    BY DEF readerVars, TypeOK
<1>2. \A m, i : (Good(m, i)' <=> Good(m, i)) /\ Number(m, i)' = Number(m, i)
    BY PlacesStay
<1>3. \A m, i : (OnItsWay(m, i)' <=> OnItsWay(m, i)) /\ (Behind(m, i)' <=> Behind(m, i))
    BY <1>1 DEF Behind, OnItsWay
<1>4. Written(v.expected, Emitted)'
    BY WrittenStays DEF Live
<1>5. PassedIsTaken' /\ (Going => Going')
    BY <1>2, <1>3 DEF Live, PassedIsTaken, Going
<1>6. Stuck => Stuck'
  <2>1. reader' = "off" /\ Stuck => readerExit' = "error"
    BY <1>1 DEF Stuck
  <2> QED BY <1>1, <2>1, StuckStays
<1> QED BY <1>4, <1>5, <1>6 DEF Live

LEMMA TapeEofLoss ==
    ASSUME RestoreInv, Live, Orderly, ext = "serve",
           UNCHANGED <<option, media, readerVars, readerAlive>>,
           toExtractor # <<>>, Head(toExtractor) = TapeEof,
           toExtractor' = Tail(toExtractor), TakeTapeEof
    PROVE  Live' /\ ext' = "accept"
<1>1. Serving /\ TypeOK
    BY DEF Live, RestoreInv
<1>2. /\ reader = "off" /\ readerExit = "eof" /\ toExtractor = <<TapeEof>>
      /\ pos = Len(Volume) /\ loaded \in DOMAIN media
    BY <1>1 DEF Serving, Dialogue, Carrying, TapeEof
<1>3. /\ Flush /\ ext' = "accept" /\ UNCHANGED <<toReader, v>>
    BY DEF TakeTapeEof, FlushFails, Orderly, Disconnect
<1>4. Emitted' = Emitted /\ buffered' = <<>>
    BY <1>1, <1>3, FlushFacts
<1>5. /\ UNCHANGED <<loaded, pos, reader, readerExit>> /\ Volume' = Volume
      /\ toExtractor' = <<>>
    BY <1>2 DEF readerVars, Volume
<1>6. Waiting'
    BY <1>2, <1>4, <1>5 DEF Waiting
<1> QED BY <1>1, <1>3, <1>4, <1>6, LeftAlone DEF Live

LEMMA LostReaderLoss ==
    ASSUME RestoreInv, Live, ext = "serve",
           UNCHANGED <<option, media, readerVars, readerAlive>>, ExtractorMeetsEof
    PROVE  Live' /\ ext' = "accept"
<1>1. /\ toExtractor = <<>> /\ ~readerAlive /\ ext' = "accept"
      /\ UNCHANGED <<toExtractor, toReader, v, output, buffered>>
    BY DEF ExtractorMeetsEof, Disconnect
<1>2. reader = "off" /\ readerExit = "error" /\ Stuck /\ TypeOK
    BY <1>1 DEF Live, Serving, Dialogue, RestoreInv
<1>3. Emitted' = Emitted /\ UNCHANGED <<reader, readerExit>>
    BY <1>1 DEF Emitted, readerVars
<1>4. /\ Written(v.expected, Emitted)' /\ PassedIsTaken' /\ Stuck'
      /\ v'.archive = NoArchive => v'.expected = 0 /\ v'.replayNext = NoReplay
    BY <1>1, <1>2, <1>3, LeftAlone
<1>5. Waiting'
    BY <1>1, <1>2, <1>3, <1>4 DEF Waiting
<1> QED BY <1>1, <1>4, <1>5 DEF Live

LEMMA ExtractorLoss ==
    ASSUME RestoreInv, Live, Orderly, Len(media) \in Nat, DOMAIN media = 1 .. Len(media),
           Extractor
    PROVE  /\ ext' = "done" => Written(Len(Stream), output)'
           /\ ext' \in {"accept", "serve"} => Live'
<1>1. ext = "serve" /\ UNCHANGED <<option, media, readerVars, readerAlive>>
      /\ option.salvage
    BY DEF Extractor, Orderly
<1>2. CASE ExtractorMeetsEof
    BY <1>1, <1>2, LostReaderLoss
<1>3. CASE ProcessMessage
  <2>1. toExtractor # <<>> /\ toExtractor' = Tail(toExtractor)
    BY <1>3 DEF ProcessMessage
  <2>2. CASE Head(toExtractor) = TapeEof /\ TakeTapeEof
    BY <1>1, <2>1, <2>2, TapeEofLoss
  <2>3. CASE Head(toExtractor).type = "frame_record"
    <3>1. PICK r : r = Head(toExtractor).record
      OBVIOUS
    <3>2. FrameLies(r)
      BY <1>1, <2>1, <2>3, <3>1 DEF FrameLies
    <3>3. \/ SuppressReplay(Frame(r)) \/ RefuseFrame(Frame(r)) \/ SkipFrame(Frame(r))
          \/ TakeFrame(Frame(r))
      BY <1>3, <2>3, <3>1 DEF ProcessMessage, TapeEof
    <3>4. CASE SuppressReplay(Frame(r))
      <4>1. ext' = "serve"
        BY <1>1, <3>4 DEF SuppressReplay, Acknowledge
      <4> QED BY <1>1, <3>2, <3>4, <4>1, SuppressLoss
    <3>5. CASE RefuseFrame(Frame(r))
      BY <3>5 DEF RefuseFrame, Fatal, Disconnect
    <3>6. CASE SkipFrame(Frame(r))
      <4>1. ext' = "serve"
        BY <1>1, <3>6 DEF SkipFrame, Acknowledge
      <4> QED BY <1>1, <3>2, <3>6, <4>1, SkipLoss
    <3>7. CASE TakeFrame(Frame(r))
      BY <3>2, <3>7, TakeLoss
    <3> QED BY <3>3, <3>4, <3>5, <3>6, <3>7
  <2> QED BY <1>3, <2>2, <2>3 DEF ProcessMessage
<1> QED BY <1>1, <1>2, <1>3 DEF Extractor

-----------------------------------------------------------------------------
(* The operator loads media, and the beginning. *)

LEMMA ConnectLoss ==
    ASSUME RestoreInv, Live, ~AnyOrder, Len(media) \in Nat, DOMAIN media = 1 .. Len(media),
           Connect
    PROVE  Live' /\ ext' = "serve"
<1>1. /\ ext = "accept" /\ ext' = "serve" /\ loaded' = NextMedium /\ loaded' \in DOMAIN media
      /\ pos' = 0 /\ reader' = "request" /\ sawFrame' = FALSE
      /\ readerAlive' = TRUE /\ extractorAlive' = TRUE
      /\ toExtractor' = <<>> /\ toReader' = <<NextFrame>>
      /\ v' = BeginConnection(v) /\ UNCHANGED <<option, media, output, buffered>>
    BY DEF Connect
<1>2. /\ TypeOK /\ DOMAIN v = DOMAIN Unused /\ v.expected \in Nat /\ Waiting
      /\ v'.expected = v.expected /\ v'.archive = v.archive
  <2>1. TypeOK /\ DOMAIN v = DOMAIN Unused /\ v.expected \in Nat
    BY DEF RestoreInv, TypeOK
  <2> QED BY <1>1, <2>1, ReplayedFields DEF Live
<1>3. v'.replayNext = NoReplay
    BY <1>1, <1>2, ValidatorFields DEF BeginConnection
<1>4. \A m, i : (Good(m, i)' <=> Good(m, i)) /\ Number(m, i)' = Number(m, i)
    BY <1>1, PlacesStay
<1>5. Written(v.expected, Emitted)'
    BY <1>1, <1>2, WrittenStays DEF Live, Emitted
<1>6. Serving'
    BY <1>1 DEF Serving, Dialogue
<1>7. \A m, i : ~OnItsWay(m, i)'
    BY <1>1 DEF OnItsWay
<1>8. \A m, i : Good(m, i) => m \in Nat /\ i \in Nat /\ i >= 1
    BY <1>2, GoodFacts DEF Good
<1>9. \A m, i : Good(m, i) => (Behind(m, i)' <=> m < NextMedium)
    BY <1>1, <1>8 DEF Behind
<1>10. CASE readerExit = "none" /\ loaded = 0
  <2>1. \A m, i : Good(m, i) => ~Behind(m, i) /\ m >= 1 /\ ~(m < NextMedium)
    BY <1>8, <1>10 DEF Behind, NextMedium, Good
  <2>2. PassedIsTaken'
    BY <1>4, <1>9, <2>1 DEF PassedIsTaken
  <2>3. Going
    BY <1>10 DEF Live, Stuck
  <2>4. Going'
    BY <1>2, <1>3, <1>4, <2>1, <2>3 DEF Going
  <2> QED BY <1>1, <1>2, <1>3, <1>5, <1>6, <2>2, <2>4 DEF Live
<1>11. CASE readerExit = "eof" /\ loaded \in DOMAIN media /\ pos = Len(Volume)
  <2>1. ASSUME NEW m, NEW i, Good(m, i)
        PROVE  /\ m < NextMedium <=> Behind(m, i)
               /\ ~OnItsWay(m, i)
    <3>1. m = loaded => i <= pos
      BY <1>2, <1>11, <2>1, GoodFacts DEF Volume
    <3>2. m \in Nat /\ loaded \in Nat /\ NextMedium = loaded + 1
      BY <1>8, <1>11, <2>1 DEF NextMedium
    <3> QED BY <1>2, <1>11, <3>1, <3>2 DEF Behind, OnItsWay, Waiting
  <2>2. PassedIsTaken'
    BY <1>2, <1>4, <1>9, <2>1 DEF Live, PassedIsTaken
  <2>3. Going
    BY <1>2, <1>11 DEF Live, Stuck, Waiting
  <2>4. Going'
    BY <1>2, <1>3, <1>4, <1>7, <1>9, <2>1, <2>3 DEF Going
  <2> QED BY <1>1, <1>2, <1>3, <1>5, <1>6, <2>2, <2>4 DEF Live
<1>12. CASE readerExit = "error" /\ Stuck
  <2>1. NextMedium = loaded
    BY <1>12 DEF NextMedium
  <2>2. ASSUME NEW m, NEW i, Good(m, i), m < loaded
        PROVE  Number(m, i) < v.expected
    <3>1. loaded \in Nat
      BY <1>12 DEF Stuck
    <3>2. Behind(m, i) /\ ~OnItsWay(m, i)
      BY <1>8, <2>2, <3>1 DEF Behind, OnItsWay
    <3> QED BY <2>2, <3>2 DEF Live, PassedIsTaken
  <2>3. PassedIsTaken'
    BY <1>2, <1>4, <1>9, <2>1, <2>2 DEF PassedIsTaken
  <2>4. DOMAIN Volume \subseteq Nat \ {0}
    BY <1>2, <1>12 DEF Stuck, TypeOK, MediaOK, Volume
  <2>5. \A i \in DOMAIN Volume : pos' < i
    BY <1>1, <2>4
  <2>6. Stuck'
    <3>1. UNCHANGED <<media, option, loaded>> /\ pos' \in Nat
      BY <1>1, <2>1
    <3> QED BY <1>1, <1>2, <1>12, <2>5, <3>1, StuckStays
  <2> QED BY <1>1, <1>2, <1>3, <1>5, <1>6, <2>3, <2>6 DEF Live
<1> QED BY <1>2, <1>10, <1>11, <1>12 DEF Waiting

LEMMA InitMediaSeq == Init => Len(media) \in Nat /\ DOMAIN media = 1 .. Len(media)
<1> SUFFICES ASSUME Init PROVE Len(media) \in Nat /\ DOMAIN media = 1 .. Len(media)
    OBVIOUS
<1>1. PICK layout \in Layouts :
          DOMAIN media = DOMAIN layout /\ media = [m \in DOMAIN media |-> media[m]]
    BY DEF Init
<1>2. layout \in Seq(Seq(MediaRecords))
    BY RestoreAssumption
<1> DEFINE n == Len(layout)
           T == {media[m] : m \in DOMAIN media}
<1>3. n \in Nat /\ DOMAIN media = 1 .. n
    BY <1>1, <1>2
<1> HIDE DEF n
<1>4. media \in [1 .. n -> T]
    BY <1>1, <1>3
<1> HIDE DEF T
<1>5. media \in Seq(T)
    BY <1>3, <1>4, SeqDef
<1> QED BY <1>3, <1>5, LenProperties

LEMMA LossInit == Init => LossInv
<1> SUFFICES ASSUME Init PROVE LossInv
    OBVIOUS
<1>1. /\ loaded = 0 /\ pos = 0 /\ reader = "off" /\ readerExit = "none"
      /\ ext = "accept" /\ v = Unused /\ toExtractor = <<>> /\ faults = 0
    BY DEF Init, WireInit
<1>2. v.expected = 0 /\ v.replayNext = NoReplay
    BY <1>1 DEF Unused
<1>3. TypeOK /\ Len(media) \in Nat /\ DOMAIN media = 1 .. Len(media)
    BY InitInv, InitMediaSeq DEF RestoreInv
<1>4. \A m, i : Good(m, i) => m \in 1 .. Len(media) /\ Number(m, i) \in Nat
    BY <1>3, GoodFacts DEF Good
<1>5. \A m, i : Good(m, i) => ~Behind(m, i)
    BY <1>1, <1>3, <1>4 DEF Behind
<1>6. \A m, i : ~OnItsWay(m, i)
    BY <1>1 DEF OnItsWay
<1>7. Written(v.expected, Emitted)
    BY <1>2, <1>4 DEF Written
<1>8. PassedIsTaken /\ Going
    BY <1>2, <1>4, <1>5 DEF PassedIsTaken, Going
<1>9. Waiting
    BY <1>1 DEF Waiting
<1> QED BY <1>1, <1>2, <1>3, <1>7, <1>8, <1>9 DEF LossInv, Live

LEMMA LossStep ==
    ASSUME ~AnyOrder, RestoreInv, LossInv, [Next]_vars
    PROVE  LossInv'
<1>1. /\ faults \in Nat /\ Len(media) \in Nat /\ DOMAIN media = 1 .. Len(media)
      /\ Orderly /\ ext = "done" => Written(Len(Stream), output)
      /\ Orderly /\ ext \in {"accept", "serve"} => Live
    BY DEF LossInv
<1>2. TypeOK
    BY DEF RestoreInv
<1>3. CASE KillReader \/ LinkReset
  <2>1. faults' = faults + 1 /\ UNCHANGED media
    BY <1>3 DEF KillReader, LinkReset, Fault
  <2>2. ~Orderly'
    BY <1>1, <2>1 DEF Orderly, ReadInOrder
  <2> QED BY <1>1, <2>1, <2>2 DEF LossInv
<1> DEFINE Keeps == /\ UNCHANGED <<faults, media>>
                    /\ Orderly => /\ ext' = "done" => Written(Len(Stream), output)'
                                  /\ ext' \in {"accept", "serve"} => Live'
<1>4. ASSUME UNCHANGED <<faults, media, option>>
      PROVE  (Orderly' <=> Orderly)
    BY <1>4 DEF Orderly, ReadInOrder, Undamaged
<1>5. ASSUME Keeps, UNCHANGED option PROVE LossInv'
    BY <1>1, <1>4, <1>5 DEF LossInv
<1>6. ASSUME UNCHANGED <<media, output>>, Written(Len(Stream), output)
      PROVE  Written(Len(Stream), output)'
  <2>1. \A m, i : (Good(m, i)' <=> Good(m, i)) /\ Number(m, i)' = Number(m, i)
    BY <1>6, PlacesStay
  <2>2. \A x : Frame(x)' = Frame(x)
    BY DEF Frame
  <2> QED BY <1>6, <2>1, <2>2 DEF Written
<1>7. CASE Connect
  <2>1. UNCHANGED <<faults, media, option>> /\ ext = "accept"
    BY <1>7 DEF Connect
  <2>2. Orderly => Live' /\ ext' = "serve"
    BY <1>1, <1>7, <2>1, ConnectLoss
  <2> QED BY <1>5, <2>1, <2>2
<1>8. CASE Reader
  <2>1. UNCHANGED <<faults, media, option, ext, output>>
    BY <1>8 DEF Reader, extractorVars
  <2>2. Orderly /\ ext \in {"accept", "serve"} => Live'
    BY <1>1, <1>2, <1>8, ReaderLoss
  <2> QED BY <1>1, <1>5, <1>6, <2>1, <2>2
<1>9. CASE Extractor
  <2>1. UNCHANGED <<faults, media, option>> /\ ext = "serve"
    BY <1>9 DEF Extractor
  <2>2. Orderly => /\ ext' = "done" => Written(Len(Stream), output)'
                   /\ ext' \in {"accept", "serve"} => Live'
    BY <1>1, <1>9, <2>1, ExtractorLoss
  <2> QED BY <1>5, <2>1, <2>2
<1>10. CASE Finished \/ UNCHANGED vars
  <2>1. UNCHANGED <<faults, media, option, loaded, pos, reader, sawFrame, readerExit, ext, v>>
        /\ UNCHANGED <<output, buffered, toExtractor, toReader, readerAlive, extractorAlive>>
    BY <1>10 DEF Finished, vars, readerVars, extractorVars, linkVars
  <2>2. CASE Finished
    <3>1. ext' \in {"done", "failed"}
      BY <2>1, <2>2 DEF Finished
    <3> QED BY <1>1, <1>5, <1>6, <2>1, <3>1
  <2>3. Live => Live'
    <3> SUFFICES ASSUME Live PROVE Live'
      OBVIOUS
    <3>1. UNCHANGED <<option, media, readerVars, toReader, v>>
      BY <1>10 DEF Finished, vars, readerVars, extractorVars, linkVars
    <3>2. Emitted' = Emitted /\ Volume' = Volume
      BY <2>1 DEF Emitted, Volume
    <3>3. /\ Written(v.expected, Emitted)' /\ PassedIsTaken' /\ (Going' \/ Stuck')
          /\ Stuck => Stuck'
          /\ v'.archive = NoArchive => v'.expected = 0 /\ v'.replayNext = NoReplay
      BY <1>2, <3>1, <3>2, LeftAlone
    <3>4. Serving => Serving'
      BY <2>1, <3>2, <3>3 DEF Serving, Dialogue
    <3>5. Waiting => Waiting'
      BY <2>1, <3>2, <3>3 DEF Waiting
    <3> QED BY <2>1, <3>3, <3>4, <3>5 DEF Live
  <2> QED BY <1>1, <1>5, <1>6, <2>1, <2>3
<1> QED BY <1>3, <1>7, <1>8, <1>9, <1>10 DEF Next

-----------------------------------------------------------------------------
(* Theorems. *)

\* Whatever media are loaded in whatever order and whatever fails or is
\* damaged, two fields of the extractor's validator tell what it has written,
\* and every acknowledgement on the wire is for a frame it has accepted.
THEOREM ExtractorKnows == Spec => []RestoreInv
<1>1. Init => RestoreInv
    BY InitInv
<1>2. RestoreInv /\ [Next]_vars => RestoreInv'
    BY StepInv
<1> QED BY <1>1, <1>2, PTL DEF Spec

\* Unless a flush may fail, what neotape-extractor writes is the beginning of
\* one archive's content, each frame of it once and in its order.
THEOREM OutputIsTheBeginning ==
    ASSUME \A o \in Options : ~o.flushMayFail \/ o.salvage
    PROVE  Spec => []OutputIsPrefix
<1>1. RestoreInv => OutputIsPrefix
    BY DEF RestoreInv, TypeOK, OutputInv, OutputKnown, OutputIsPrefix
<1> QED BY <1>1, ExtractorKnows, PTL

\* An extractor that reports success has written all of the content.
THEOREM SuccessIsComplete ==
    ASSUME \A o \in Options : ~o.flushMayFail \/ o.salvage
    PROVE  Spec => []DoneIsComplete
<1>1. RestoreInv => DoneIsComplete
  <2> SUFFICES ASSUME RestoreInv, ~option.salvage, ext = "done"
               PROVE  Lists(output, FramesBefore("content", v.archive, Len(Stream)))
    BY DEF DoneIsComplete
  <2>1. Lists(Emitted, FramesBefore("content", v.archive, v.expected))
    BY DEF RestoreInv, TypeOK, OutputInv, OutputKnown
  <2>2. buffered = <<>> /\ v.expected = Len(Stream)
    BY DEF RestoreInv, EndKnown
  <2>3. Emitted = output
    BY <2>2, ConcatEmptySeq DEF RestoreInv, TypeOK, Emitted
  <2> QED BY <2>1, <2>2, <2>3
<1> QED BY <1>1, ExtractorKnows, PTL

\* No damaged, repeated or reordered frame reaches the metadata output.
THEOREM MetadataSound == Spec => []MetadataIsSound
<1>1. RestoreInv => MetadataIsSound
    BY DEF RestoreInv, MetadataIntact, MetadataKnown, MetadataIsSound
<1> QED BY <1>1, ExtractorKnows, PTL

\* With keys, success means that the metadata is complete as well.
THEOREM SuccessIsAuthentic == Spec => []DoneIsAuthentic
<1>1. RestoreInv => DoneIsAuthentic
    BY DEF RestoreInv, MetadataKnown, EndKnown, DoneIsAuthentic
<1> QED BY <1>1, ExtractorKnows, PTL

\* Salvage never writes a damaged frame, a frame twice, or one behind a later.
THEOREM SalvageAscends == Spec => []SalvageInOrder
<1>1. RestoreInv => SalvageInOrder
    BY DEF RestoreInv, SalvageKnown, SalvageInOrder, Intact
<1> QED BY <1>1, ExtractorKnows, PTL

\* What neotape-read's exit says is so, for an operator who loads the media in
\* their order and rewinds them.
THEOREM ExitsAreTruthful ==
    ASSUME ~AnyOrder
    PROVE  Spec => []ReaderExitIsTruthful
<1>1. RestoreInv => ReaderExitIsTruthful
  <2> SUFFICES ASSUME RestoreInv, ~option.salvage
               PROVE  /\ readerExit = "complete" => ext = "done"
                      /\ readerExit = "eof" =>
                           \A n \in 0 .. Len(Stream) - 1 : FrameOn(Volume, n) => n < v.expected
    BY DEF ReaderExitIsTruthful
  <2>1. ReaderKnown /\ TypeOK
    BY DEF RestoreInv
  <2>2. ASSUME readerExit = "eof", NEW n \in 0 .. Len(Stream) - 1, FrameOn(Volume, n)
        PROVE  n < v.expected
    <3>1. PICK i \in DOMAIN Volume : IsFrame(Volume[i]) /\ Volume[i].seq = n
      BY <2>2 DEF FrameOn
    <3>2. TakenTo(Len(Volume)) /\ i <= Len(Volume)
      BY <2>1, <2>2, VolumeFacts DEF ReaderKnown
    <3> QED BY <3>1, <3>2 DEF TakenTo
  <2> QED BY <2>1, <2>2 DEF ReaderKnown
<1> QED BY <1>1, ExtractorKnows, PTL

\* Salvage that has read every medium once, and found the undamaged copies in
\* the order of the archive, has written every content frame that has one,
\* whether or not it found the end of the archive.
THEOREM SalvageTakesTheUndamaged ==
    ASSUME ~AnyOrder, \A o \in Options : o.salvage => ~o.flushMayFail
    PROVE  Spec => []SalvageLosesOnlyDamaged
<1>1. Init => RestoreInv /\ LossInv
    BY InitInv, LossInit
<1>2. RestoreInv /\ LossInv /\ [Next]_vars => (RestoreInv /\ LossInv)'
    BY StepInv, LossStep
<1>3. TypeOK /\ Written(Len(Stream), output) => SalvageLosesOnlyDamaged
  <2> SUFFICES ASSUME TypeOK, Written(Len(Stream), output),
                      NEW m \in DOMAIN media, NEW i \in DOMAIN media[m], IsFrame(media[m][i]),
                      Intact(Frame(media[m][i])), Frame(media[m][i]).channel = "content"
               PROVE  \E k \in DOMAIN output : output[k] = Piece(Frame(media[m][i]))
    BY DEF SalvageLosesOnlyDamaged
  <2>1. media[m][i] \in FrameRecords
    BY DEF TypeOK, MediaOK
  <2>2. Good(m, i) /\ Len(Stream) \in Nat
    BY <2>1, FrameFacts DEF Good, Undamaged, Intact
  <2>3. Number(m, i) < Len(Stream)
    BY <2>2, GoodFacts
  <2> QED BY <2>2, <2>3 DEF Written
<1>4. RestoreInv /\ LossInv => SalvageLosesOnlyDamaged
  <2> SUFFICES ASSUME RestoreInv, LossInv, option.salvage, ReadInOrder,
                      ext = "done" \/ AllRead
               PROVE  Written(Len(Stream), output)
    BY <1>3 DEF SalvageLosesOnlyDamaged, RestoreInv
  <2>1. Orderly /\ TypeOK
    BY DEF RestoreInv, TypeOK, Orderly
  <2>2. CASE ext = "done"
    BY <2>1, <2>2 DEF LossInv
  <2>3. CASE ext # "done"
    <3>1. /\ ext = "accept" /\ reader = "off" /\ loaded = Len(media)
          /\ readerExit \in {"eof", "complete"}
      BY <2>3 DEF AllRead
    <3>2. Live /\ Waiting /\ Len(media) \in Nat /\ DOMAIN media = 1 .. Len(media)
      BY <2>1, <3>1 DEF LossInv, Live
    <3>3. readerExit = "eof" /\ pos = Len(Volume) /\ buffered = <<>>
      BY <3>1, <3>2 DEF Waiting
    <3>4. ASSUME NEW m, NEW i, Good(m, i) PROVE Number(m, i) < v.expected
      <4>1. m \in 1 .. loaded /\ i \in 1 .. Len(media[m]) /\ loaded \in Nat
        BY <2>1, <3>1, <3>2, <3>4, GoodFacts DEF Good
      <4>2. Behind(m, i)
        BY <3>3, <4>1 DEF Behind, Volume
      <4>3. ~OnItsWay(m, i)
        BY <3>1, <3>3 DEF OnItsWay
      <4> QED BY <3>2, <3>4, <4>2, <4>3 DEF Live, PassedIsTaken
    <3>5. \A m, i : Good(m, i) => Number(m, i) < v.expected
      BY <3>4
    <3>6. Emitted = output
      BY <2>1, <3>3, ConcatEmptySeq DEF TypeOK, Emitted
    <3> QED BY <3>2, <3>5, <3>6 DEF Live, Written
  <2> QED BY <2>2, <2>3
<1> QED BY <1>1, <1>2, <1>4, PTL DEF Spec
=============================================================================
