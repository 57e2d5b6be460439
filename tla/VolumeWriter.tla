---------------------------- MODULE VolumeWriter ----------------------------
(***************************************************************************)
(* neotape-write's session: the receiving thread of write_volume requests  *)
(* and checks frames, the output thread writes them to the medium and      *)
(* acknowledges each one it wrote.                                         *)
(***************************************************************************)
EXTENDS ArchiveStream, Wire, MediaLayout

CONSTANTS
    BufferFrames,   \* output_buffer_size, in records
    SpoolTarget     \* the medium is a spool directory, not a tape

ASSUME WriterAssumption ==
    /\ BufferFrames \in Nat \ {0}
    /\ SpoolTarget \in BOOLEAN

VARIABLES
    recv,           \* where the receiving thread is
    out,            \* where the output thread is
    buffer,         \* Session::queue
    inputClosed,
    status,         \* Session::status
    inHand,         \* the item the output thread took from the buffer
    expect,         \* the frame number FrameValidator requires, or Unseeded
    outError,       \* Session::error is set
    recvError,      \* receive_error is set
    exit,           \* how the last writer ended
    mounted,        \* the records of the medium this writer has loaded
    shelf           \* the media of earlier writers, in loading order

writerVars == <<recv, out, buffer, inputClosed, status, inHand, expect,
                outError, recvError, exit, mounted, shelf>>

Record(n, v) == [kind |-> "frame", seq |-> n, vol |-> v]
Nothing == [kind |-> "nothing"]
Unseeded == EndSeq + 1          \* no frame follows archive_end

Media == Append(shelf, mounted)

WriterInit ==
    /\ recv = "off" /\ out = "off" /\ buffer = <<>> /\ inputClosed = FALSE
    /\ status = "running" /\ inHand = Nothing /\ expect = Unseeded
    /\ outError = FALSE /\ recvError = FALSE /\ exit = "none"
    /\ mounted = <<>> /\ shelf = <<>>

\* The operator runs a writer on the next medium, or again on the same one
\* when nothing was written to it.
StartWriter ==
    /\ recv = "off" /\ out = "off"
    /\ recv' = "request" /\ out' = "take"
    /\ buffer' = <<>> /\ inputClosed' = FALSE /\ status' = "running"
    /\ inHand' = Nothing /\ expect' = Unseeded
    /\ outError' = FALSE /\ recvError' = FALSE /\ exit' = "none"
    /\ mounted' = <<>>
    /\ shelf' = IF mounted = <<>> THEN shelf ELSE Append(shelf, mounted)

-----------------------------------------------------------------------------
(* The receiving thread. *)

Buffered == Cardinality({i \in DOMAIN buffer : buffer[i].kind = "frame"})

\* The loop is left and input_closed is set.
StopReceiving(failed) ==
    /\ recv' = "join" /\ inputClosed' = TRUE
    /\ recvError' = failed

RequestFrame ==
    /\ recv = "request" /\ status = "running" /\ Buffered < BufferFrames
    /\ \/ /\ toServer' = Sent(toServer, serverAlive, NextFrame)
          /\ recv' = "await"
          /\ UNCHANGED <<inputClosed, recvError>>
       \/ WriterWriteMayFail /\ StopReceiving(TRUE) /\ UNCHANGED toServer
    /\ UNCHANGED <<toWriter, buffer>>

\* FrameValidator seeded at the first frame of the connection: later frames
\* continue its numbers, and a replay inside one connection is refused.
Acceptable(n) == expect = Unseeded \/ n = expect

Enqueue(item, last) ==
    /\ buffer' = Append(buffer, item)
    /\ IF last THEN StopReceiving(FALSE)
       ELSE recv' = "request" /\ UNCHANGED <<inputClosed, recvError>>

ReceiveFrame(m) ==
    /\ m.type = "frame_record"
    /\ IF Acceptable(m.seq)
       THEN /\ Enqueue(Record(m.seq, m.vol), m.seq = EndSeq)
            /\ expect' = m.seq + 1
       ELSE StopReceiving(TRUE) /\ UNCHANGED <<buffer, expect>>

ReceiveTapeEof(m) ==
    /\ m.type = "tape_eof"
    /\ Enqueue(Mark, FALSE)
    /\ UNCHANGED expect

ReceiveError(m) ==
    /\ m.type = "error"
    /\ StopReceiving(TRUE) /\ UNCHANGED <<buffer, expect>>

Receive ==
    /\ recv = "await" /\ status = "running" /\ toWriter # <<>>
    /\ LET m == Head(toWriter)
       IN  ReceiveFrame(m) \/ ReceiveTapeEof(m) \/ ReceiveError(m)
    /\ toWriter' = Tail(toWriter)
    /\ UNCHANGED toServer

ReceiveEof ==
    /\ recv = "await" /\ status = "running" /\ toWriter = <<>> /\ ~serverAlive
    /\ StopReceiving(TRUE)
    /\ UNCHANGED <<toServer, toWriter, buffer, expect>>

\* The output thread has ended: seen before a request, or when a read
\* returns, for a reply, an end of file or the shutdown that wakes it.
NoticeOutputEnded ==
    /\ status # "running"
    /\ \/ recv = "request"
       \/ recv = "await" /\ (toWriter # <<>> \/ ~serverAlive \/ readShut)
    /\ StopReceiving(FALSE)
    /\ UNCHANGED <<toServer, toWriter, buffer, expect>>

ReceiverNext ==
    /\ \/ RequestFrame /\ UNCHANGED expect
       \/ Receive \/ ReceiveEof \/ NoticeOutputEnded
    /\ UNCHANGED <<out, status, inHand, outError, exit, mounted, shelf,
                   writerAlive, serverAlive, readShut>>

-----------------------------------------------------------------------------
(* The output thread. *)

\* Mutant: the receiving thread is not woken by the shutdown.
StopOutputSilently(result, failed) ==
    /\ out' = "stopped" /\ status' = result /\ outError' = failed
    /\ inHand' = Nothing
    /\ UNCHANGED readShut

\* The status is published and the receiving side shut down.
StopOutput(result, failed) ==
    /\ out' = "stopped" /\ status' = result /\ outError' = failed
    /\ inHand' = Nothing
    /\ readShut' = TRUE

TakeItem ==
    /\ out = "take" /\ buffer # <<>>
    /\ inHand' = Head(buffer) /\ buffer' = Tail(buffer)
    /\ out' = "write"
    /\ UNCHANGED <<status, outError, mounted, toServer, readShut>>

InputEnded ==
    /\ out = "take" /\ buffer = <<>> /\ inputClosed
    /\ StopOutput("failed", FALSE)
    /\ UNCHANGED <<buffer, mounted, toServer>>

\* Mutant: a record that found no space is acknowledged too.
WriteRecordIgnoringFull(faulty) ==
    /\ out = "write" /\ inHand.kind = "frame"
    /\ \/ mounted' = Append(mounted, inHand)
       \/ faulty /\ UNCHANGED mounted
    /\ out' = "ack"
    /\ UNCHANGED <<buffer, toServer, status, outError, inHand, readShut>>

\* What an operation that reported an error may have left on the medium.  A
\* tape drive reports a late error of an operation that it did carry out.
Uncertain(written) == {mounted} \cup (IF SpoolTarget THEN {} ELSE {written})

\* RecordSink::write.  faulty: the medium may end or fail in this session.
\* ENOSPC, of the capacity check, the end of tape, the write or the status
\* query behind it, is volume_full; any other error fails the session.
WriteRecord(faulty) ==
    /\ out = "write" /\ inHand.kind = "frame"
    /\ LET written == Append(mounted, inHand) IN
       \/ /\ mounted' = written
          /\ out' = "ack"
          /\ UNCHANGED <<status, outError, inHand, readShut>>
       \/ /\ faulty /\ ~SpoolTarget             \* written, now at the end
          /\ mounted' = written
          /\ out' = "ack last"
          /\ UNCHANGED <<status, outError, inHand, readShut>>
       \/ /\ faulty /\ mounted' \in Uncertain(written)
          /\ StopOutput("volume_full", FALSE) \/ StopOutput("failed", TRUE)
    /\ UNCHANGED <<buffer, toServer>>

\* A spool file is named after its first record: there must be one.
FileIsEmpty == \A i \in DOMAIN mounted : i = Len(mounted) => mounted[i] = Mark

\* RecordSink::filemark for a tape_eof item.
WriteMark(faulty) ==
    /\ out = "write" /\ inHand = Mark
    /\ LET empty == SpoolTarget /\ FileIsEmpty
           written == Append(mounted, Mark)
       IN \/ /\ ~empty
             /\ mounted' = written
             /\ out' = "take" /\ inHand' = Nothing
             /\ UNCHANGED <<status, outError, readShut>>
          \/ /\ faulty /\ StopOutput("volume_full", FALSE)
             /\ mounted' \in Uncertain(written)
          \/ /\ faulty \/ empty
             /\ StopOutput("failed", TRUE)
             /\ mounted' \in IF empty THEN {mounted} ELSE Uncertain(written)
    /\ UNCHANGED <<buffer, toServer>>

\* Mutant: the end of the medium is looked at before archive_end.
SendAckFullFirst ==
    /\ out \in {"ack", "ack last"}
    /\ toServer' = Sent(toServer, serverAlive, AckFrame(inHand.seq))
    /\ IF out = "ack last" THEN StopOutput("volume_full", FALSE)
       ELSE /\ IF inHand.seq = EndSeq
               THEN out' = "final mark" /\ UNCHANGED inHand
               ELSE out' = "take" /\ inHand' = Nothing
            /\ UNCHANGED <<status, outError, readShut>>
    /\ UNCHANGED <<buffer, mounted>>

SendAck ==
    /\ out \in {"ack", "ack last"}
    /\ \/ /\ toServer' = Sent(toServer, serverAlive, AckFrame(inHand.seq))
          /\ \/ /\ inHand.seq = EndSeq
                /\ out' = "final mark"
                /\ UNCHANGED <<status, outError, inHand, readShut>>
             \/ /\ inHand.seq # EndSeq /\ out = "ack last"
                /\ StopOutput("volume_full", FALSE)
             \/ /\ inHand.seq # EndSeq /\ out = "ack"
                /\ out' = "take" /\ inHand' = Nothing
                /\ UNCHANGED <<status, outError, readShut>>
       \/ /\ WriterWriteMayFail
          /\ StopOutput("failed", TRUE) /\ UNCHANGED toServer
    /\ UNCHANGED <<buffer, mounted>>

\* The filemark behind archive_end: any failure of it is an error.
WriteFinalMark(faulty) ==
    /\ out = "final mark"
    /\ \/ mounted' = Append(mounted, Mark) /\ StopOutput("complete", FALSE)
       \/ /\ faulty /\ StopOutput("failed", TRUE)
          /\ mounted' \in Uncertain(Append(mounted, Mark))
    /\ UNCHANGED <<buffer, toServer>>

OutputNext(faulty) ==
    /\ \/ TakeItem \/ InputEnded \/ WriteRecord(faulty) \/ WriteMark(faulty)
       \/ SendAck \/ WriteFinalMark(faulty)
    /\ UNCHANGED <<recv, inputClosed, expect, recvError, exit, shelf,
                   toWriter, writerAlive, serverAlive>>

-----------------------------------------------------------------------------

\* The end of write_volume and of main: a session error, then a receive
\* error, then the status.  late: closing the device reports an error.
ExitOf(late) ==
    IF outError \/ recvError \/ late \/ status = "failed" THEN "error" ELSE status

\* Both threads are joined, the process exits and its socket is closed.
WriterExits(faulty) ==
    /\ recv = "join" /\ out = "stopped"
    /\ \E late \in {FALSE, faulty} : exit' = ExitOf(late)
    /\ recv' = "off" /\ out' = "off"
    /\ buffer' = <<>> /\ status' = "running" /\ inputClosed' = FALSE
    /\ expect' = Unseeded /\ outError' = FALSE /\ recvError' = FALSE
    /\ writerAlive' = FALSE
    /\ toServer' \in IF toWriter = <<>> THEN {toServer}
                     ELSE Truncations(toServer)     \* closed with unread data
    /\ UNCHANGED <<inHand, mounted, shelf, toWriter, serverAlive, readShut>>

\* What a reader finds of the medium of a killed writer: one sequence of
\* records.  A spool file that no filemark finished keeps its pending name:
\* readers skip it, and the next writer on the directory truncates it.
Readable(records) ==
    LET marks == {i \in DOMAIN records : records[i] = Mark}
        ends == {i \in marks \cup {0} : \A j \in marks : j <= i}
    IN  IF SpoolTarget THEN {SubSeq(records, 1, i) : i \in ends} ELSE {records}

WriterKilled ==
    /\ recv # "off"
    /\ recv' = "off" /\ out' = "off" /\ exit' = "killed"
    /\ buffer' = <<>> /\ status' = "running" /\ inputClosed' = FALSE
    /\ inHand' = Nothing
    /\ expect' = Unseeded /\ outError' = FALSE /\ recvError' = FALSE
    /\ mounted' \in Readable(mounted)
    /\ writerAlive' = FALSE
    /\ toServer' \in Truncations(toServer)
    /\ UNCHANGED <<shelf, toWriter, serverAlive, readShut>>

-----------------------------------------------------------------------------

FrameRecords == [kind : {"frame"}, seq : FrameSeqs, vol : Nat]

WriterTypeOK ==
    /\ recv \in {"off", "request", "await", "join"}
    /\ out \in {"off", "take", "write", "ack", "ack last", "final mark",
                "stopped"}
    /\ buffer \in Seq(FrameRecords \cup {Mark}) /\ inputClosed \in BOOLEAN
    /\ status \in {"running", "complete", "volume_full", "failed"}
    /\ inHand \in FrameRecords \cup {Mark, Nothing}
    /\ expect \in 0 .. Unseeded
    /\ outError \in BOOLEAN /\ recvError \in BOOLEAN
    /\ exit \in {"none", "complete", "volume_full", "error", "killed"}
    /\ mounted \in Seq(FrameRecords \cup {Mark})
    /\ shelf \in Seq(Seq(FrameRecords \cup {Mark}))
=============================================================================
