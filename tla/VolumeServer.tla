---------------------------- MODULE VolumeServer ----------------------------
(***************************************************************************)
(* The archiver's volume server: the producer thread, the bounded queue    *)
(* between it and the accept loop, and serve_volume_client with its replay *)
(* window.  Frames handed to a writer stay in the retention buffer until   *)
(* the writer acknowledges them, so that a later volume can repeat them.   *)
(***************************************************************************)
EXTENDS ArchiveStream, Wire

CONSTANTS
    RetentionFrames,    \* retention_frame_count
    QueueCapacity,      \* queue_capacity
    ProducerMayFail     \* whether the producer may raise an error

ASSUME ServerAssumption ==
    /\ RetentionFrames \in Nat \ {0}
    /\ QueueCapacity \in Nat \ {0}
    /\ ProducerMayFail \in BOOLEAN

VARIABLES
    nextSeq,        \* FrameBuilder's next global number
    producer,       \* what the producer pushes next, or how it ended
    frameQueue,     \* the ClosableQueue between producer and server
    queueClosed,
    srv,            \* where the serving thread is
    acked,          \* frames acknowledged: last_acked_global_frame + 1, or 0
    volumeNum,      \* next_volume_seq_num
    retention,      \* numbers of the frames in the FrameRetentionBuffer
    nextSend,       \* next_send_seq of the running serve_volume_client
    endSent,        \* its archive_end_seq is set
    committed       \* its volume_committed

producerVars == <<nextSeq, producer>>
queueVars == <<frameQueue, queueClosed>>
callVars == <<nextSend, endSent, committed>>
serverVars == <<srv, acked, volumeNum, retention, nextSend, endSent, committed>>

ServerInit ==
    /\ nextSeq = 0
    /\ producer = IF NumFrames = 0 THEN "tape_eof" ELSE "frames"
    /\ frameQueue = <<>> /\ queueClosed = FALSE
    /\ srv = "accept" /\ acked = 0 /\ volumeNum = 1 /\ retention = {}
    /\ nextSend = 0 /\ endSent = FALSE /\ committed = FALSE

-----------------------------------------------------------------------------
(* The producer thread. *)

Push(item) ==
    /\ ~queueClosed /\ Len(frameQueue) < QueueCapacity
    /\ frameQueue' = Append(frameQueue, item)
    /\ UNCHANGED queueClosed

ProduceFrame ==
    /\ producer = "frames"
    /\ Push(FrameItem(nextSeq))
    /\ nextSeq' = nextSeq + 1
    /\ producer' = IF nextSeq \in SliceEnds THEN "tape_eof" ELSE "frames"

\* Mutant: the end of the input is missed.
EndSlicePastTheEnd ==
    /\ producer = "tape_eof"
    /\ Push(EofItem(nextSeq))
    /\ producer' = IF nextSeq > NumFrames THEN "done" ELSE "frames"
    /\ UNCHANGED nextSeq

EndSlice ==
    /\ producer = "tape_eof"
    /\ Push(EofItem(nextSeq))
    /\ producer' = IF nextSeq = NumFrames THEN "done" ELSE "frames"
    /\ UNCHANGED nextSeq

ProduceDone ==
    /\ producer = "done"
    /\ Push(DoneItem(nextSeq))
    /\ producer' = "finished"
    /\ UNCHANGED nextSeq

\* Mutant: the exception is remembered and the queue left open.
ProducerFailsSilently ==
    /\ ProducerMayFail
    /\ producer \in {"frames", "tape_eof", "done"}
    /\ producer' = "failed"
    /\ UNCHANGED <<nextSeq, queueVars>>

\* An exception in the producer: remembered, and the queue is closed.
ProducerFails ==
    /\ ProducerMayFail
    /\ producer \in {"frames", "tape_eof", "done"}
    /\ producer' = "failed"
    /\ queueClosed' = TRUE
    /\ UNCHANGED <<nextSeq, frameQueue>>

ProducerNext ==
    /\ ProduceFrame \/ EndSlice \/ ProduceDone \/ ProducerFails
    /\ UNCHANGED <<serverVars, wire>>

-----------------------------------------------------------------------------
(* One call of serve_volume_client, and the accept loop around it. *)

Outstanding == nextSend - acked

\* Mutant: the window admits one frame too many.
WindowOpenLate == Outstanding <= RetentionFrames

WindowOpen == Outstanding < RetentionFrames

\* The thread is in read_message: for a request, for an acknowledgement that
\* opens the window, or for the last ones before the archive_end frame.
AwaitsMessage ==
    \/ srv = "request"
    \/ srv = "serve" /\ ~WindowOpen
    \/ srv = "drain" /\ Outstanding >= 1

\* Mutant: the buffer forgets its oldest frame one frame early.
RetainEvictingEarly(n) ==
    IF Cardinality(retention) >= RetentionFrames - 1 /\ retention # {}
    THEN {m \in retention : \E k \in retention : k < m} \cup {n}
    ELSE retention \cup {n}

\* FrameRetentionBuffer::add drops the front of a full buffer; frames enter
\* it in ascending order, so the front is the smallest number.
Retain(n) ==
    IF Cardinality(retention) = RetentionFrames
    THEN {m \in retention : \E k \in retention : k < m} \cup {n}
    ELSE retention \cup {n}

\* Mutant: the volume number advances although nothing was acknowledged.
ReturnAlwaysCounting(complete, counted) ==
    /\ srv' = IF complete THEN "complete" ELSE "accept"
    /\ volumeNum' = IF complete THEN volumeNum ELSE volumeNum + 1
    /\ queueClosed' = (queueClosed \/ complete)
    /\ nextSend' = 0 /\ endSent' = FALSE /\ committed' = FALSE
    /\ serverAlive' = FALSE

\* Mutant: the number stays although frames were acknowledged.
ReturnNeverCounting(complete, counted) ==
    /\ srv' = IF complete THEN "complete" ELSE "accept"
    /\ queueClosed' = (queueClosed \/ complete)
    /\ nextSend' = 0 /\ endSent' = FALSE /\ committed' = FALSE
    /\ serverAlive' = FALSE
    /\ UNCHANGED volumeNum

\* The call returns and the socket is closed; the accept loop counts the
\* volume if a frame of it was acknowledged, and leaves when the archive is
\* complete.
Return(complete, counted) ==
    /\ srv' = IF complete THEN "complete" ELSE "accept"
    /\ volumeNum' = IF counted /\ ~complete THEN volumeNum + 1 ELSE volumeNum
    /\ queueClosed' = (queueClosed \/ complete)
    /\ nextSend' = 0 /\ endSent' = FALSE /\ committed' = FALSE
    /\ serverAlive' = FALSE

\* send_error and return.  Closing a socket that holds unread messages resets
\* the connection, which may discard the error and what was sent before it.
Refuse(why) ==
    /\ LET sent == Sent(toWriter, writerAlive, Error(why))
       IN  toWriter' \in IF toServer' = <<>> THEN {sent} ELSE Truncations(sent)
    /\ Return(FALSE, committed)

Accept ==
    /\ srv' = "request"
    /\ nextSend' = acked /\ endSent' = FALSE /\ committed' = FALSE
    /\ UNCHANGED <<acked, volumeNum, retention>>

Received(type) ==
    /\ AwaitsMessage /\ toServer # <<>>
    /\ Head(toServer).type = type
    /\ toServer' = Tail(toServer)
    /\ UNCHANGED <<writerAlive, readShut>>

\* process_ack_payload, wherever the thread was waiting.
ReadAck ==
    /\ Received("ack_frame")
    /\ Head(toServer).seq = acked
    /\ acked' = acked + 1
    /\ retention' = retention \ {acked}
    /\ IF endSent /\ acked >= EndSeq
       THEN Return(TRUE, TRUE)
       ELSE /\ committed' = TRUE
            /\ UNCHANGED <<srv, volumeNum, nextSend, endSent, serverAlive,
                           queueClosed>>
    /\ UNCHANGED <<producerVars, frameQueue, toWriter>>

ReadAckOutOfOrder ==
    /\ Received("ack_frame")
    /\ Head(toServer).seq # acked
    /\ Refuse("ack out of order")
    /\ UNCHANGED <<producerVars, frameQueue, acked, retention>>

ReadNextFrame ==
    /\ srv = "request" /\ Received("next_frame")
    /\ ~endSent
    /\ srv' = "serve"
    /\ UNCHANGED <<producerVars, queueVars, acked, volumeNum, retention,
                   callVars, toWriter, serverAlive>>

\* A request behind archive_end, anything but an acknowledgement inside the
\* window, or a message type that is no request.
ReadRefused ==
    /\ \/ Received("next_frame") /\ srv = "request" /\ endSent
          /\ Refuse("request after archive end")
       \/ Received("next_frame") /\ srv # "request"
          /\ Refuse("window full")
       \/ Received("other") /\ Refuse("unexpected request")
    /\ UNCHANGED <<producerVars, frameQueue, acked, retention>>

ReadEof ==
    /\ AwaitsMessage /\ toServer = <<>> /\ ~writerAlive
    /\ Return(FALSE, committed)
    /\ UNCHANGED <<producerVars, frameQueue, acked, retention, toServer,
                   toWriter, writerAlive, readShut>>

\* The reply is written and the loop goes on, or the write raises and the
\* call returns.
Reply(m, end) ==
    \/ /\ toWriter' = Sent(toWriter, writerAlive, m)
       /\ srv' = "request"
       /\ nextSend' = IF m.type = "frame_record" THEN nextSend + 1 ELSE nextSend
       /\ endSent' = end
       /\ UNCHANGED <<committed, volumeNum, queueClosed, serverAlive>>
    \/ /\ ServerWriteMayFail
       /\ Return(FALSE, committed)
       /\ UNCHANGED toWriter

Serving == srv = "serve" /\ WindowOpen

\* Mutant: a reconnecting writer is served the newest retained frame.
SendNewestRetained ==
    /\ Serving /\ nextSend \in retention
    /\ LET n == CHOOSE k \in retention : \A m \in retention : m <= k
       IN  Reply(FrameRecord(n, volumeNum), n = EndSeq)
    /\ UNCHANGED <<producerVars, frameQueue, acked, retention, toServer,
                   writerAlive, readShut>>

SendRetained ==
    /\ Serving /\ nextSend \in retention
    /\ Reply(FrameRecord(nextSend, volumeNum), nextSend = EndSeq)
    /\ UNCHANGED <<producerVars, frameQueue, acked, retention, toServer,
                   writerAlive, readShut>>

Popped(kind) ==
    /\ Serving /\ nextSend \notin retention
    /\ frameQueue # <<>>
    /\ Head(frameQueue).kind = kind
    /\ frameQueue' = Tail(frameQueue)
    /\ UNCHANGED <<producerVars, acked, toServer, writerAlive, readShut>>

SendNewFrame ==
    /\ Popped("frame")
    /\ LET n == Head(frameQueue).seq IN
       IF n = nextSend
       THEN /\ retention' = Retain(n)
            /\ Reply(FrameRecord(n, volumeNum), FALSE)
       ELSE Refuse("no longer retained") /\ UNCHANGED retention

SendTapeEof ==
    /\ Popped("tape_eof")
    /\ Reply(TapeEof, FALSE)
    /\ UNCHANGED retention

TakeDone ==
    /\ Popped("done")
    /\ srv' = "drain"
    /\ UNCHANGED <<volumeNum, retention, callVars, queueClosed, toWriter,
                   serverAlive>>

\* Mutant: the closed queue is taken for the end of the archive.
QueueEndedAsDone ==
    /\ Serving /\ nextSend \notin retention
    /\ frameQueue = <<>> /\ queueClosed
    /\ srv' = "drain"
    /\ UNCHANGED <<producerVars, queueVars, acked, volumeNum, retention,
                   callVars, wire>>

\* pop() on the closed, empty queue.
QueueEnded ==
    /\ Serving /\ nextSend \notin retention
    /\ frameQueue = <<>> /\ queueClosed
    /\ UNCHANGED <<producerVars, frameQueue, acked, retention, toServer,
                   writerAlive, readShut>>
    /\ Refuse(IF producer = "failed" THEN "producer" ELSE "queue closed")

\* Mutant: archive_end does not wait for the acknowledgements.
SendArchiveEndUndrained ==
    /\ srv = "drain"
    /\ retention' = Retain(EndSeq)
    /\ Reply(FrameRecord(EndSeq, volumeNum), TRUE)
    /\ UNCHANGED <<producerVars, frameQueue, acked, toServer, writerAlive,
                   readShut>>

\* The done item's number is EndSeq: the producer pushed every frame.
SendArchiveEnd ==
    /\ srv = "drain" /\ Outstanding = 0
    /\ retention' = Retain(EndSeq)
    /\ Reply(FrameRecord(EndSeq, volumeNum), TRUE)
    /\ UNCHANGED <<producerVars, frameQueue, acked, toServer, writerAlive,
                   readShut>>

ServerNext ==
    \/ ReadAck \/ ReadAckOutOfOrder \/ ReadNextFrame \/ ReadRefused \/ ReadEof
    \/ SendRetained \/ SendNewFrame \/ SendTapeEof \/ TakeDone \/ QueueEnded
    \/ SendArchiveEnd

-----------------------------------------------------------------------------

ServerStates == {"accept", "request", "serve", "drain", "complete"}

Requests ==
    [type : {"next_frame", "other"}] \cup [type : {"ack_frame"}, seq : FrameSeqs]

Reasons ==
    {"producer", "queue closed", "no longer retained", "ack out of order",
     "request after archive end", "window full", "unexpected request"}

Replies ==
    [type : {"frame_record"}, seq : FrameSeqs, vol : Nat]
        \cup [type : {"tape_eof"}] \cup [type : {"error"}, reason : Reasons]

ServerTypeOK ==
    /\ nextSeq \in 0 .. NumFrames
    /\ producer \in {"frames", "tape_eof", "done", "finished", "failed"}
    /\ frameQueue \in Seq(Items) /\ queueClosed \in BOOLEAN
    /\ srv \in ServerStates
    /\ acked \in 0 .. EndSeq + 1 /\ volumeNum \in Nat
    /\ retention \in SUBSET FrameSeqs
    /\ nextSend \in 0 .. EndSeq + 1
    /\ endSent \in BOOLEAN /\ committed \in BOOLEAN
    /\ toServer \in Seq(Requests) /\ toWriter \in Seq(Replies)
    /\ writerAlive \in BOOLEAN /\ serverAlive \in BOOLEAN
    /\ readShut \in BOOLEAN

\* The first frame number that has not left the queue.
Taken == IF frameQueue = <<>> THEN nextSeq ELSE Head(frameQueue).seq

\* The retention buffer holds exactly the frames that left the queue (and
\* the archive_end frame once built) and are not acknowledged, and never
\* more than its capacity: FrameRetentionBuffer::add never drops a frame a
\* later volume still needs.
RetentionCovers ==
    /\ retention \in {acked .. Taken - 1, acked .. EndSeq}
    /\ Cardinality(retention) <= RetentionFrames

\* The archive_end frame has been built, so its record can be repeated.
EndBuilt == EndSeq \in retention \/ acked > EndSeq
=============================================================================
