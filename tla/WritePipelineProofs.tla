------------------------- MODULE WritePipelineProofs -------------------------
(***************************************************************************)
(* The writing pipeline for every archive, window, queue, buffer and       *)
(* number of faulty sessions.  First its types, the server's invariant,    *)
(* and that no acknowledged frame is missing from the media.  Then what is *)
(* between the archiver and the medium, in order: requests one at a time,  *)
(* frames and acknowledgements with consecutive numbers.  From it, that    *)
(* archiver and writer never talk past each other, that the media can be   *)
(* read back in loading order, and that a writer's exit is truthful.       *)
(***************************************************************************)
EXTENDS WritePipeline, VolumeServerProofs

Records == FrameRecords \cup {Mark}

\* Every frame between the server and the medium was sent by this call.
FlowSent ==
    InCall =>
        /\ \A i \in 1 .. Len(toWriter) :
               toWriter[i].type = "frame_record" => toWriter[i].seq < nextSend
        /\ \A i \in 1 .. Len(buffer) :
               buffer[i].kind = "frame" => buffer[i].seq < nextSend
        /\ inHand.kind = "frame" => inHand.seq < nextSend

\* What the output thread holds where it is.
OutputInv ==
    /\ out \in {"ack", "ack last"} => inHand.kind = "frame"
    /\ out = "stopped" => status # "running"

PipeInv ==
    /\ ServerInv /\ AcksSent
    /\ WriterTypeOK /\ session \in 0 .. MaxSessions
    /\ FlowSent /\ OutputInv

\* The kinds and types that tell records, messages and nothing apart.
LEMMA Kinds ==
    /\ Mark.kind = "mark" /\ Nothing.kind = "nothing"
    /\ Mark # Nothing
    /\ \A r \in Records : r.kind = "frame" =>
           r \in FrameRecords /\ r.seq \in FrameSeqs
    /\ \A n \in FrameSeqs, v \in Nat : /\ Record(n, v) \in FrameRecords
                                       /\ Record(n, v).kind = "frame"
                                       /\ Record(n, v).seq = n
    /\ \A n \in FrameSeqs : /\ AckFrame(n) \in Requests
                            /\ AckFrame(n).type = "ack_frame"
                            /\ AckFrame(n).seq = n
    /\ NextFrame \in Requests /\ NextFrame.type = "next_frame"
    BY DEF Records, Mark, Nothing, FrameRecords, Record, AckFrame, NextFrame, Requests

-----------------------------------------------------------------------------
(* The server's steps. *)

\* What one reply adds to the flow was sent.
LEMMA ReplyFlow ==
    ASSUME ServerInv, FlowSent, InCall, NEW m \in Replies, NEW end \in BOOLEAN,
           Reply(m, end), UNCHANGED <<buffer, inHand>>, WriterTypeOK,
           m.type = "frame_record" => m.seq = nextSend
    PROVE  FlowSent'
<1>1. CASE Return(FALSE, committed)
    BY <1>1 DEF FlowSent, InCall, Return
<1>2. CASE /\ toWriter' = Sent(toWriter, writerAlive, m)
           /\ srv' = "request"
           /\ nextSend' = IF m.type = "frame_record" THEN nextSend + 1
                                                     ELSE nextSend
    <2> DEFINE q == Append(toWriter, m)
    <2>1. /\ nextSend \in Nat /\ nextSend' \in Nat
          /\ nextSend <= nextSend'
          /\ m.type = "frame_record" => m.seq < nextSend'
        BY <1>2, Ranges
    <2>2. \A k \in FrameSeqs : k < nextSend => k < nextSend'
        BY <2>1, Ranges DEF FrameSeqs
    <2>3. /\ toWriter \in Seq(Replies)
          /\ \A i \in 1 .. Len(toWriter) :
                 toWriter[i].type = "frame_record" =>
                     toWriter[i].seq \in FrameSeqs /\ toWriter[i].seq < nextSend
        BY DEF ServerInv, ServerTypeOK, Replies, FlowSent
    <2>4. \A i \in 1 .. Len(toWriter') :
              toWriter'[i].type = "frame_record" => toWriter'[i].seq < nextSend'
        <3>1. CASE toWriter' = toWriter
            BY <2>2, <2>3, <3>1
        <3>2. CASE toWriter' = q
            <4>1. /\ Len(q) = Len(toWriter) + 1 /\ Len(toWriter) \in Nat
                  /\ \A i \in 1 .. Len(toWriter) : q[i] = toWriter[i]
                  /\ q[Len(toWriter) + 1] = m
                BY <2>3, AppendProps, LenProperties
            <4>2. ASSUME NEW i \in 1 .. Len(q), q[i].type = "frame_record"
                  PROVE  q[i].seq < nextSend'
                <5>1. CASE i \in 1 .. Len(toWriter)
                    BY <2>2, <2>3, <4>1, <4>2, <5>1
                <5>2. CASE i = Len(toWriter) + 1
                    BY <2>1, <4>1, <4>2, <5>2
                <5> QED
                    BY <4>1, <5>1, <5>2
            <4> QED
                BY <3>2, <4>2
        <3> QED
            BY <1>2, <3>1, <3>2 DEF Sent
    <2>5. /\ \A i \in 1 .. Len(buffer) :
                 buffer[i].kind = "frame" => buffer[i].seq < nextSend'
          /\ inHand.kind = "frame" => inHand.seq < nextSend'
        <3>1. /\ \A i \in 1 .. Len(buffer) :
                     buffer[i].kind = "frame" =>
                         buffer[i].seq \in FrameSeqs /\ buffer[i].seq < nextSend
              /\ inHand.kind = "frame" =>
                     inHand.seq \in FrameSeqs /\ inHand.seq < nextSend
            <4>1. /\ \A i \in 1 .. Len(buffer) : buffer[i] \in Records
                  /\ inHand \in Records \/ inHand = Nothing
                <5>1. buffer \in Seq(Records)
                    BY DEF WriterTypeOK, Records
                <5>2. inHand \in Records \/ inHand = Nothing
                    BY DEF WriterTypeOK, Records
                <5> QED
                    BY <5>1, <5>2
            <4> QED
                BY <4>1, Kinds DEF FlowSent
        <3> QED
            BY <2>2, <3>1
    <2> QED
        BY <2>4, <2>5 DEF FlowSent
<1> QED
    BY <1>1, <1>2 DEF Reply

\* The server sends only frames below nextSend, and a call that ends cuts the flow.
LEMMA ServerFlow ==
    ASSUME ServerInv, FlowSent, WriterTypeOK, ServerNext,
           UNCHANGED <<buffer, inHand>>
    PROVE  FlowSent'
<1>1. CASE ReadAckOutOfOrder \/ ReadRefused \/ QueueEnded \/ ReadEof
    <2>1. Return(FALSE, committed)
        BY <1>1 DEF ReadAckOutOfOrder, ReadRefused, QueueEnded, ReadEof, Refuse
    <2> QED
        BY <2>1 DEF Return, FlowSent, InCall
<1>2. CASE ReadAck \/ ReadNextFrame \/ TakeDone
    <2>1. \/ Return(TRUE, TRUE)
          \/ InCall /\ UNCHANGED <<toWriter, nextSend>>
        BY <1>2 DEF ReadAck, ReadNextFrame, TakeDone, Received, AwaitsMessage,
                    Popped, Serving, InCall, callVars
    <2> QED
        BY <2>1 DEF Return, FlowSent, InCall
<1>3. CASE SendRetained
    <2> DEFINE m == FrameRecord(nextSend, volumeNum)
               end == nextSend = EndSeq
    <2>1. /\ InCall /\ Reply(m, end) /\ end \in BOOLEAN
          /\ m \in Replies /\ (m.type = "frame_record" => m.seq = nextSend)
        BY <1>3, ReplyTypes DEF SendRetained, Serving, InCall, FrameRecord,
                                ServerInv, ServerTypeOK
    <2> HIDE DEF m, end
    <2> QED
        BY <2>1, ReplyFlow
<1>4. CASE SendNewFrame
    <2>1. CASE Return(FALSE, committed)
        BY <2>1 DEF Return, FlowSent, InCall
    <2>2. CASE ~Return(FALSE, committed)
        <3> DEFINE m == FrameRecord(nextSend, volumeNum)
        <3>1. /\ Popped("frame") /\ Head(frameQueue).seq = nextSend
              /\ Reply(m, FALSE)
            BY <1>4, <2>2 DEF SendNewFrame, Refuse
        <3>2. /\ frameQueue \in Seq(Items) /\ frameQueue # <<>>
              /\ volumeNum \in Nat
            BY <3>1 DEF Popped, ServerInv, ServerTypeOK
        <3>3. nextSend \in FrameSeqs
            <4>1. Head(frameQueue) \in Items
                BY <3>2, HeadTailProperties
            <4> QED
                BY <3>1, <4>1 DEF Items
        <3>4. /\ InCall /\ m \in Replies
              /\ (m.type = "frame_record" => m.seq = nextSend)
            BY <3>1, <3>2, <3>3, ReplyTypes
               DEF Popped, Serving, InCall, FrameRecord
        <3> HIDE DEF m
        <3> QED
            BY <3>1, <3>4, ReplyFlow
    <2> QED
        BY <2>1, <2>2
<1>5. CASE SendTapeEof
    <2>1. /\ InCall /\ Reply(TapeEof, FALSE) /\ TapeEof \in Replies
          /\ TapeEof.type = "tape_eof"
        BY <1>5, ReplyTypes DEF SendTapeEof, Popped, Serving, InCall
    <2> QED
        BY <2>1, ReplyFlow
<1>6. CASE SendArchiveEnd
    <2> DEFINE m == FrameRecord(EndSeq, volumeNum)
    <2>1. srv = "drain" /\ Reply(m, TRUE)
        BY <1>6 DEF SendArchiveEnd
    <2>2. nextSend = EndSeq /\ InCall
        BY <2>1 DEF ServerInv, WindowInv, InCall
    <2>3. m \in Replies /\ (m.type = "frame_record" => m.seq = nextSend)
        <3>1. EndSeq \in FrameSeqs /\ volumeNum \in Nat
            BY Ranges DEF FrameSeqs, ServerInv, ServerTypeOK
        <3> QED
            BY <2>2, <3>1, ReplyTypes DEF FrameRecord
    <2> HIDE DEF m
    <2> QED
        BY <2>1, <2>2, <2>3, ReplyFlow
<1> QED
    BY <1>1, <1>2, <1>3, <1>4, <1>5, <1>6 DEF ServerNext

-----------------------------------------------------------------------------
(* The writer's steps. *)

\* A step that hands nothing on keeps the flow.
LEMMA FlowKept ==
    ASSUME FlowSent, UNCHANGED serverVars, toWriter' \in {toWriter, <<>>},
           buffer' \in {buffer, <<>>}, inHand' \in {inHand, Nothing}
    PROVE  FlowSent'
<1>1. srv' = srv /\ nextSend' = nextSend
    BY DEF serverVars
<1>2. CASE ~InCall
    BY <1>1, <1>2 DEF FlowSent, InCall
<1>3. CASE InCall
    <2>1. \A i \in 1 .. Len(toWriter') :
              toWriter'[i].type = "frame_record" => toWriter'[i].seq < nextSend
        BY <1>3, EmptySeq DEF FlowSent
    <2>2. \A i \in 1 .. Len(buffer') :
              buffer'[i].kind = "frame" => buffer'[i].seq < nextSend
        BY <1>3, EmptySeq DEF FlowSent
    <2>3. inHand'.kind = "frame" => inHand'.seq < nextSend
        BY <1>3, Kinds DEF FlowSent
    <2> QED
        BY <1>1, <2>1, <2>2, <2>3 DEF FlowSent
<1> QED
    BY <1>2, <1>3

\* The message the writer reads is a reply, and a frame in it was sent.
LEMMA HeadOfWire ==
    ASSUME ServerTypeOK, FlowSent, toWriter # <<>>
    PROVE  /\ Head(toWriter) \in Replies
           /\ Tail(toWriter) \in Seq(Replies)
           /\ Head(toWriter).type = "frame_record" =>
                 /\ Head(toWriter).seq \in FrameSeqs
                 /\ Head(toWriter).vol \in Nat
                 /\ InCall => Head(toWriter).seq < nextSend
           /\ InCall => \A i \in 1 .. Len(Tail(toWriter)) :
                 Tail(toWriter)[i].type = "frame_record" =>
                     Tail(toWriter)[i].seq < nextSend
<1>1. toWriter \in Seq(Replies)
    BY DEF ServerTypeOK
<1>2. /\ Head(toWriter) \in Replies /\ Head(toWriter) = toWriter[1]
      /\ 1 \in 1 .. Len(toWriter)
      /\ Tail(toWriter) \in Seq(Replies)
      /\ \A i \in 1 .. Len(Tail(toWriter)) :
             i + 1 \in 1 .. Len(toWriter) /\ Tail(toWriter)[i] = toWriter[i + 1]
    BY <1>1, HeadTailProperties, EmptySeq
<1>3. Head(toWriter).type = "frame_record" =>
          Head(toWriter).seq \in FrameSeqs /\ Head(toWriter).vol \in Nat
    BY <1>2 DEF Replies
<1> QED
    BY <1>2, <1>3 DEF FlowSent

\* A frame or a filemark is put into the output buffer.
LEMMA BufferGrows ==
    ASSUME WriterTypeOK, FlowSent, NEW item \in Records,
           item.kind = "frame" /\ InCall => item.seq < nextSend,
           buffer' = Append(buffer, item)
    PROVE  /\ buffer' \in Seq(Records)
           /\ InCall => \A i \in 1 .. Len(buffer') :
                  buffer'[i].kind = "frame" => buffer'[i].seq < nextSend
<1> DEFINE q == Append(buffer, item)
<1>1. buffer \in Seq(Records)
    BY DEF WriterTypeOK, Records
<1>2. /\ q \in Seq(Records) /\ Len(q) = Len(buffer) + 1
      /\ \A i \in 1 .. Len(buffer) : q[i] = buffer[i]
      /\ q[Len(buffer) + 1] = item
      /\ Len(buffer) \in Nat
    BY <1>1, AppendProps, LenProperties
<1>3. ASSUME InCall, NEW i \in 1 .. Len(q), q[i].kind = "frame"
      PROVE  q[i].seq < nextSend
    <2>1. CASE i \in 1 .. Len(buffer)
        BY <1>2, <1>3, <2>1 DEF FlowSent
    <2>2. CASE i = Len(buffer) + 1
        BY <1>2, <1>3, <2>2
    <2> QED
        BY <1>2, <2>1, <2>2
<1> QED
    BY <1>2, <1>3

\* The receiving thread takes a reply.
LEMMA ReceiveStep ==
    ASSUME PipeInv, Receive,
           UNCHANGED <<archiverVars, session, out, status, inHand, outError,
                       exit, mounted, shelf, writerAlive, serverAlive,
                       readShut>>
    PROVE  PipeInv'
<1> DEFINE m == Head(toWriter)
<1>1. /\ toWriter # <<>> /\ toWriter' = Tail(toWriter) /\ toServer' = toServer
      /\ ReceiveFrame(m) \/ ReceiveTapeEof(m) \/ ReceiveError(m)
    BY DEF Receive
<1>2. /\ ServerInv /\ ServerTypeOK /\ AcksSent /\ WriterTypeOK /\ FlowSent
      /\ OutputInv /\ session \in 0 .. MaxSessions
    BY DEF PipeInv, ServerInv
<1>3. /\ UNCHANGED <<producerVars, queueVars, serverVars>>
      /\ srv' = srv /\ nextSend' = nextSend
    BY DEF archiverVars, serverVars
<1>4. /\ m \in Replies /\ toWriter' \in Seq(Replies)
      /\ m.type = "frame_record" => /\ m.seq \in FrameSeqs /\ m.vol \in Nat
                                    /\ InCall => m.seq < nextSend
      /\ InCall => \A i \in 1 .. Len(toWriter') :
             toWriter'[i].type = "frame_record" => toWriter'[i].seq < nextSend
    BY <1>1, <1>2, HeadOfWire
<1>5. /\ recv' \in {"request", "join"}
      /\ inputClosed' \in BOOLEAN /\ recvError' \in BOOLEAN
      /\ \/ UNCHANGED <<buffer, expect>>
         \/ /\ m.type = "frame_record"
            /\ buffer' = Append(buffer, Record(m.seq, m.vol))
            /\ expect' = m.seq + 1
         \/ buffer' = Append(buffer, Mark) /\ expect' = expect
    BY <1>1, <1>2 DEF ReceiveFrame, ReceiveTapeEof, ReceiveError, Enqueue,
                      StopReceiving, WriterTypeOK
<1>6. /\ buffer' \in Seq(Records)
      /\ InCall => \A i \in 1 .. Len(buffer') :
             buffer'[i].kind = "frame" => buffer'[i].seq < nextSend
    <2>1. CASE UNCHANGED <<buffer, expect>>
        BY <1>2, <2>1 DEF WriterTypeOK, Records, FlowSent
    <2>2. CASE /\ m.type = "frame_record"
               /\ buffer' = Append(buffer, Record(m.seq, m.vol))
        <3> DEFINE r == Record(m.seq, m.vol)
        <3>1. r \in Records /\ (r.kind = "frame" /\ InCall => r.seq < nextSend)
            BY <1>4, <2>2, Kinds DEF Records
        <3> HIDE DEF r
        <3> QED
            BY <1>2, <2>2, <3>1, BufferGrows DEF r
    <2>3. CASE buffer' = Append(buffer, Mark)
        BY <1>2, <2>3, Kinds, BufferGrows DEF Records
    <2> QED
        BY <1>5, <2>1, <2>2, <2>3
<1>7. expect' \in 0 .. Unseeded'
    <2>1. Unseeded' = Unseeded /\ NumFrames \in Nat /\ EndSeq = NumFrames
        BY <1>2, Ranges DEF Unseeded, EndSeq
    <2>2. m.type = "frame_record" => m.seq + 1 \in 0 .. Unseeded
        BY <1>4, <2>1 DEF FrameSeqs, Unseeded
    <2> QED
        BY <1>2, <1>5, <2>1, <2>2 DEF WriterTypeOK
<1>8. WriterTypeOK'
    BY <1>2, <1>5, <1>6, <1>7 DEF WriterTypeOK, Records
<1>9. FlowSent'
    BY <1>2, <1>3, <1>4, <1>6 DEF FlowSent, InCall
<1>10. ServerInv'
    BY <1>1, <1>2, <1>3, <1>4, ConnectionStep DEF ServerTypeOK
<1>11. AcksSent'
    BY <1>1, <1>2, <1>3 DEF AcksSent, InCall
<1>12. OutputInv' /\ session' \in 0 .. MaxSessions
    BY <1>2 DEF OutputInv
<1> QED
    BY <1>8, <1>9, <1>10, <1>11, <1>12 DEF PipeInv

\* A step that hands nothing on: what is left to show of it.
LEMMA QuietStep ==
    ASSUME PipeInv, UNCHANGED archiverVars,
           toWriter' \in {toWriter, <<>>}, buffer' \in {buffer, <<>>},
           inHand' \in {inHand, Nothing},
           AcksSent', toServer' \in Seq(Requests),
           writerAlive' \in BOOLEAN, serverAlive' \in BOOLEAN,
           readShut' \in BOOLEAN,
           WriterTypeOK', OutputInv', session' \in 0 .. MaxSessions
    PROVE  PipeInv'
<1>1. UNCHANGED <<producerVars, queueVars, serverVars>>
    BY DEF archiverVars
<1>2. FlowSent'
    BY <1>1, FlowKept DEF PipeInv
<1>3. toWriter' \in Seq(Replies)
    BY EmptySeq DEF PipeInv, ServerInv, ServerTypeOK
<1>4. ServerInv'
    BY <1>1, <1>3, ConnectionStep DEF PipeInv
<1> QED
    BY <1>2, <1>4 DEF PipeInv

\* Steps of the receiving thread other than Receive.
LEMMA ReceiverQuietStep ==
    ASSUME PipeInv, \/ RequestFrame /\ UNCHANGED expect
                    \/ ReceiveEof \/ NoticeOutputEnded,
           UNCHANGED <<archiverVars, session, out, status, inHand, outError,
                       exit, mounted, shelf, writerAlive, serverAlive,
                       readShut>>
    PROVE  PipeInv'
<1>1. /\ ServerInv /\ ServerTypeOK /\ AcksSent /\ WriterTypeOK /\ OutputInv
      /\ session \in 0 .. MaxSessions
      /\ UNCHANGED serverVars
    BY DEF PipeInv, ServerInv, archiverVars
<1>2. /\ UNCHANGED <<toWriter, buffer, expect>>
      /\ recv' \in {"await", "join"}
      /\ inputClosed' \in BOOLEAN /\ recvError' \in BOOLEAN
    BY <1>1 DEF RequestFrame, ReceiveEof, NoticeOutputEnded, StopReceiving,
                WriterTypeOK
<1>3. AcksSent' /\ toServer' \in Seq(Requests)
    <2>1. CASE toServer' = toServer
        BY <1>1, <2>1 DEF AcksSent, InCall, serverVars, ServerTypeOK
    <2>2. CASE toServer' = Sent(toServer, serverAlive, NextFrame)
        <3>1. NextFrame \in Requests /\ NextFrame.type # "ack_frame"
            BY Kinds
        <3> HIDE DEF NextFrame
        <3> QED
            BY <1>1, <2>2, <3>1, AcksAfterSend
    <2> QED
        BY <2>1, <2>2 DEF RequestFrame, ReceiveEof, NoticeOutputEnded
<1>4. WriterTypeOK'
    BY <1>1, <1>2 DEF WriterTypeOK, Unseeded, EndSeq
<1>5. OutputInv'
    BY <1>1 DEF OutputInv
<1> QED
    BY <1>1, <1>2, <1>3, <1>4, <1>5, QuietStep DEF ServerTypeOK

\* Every step of the receiving thread keeps the invariant.
LEMMA ReceiverStep ==
    ASSUME PipeInv, Receiver
    PROVE  PipeInv'
    BY ReceiveStep, ReceiverQuietStep DEF Receiver, ReceiverNext

\* The output thread takes an item from the buffer.
LEMMA TakeItemStep ==
    ASSUME PipeInv, TakeItem,
           UNCHANGED <<archiverVars, session, recv, inputClosed, expect,
                       recvError, exit, shelf, toWriter, writerAlive,
                       serverAlive>>
    PROVE  PipeInv'
<1>1. /\ buffer # <<>> /\ inHand' = Head(buffer) /\ buffer' = Tail(buffer)
      /\ out' = "write"
      /\ UNCHANGED <<status, outError, mounted, toServer, readShut>>
    BY DEF TakeItem
<1>2. /\ ServerInv /\ ServerTypeOK /\ AcksSent /\ WriterTypeOK /\ FlowSent
      /\ session \in 0 .. MaxSessions
    BY DEF PipeInv, ServerInv
<1>3. /\ UNCHANGED <<producerVars, queueVars, serverVars>>
      /\ srv' = srv /\ nextSend' = nextSend
    BY DEF archiverVars, serverVars
<1>4. /\ buffer \in Seq(Records)
      /\ inHand' \in Records /\ inHand' = buffer[1] /\ 1 \in 1 .. Len(buffer)
      /\ buffer' \in Seq(Records)
      /\ \A i \in 1 .. Len(buffer') :
             i + 1 \in 1 .. Len(buffer) /\ buffer'[i] = buffer[i + 1]
    <2>1. buffer \in Seq(Records)
        BY <1>2 DEF WriterTypeOK, Records
    <2> QED
        BY <1>1, <2>1, HeadTailProperties, EmptySeq
<1>5. FlowSent'
    BY <1>2, <1>3, <1>4 DEF FlowSent, InCall
<1>6. WriterTypeOK'
    BY <1>1, <1>2, <1>4 DEF WriterTypeOK, Records, Unseeded, EndSeq
<1>7. ServerInv'
    BY <1>1, <1>2, <1>3, ConnectionStep DEF ServerTypeOK
<1>8. AcksSent'
    BY <1>1, <1>2, <1>3 DEF AcksSent, InCall
<1>9. OutputInv'
    BY <1>1 DEF OutputInv
<1> QED
    BY <1>2, <1>5, <1>6, <1>7, <1>8, <1>9 DEF PipeInv

\* Records and filemarks go to the medium or do not.
LEMMA MountedTypes ==
    ASSUME WriterTypeOK, NEW r \in Records,
           mounted' = mounted \/ mounted' = Append(mounted, r)
                \/ mounted' \in Uncertain(Append(mounted, r))
    PROVE  mounted' \in Seq(Records)
<1>1. mounted \in Seq(Records)
    BY DEF WriterTypeOK, Records
<1>2. Append(mounted, r) \in Seq(Records)
    BY <1>1, AppendProps
<1> QED
    BY <1>1, <1>2 DEF Uncertain

\* Steps of the output thread other than TakeItem.
LEMMA OutputQuietStep ==
    ASSUME PipeInv, NEW faulty \in BOOLEAN,
           InputEnded \/ WriteRecord(faulty) \/ WriteMark(faulty)
              \/ SendAck \/ WriteFinalMark(faulty),
           UNCHANGED <<archiverVars, session, recv, inputClosed, expect,
                       recvError, exit, shelf, toWriter, writerAlive,
                       serverAlive>>
    PROVE  PipeInv'
<1>1. /\ ServerInv /\ ServerTypeOK /\ AcksSent /\ WriterTypeOK /\ OutputInv
      /\ FlowSent /\ session \in 0 .. MaxSessions
      /\ UNCHANGED serverVars
    BY DEF PipeInv, ServerInv, archiverVars
<1>2. /\ UNCHANGED buffer
      /\ inHand' \in {inHand, Nothing}
      /\ readShut' \in BOOLEAN
      /\ outError' \in BOOLEAN
      /\ status' \in {"running", "complete", "volume_full", "failed"}
      /\ out' \in {"take", "ack", "ack last", "final mark", "stopped"}
      /\ OutputInv'
    BY <1>1 DEF InputEnded, WriteRecord, WriteMark, SendAck, WriteFinalMark,
                StopOutput, WriterTypeOK, ServerTypeOK, OutputInv
<1>3. mounted' \in Seq(Records)
    <2>1. CASE InputEnded \/ SendAck
        BY <1>1, <2>1 DEF InputEnded, SendAck, WriterTypeOK, Records
    <2>2. CASE WriteRecord(faulty)
        <3>1. inHand \in Records
            BY <1>1, <2>2, Kinds DEF WriteRecord, WriterTypeOK, Records
        <3> QED
            BY <1>1, <2>2, <3>1, MountedTypes DEF WriteRecord
    <2>3. CASE WriteMark(faulty) \/ WriteFinalMark(faulty)
        <3>1. Mark \in Records
            BY DEF Records
        <3>2. \/ mounted' = mounted \/ mounted' = Append(mounted, Mark)
              \/ mounted' \in Uncertain(Append(mounted, Mark))
            BY <2>3 DEF WriteMark, WriteFinalMark
        <3> HIDE DEF Mark
        <3> QED
            BY <1>1, <3>1, <3>2, MountedTypes
    <2> QED
        BY <2>1, <2>2, <2>3
<1>4. AcksSent' /\ toServer' \in Seq(Requests)
    <2>1. CASE toServer' = toServer
        BY <1>1, <2>1 DEF AcksSent, InCall, serverVars, ServerTypeOK
    <2>2. CASE SendAck /\ toServer' # toServer
        <3> DEFINE m == AckFrame(inHand.seq)
        <3>1. toServer' = Sent(toServer, serverAlive, m)
              /\ inHand.kind = "frame"
            BY <1>1, <2>2 DEF SendAck, OutputInv
        <3>2. inHand.seq \in FrameSeqs /\ (InCall => inHand.seq < nextSend)
            BY <1>1, <3>1, Kinds DEF WriterTypeOK, Records, FlowSent
        <3>3. m \in Requests /\ m.seq = inHand.seq
            BY <3>2, Kinds
        <3> HIDE DEF m
        <3> QED
            BY <1>1, <3>1, <3>2, <3>3, AcksAfterSend
    <2> QED
        BY <2>1, <2>2 DEF InputEnded, WriteRecord, WriteMark, WriteFinalMark
<1>5. WriterTypeOK'
    BY <1>1, <1>2, <1>3 DEF WriterTypeOK, Records, Unseeded, EndSeq
<1> QED
    BY <1>1, <1>2, <1>4, <1>5, QuietStep DEF ServerTypeOK

\* Every step of the output thread keeps the invariant.
LEMMA OutputStep ==
    ASSUME PipeInv, Output
    PROVE  PipeInv'
<1>1. Faulty \in BOOLEAN
    BY DEF Faulty
<1> QED
    BY <1>1, TakeItemStep, OutputQuietStep DEF Output, OutputNext

\* The writer's process ends, by itself or killed.
LEMMA WriterEndsStep ==
    ASSUME PipeInv, Exit \/ Kill
    PROVE  PipeInv'
<1>1. /\ ServerInv /\ ServerTypeOK /\ AcksSent /\ WriterTypeOK /\ OutputInv
      /\ session \in 0 .. MaxSessions
    BY DEF PipeInv, ServerInv
<1>2. /\ UNCHANGED archiverVars /\ UNCHANGED serverVars
      /\ UNCHANGED <<session, shelf, toWriter, serverAlive, readShut>>
      /\ recv' = "off" /\ out' = "off" /\ buffer' = <<>>
      /\ inHand' \in {inHand, Nothing}
      /\ status' = "running" /\ inputClosed' = FALSE /\ expect' = Unseeded
      /\ outError' = FALSE /\ recvError' = FALSE /\ writerAlive' = FALSE
    BY DEF Exit, Kill, WriterExits, WriterKilled, archiverVars
<1>3. toServer' = toServer \/ toServer' \in Truncations(toServer)
    BY DEF Exit, Kill, WriterExits, WriterKilled
<1>4. AcksSent' /\ toServer' \in Seq(Requests)
    <2>1. CASE toServer' = toServer
        BY <1>1, <1>2, <2>1 DEF AcksSent, InCall, serverVars, ServerTypeOK
    <2> QED
        BY <1>1, <1>2, <1>3, <2>1, AcksAfterReset
<1>5. exit' \in {"none", "complete", "volume_full", "error", "killed"}
    <2>1. CASE Exit
        BY <1>1, <2>1 DEF Exit, WriterExits, ExitOf, WriterTypeOK, OutputInv
    <2>2. CASE Kill
        BY <2>2 DEF Kill, WriterKilled
    <2> QED
        BY <2>1, <2>2
<1>6. mounted \in Seq(Records) /\ mounted' \in Seq(Records)
    <2>1. mounted \in Seq(Records)
        BY <1>1 DEF WriterTypeOK, Records
    <2>2. CASE mounted' = mounted
        BY <2>1, <2>2
    <2>3. CASE Kill /\ mounted' # mounted
        <3>1. PICK i \in {0} \cup DOMAIN mounted : mounted' = SubSeq(mounted, 1, i)
            BY <2>3 DEF Kill, WriterKilled, Readable
        <3>2. i \in 0 .. Len(mounted)
            BY <2>1, <3>1, LenProperties
        <3>3. mounted' \in Truncations(mounted)
            BY <3>1, <3>2 DEF Truncations
        <3> QED
            BY <2>1, <3>3, TruncationsProps
    <2> QED
        BY <2>1, <2>2, <2>3 DEF Exit, WriterExits
<1>7. Unseeded' = Unseeded /\ Unseeded \in 0 .. Unseeded
    BY <1>1, Ranges DEF Unseeded, EndSeq
<1>8. WriterTypeOK'
    <2>1. buffer' \in Seq(Records)
        BY <1>2, EmptySeq
    <2> QED
        BY <1>1, <1>2, <1>5, <1>6, <1>7, <2>1 DEF WriterTypeOK, Records
<1>9. OutputInv'
    BY <1>2 DEF OutputInv
<1> QED
    BY <1>1, <1>2, <1>4, <1>8, <1>9, QuietStep DEF ServerTypeOK

\* A writer whose variables stay as they are.
LEMMA WriterKept ==
    ASSUME WriterTypeOK, OutputInv,
           UNCHANGED <<recv, out, buffer, inputClosed, status, inHand, expect,
                       outError, recvError, exit, mounted, shelf>>
    PROVE  WriterTypeOK' /\ OutputInv'
<1>1. OutputInv'
    BY DEF OutputInv
<1>2. WriterTypeOK'
    <2>1. /\ recv' = recv /\ out' = out /\ buffer' = buffer
          /\ inputClosed' = inputClosed /\ status' = status
          /\ inHand' = inHand /\ expect' = expect
          /\ outError' = outError /\ recvError' = recvError
          /\ exit' = exit /\ mounted' = mounted /\ shelf' = shelf
        OBVIOUS
    <2> QED
        BY <2>1, Zenon DEF WriterTypeOK
<1> QED
    BY <1>1, <1>2

\* A reset loses messages and adds none.
LEMMA LinkResetStep ==
    ASSUME PipeInv, LinkReset
    PROVE  PipeInv'
<1>1. /\ ServerInv /\ ServerTypeOK /\ AcksSent /\ WriterTypeOK /\ OutputInv
      /\ session \in 0 .. MaxSessions
    BY DEF PipeInv, ServerInv
<1>2. /\ UNCHANGED archiverVars /\ UNCHANGED serverVars
      /\ UNCHANGED <<recv, out, buffer, inputClosed, status, inHand, expect,
                     outError, recvError, exit, mounted, shelf>>
      /\ UNCHANGED <<session, readShut>> /\ toWriter' = <<>>
      /\ writerAlive' = FALSE /\ serverAlive' = FALSE
      /\ toServer' \in Truncations(toServer)
    BY DEF LinkReset, archiverVars, writerVars
<1>3. AcksSent' /\ toServer' \in Seq(Requests)
    BY <1>1, <1>2, AcksAfterReset
<1>4. WriterTypeOK' /\ OutputInv'
    BY <1>1, <1>2, WriterKept
<1> QED
    BY <1>1, <1>2, <1>3, <1>4, QuietStep DEF ServerTypeOK

\* A new writer is connected and holds nothing.
LEMMA ConnectStep ==
    ASSUME PipeInv, Connect
    PROVE  PipeInv'
<1>1. /\ ServerInv /\ WriterTypeOK /\ session \in 0 .. MaxSessions
      /\ srv = "accept" /\ Accept /\ Open /\ StartWriter
      /\ UNCHANGED <<producerVars, queueVars>>
    BY DEF PipeInv, Connect
<1>2. ServerInv' /\ AcksSent'
    BY <1>1, AcceptStep
<1>3. /\ recv' = "request" /\ out' = "take" /\ buffer' = <<>>
      /\ inputClosed' = FALSE /\ status' = "running" /\ inHand' = Nothing
      /\ expect' = Unseeded /\ outError' = FALSE /\ recvError' = FALSE
      /\ exit' = "none" /\ mounted' = <<>> /\ toWriter' = <<>>
      /\ shelf' = shelf \/ shelf' = Append(shelf, mounted)
    BY <1>1 DEF StartWriter, Open
<1>4. mounted \in Seq(Records) /\ shelf \in Seq(Seq(Records))
    BY <1>1 DEF WriterTypeOK, Records
<1>5. shelf' \in Seq(Seq(Records))
    <2> DEFINE R == Seq(Records)
    <2>1. mounted \in R /\ shelf \in Seq(R)
        BY <1>4
    <2> HIDE DEF R
    <2>2. Append(shelf, mounted) \in Seq(R)
        BY <2>1, AppendProps
    <2>3. shelf' \in Seq(R)
        BY <1>3, <2>1, <2>2
    <2> QED
        BY <2>3 DEF R
<1>6. WriterTypeOK'
    <2>1. buffer' \in Seq(Records) /\ mounted' \in Seq(Records)
        BY <1>3, EmptySeq
    <2>2. Unseeded' \in 0 .. Unseeded' /\ expect' = Unseeded'
        BY <1>1, <1>3, Ranges DEF Unseeded, EndSeq
    <2> QED
        BY <1>3, <1>5, <2>1, <2>2 DEF WriterTypeOK, Records
<1>7. FlowSent' /\ OutputInv'
    BY <1>3, Kinds, EmptySeq DEF FlowSent, OutputInv
<1>8. session' \in 0 .. MaxSessions
    BY <1>1, SessionAssumption DEF Connect, Faulty
<1> QED
    BY <1>2, <1>6, <1>7, <1>8 DEF PipeInv

\* A step of the archiver leaves the writer as it is.
LEMMA ArchiverStep ==
    ASSUME PipeInv, Produce \/ Serve
    PROVE  PipeInv'
<1>1. /\ ServerInv /\ AcksSent /\ WriterTypeOK /\ OutputInv /\ FlowSent
      /\ session \in 0 .. MaxSessions
      /\ UNCHANGED <<recv, out, buffer, inputClosed, status, inHand, expect,
                     outError, recvError, exit, mounted, shelf, session>>
    BY DEF PipeInv, Produce, Serve, writerVars
<1>2. WriterTypeOK' /\ OutputInv'
    BY <1>1, WriterKept
<1>3. CASE ProducerNext
    <2>1. ServerInv'
        BY <1>1, <1>3, ProducerStep
    <2>2. UNCHANGED <<srv, nextSend, toServer, toWriter>>
        BY <1>3 DEF ProducerNext, serverVars, wire
    <2> QED
        BY <1>1, <1>2, <2>1, <2>2 DEF PipeInv, AcksSent, FlowSent, InCall
<1>4. CASE ServerNext
    <2>1. ServerInv' /\ AcksSent'
        BY <1>1, <1>4, ServerStep
    <2>2. FlowSent'
        BY <1>1, <1>4, ServerFlow
    <2> QED
        BY <1>1, <1>2, <2>1, <2>2 DEF PipeInv
<1> QED
    BY <1>3, <1>4 DEF Produce, Serve

\* The invariant speaks of the specification's variables only.
LEMMA PipeStutters ==
    ASSUME PipeInv, UNCHANGED vars
    PROVE  PipeInv'
<1>1. /\ UNCHANGED archiverVars /\ UNCHANGED serverVars
      /\ UNCHANGED <<toServer, toWriter, writerAlive, serverAlive, readShut>>
      /\ UNCHANGED <<recv, out, buffer, inputClosed, status, inHand, expect,
                     outError, recvError, exit, mounted, shelf, session>>
    BY DEF vars, archiverVars, writerVars, wire
<1>2. /\ ServerInv /\ ServerTypeOK /\ AcksSent /\ WriterTypeOK /\ OutputInv
      /\ session \in 0 .. MaxSessions
    BY DEF PipeInv, ServerInv
<1>3. AcksSent' /\ WriterTypeOK' /\ OutputInv'
    <2>1. AcksSent'
        BY <1>1, <1>2 DEF AcksSent, InCall, serverVars
    <2> QED
        BY <1>1, <1>2, <2>1, WriterKept
<1> QED
    BY <1>1, <1>2, <1>3, QuietStep DEF ServerTypeOK

\* The invariant holds when the archiver starts and no writer runs.
LEMMA PipeStarts ==
    ASSUME Init
    PROVE  PipeInv
<1>1. /\ ServerInv /\ AcksSent /\ session \in 0 .. MaxSessions
      /\ srv = "accept"
    <2>1. ServerInit /\ WireInit /\ session = 0
        BY DEF Init
    <2>2. srv = "accept"
        BY <2>1 DEF ServerInit
    <2>3. session \in 0 .. MaxSessions
        BY <2>1, SessionAssumption
    <2> QED
        BY <2>1, <2>2, <2>3, ServerStart
<1>2. /\ recv = "off" /\ out = "off" /\ buffer = <<>> /\ inputClosed = FALSE
      /\ status = "running" /\ inHand = Nothing /\ expect = Unseeded
      /\ outError = FALSE /\ recvError = FALSE /\ exit = "none"
      /\ mounted = <<>> /\ shelf = <<>>
    BY DEF Init, WriterInit
<1>3. WriterTypeOK
    <2>1. /\ buffer \in Seq(Records) /\ mounted \in Seq(Records)
          /\ shelf \in Seq(Seq(Records))
        BY <1>2, EmptySeq
    <2>2. Unseeded \in 0 .. Unseeded
        BY <1>1, Ranges DEF Unseeded
    <2> QED
        BY <1>2, <2>1, <2>2 DEF WriterTypeOK, Records
<1>4. FlowSent /\ OutputInv
    BY <1>1, <1>2 DEF FlowSent, InCall, OutputInv
<1> QED
    BY <1>1, <1>3, <1>4 DEF PipeInv

-----------------------------------------------------------------------------

\* The invariant of the pipeline: the server's, and that everything between
\* the server and the medium was sent by the running call.
THEOREM PipelineInvariant == Spec => []PipeInv
<1>1. PipeInv /\ [Next]_vars => PipeInv'
    BY ConnectStep, ArchiverStep, ReceiverStep, OutputStep, WriterEndsStep,
       LinkResetStep, PipeStutters DEF Next, Finished
<1>2. Init => PipeInv
    BY PipeStarts
<1> QED
    BY <1>1, <1>2, PTL DEF Spec

\* Every variable of the archiver and of its writers keeps its type.
THEOREM PipelineTypes == Spec => []TypeOK
<1>1. PipeInv => TypeOK
    BY DEF PipeInv, ServerInv, TypeOK
<1> QED
    BY <1>1, PipelineInvariant, PTL

\* FrameRetentionBuffer::add evicts no frame a later volume needs.
THEOREM PipelineRetention == Spec => []RetentionCovers
<1>1. PipeInv => RetentionCovers
    BY InvCovers DEF PipeInv
<1> QED
    BY <1>1, PipelineInvariant, PTL

-----------------------------------------------------------------------------
(* On tape, an acknowledged frame is on a medium. *)

\* A frame is counted, or announced, as written only when a medium holds it.
MediaInv ==
    /\ AckedOnMedia
    /\ \A i \in 1 .. Len(toServer) :
           toServer[i].type = "ack_frame" => OnMedia(toServer[i].seq)
    /\ out \in {"ack", "ack last"} => FrameOn(mounted, inHand.seq)

\* A frame is on a medium of a list and one more when it is on either.
LEMMA OneMoreMedium ==
    ASSUME NEW sh \in Seq(Seq(Records)), NEW mt \in Seq(Records), NEW n
    PROVE  (\E v \in DOMAIN Append(sh, mt) : FrameOn(Append(sh, mt)[v], n))
               <=> FrameOn(mt, n) \/ \E v \in DOMAIN sh : FrameOn(sh[v], n)
<1> DEFINE R == Seq(Records)
           q == Append(sh, mt)
<1>1. sh \in Seq(R) /\ mt \in R
    OBVIOUS
<1> HIDE DEF R
<1>2. /\ q \in Seq(R) /\ Len(q) = Len(sh) + 1 /\ Len(sh) \in Nat
      /\ \A i \in 1 .. Len(sh) : q[i] = sh[i]
      /\ q[Len(sh) + 1] = mt
      /\ DOMAIN q = 1 .. Len(q) /\ DOMAIN sh = 1 .. Len(sh)
    BY <1>1, AppendProps, LenProperties
<1> HIDE DEF q
<1>3. (\E v \in DOMAIN q : FrameOn(q[v], n)) =>
          FrameOn(mt, n) \/ \E v \in DOMAIN sh : FrameOn(sh[v], n)
    BY <1>2
<1>4. FrameOn(mt, n) => \E v \in DOMAIN q : FrameOn(q[v], n)
    <2>1. Len(sh) + 1 \in DOMAIN q
        BY <1>2
    <2> QED
        BY <1>2, <2>1
<1>5. (\E v \in DOMAIN sh : FrameOn(sh[v], n)) =>
          \E v \in DOMAIN q : FrameOn(q[v], n)
    <2>1. \A v \in DOMAIN sh : v \in DOMAIN q /\ q[v] = sh[v]
        BY <1>2
    <2> QED
        BY <2>1
<1> QED
    BY <1>3, <1>4, <1>5 DEF q

\* Writing one more record keeps what a medium holds.
LEMMA OneMoreRecord ==
    ASSUME NEW mt \in Seq(Records), NEW r \in Records
    PROVE  /\ \A n : FrameOn(mt, n) => FrameOn(Append(mt, r), n)
           /\ IsFrame(r) => FrameOn(Append(mt, r), r.seq)
<1> DEFINE q == Append(mt, r)
<1>1. /\ q \in Seq(Records) /\ Len(q) = Len(mt) + 1 /\ Len(mt) \in Nat
      /\ \A i \in 1 .. Len(mt) : q[i] = mt[i]
      /\ q[Len(mt) + 1] = r
      /\ DOMAIN q = 1 .. Len(q) /\ DOMAIN mt = 1 .. Len(mt)
    BY AppendProps, LenProperties
<1> HIDE DEF q
<1>2. \A n : FrameOn(mt, n) => FrameOn(q, n)
    BY <1>1 DEF FrameOn
<1>3. IsFrame(r) => FrameOn(q, r.seq)
    <2>1. Len(mt) + 1 \in DOMAIN q
        BY <1>1
    <2> QED
        BY <1>1, <2>1 DEF FrameOn
<1> QED
    BY <1>2, <1>3 DEF q

\* What a step does to the media of a pipeline that writes to tape.
LEMMA MediaSteps ==
    ASSUME PipeInv, ~SpoolTarget, [Next]_vars
    PROVE  \/ mounted' = mounted /\ shelf' = shelf
           \/ /\ \E r \in Records : mounted' = Append(mounted, r)
              /\ shelf' = shelf
           \/ /\ mounted' = <<>>
              /\ shelf' = IF mounted = <<>> THEN shelf ELSE Append(shelf, mounted)
<1>1. CASE Connect
    BY <1>1 DEF Connect, StartWriter
<1>2. CASE Produce \/ Serve \/ Receiver \/ LinkReset \/ Finished
              \/ UNCHANGED vars
    BY <1>2 DEF Produce, Serve, Receiver, ReceiverNext, LinkReset, Finished,
                writerVars, vars
<1>3. CASE Exit \/ Kill
    BY <1>3 DEF Exit, Kill, WriterExits, WriterKilled, Readable
<1>4. CASE Output
    <2>1. shelf' = shelf
        BY <1>4 DEF Output, OutputNext
    <2>2. CASE TakeItem \/ InputEnded \/ SendAck
        BY <2>1, <2>2 DEF TakeItem, InputEnded, SendAck
    <2>3. CASE WriteRecord(Faulty)
        <3>1. inHand \in Records
            BY <2>3, Kinds DEF PipeInv, WriteRecord, WriterTypeOK, Records
        <3> QED
            BY <2>1, <2>3, <3>1 DEF WriteRecord, Uncertain
    <2>4. CASE WriteMark(Faulty) \/ WriteFinalMark(Faulty)
        <3>1. Mark \in Records
            BY DEF Records
        <3> HIDE DEF Mark
        <3> QED
            BY <2>1, <2>4, <3>1 DEF WriteMark, WriteFinalMark, Uncertain
    <2> QED
        BY <1>4, <2>2, <2>3, <2>4 DEF Output, OutputNext
<1> QED
    BY <1>1, <1>2, <1>3, <1>4 DEF Next

\* No step takes a frame from the media.
LEMMA MediaKept ==
    ASSUME PipeInv, PipeInv', ~SpoolTarget, [Next]_vars, NEW n, OnMedia(n)
    PROVE  OnMedia(n)'
<1>1. /\ mounted \in Seq(Records) /\ shelf \in Seq(Seq(Records))
      /\ mounted' \in Seq(Records) /\ shelf' \in Seq(Seq(Records))
    BY DEF PipeInv, WriterTypeOK, Records
<1>2. FrameOn(mounted, n) \/ \E v \in DOMAIN shelf : FrameOn(shelf[v], n)
    BY <1>1, OneMoreMedium DEF OnMedia, Media
<1>3. FrameOn(mounted', n) \/ \E v \in DOMAIN shelf' : FrameOn(shelf'[v], n)
    <2>1. CASE mounted' = mounted /\ shelf' = shelf
        BY <1>2, <2>1
    <2>2. CASE /\ \E r \in Records : mounted' = Append(mounted, r)
               /\ shelf' = shelf
        BY <1>1, <1>2, <2>2, OneMoreRecord
    <2>3. CASE shelf' = IF mounted = <<>> THEN shelf ELSE Append(shelf, mounted)
        <3>1. mounted = <<>> => ~FrameOn(mounted, n)
            BY EmptySeq DEF FrameOn
        <3>2. CASE mounted = <<>>
            BY <1>2, <2>3, <3>1, <3>2
        <3>3. CASE mounted # <<>>
            <4>1. \E v \in DOMAIN Append(shelf, mounted) :
                      FrameOn(Append(shelf, mounted)[v], n)
                BY <1>1, <1>2, OneMoreMedium
            <4> QED
                BY <2>3, <3>3, <4>1
        <3> QED
            BY <3>2, <3>3
    <2> QED
        BY <2>1, <2>2, <2>3, MediaSteps
<1>4. \E v \in DOMAIN Append(shelf', mounted') :
          FrameOn(Append(shelf', mounted')[v], n)
    BY <1>1, <1>3, OneMoreMedium
<1> QED
    BY <1>4 DEF OnMedia, Media

\* What a step does to the messages the server has not read.
LEMMA RequestSteps ==
    ASSUME PipeInv, [Next]_vars
    PROVE  \/ toServer' \in {toServer, <<>>}
           \/ toServer' \in Truncations(toServer)
           \/ toServer # <<>> /\ toServer' = Tail(toServer)
           \/ toServer' = Sent(toServer, serverAlive, NextFrame)
           \/ /\ out \in {"ack", "ack last"}
              /\ toServer' = Sent(toServer, serverAlive, AckFrame(inHand.seq))
              /\ inHand.seq = EndSeq => out' = "final mark"
<1>1. CASE Connect
    BY <1>1 DEF Connect, Open
<1>2. CASE Produce
    BY <1>2 DEF Produce, ProducerNext, wire
<1>3. CASE Serve
    <2>1. CASE ReadAck \/ ReadAckOutOfOrder \/ ReadNextFrame \/ ReadRefused
        BY <2>1 DEF ReadAck, ReadAckOutOfOrder, ReadNextFrame, ReadRefused,
                    Received
    <2>2. CASE ReadEof \/ SendRetained \/ SendNewFrame \/ SendTapeEof
                  \/ TakeDone \/ QueueEnded \/ SendArchiveEnd
        BY <2>2 DEF ReadEof, SendRetained, SendNewFrame, SendTapeEof, TakeDone,
                    QueueEnded, SendArchiveEnd, Popped
    <2> QED
        BY <1>3, <2>1, <2>2 DEF Serve, ServerNext
<1>4. CASE Receiver
    BY <1>4 DEF Receiver, ReceiverNext, RequestFrame, Receive, ReceiveEof,
                NoticeOutputEnded
<1>5. CASE Output
    BY <1>5 DEF Output, OutputNext, TakeItem, InputEnded, WriteRecord, WriteMark,
                SendAck, WriteFinalMark
<1>6. CASE Exit \/ Kill \/ LinkReset
    BY <1>6 DEF Exit, Kill, LinkReset, WriterExits, WriterKilled
<1>7. CASE Finished \/ UNCHANGED vars
    BY <1>7 DEF Finished, vars, wire
<1> QED
    BY <1>1, <1>2, <1>3, <1>4, <1>5, <1>6, <1>7 DEF Next

\* Every acknowledgement under way is of a frame on a medium, and stays so.
LEMMA AcksStayTrue ==
    ASSUME PipeInv, MediaInv, [Next]_vars
    PROVE  \A i \in 1 .. Len(toServer') :
               toServer'[i].type = "ack_frame" => OnMedia(toServer'[i].seq)
<1> DEFINE True(m) == m.type = "ack_frame" => OnMedia(m.seq)
<1>1. toServer \in Seq(Requests) /\ Len(toServer) \in Nat
    BY LenProperties DEF PipeInv, ServerInv, ServerTypeOK
<1>2. \A i \in 1 .. Len(toServer) : True(toServer[i])
    BY DEF MediaInv
<1>3. ASSUME NEW m \in Requests, NEW alive,
             toServer' = Sent(toServer, alive, m), True(m)
      PROVE  \A i \in 1 .. Len(toServer') : True(toServer'[i])
    <2> DEFINE q == Append(toServer, m)
    <2>1. /\ Len(q) = Len(toServer) + 1
          /\ \A i \in 1 .. Len(toServer) : q[i] = toServer[i]
          /\ q[Len(toServer) + 1] = m
        BY <1>1, AppendProps
    <2>2. \A i \in 1 .. Len(q) : i \in 1 .. Len(toServer) \/ i = Len(toServer) + 1
        BY <1>1, <2>1
    <2> HIDE DEF q, True
    <2>3. \A i \in 1 .. Len(q) : True(q[i])
        BY <1>2, <1>3, <2>1, <2>2
    <2>4. toServer' = q \/ toServer' = toServer
        BY <1>3 DEF Sent, q
    <2> QED
        BY <1>2, <2>3, <2>4
<1>4. \A i \in 1 .. Len(toServer') : True(toServer'[i])
    <2> HIDE DEF True
    <2>1. CASE toServer' \in {toServer, <<>>}
        BY <1>2, <2>1, EmptySeq
    <2>2. CASE toServer' \in Truncations(toServer)
        <3>1. /\ toServer' \in Seq(Requests) /\ Len(toServer') <= Len(toServer)
              /\ \A i \in 1 .. Len(toServer') : toServer'[i] = toServer[i]
            BY <1>1, <2>2, TruncationsProps
        <3>2. \A i \in 1 .. Len(toServer') : i \in 1 .. Len(toServer)
            BY <1>1, <3>1, LenProperties
        <3> QED
            BY <1>2, <3>1, <3>2
    <2>3. CASE toServer # <<>> /\ toServer' = Tail(toServer)
        <3>1. \A i \in 1 .. Len(toServer') : /\ i + 1 \in 1 .. Len(toServer)
                                             /\ toServer'[i] = toServer[i + 1]
            BY <1>1, <2>3, HeadTailProperties
        <3> QED
            BY <1>2, <3>1
    <2>4. CASE toServer' = Sent(toServer, serverAlive, NextFrame)
        <3>1. NextFrame \in Requests /\ True(NextFrame)
            BY Kinds DEF True
        <3> HIDE DEF NextFrame
        <3> QED
            BY <1>3, <2>4, <3>1
    <2>5. CASE /\ out \in {"ack", "ack last"}
               /\ toServer' = Sent(toServer, serverAlive, AckFrame(inHand.seq))
        <3> DEFINE m == AckFrame(inHand.seq)
        <3>1. inHand \in FrameRecords /\ FrameOn(mounted, inHand.seq)
            BY <2>5, Kinds DEF PipeInv, OutputInv, MediaInv, WriterTypeOK
        <3>2. inHand.seq \in FrameSeqs
            BY <3>1 DEF FrameRecords
        <3>3. OnMedia(inHand.seq)
            <4>1. mounted \in Seq(Records) /\ shelf \in Seq(Seq(Records))
                BY DEF PipeInv, WriterTypeOK, Records
            <4> QED
                BY <3>1, <4>1, OneMoreMedium DEF OnMedia, Media
        <3>4. m \in Requests /\ True(m)
            BY <3>2, <3>3, Kinds DEF True
        <3> HIDE DEF m
        <3> QED
            BY <1>3, <2>5, <3>4 DEF m
    <2> QED
        BY <2>1, <2>2, <2>3, <2>4, <2>5, RequestSteps
<1> QED
    BY <1>4

\* What the archiver counts is what a true acknowledgement said.
LEMMA CountedOnMedia ==
    ASSUME PipeInv, MediaInv, [Next]_vars
    PROVE  \A n \in 0 .. acked' - 1 : OnMedia(n)
<1>1. acked \in Nat /\ \A n \in 0 .. acked - 1 : OnMedia(n)
    <2>1. acked \in Nat
        BY Ranges DEF PipeInv
    <2>2. \A n \in 0 .. acked - 1 : OnMedia(n)
        BY DEF MediaInv, AckedOnMedia
    <2> QED
        BY <2>1, <2>2
<1>2. CASE acked' = acked
    BY <1>1, <1>2
<1>3. CASE Serve /\ ReadAck
    <2>1. /\ toServer # <<>> /\ Head(toServer).type = "ack_frame"
          /\ Head(toServer).seq = acked /\ acked' = acked + 1
        BY <1>3 DEF ReadAck, Received
    <2>2. Head(toServer) = toServer[1] /\ 1 \in 1 .. Len(toServer)
        BY <2>1, HeadTailProperties, EmptySeq DEF PipeInv, ServerInv, ServerTypeOK
    <2>3. OnMedia(acked)
        BY <2>1, <2>2 DEF MediaInv
    <2> QED
        BY <1>1, <2>1, <2>3
<1>4. acked' = acked \/ (Serve /\ ReadAck)
    <2>1. CASE Serve /\ ~ReadAck
        BY <2>1 DEF Serve, ServerNext, ReadAckOutOfOrder, ReadNextFrame,
                    ReadRefused, ReadEof, SendRetained, SendNewFrame,
                    SendTapeEof, TakeDone, QueueEnded, SendArchiveEnd, Popped
    <2>2. CASE Connect \/ Produce
        BY <2>2 DEF Connect, Accept, Produce, ProducerNext, serverVars
    <2>3. CASE Receiver \/ Output \/ Exit \/ Kill \/ LinkReset \/ Finished
                  \/ UNCHANGED vars
        BY <2>3 DEF Receiver, Output, Exit, Kill, LinkReset, Finished,
                    archiverVars, serverVars, vars
    <2> QED
        BY <2>1, <2>2, <2>3 DEF Next
<1> QED
    BY <1>2, <1>3, <1>4

\* The record the output thread is about to acknowledge is on its medium.
LEMMA WrittenBeforeAck ==
    ASSUME PipeInv, MediaInv, [Next]_vars
    PROVE  out' \in {"ack", "ack last"} => FrameOn(mounted', inHand'.seq)
<1>1. CASE UNCHANGED <<out, mounted, inHand>>
    BY <1>1 DEF MediaInv
<1>2. CASE Output /\ WriteRecord(Faulty)
    <2>1. CASE out' \in {"ack", "ack last"}
        <3>1. /\ mounted' = Append(mounted, inHand) /\ inHand' = inHand
              /\ inHand.kind = "frame"
            BY <1>2, <2>1 DEF WriteRecord, StopOutput
        <3>2. inHand \in Records /\ mounted \in Seq(Records)
            BY <3>1, Kinds DEF PipeInv, WriterTypeOK, Records
        <3> QED
            BY <3>1, <3>2, OneMoreRecord DEF IsFrame
    <2> QED
        BY <2>1
<1>3. CASE out' \notin {"ack", "ack last"}
    BY <1>3
<1>4. \/ UNCHANGED <<out, mounted, inHand>>
      \/ Output /\ WriteRecord(Faulty)
      \/ out' \notin {"ack", "ack last"}
    <2>1. CASE Output
        BY <2>1 DEF Output, OutputNext, TakeItem, InputEnded, WriteMark,
                    SendAck, WriteFinalMark, StopOutput
    <2>2. CASE Connect \/ Exit \/ Kill
        BY <2>2 DEF Connect, StartWriter, Exit, Kill, WriterExits, WriterKilled
    <2>3. CASE Produce \/ Serve \/ Receiver \/ LinkReset \/ Finished
                  \/ UNCHANGED vars
        BY <2>3 DEF Produce, Serve, Receiver, ReceiverNext, LinkReset, Finished,
                    writerVars, vars
    <2> QED
        BY <2>1, <2>2, <2>3 DEF Next
<1> QED
    BY <1>1, <1>2, <1>3, <1>4

\* On tape, what is counted or announced as written is on a medium.
LEMMA MediaHolds ==
    ASSUME ~SpoolTarget
    PROVE  Spec => []MediaInv
<1>1. Init => MediaInv
    <2>1. Init => acked = 0 /\ toServer = <<>> /\ out = "off"
        BY DEF Init, ServerInit, WireInit, WriterInit
    <2> QED
        BY <2>1, EmptySeq DEF MediaInv, AckedOnMedia
<1>2. PipeInv /\ PipeInv' /\ MediaInv /\ [Next]_vars => MediaInv'
    <2> SUFFICES ASSUME PipeInv, PipeInv', MediaInv, [Next]_vars
                 PROVE  MediaInv'
        OBVIOUS
    <2>1. \A n : OnMedia(n) => OnMedia(n)'
        BY MediaKept
    <2>2. \A n \in 0 .. acked' - 1 : OnMedia(n)'
        BY <2>1, CountedOnMedia
    <2>3. \A i \in 1 .. Len(toServer') :
              toServer'[i].type = "ack_frame" => (OnMedia(toServer[i].seq))'
        BY <2>1, AcksStayTrue
    <2> QED
        BY <2>2, <2>3, WrittenBeforeAck DEF MediaInv, AckedOnMedia
<1> QED
    BY <1>1, <1>2, PipelineInvariant, PTL DEF Spec

\* Whatever media and writers fail, an acknowledged frame is on a tape: the
\* archiver drops from its retention buffer only what a reader will find.
THEOREM AcknowledgedIsWritten ==
    ASSUME ~SpoolTarget
    PROVE  Spec => []AckedOnMedia
<1>1. MediaInv => AckedOnMedia
    BY DEF MediaInv
<1> QED
    BY <1>1, MediaHolds, PTL

-----------------------------------------------------------------------------
(* The write path implements DurableArchive. *)

\* Only an acknowledgement moves the count or ends the archive.
LEMMA CountSteps ==
    ASSUME PipeInv, [Next]_vars
    PROVE  \/ acked' = acked /\ (srv' = "complete" <=> srv = "complete")
           \/ Serve /\ ReadAck
<1>1. CASE Serve /\ ~ReadAck
    <2>1. acked' = acked
        BY <1>1 DEF Serve, ServerNext, ReadAckOutOfOrder, ReadNextFrame,
                    ReadRefused, ReadEof, SendRetained, SendNewFrame,
                    SendTapeEof, TakeDone, QueueEnded, SendArchiveEnd, Popped
    <2>2. srv # "complete"
        BY <1>1 DEF Serve, ServerNext, ReadAckOutOfOrder, ReadNextFrame,
                    ReadRefused, ReadEof, SendRetained, SendNewFrame,
                    SendTapeEof, TakeDone, QueueEnded, SendArchiveEnd, Popped,
                    Received, AwaitsMessage, Serving
    <2>3. srv' # "complete"
        BY <1>1 DEF Serve, ServerNext, ReadAckOutOfOrder, ReadNextFrame,
                    ReadRefused, ReadEof, SendRetained, SendNewFrame,
                    SendTapeEof, TakeDone, QueueEnded, SendArchiveEnd,
                    Reply, Refuse, Return
    <2> QED
        BY <2>1, <2>2, <2>3
<1>2. CASE Connect
    BY <1>2 DEF Connect, Accept
<1>3. CASE Produce
    BY <1>3 DEF Produce, ProducerNext, serverVars
<1>4. CASE Receiver \/ Output \/ Exit \/ Kill \/ LinkReset \/ Finished
              \/ UNCHANGED vars
    BY <1>4 DEF Receiver, Output, Exit, Kill, LinkReset, Finished,
                archiverVars, serverVars, vars
<1> QED
    BY <1>1, <1>2, <1>3, <1>4 DEF Next

\* An acknowledgement read is one of a frame on a medium, and the last one
\* alone ends the archive.
LEMMA CountStep ==
    ASSUME PipeInv, MediaInv, Serve, ReadAck
    PROVE  /\ srv # "complete" /\ acked' = acked + 1
           /\ acked \in FrameSeqs /\ OnMedia(acked)
           /\ srv' = "complete" => acked = EndSeq
           /\ UNCHANGED <<mounted, shelf>>
<1>1. /\ toServer # <<>> /\ Head(toServer).type = "ack_frame"
      /\ Head(toServer).seq = acked /\ acked' = acked + 1
      /\ srv # "complete"
    BY DEF ReadAck, Received, AwaitsMessage
<1>2. toServer \in Seq(Requests)
    BY DEF PipeInv, ServerInv, ServerTypeOK
<1>3. /\ Head(toServer) = toServer[1] /\ 1 \in 1 .. Len(toServer)
      /\ Head(toServer) \in Requests
    BY <1>1, <1>2, HeadTailProperties, EmptySeq
<1>4. OnMedia(acked)
    BY <1>1, <1>3 DEF MediaInv
<1>5. acked \in FrameSeqs
    BY <1>1, <1>3 DEF Requests
<1>6. srv' = "complete" => acked = EndSeq
    <2>1. srv' = "complete" => acked >= EndSeq
        BY <1>1 DEF ReadAck, Return
    <2> QED
        BY <1>5, <2>1, Ranges DEF PipeInv, FrameSeqs
<1>7. UNCHANGED <<mounted, shelf>>
    BY DEF Serve, writerVars
<1> QED
    BY <1>1, <1>4, <1>5, <1>6, <1>7

\* Writing to tape implements the abstract archive: what the archiver counts
\* is durable, and stays so.
THEOREM WritingStoresTheArchive ==
    ASSUME ~SpoolTarget
    PROVE  Spec => StoresArchive
<1> DEFINE Holding == {n \in FrameSeqs : OnMedia(n)}
<1>1. Init => Durable!Init
    <2> SUFFICES ASSUME Init
                 PROVE  Durable!Init
        OBVIOUS
    <2>1. acked = 0 /\ srv # "complete" /\ mounted = <<>> /\ shelf = <<>>
        BY DEF Init, ServerInit, WriterInit
    <2>2. \A n : ~OnMedia(n)
        <3>1. /\ mounted \in Seq(Records) /\ shelf \in Seq(Seq(Records))
              /\ \A n : ~FrameOn(mounted, n)
              /\ DOMAIN shelf = {}
            BY <2>1, EmptySeq DEF FrameOn
        <3> QED
            BY <3>1, OneMoreMedium DEF OnMedia, Media
    <2> QED
        BY <2>1, <2>2 DEF Durable!Init
<1>2. PipeInv /\ PipeInv' /\ MediaInv /\ [Next]_vars
          => [Durable!Next]_(Durable!vars)
    <2> SUFFICES ASSUME PipeInv, PipeInv', MediaInv, [Next]_vars
                 PROVE  Durable!Next
        OBVIOUS
    <2>1. CASE acked' = acked /\ (srv' = "complete" <=> srv = "complete")
        <3>1. Holding \subseteq Holding'
            BY MediaKept
        <3>2. Holding' \subseteq 0 .. EndSeq
            BY DEF FrameSeqs
        <3> QED
            BY <2>1, <3>1, <3>2 DEF Durable!Next, Durable!Hold
    <2>2. CASE Serve /\ ReadAck
        <3>1. /\ srv # "complete" /\ acked' = acked + 1
              /\ acked \in Holding
              /\ srv' = "complete" => acked = EndSeq
            BY <2>2, CountStep
        <3>2. Holding' = Holding
            BY <2>2, CountStep DEF OnMedia, Media
        <3>3. (srv' = "complete") \in {FALSE, acked = EndSeq}
            BY <3>1
        <3> QED
            BY <3>1, <3>2, <3>3 DEF Durable!Next, Durable!Count
    <2> QED
        BY <2>1, <2>2, CountSteps
<1>3. Spec => []PipeInv
    BY PipelineInvariant
<1>4. Spec => []MediaInv
    BY MediaHolds
<1> QED
    BY <1>1, <1>2, <1>3, <1>4, PTL DEF Spec, StoresArchive, Durable!Spec

-----------------------------------------------------------------------------
(* The dialogue of the two ends: one request or one reply at a time.       *)

Asked(q) == \E i \in DOMAIN q : q[i].type = "next_frame"
AskedOnce(q) ==
    \A i, j \in DOMAIN q :
        q[i].type = "next_frame" /\ q[j].type = "next_frame" => i = j
OnlyRequests(q) == \A i \in DOMAIN q : q[i].type # "other"

\* Each end knows of the other what it can.
LinkInv ==
    /\ serverAlive => InCall
    /\ serverAlive /\ recv # "off" => writerAlive
    /\ InCall /\ ~serverAlive => ~writerAlive /\ toWriter = <<>>
    /\ ~InCall => ~committed /\ ~endSent

\* The reply the writer is waiting for; archive_end is the last one.
Replied ==
    /\ Len(toWriter) = 1
    /\ endSent => toWriter[1].type = "frame_record" /\ toWriter[1].seq = EndSeq

RequestInv ==
    /\ OnlyRequests(toServer) /\ AskedOnce(toServer)
    /\ InCall /\ Asked(toServer) => srv = "request" /\ ~endSent
    /\ srv \in {"serve", "drain"} => ~endSent
    /\ serverAlive /\ recv = "request" =>
           ~Asked(toServer) /\ srv = "request" /\ ~endSent /\ toWriter = <<>>
    /\ serverAlive /\ recv = "await" =>
           \/ /\ toWriter = <<>> /\ ~endSent
              /\ Asked(toServer) \/ srv \in {"serve", "drain"}
           \/ Replied /\ ~Asked(toServer) /\ srv = "request"

\* Only the end of the archive or of the producer closes the queue.
ClosedInv == queueClosed => producer = "failed" \/ srv = "complete"

DialogueInv == ClosedInv /\ LinkInv /\ RequestInv

\* A message is read.
LEMMA AskedTail ==
    ASSUME NEW q \in Seq(Requests), q # <<>>
    PROVE  /\ AskedOnce(q) => AskedOnce(Tail(q))
           /\ OnlyRequests(q) => OnlyRequests(Tail(q))
           /\ Asked(Tail(q)) => Asked(q)
           /\ Head(q).type = "next_frame" =>
                  Asked(q) /\ (AskedOnce(q) => ~Asked(Tail(q)))
           /\ Head(q).type # "next_frame" => (Asked(Tail(q)) <=> Asked(q))
<1> DEFINE t == Tail(q)
<1>1. /\ Len(q) \in Nat \ {0} /\ DOMAIN q = 1 .. Len(q) /\ Head(q) = q[1]
      /\ DOMAIN t = 1 .. Len(q) - 1 /\ \A i \in 1 .. Len(q) - 1 : t[i] = q[i + 1]
    OBVIOUS
<1> HIDE DEF t
<1>2. \A i \in DOMAIN t : i + 1 \in DOMAIN q /\ i + 1 # 1 /\ t[i] = q[i + 1]
    BY <1>1
<1>3. \A i \in DOMAIN q : i # 1 => i - 1 \in DOMAIN t /\ t[i - 1] = q[i]
    BY <1>1
<1>4. AskedOnce(q) => AskedOnce(t)
  <2> SUFFICES ASSUME AskedOnce(q), NEW i \in DOMAIN t, NEW j \in DOMAIN t,
                      t[i].type = "next_frame", t[j].type = "next_frame"
               PROVE  i = j
    BY DEF AskedOnce
  <2>1. i + 1 = j + 1
    BY <1>2 DEF AskedOnce
  <2> QED BY <1>1, <2>1
<1>5. OnlyRequests(q) => OnlyRequests(t)
    BY <1>2 DEF OnlyRequests
<1>6. Asked(t) => Asked(q)
    BY <1>2 DEF Asked
<1>7. 1 \in DOMAIN q
    BY <1>1
<1>8. Head(q).type = "next_frame" => Asked(q) /\ (AskedOnce(q) => ~Asked(t))
    BY <1>1, <1>2, <1>7 DEF Asked, AskedOnce
<1>9. Head(q).type # "next_frame" => (Asked(t) <=> Asked(q))
    BY <1>1, <1>3, <1>6 DEF Asked
<1> QED BY <1>4, <1>5, <1>6, <1>8, <1>9 DEF t

\* Messages are lost with the connection.
LEMMA AskedTruncated ==
    ASSUME NEW q \in Seq(Requests), NEW t \in Truncations(q)
    PROVE  /\ AskedOnce(q) => AskedOnce(t)
           /\ OnlyRequests(q) => OnlyRequests(t)
           /\ Asked(t) => Asked(q)
<1>1. /\ t \in Seq(Requests) /\ Len(t) <= Len(q)
      /\ \A i \in 1 .. Len(t) : t[i] = q[i]
    BY TruncationsProps
<1>2. /\ Len(q) \in Nat /\ Len(t) \in Nat
      /\ DOMAIN q = 1 .. Len(q) /\ DOMAIN t = 1 .. Len(t)
    BY <1>1, LenProperties
<1>3. \A i \in DOMAIN t : i \in DOMAIN q /\ t[i] = q[i]
    BY <1>1, <1>2
<1> QED BY <1>3 DEF AskedOnce, OnlyRequests, Asked

\* A message is sent.
LEMMA AskedSent ==
    ASSUME NEW q \in Seq(Requests), NEW m \in Requests, NEW alive,
           m.type # "other"
    PROVE  /\ OnlyRequests(q) => OnlyRequests(Sent(q, alive, m))
           /\ m.type # "next_frame" =>
                  /\ AskedOnce(q) => AskedOnce(Sent(q, alive, m))
                  /\ Asked(Sent(q, alive, m)) <=> Asked(q)
           /\ m.type = "next_frame" /\ alive /\ ~Asked(q) =>
                  AskedOnce(Sent(q, alive, m)) /\ Asked(Sent(q, alive, m))
<1> DEFINE t == Append(q, m)
<1>1. /\ Len(q) \in Nat /\ DOMAIN q = 1 .. Len(q) /\ DOMAIN t = 1 .. Len(q) + 1
      /\ t[Len(q) + 1] = m /\ \A i \in 1 .. Len(q) : t[i] = q[i]
    OBVIOUS
<1> HIDE DEF t
<1>2. /\ \A i \in DOMAIN t : (i \in DOMAIN q /\ t[i] = q[i]) \/ i = Len(q) + 1
      /\ \A i \in DOMAIN q : i \in DOMAIN t /\ t[i] = q[i]
      /\ Len(q) + 1 \in DOMAIN t /\ Len(q) + 1 \notin DOMAIN q
    BY <1>1
<1>3. OnlyRequests(q) => OnlyRequests(t)
    BY <1>1, <1>2 DEF OnlyRequests
<1>4. m.type # "next_frame" =>
          (AskedOnce(q) => AskedOnce(t)) /\ (Asked(t) <=> Asked(q))
    BY <1>1, <1>2 DEF AskedOnce, Asked
<1>5. m.type = "next_frame" /\ ~Asked(q) => AskedOnce(t) /\ Asked(t)
    BY <1>1, <1>2 DEF AskedOnce, Asked
<1> QED BY <1>3, <1>4, <1>5 DEF Sent, t

\* Nothing is asked in an empty queue.
LEMMA NothingAsked ==
    ~Asked(<<>>) /\ AskedOnce(<<>>) /\ OnlyRequests(<<>>)
    BY DEF Asked, AskedOnce, OnlyRequests

\* A call has returned.
LEMMA DialogueCut ==
    ASSUME DialogueInv, srv' \in {"accept", "complete"}, queueClosed' => ClosedInv',
           serverAlive' = FALSE, committed' = FALSE, endSent' = FALSE,
           OnlyRequests(toServer'), AskedOnce(toServer')
    PROVE  DialogueInv'
<1>1. ~InCall'
    BY DEF InCall
<1>2. LinkInv'
    BY <1>1 DEF LinkInv
<1>3. RequestInv'
    BY <1>1 DEF RequestInv, InCall
<1> QED BY <1>2, <1>3 DEF DialogueInv, ClosedInv

LEMMA DialogueReturn ==
    ASSUME DialogueInv, InCall, Return(FALSE, committed), UNCHANGED producer,
           OnlyRequests(toServer'), AskedOnce(toServer')
    PROVE  DialogueInv'
<1>1. /\ srv' = "accept" /\ (queueClosed' => queueClosed)
      /\ serverAlive' = FALSE /\ committed' = FALSE /\ endSent' = FALSE
    BY DEF Return, DialogueInv, ClosedInv
<1> QED BY <1>1, DialogueCut DEF DialogueInv, ClosedInv, InCall

\* The server writes a reply to the request it read.
LEMMA DialogueReply ==
    ASSUME PipeInv, DialogueInv, srv \in {"serve", "drain"},
           NEW m \in Replies, NEW end \in BOOLEAN, Reply(m, end),
           end => m.type = "frame_record" /\ m.seq = EndSeq,
           UNCHANGED <<producer, toServer, writerAlive, recv>>
    PROVE  DialogueInv'
<1>1. CASE Return(FALSE, committed)
  <2>1. OnlyRequests(toServer') /\ AskedOnce(toServer') /\ InCall
    BY DEF DialogueInv, RequestInv, InCall
  <2> QED BY <1>1, <2>1, DialogueReturn
<1>2. CASE /\ toWriter' = Sent(toWriter, writerAlive, m)
           /\ srv' = "request" /\ endSent' = end
           /\ UNCHANGED <<committed, queueClosed, serverAlive>>
  <2>1. InCall /\ InCall' /\ ~Asked(toServer)
    BY <1>2 DEF DialogueInv, RequestInv, InCall
  <2>2. LinkInv'
    BY <1>2, <2>1 DEF DialogueInv, LinkInv, Sent
  <2>3. serverAlive /\ recv = "await" => Replied'
    <3> SUFFICES ASSUME serverAlive, recv = "await" PROVE Replied'
      OBVIOUS
    <3>1. toWriter = <<>> /\ writerAlive
      BY DEF DialogueInv, RequestInv, LinkInv
    <3>2. toWriter' = <<m>>
      BY <1>2, <3>1 DEF Sent
    <3> QED BY <1>2, <3>2 DEF Replied, EndSeq
  <2>4. serverAlive => recv # "request"
    BY DEF DialogueInv, RequestInv
  <2>5. RequestInv'
    BY <1>2, <2>1, <2>3, <2>4 DEF DialogueInv, RequestInv
  <2> QED BY <1>2, <2>2, <2>5 DEF DialogueInv, ClosedInv
<1> QED BY <1>1, <1>2 DEF Reply

LEMMA DialogueServe ==
    ASSUME PipeInv, DialogueInv, Serve
    PROVE  DialogueInv'
<1>1. /\ ServerInv /\ ServerTypeOK /\ toServer \in Seq(Requests)
      /\ ServerNext /\ UNCHANGED <<producer, recv>>
      /\ OnlyRequests(toServer) /\ AskedOnce(toServer)
    BY DEF PipeInv, ServerInv, ServerTypeOK, Serve, ServerNext, writerVars,
           ReadAck, ReadAckOutOfOrder, ReadNextFrame, ReadRefused, ReadEof,
           SendRetained, SendNewFrame, SendTapeEof, TakeDone, QueueEnded,
           SendArchiveEnd, Popped, producerVars, DialogueInv, RequestInv
<1>2. ASSUME NEW type, Received(type)
      PROVE  /\ InCall /\ OnlyRequests(toServer') /\ AskedOnce(toServer')
             /\ type # "next_frame" => (Asked(toServer') <=> Asked(toServer))
             /\ type = "next_frame" => Asked(toServer) /\ ~Asked(toServer')
  <2>1. /\ toServer # <<>> /\ toServer' = Tail(toServer)
        /\ Head(toServer).type = type /\ InCall
    BY <1>2 DEF Received, AwaitsMessage, InCall
  <2> QED BY <1>1, <2>1, AskedTail
<1>3. CASE ReadAck
  <2>1. Received("ack_frame") /\ UNCHANGED <<toWriter, writerAlive>>
    BY <1>3 DEF ReadAck, Received
  <2>2. /\ InCall /\ OnlyRequests(toServer') /\ AskedOnce(toServer')
        /\ Asked(toServer') <=> Asked(toServer)
    BY <1>2, <2>1
  <2>3. CASE Return(TRUE, TRUE)
    <3>1. /\ srv' = "complete" /\ serverAlive' = FALSE /\ committed' = FALSE
          /\ endSent' = FALSE
      BY <2>3 DEF Return
    <3> QED BY <2>2, <3>1, DialogueCut DEF ClosedInv
  <2>4. CASE UNCHANGED <<srv, endSent, serverAlive, queueClosed>>
    <3>1. InCall' /\ LinkInv' /\ ClosedInv'
      BY <1>1, <2>1, <2>2, <2>4 DEF InCall, DialogueInv, LinkInv, ClosedInv
    <3>2. Replied' <=> Replied
      BY <2>1, <2>4 DEF Replied, EndSeq
    <3>3. RequestInv'
      BY <1>1, <2>1, <2>2, <2>4, <3>1, <3>2 DEF DialogueInv, RequestInv
    <3> QED BY <3>1, <3>3 DEF DialogueInv
  <2> QED BY <1>3, <2>3, <2>4 DEF ReadAck
<1>4. CASE ReadAckOutOfOrder \/ ReadRefused
  <2>1. \E type : Received(type)
    BY <1>4 DEF ReadAckOutOfOrder, ReadRefused
  <2>2. Return(FALSE, committed)
    BY <1>4 DEF ReadAckOutOfOrder, ReadRefused, Refuse
  <2> QED BY <1>1, <1>2, <2>1, <2>2, DialogueReturn
<1>5. CASE ReadEof \/ QueueEnded
  <2>1. InCall /\ Return(FALSE, committed) /\ toServer' = toServer
    BY <1>5 DEF ReadEof, QueueEnded, Refuse, AwaitsMessage, Serving, InCall
  <2> QED BY <1>1, <2>1, DialogueReturn
<1>6. CASE ReadNextFrame
  <2>1. /\ Received("next_frame") /\ srv = "request" /\ srv' = "serve" /\ ~endSent
        /\ UNCHANGED <<queueClosed, endSent, committed, toWriter, writerAlive,
                       serverAlive>>
    BY <1>6 DEF ReadNextFrame, Received, queueVars, callVars
  <2>2. /\ InCall /\ OnlyRequests(toServer') /\ AskedOnce(toServer')
        /\ Asked(toServer) /\ ~Asked(toServer')
    BY <1>2, <2>1
  <2>3. InCall' /\ LinkInv' /\ ClosedInv'
    BY <1>1, <2>1, <2>2 DEF InCall, DialogueInv, LinkInv, ClosedInv
  <2>4. serverAlive => recv # "request" /\ (recv = "await" => toWriter = <<>>)
    BY <2>2 DEF DialogueInv, RequestInv
  <2>5. RequestInv'
    BY <1>1, <2>1, <2>2, <2>3, <2>4 DEF RequestInv
  <2> QED BY <2>3, <2>5 DEF DialogueInv
<1>7. CASE SendRetained
  <2> DEFINE m == FrameRecord(nextSend, volumeNum)
             end == (nextSend = EndSeq)
  <2>1. /\ srv \in {"serve", "drain"} /\ Reply(m, end) /\ end \in BOOLEAN
        /\ UNCHANGED <<toServer, writerAlive>>
        /\ m \in Replies /\ m.type = "frame_record" /\ m.seq = nextSend
    BY <1>1, <1>7, ReplyTypes DEF SendRetained, Serving, FrameRecord, ServerTypeOK
  <2>2. end => m.type = "frame_record" /\ m.seq = EndSeq
    BY <2>1
  <2> HIDE DEF m, end
  <2> QED BY <1>1, <2>1, <2>2, DialogueReply
<1>8. CASE SendNewFrame
  <2> DEFINE m == FrameRecord(Head(frameQueue).seq, volumeNum)
  <2>1. Popped("frame") /\ UNCHANGED <<toServer, writerAlive>> /\ srv = "serve"
    BY <1>8 DEF SendNewFrame, Popped, Serving
  <2>2. CASE Return(FALSE, committed)
    BY <1>1, <2>1, <2>2, DialogueReturn DEF InCall
  <2>3. CASE Reply(m, FALSE)
    <3>1. Head(frameQueue) \in Items /\ volumeNum \in Nat
      BY <1>1, <2>1 DEF Popped, ServerTypeOK
    <3>2. m \in Replies
      BY <3>1, ReplyTypes DEF Items
    <3> HIDE DEF m
    <3> QED BY <1>1, <2>1, <2>3, <3>2, DialogueReply
  <2> QED BY <1>8, <2>2, <2>3 DEF SendNewFrame, Refuse
<1>9. CASE SendTapeEof
  <2>1. /\ Reply(TapeEof, FALSE) /\ UNCHANGED <<toServer, writerAlive>>
        /\ srv = "serve" /\ TapeEof \in Replies
    BY <1>9, ReplyTypes DEF SendTapeEof, Popped, Serving
  <2> QED BY <1>1, <2>1, DialogueReply
<1>10. CASE TakeDone
  <2>1. /\ srv = "serve" /\ srv' = "drain"
        /\ UNCHANGED <<queueClosed, endSent, committed, toServer, toWriter,
                       writerAlive, serverAlive>>
    BY <1>10 DEF TakeDone, Popped, Serving, callVars
  <2>2. InCall /\ InCall' /\ ~Asked(toServer) /\ ~endSent
    BY <2>1 DEF InCall, DialogueInv, RequestInv
  <2>3. LinkInv' /\ ClosedInv'
    BY <1>1, <2>1, <2>2 DEF DialogueInv, LinkInv, ClosedInv
  <2>4. serverAlive => recv # "request" /\ (recv = "await" => toWriter = <<>>)
    BY <2>1 DEF DialogueInv, RequestInv
  <2>5. RequestInv'
    BY <1>1, <2>1, <2>2, <2>4 DEF RequestInv
  <2> QED BY <2>3, <2>5 DEF DialogueInv
<1>11. CASE SendArchiveEnd
  <2> DEFINE m == FrameRecord(EndSeq, volumeNum)
  <2>1. Reply(m, TRUE) /\ UNCHANGED <<toServer, writerAlive>> /\ srv = "drain"
    BY <1>11 DEF SendArchiveEnd
  <2>2. EndSeq \in FrameSeqs /\ volumeNum \in Nat
    BY <1>1, Ranges DEF FrameSeqs, ServerTypeOK
  <2>3. m \in Replies /\ m.type = "frame_record" /\ m.seq = EndSeq
    BY <2>2, ReplyTypes DEF FrameRecord
  <2> HIDE DEF m
  <2> QED BY <1>1, <2>1, <2>3, DialogueReply
<1> QED BY <1>1, <1>3, <1>4, <1>5, <1>6, <1>7, <1>8, <1>9, <1>10, <1>11 DEF ServerNext

LEMMA DialogueProduce ==
    ASSUME DialogueInv, Produce
    PROVE  DialogueInv'
<1>1. /\ UNCHANGED <<srv, endSent, committed, toServer, toWriter, writerAlive,
                     serverAlive, recv>>
      /\ producer' = "failed" \/ (queueClosed' = queueClosed /\ producer # "failed")
    BY DEF Produce, ProducerNext, ProduceFrame, EndSlice, ProduceDone, ProducerFails,
           Push, serverVars, wire, writerVars
<1>2. (InCall' <=> InCall) /\ (Replied' <=> Replied)
    BY <1>1 DEF InCall, Replied, EndSeq
<1> QED BY <1>1, <1>2 DEF DialogueInv, ClosedInv, LinkInv, RequestInv

\* The writer asks only when it has had its reply.
LEMMA DialogueReceiver ==
    ASSUME PipeInv, DialogueInv, Receiver
    PROVE  DialogueInv'
<1>1. /\ UNCHANGED <<srv, endSent, committed, producer, queueClosed, writerAlive,
                     serverAlive>>
      /\ ReceiverNext /\ recv # "off" /\ toServer \in Seq(Requests)
    BY DEF Receiver, ReceiverNext, archiverVars, producerVars, queueVars, serverVars,
           RequestFrame, Receive, ReceiveEof, NoticeOutputEnded, PipeInv, ServerInv,
           ServerTypeOK
<1>2. InCall' <=> InCall
    BY <1>1 DEF InCall
<1>3. ClosedInv'
    BY <1>1 DEF DialogueInv, ClosedInv
<1>4. CASE RequestFrame
  <2>1. UNCHANGED toWriter /\ recv = "request"
    BY <1>4 DEF RequestFrame
  <2>2. LinkInv'
    BY <1>1, <1>2, <2>1 DEF DialogueInv, LinkInv
  <2>3. CASE recv' = "join" /\ UNCHANGED toServer
    BY <1>1, <1>2, <1>3, <2>2, <2>3 DEF DialogueInv, RequestInv
  <2>4. CASE recv' = "await" /\ toServer' = Sent(toServer, serverAlive, NextFrame)
    <3>1. CASE ~serverAlive
      <4>1. toServer' = toServer
        BY <2>4, <3>1 DEF Sent
      <4> QED BY <1>1, <1>2, <1>3, <2>2, <2>4, <3>1, <4>1 DEF DialogueInv, RequestInv
    <3>2. CASE serverAlive
      <4>1. ~Asked(toServer) /\ srv = "request" /\ ~endSent /\ toWriter = <<>>
        BY <2>1, <3>2 DEF DialogueInv, RequestInv
      <4>2. NextFrame \in Requests /\ NextFrame.type = "next_frame"
        BY Kinds
      <4> HIDE DEF NextFrame
      <4>3. OnlyRequests(toServer') /\ AskedOnce(toServer') /\ Asked(toServer')
        BY <1>1, <2>4, <3>2, <4>1, <4>2, AskedSent DEF DialogueInv, RequestInv
      <4>4. RequestInv'
        BY <1>1, <2>1, <2>4, <4>1, <4>3 DEF RequestInv
      <4> QED BY <1>3, <2>2, <4>4 DEF DialogueInv
    <3> QED BY <3>1, <3>2
  <2> QED BY <1>4, <2>3, <2>4 DEF RequestFrame, StopReceiving
<1>5. CASE Receive
  <2> DEFINE m == Head(toWriter)
  <2>1. /\ recv = "await" /\ toWriter # <<>> /\ UNCHANGED toServer
        /\ toWriter' = Tail(toWriter)
        /\ ReceiveFrame(m) \/ ReceiveTapeEof(m) \/ ReceiveError(m)
    BY <1>5 DEF Receive
  <2>2. toWriter \in Seq(Replies)
    BY DEF PipeInv, ServerInv, ServerTypeOK
  <2>3. serverAlive => /\ Replied /\ ~Asked(toServer) /\ srv = "request"
                       /\ toWriter' = <<>> /\ m = toWriter[1]
    <3>1. serverAlive => Replied /\ ~Asked(toServer) /\ srv = "request"
      BY <2>1 DEF DialogueInv, RequestInv
    <3>2. Replied => toWriter' = <<>> /\ m = toWriter[1]
      BY <2>1, <2>2 DEF Replied
    <3> QED BY <3>1, <3>2
  <2>4. InCall /\ ~serverAlive => FALSE
    BY <2>1 DEF DialogueInv, LinkInv
  <2>5. LinkInv'
    BY <1>1, <1>2, <2>4 DEF DialogueInv, LinkInv
  <2>6. serverAlive /\ recv' = "request" => ~endSent
    <3> SUFFICES ASSUME serverAlive, recv' = "request", endSent PROVE FALSE
      OBVIOUS
    <3>1. m.type = "frame_record" /\ m.seq = EndSeq
      BY <2>3 DEF Replied
    <3>2. ReceiveFrame(m)
      BY <2>1, <3>1 DEF ReceiveTapeEof, ReceiveError
    <3> HIDE DEF m
    <3> QED BY <3>1, <3>2 DEF ReceiveFrame, Enqueue, StopReceiving
  <2>7. recv' \in {"request", "join"}
    BY <2>1 DEF ReceiveFrame, ReceiveTapeEof, ReceiveError, Enqueue, StopReceiving
  <2>8. RequestInv'
    BY <1>1, <1>2, <2>1, <2>3, <2>6, <2>7 DEF DialogueInv, RequestInv
  <2> QED BY <1>3, <2>5, <2>8 DEF DialogueInv
<1>6. CASE ReceiveEof \/ NoticeOutputEnded
  <2>1. recv' = "join" /\ UNCHANGED <<toServer, toWriter>>
    BY <1>6 DEF ReceiveEof, NoticeOutputEnded, StopReceiving
  <2>2. LinkInv'
    BY <1>1, <1>2, <2>1 DEF DialogueInv, LinkInv
  <2> QED BY <1>1, <1>2, <1>3, <2>1, <2>2 DEF DialogueInv, RequestInv
<1> QED BY <1>1, <1>4, <1>5, <1>6 DEF ReceiverNext

\* The output thread sends acknowledgements only.
LEMMA DialogueOutput ==
    ASSUME PipeInv, DialogueInv, Output
    PROVE  DialogueInv'
<1>1. /\ UNCHANGED <<srv, endSent, committed, producer, queueClosed, writerAlive,
                     serverAlive, recv, toWriter>>
      /\ \/ UNCHANGED toServer
         \/ /\ toServer' = Sent(toServer, serverAlive, AckFrame(inHand.seq))
            /\ out \in {"ack", "ack last"}
    BY DEF Output, OutputNext, archiverVars, producerVars, queueVars, serverVars,
           TakeItem, InputEnded, WriteRecord, WriteMark, SendAck, WriteFinalMark
<1>2. (InCall' <=> InCall) /\ (Replied' <=> Replied)
    BY <1>1 DEF InCall, Replied, EndSeq
<1>3. /\ OnlyRequests(toServer') /\ AskedOnce(toServer')
      /\ Asked(toServer') <=> Asked(toServer)
  <2>1. CASE UNCHANGED toServer
    BY <2>1 DEF DialogueInv, RequestInv
  <2>2. CASE ~UNCHANGED toServer
    <3> DEFINE m == AckFrame(inHand.seq)
    <3>1. inHand \in Records /\ inHand.kind = "frame" /\ toServer \in Seq(Requests)
      BY <1>1, <2>2, Kinds DEF PipeInv, OutputInv, WriterTypeOK, ServerInv, ServerTypeOK,
                               Records
    <3>2. m \in Requests /\ m.type = "ack_frame"
      BY <3>1, Kinds
    <3> HIDE DEF m
    <3>3. toServer' = Sent(toServer, serverAlive, m)
      BY <1>1, <2>2 DEF m
    <3> QED BY <3>1, <3>2, <3>3, AskedSent DEF DialogueInv, RequestInv
  <2> QED BY <2>1, <2>2
<1> QED BY <1>1, <1>2, <1>3 DEF DialogueInv, ClosedInv, LinkInv, RequestInv

LEMMA DialogueFault ==
    ASSUME PipeInv, DialogueInv, Exit \/ Kill \/ LinkReset
    PROVE  DialogueInv'
<1>1. /\ UNCHANGED <<srv, endSent, committed, producer, queueClosed>>
      /\ writerAlive' = FALSE
      /\ toServer' = toServer \/ toServer' \in Truncations(toServer)
      /\ \/ recv' = "off" /\ UNCHANGED <<toWriter, serverAlive>>
         \/ serverAlive' = FALSE /\ toWriter' = <<>>
      /\ toServer \in Seq(Requests)
    BY DEF Exit, Kill, LinkReset, WriterExits, WriterKilled, archiverVars, producerVars,
           queueVars, serverVars, PipeInv, ServerInv, ServerTypeOK
<1>2. InCall' <=> InCall
    BY <1>1 DEF InCall
<1>3. /\ OnlyRequests(toServer') /\ AskedOnce(toServer')
      /\ Asked(toServer') => Asked(toServer)
    BY <1>1, AskedTruncated DEF DialogueInv, RequestInv
<1>4. LinkInv'
    BY <1>1, <1>2 DEF DialogueInv, LinkInv
<1>5. RequestInv'
    BY <1>1, <1>2, <1>3 DEF DialogueInv, RequestInv
<1> QED BY <1>1, <1>4, <1>5 DEF DialogueInv, ClosedInv

LEMMA DialogueConnect ==
    ASSUME DialogueInv, Connect
    PROVE  DialogueInv'
<1>1. /\ srv = "accept" /\ srv' = "request" /\ endSent' = FALSE
      /\ committed' = FALSE /\ toServer' = <<>> /\ toWriter' = <<>>
      /\ writerAlive' = TRUE /\ serverAlive' = TRUE /\ recv' = "request"
      /\ UNCHANGED <<producer, queueClosed>>
    BY DEF Connect, Accept, Open, StartWriter, producerVars, queueVars
<1>2. InCall' /\ ClosedInv'
    BY <1>1 DEF InCall, DialogueInv, ClosedInv
<1>3. LinkInv' /\ RequestInv'
    BY <1>1, <1>2, NothingAsked DEF LinkInv, RequestInv
<1> QED BY <1>2, <1>3 DEF DialogueInv

LEMMA DialogueKept ==
    ASSUME DialogueInv,
           UNCHANGED <<srv, endSent, committed, producer, queueClosed, toServer,
                       toWriter, writerAlive, serverAlive, recv>>
    PROVE  DialogueInv'
<1>1. (InCall' <=> InCall) /\ (Replied' <=> Replied)
    BY DEF InCall, Replied, EndSeq
<1> QED BY <1>1 DEF DialogueInv, ClosedInv, LinkInv, RequestInv

LEMMA DialogueStep ==
    ASSUME PipeInv, DialogueInv, [Next]_vars
    PROVE  DialogueInv'
<1>1. CASE Finished \/ UNCHANGED vars
    BY <1>1, DialogueKept DEF Finished, vars, producerVars, queueVars, serverVars, wire,
                              writerVars
<1> QED BY <1>1, DialogueServe, DialogueProduce, DialogueReceiver, DialogueOutput,
           DialogueFault, DialogueConnect DEF Next

LEMMA DialogueStart == Init => DialogueInv
<1> SUFFICES ASSUME Init PROVE DialogueInv
    OBVIOUS
<1>1. /\ srv = "accept" /\ queueClosed = FALSE /\ committed = FALSE /\ endSent = FALSE
      /\ serverAlive = FALSE /\ toServer = <<>>
    BY DEF Init, ServerInit, WireInit
<1> QED BY <1>1, NothingAsked
        DEF DialogueInv, ClosedInv, LinkInv, RequestInv, InCall

-----------------------------------------------------------------------------
(* What is handed on between the server and the medium.                    *)

\* What the server sends: of frames only those of its volume number, and
\* archive_end only behind a producer that has finished.
LEMMA ServerSends ==
    ASSUME PipeInv, Serve, NEW R, toWriter \in Seq(R), TapeEof \in R,
           \A why \in Reasons : Error(why) \in R,
           \A n \in FrameSeqs :
               (n = EndSeq => producer = "finished") => FrameRecord(n, volumeNum) \in R
    PROVE  toWriter' \in Seq(R)
<1>1. /\ ServerInv /\ ServerTypeOK /\ ServerNext
      /\ EndSeq = NumFrames /\ NumFrames \in Nat
    BY Ranges DEF PipeInv, ServerInv, Serve
<1>2. ASSUME NEW why \in Reasons, Refuse(why)
      PROVE  toWriter' \in Seq(R)
  <2>1. Sent(toWriter, writerAlive, Error(why)) \in Seq(R)
    BY SentProps
  <2> QED BY <1>2, <2>1, TruncationsProps DEF Refuse
<1>3. ASSUME NEW m \in R, NEW end, Reply(m, end)
      PROVE  toWriter' \in Seq(R)
    BY <1>3, SentProps DEF Reply
<1>4. CASE ReadAckOutOfOrder \/ ReadRefused \/ QueueEnded
  <2>1. \E why \in Reasons : Refuse(why)
    BY <1>4 DEF ReadAckOutOfOrder, ReadRefused, QueueEnded, Reasons
  <2> QED BY <1>2, <2>1
<1>5. CASE ReadAck \/ ReadNextFrame \/ ReadEof \/ TakeDone
    BY <1>5 DEF ReadAck, ReadNextFrame, ReadEof, TakeDone
<1>6. CASE SendRetained
  <2>1. nextSend \in acked .. Held - 1 /\ nextSend \in FrameSeqs
    BY <1>1, <1>6 DEF SendRetained, ServerInv, WindowInv, ServerTypeOK
  <2>2. nextSend = EndSeq => producer = "finished"
    <3>1. ~EndBuilt => Held = Taken /\ Taken <= EndSeq
      BY <1>1, Ranges DEF Held
    <3>2. nextSend = EndSeq => EndBuilt
      BY <1>1, <2>1, <3>1, Ranges
    <3> QED BY <1>1, <3>2 DEF ServerInv, WindowInv
  <2> QED BY <1>3, <1>6, <2>1, <2>2 DEF SendRetained
<1>7. CASE SendNewFrame
  <2>1. Popped("frame") /\ UNCHANGED producerVars
    BY <1>7 DEF SendNewFrame, Popped
  <2>2. Head(frameQueue).seq = Taken /\ Taken < NumFrames
    BY <1>1, <2>1, PopProps
  <2>3. Taken \in FrameSeqs /\ Taken # EndSeq
    BY <1>1, <2>2, Ranges DEF FrameSeqs
  <2>4. CASE Refuse("no longer retained")
    BY <1>2, <2>4 DEF Reasons
  <2> QED BY <1>3, <1>7, <2>2, <2>3, <2>4 DEF SendNewFrame
<1>8. CASE SendTapeEof
    BY <1>3, <1>8 DEF SendTapeEof
<1>9. CASE SendArchiveEnd
  <2>1. producer = "finished" /\ EndSeq \in FrameSeqs
    BY <1>1, <1>9 DEF SendArchiveEnd, ServerInv, WindowInv, FrameSeqs
  <2> QED BY <1>3, <1>9, <2>1 DEF SendArchiveEnd
<1> QED BY <1>1, <1>4, <1>5, <1>6, <1>7, <1>8, <1>9 DEF ServerNext

\* The writer puts nothing into its buffer that the server did not send.
LEMMA HandedOn ==
    ASSUME [Next]_vars, ~Serve, NEW R, NEW B, toWriter \in Seq(R), buffer \in Seq(B),
           inHand \in B \cup {Nothing}, Mark \in B,
           \A m \in R : m.type = "frame_record" => Record(m.seq, m.vol) \in B
    PROVE  /\ toWriter' \in Seq(R) /\ buffer' \in Seq(B) /\ inHand' \in B \cup {Nothing}
<1>1. <<>> \in Seq(R) /\ <<>> \in Seq(B)
    OBVIOUS
<1>2. CASE Receiver /\ Receive
  <2> DEFINE m == Head(toWriter)
  <2>1. /\ toWriter # <<>> /\ toWriter' = Tail(toWriter) /\ inHand' = inHand
        /\ ReceiveFrame(m) \/ ReceiveTapeEof(m) \/ ReceiveError(m)
    BY <1>2 DEF Receiver, ReceiverNext, Receive
  <2>2. m \in R /\ toWriter' \in Seq(R)
    BY <2>1, HeadTailProperties
  <2> HIDE DEF m
  <2>3. \/ buffer' = buffer \/ buffer' = Append(buffer, Mark)
        \/ buffer' = Append(buffer, Record(m.seq, m.vol)) /\ m.type = "frame_record"
    BY <2>1 DEF ReceiveFrame, ReceiveTapeEof, ReceiveError, Enqueue
  <2> HIDE DEF Mark, Record
  <2>4. /\ Append(buffer, Mark) \in Seq(B)
        /\ m.type = "frame_record" => Append(buffer, Record(m.seq, m.vol)) \in Seq(B)
    BY <2>2, AppendProps
  <2>5. buffer' \in Seq(B)
    BY <2>3, <2>4
  <2> QED BY <2>1, <2>2, <2>5
<1>3. CASE Output /\ TakeItem
    BY <1>1, <1>3, HeadTailProperties DEF Output, OutputNext, TakeItem
<1>4. CASE ~(Receiver /\ Receive) /\ ~(Output /\ TakeItem)
  <2>1. /\ toWriter' \in {toWriter, <<>>} /\ buffer' \in {buffer, <<>>}
        /\ inHand' \in {inHand, Nothing}
    <3>1. CASE Connect \/ Produce \/ Exit \/ Kill \/ LinkReset \/ Finished \/ UNCHANGED vars
      BY <3>1 DEF Connect, StartWriter, Open, Produce, ProducerNext, Exit, WriterExits, Kill,
             WriterKilled, LinkReset, Finished, wire, writerVars, vars
    <3>2. CASE Receiver
      BY <1>4, <3>2 DEF Receiver, ReceiverNext, RequestFrame, ReceiveEof, NoticeOutputEnded
    <3>3. CASE Output
      BY <1>4, <3>3 DEF Output, OutputNext, InputEnded, WriteRecord, WriteMark, SendAck,
             WriteFinalMark, StopOutput
    <3> QED BY <3>1, <3>2, <3>3 DEF Next
  <2> QED BY <1>1, <2>1
<1> QED BY <1>2, <1>3, <1>4

\* What a step does to the media.
LEMMA MediumSteps ==
    ASSUME PipeInv, [Next]_vars
    PROVE  \/ mounted' = mounted /\ shelf' = shelf
           \/ mounted' = Append(mounted, Mark) /\ shelf' = shelf
           \/ /\ mounted' = Append(mounted, inHand) /\ shelf' = shelf
              /\ Output /\ out = "write" /\ IsFrame(inHand)
           \/ /\ mounted' = <<>>
              /\ shelf' = IF mounted = <<>> THEN shelf ELSE Append(shelf, mounted)
              /\ Connect
           \/ mounted' \in Truncations(mounted) /\ shelf' = shelf /\ SpoolTarget /\ Kill
<1>1. CASE Connect
    BY <1>1 DEF Connect, StartWriter
<1>2. CASE Produce \/ Serve \/ Receiver \/ LinkReset \/ Exit \/ Finished \/ UNCHANGED vars
    BY <1>2 DEF Produce, Serve, Receiver, ReceiverNext, LinkReset, Exit, WriterExits, Finished,
                writerVars, vars
<1>3. CASE Kill
  <2>1. DOMAIN mounted = 1 .. Len(mounted) /\ Len(mounted) \in Nat
    BY LenProperties DEF PipeInv, WriterTypeOK
  <2>2. shelf' = shelf /\ mounted' \in Readable(mounted)
    BY <1>3 DEF Kill, WriterKilled
  <2>3. CASE SpoolTarget
    <3>1. PICK i \in {k \in DOMAIN mounted : mounted[k] = Mark} \cup {0} :
                 mounted' = SubSeq(mounted, 1, i)
      BY <2>2, <2>3 DEF Readable
    <3>2. i \in 0 .. Len(mounted)
      BY <2>1, <3>1
    <3> QED BY <1>3, <2>2, <2>3, <3>1, <3>2 DEF Truncations
  <2>4. CASE ~SpoolTarget
    BY <2>2, <2>4 DEF Readable
  <2> QED BY <2>3, <2>4
<1>4. CASE Output
  <2>1. shelf' = shelf
    BY <1>4 DEF Output, OutputNext
  <2>2. CASE TakeItem \/ InputEnded \/ SendAck
    BY <2>1, <2>2 DEF TakeItem, InputEnded, SendAck
  <2>3. CASE WriteRecord(Faulty)
    <3>1. /\ out = "write" /\ inHand.kind = "frame"
          /\ mounted' \in {mounted, Append(mounted, inHand)}
      BY <2>3 DEF WriteRecord, Uncertain
    <3>2. IsFrame(inHand)
      BY <3>1 DEF IsFrame
    <3> QED BY <1>4, <2>1, <3>1, <3>2
  <2>4. CASE WriteMark(Faulty) \/ WriteFinalMark(Faulty)
    <3> HIDE DEF Mark
    <3> QED BY <2>1, <2>4 DEF WriteMark, WriteFinalMark, Uncertain
  <2> QED BY <1>4, <2>2, <2>3, <2>4 DEF Output, OutputNext
<1> QED BY <1>1, <1>2, <1>3, <1>4 DEF Next

-----------------------------------------------------------------------------
(* A producer that has not finished leaves an archive without an end.      *)

DataReplies == {m \in Replies : m.type = "frame_record" => m.seq # EndSeq}
DataRecords == {r \in Records : r.kind = "frame" => r.seq # EndSeq}

\* Until the producer finishes no archive_end is on the way or on a medium.
NoEndInv ==
    producer # "finished" =>
        /\ toWriter \in Seq(DataReplies)
        /\ buffer \in Seq(DataRecords) /\ inHand \in DataRecords \cup {Nothing}
        /\ mounted \in Seq(DataRecords) /\ shelf \in Seq(Seq(DataRecords))

LEMMA NoEndStep ==
    ASSUME PipeInv, NoEndInv, [Next]_vars
    PROVE  NoEndInv'
<1> SUFFICES ASSUME producer' # "finished"
             PROVE  /\ toWriter' \in Seq(DataReplies)
                    /\ buffer' \in Seq(DataRecords)
                    /\ inHand' \in DataRecords \cup {Nothing}
                    /\ mounted' \in Seq(DataRecords)
                    /\ shelf' \in Seq(Seq(DataRecords))
    BY DEF NoEndInv, DataReplies, DataRecords, EndSeq
<1>1. producer # "finished"
  <2>1. CASE Produce
    BY <2>1 DEF Produce, ProducerNext, ProduceFrame, EndSlice, ProduceDone, ProducerFails
  <2>2. CASE Serve
    BY <2>2 DEF Serve, ServerNext, ReadAck, ReadAckOutOfOrder, ReadNextFrame, ReadRefused,
                ReadEof, SendRetained, SendNewFrame, SendTapeEof, TakeDone, QueueEnded,
                SendArchiveEnd, Popped, producerVars
  <2>3. CASE ~Produce /\ ~Serve
    BY <2>3 DEF Next, Connect, Receiver, Output, Exit, Kill, LinkReset, Finished,
                archiverVars, producerVars, vars
  <2> QED BY <2>1, <2>2, <2>3
<1>2. /\ toWriter \in Seq(DataReplies)
      /\ buffer \in Seq(DataRecords) /\ inHand \in DataRecords \cup {Nothing}
      /\ mounted \in Seq(DataRecords) /\ shelf \in Seq(Seq(DataRecords))
    BY <1>1 DEF NoEndInv
<1>3. Mark \in DataRecords
    BY Kinds DEF DataRecords, Records
<1>4. /\ TapeEof \in DataReplies
      /\ \A why \in Reasons : Error(why) \in DataReplies
      /\ \A n \in FrameSeqs : n # EndSeq => FrameRecord(n, volumeNum) \in DataReplies
  <2>1. volumeNum \in Nat
    BY DEF PipeInv, ServerInv, ServerTypeOK
  <2> QED BY <2>1, ReplyTypes DEF DataReplies, FrameRecord, Error, TapeEof
<1>5. \A m \in DataReplies : m.type = "frame_record" => Record(m.seq, m.vol) \in DataRecords
  <2>1. ASSUME NEW m \in DataReplies, m.type = "frame_record"
        PROVE  Record(m.seq, m.vol) \in DataRecords
    <3>1. m.seq \in FrameSeqs /\ m.vol \in Nat /\ m.seq # EndSeq
      BY <2>1 DEF DataReplies, Replies
    <3> QED BY <3>1, Kinds DEF DataRecords, Records
  <2> QED BY <2>1
<1>6. toWriter' \in Seq(DataReplies) /\ buffer' \in Seq(DataRecords)
      /\ inHand' \in DataRecords \cup {Nothing}
  <2> HIDE DEF Mark, TapeEof
  <2>1. CASE Serve
    <3>1. UNCHANGED <<buffer, inHand>>
      BY <2>1 DEF Serve, writerVars
    <3>2. toWriter' \in Seq(DataReplies)
      BY <1>1, <1>2, <1>4, <2>1, ServerSends
    <3> QED BY <1>2, <3>1, <3>2
  <2>2. CASE ~Serve
    BY <1>2, <1>3, <1>5, <2>2, HandedOn
  <2> QED BY <2>1, <2>2
<1>7. mounted' \in Seq(DataRecords) /\ shelf' \in Seq(Seq(DataRecords))
  <2> HIDE DEF Mark
  <2>1. <<>> \in Seq(DataRecords) /\ Append(mounted, Mark) \in Seq(DataRecords)
    BY <1>2, <1>3
  <2>2. Append(shelf, mounted) \in Seq(Seq(DataRecords))
    BY <1>2
  <2>3. IsFrame(inHand) => Append(mounted, inHand) \in Seq(DataRecords)
    <3>1. IsFrame(inHand) => inHand \in DataRecords
      BY <1>2, Kinds DEF IsFrame
    <3> QED BY <1>2, <3>1
  <2>4. \A t \in Truncations(mounted) : t \in Seq(DataRecords)
    BY <1>2, TruncationsProps
  <2> QED BY <1>2, <2>1, <2>2, <2>3, <2>4, MediumSteps
<1> QED BY <1>6, <1>7

\* A producer that fails leaves an archive without an end: no writer is given
\* an archive_end frame that would make it look complete.
THEOREM FailureLeavesNoEnd == Spec => []NoEndAfterFailure
<1>1. Init => NoEndInv
  <2>1. Init => toWriter = <<>> /\ buffer = <<>> /\ inHand = Nothing /\ mounted = <<>>
                /\ shelf = <<>>
    BY DEF Init, WireInit, WriterInit
  <2> QED BY <2>1 DEF NoEndInv
<1>2. PipeInv /\ NoEndInv => NoEndAfterFailure
  <2> SUFFICES ASSUME PipeInv, NoEndInv, producer = "failed", OnMedia(EndSeq)
               PROVE  FALSE
    BY DEF NoEndAfterFailure
  <2>1. mounted \in Seq(DataRecords) /\ shelf \in Seq(Seq(DataRecords))
    BY DEF NoEndInv
  <2>2. mounted \in Seq(Records) /\ shelf \in Seq(Seq(Records))
    BY DEF PipeInv, WriterTypeOK, Records
  <2>3. FrameOn(mounted, EndSeq) \/ \E v \in DOMAIN shelf : FrameOn(shelf[v], EndSeq)
    BY <2>2, OneMoreMedium DEF OnMedia, Media
  <2>4. ASSUME NEW t \in Seq(DataRecords)
        PROVE  ~FrameOn(t, EndSeq)
    <3>1. \A i \in DOMAIN t : t[i] \in DataRecords
      BY <2>4
    <3> QED BY <3>1 DEF FrameOn, IsFrame, DataRecords
  <2>5. \A v \in DOMAIN shelf : shelf[v] \in Seq(DataRecords)
    BY <2>1
  <2> QED BY <2>1, <2>3, <2>4, <2>5
<1> QED BY <1>1, <1>2, NoEndStep, PipelineInvariant, PTL DEF Spec

-----------------------------------------------------------------------------
(* Consecutive numbers in a queue.                                         *)

\* The members of K in q have numbers that rise from a without a gap.
Rising(q, K, a) ==
    \A i \in DOMAIN q : q[i] \in K =>
        /\ a <= q[i].seq
        /\ \A j \in DOMAIN q : i < j /\ q[j] \in K => q[i].seq < q[j].seq
        /\ \A n \in a .. q[i].seq - 1 :
               \E j \in DOMAIN q : j < i /\ q[j] \in K /\ q[j].seq = n

\* They are the numbers from a to b - 1, in their order.
Run(q, K, a, b) ==
    /\ a <= b
    /\ \A i \in DOMAIN q : q[i] \in K => a <= q[i].seq /\ q[i].seq < b
    /\ \A n \in a .. b - 1 : \E i \in DOMAIN q : q[i] \in K /\ q[i].seq = n
    /\ \A i, j \in DOMAIN q :
           i < j /\ q[i] \in K /\ q[j] \in K => q[i].seq < q[j].seq

Without(q, K) == \A i \in DOMAIN q : q[i] \notin K

LEMMA RunRises ==
    ASSUME NEW M, NEW q \in Seq(M), NEW K, \A r \in K : r.seq \in Nat,
           NEW a \in Nat, NEW b \in Nat, Run(q, K, a, b)
    PROVE  Rising(q, K, a)
<1> SUFFICES ASSUME NEW i \in DOMAIN q, q[i] \in K, NEW n \in a .. q[i].seq - 1
             PROVE  \E j \in DOMAIN q : j < i /\ q[j] \in K /\ q[j].seq = n
    BY DEF Run, Rising
<1>1. q[i].seq \in Nat /\ q[i].seq < b /\ DOMAIN q \subseteq Nat
    BY DEF Run
<1>2. n \in a .. b - 1
    BY <1>1
<1>3. PICK j \in DOMAIN q : q[j] \in K /\ q[j].seq = n
    BY <1>2 DEF Run
<1>4. ~(i < j) /\ i # j
    BY <1>1, <1>3 DEF Run
<1> QED BY <1>1, <1>3, <1>4

LEMMA RunTail ==
    ASSUME NEW M, NEW q \in Seq(M), q # <<>>, NEW K, \A r \in K : r.seq \in Nat,
           NEW a \in Nat, NEW b \in Nat, Run(q, K, a, b)
    PROVE  /\ Head(q) \in K => /\ Head(q).seq = a
                               /\ Run(Tail(q), K, a + 1, b)
           /\ Head(q) \notin K => Run(Tail(q), K, a, b)
<1> DEFINE t == Tail(q)
<1>1. /\ Len(q) \in Nat \ {0} /\ DOMAIN q = 1 .. Len(q) /\ Head(q) = q[1]
      /\ DOMAIN t = 1 .. Len(q) - 1 /\ \A i \in 1 .. Len(q) - 1 : t[i] = q[i + 1]
    OBVIOUS
<1> HIDE DEF t
<1>2. /\ \A i \in DOMAIN t : i \in Nat /\ i + 1 \in DOMAIN q /\ 1 < i + 1 /\ t[i] = q[i + 1]
      /\ \A i \in DOMAIN q : i # 1 => i - 1 \in DOMAIN t /\ t[i - 1] = q[i]
      /\ 1 \in DOMAIN q /\ \A i \in DOMAIN q : i = 1 \/ 1 < i
    BY <1>1
<1>3. ASSUME NEW i \in DOMAIN t, NEW j \in DOMAIN t, i < j, t[i] \in K, t[j] \in K
      PROVE  t[i].seq < t[j].seq
  <2>1. /\ i + 1 \in DOMAIN q /\ j + 1 \in DOMAIN q /\ i + 1 < j + 1
        /\ q[i + 1] = t[i] /\ q[j + 1] = t[j]
    BY <1>2, <1>3
  <2> QED BY <1>3, <2>1 DEF Run
<1>4. CASE q[1] \notin K
  <2>1. ASSUME NEW n \in a .. b - 1
        PROVE  \E i \in DOMAIN t : t[i] \in K /\ t[i].seq = n
    <3>1. PICK i \in DOMAIN q : q[i] \in K /\ q[i].seq = n
      BY <2>1 DEF Run
    <3>2. i # 1
      BY <1>4, <3>1
    <3> QED BY <1>2, <3>1, <3>2
  <2> QED BY <1>1, <1>2, <1>3, <1>4, <2>1 DEF Run, t
<1>5. CASE q[1] \in K
  <2>1. q[1].seq \in Nat /\ a <= q[1].seq /\ q[1].seq < b
    BY <1>2, <1>5 DEF Run
  <2>2. PICK j \in DOMAIN q : q[j] \in K /\ q[j].seq = a
    BY <2>1 DEF Run
  <2>3. j = 1
    BY <1>2, <1>5, <2>1, <2>2 DEF Run
  <2>4. \A i \in DOMAIN t : t[i] \in K => a + 1 <= t[i].seq /\ t[i].seq < b
    BY <1>2, <1>5, <2>2, <2>3 DEF Run
  <2>5. ASSUME NEW n \in (a + 1) .. b - 1
        PROVE  \E i \in DOMAIN t : t[i] \in K /\ t[i].seq = n
    <3>1. PICK i \in DOMAIN q : q[i] \in K /\ q[i].seq = n
      BY <2>5 DEF Run
    <3>2. i # 1
      BY <2>2, <2>3, <2>5, <3>1
    <3> QED BY <1>2, <3>1, <3>2
  <2>6. a + 1 <= b
    BY <2>1
  <2> QED BY <1>1, <1>3, <1>5, <2>2, <2>3, <2>4, <2>5, <2>6 DEF Run, t
<1> QED BY <1>4, <1>5

LEMMA RunAppend ==
    ASSUME NEW M, NEW q \in Seq(M), NEW m \in M, NEW K, \A r \in K : r.seq \in Nat,
           NEW a \in Nat, NEW b \in Nat, Run(q, K, a, b)
    PROVE  /\ m \in K /\ m.seq = b => Run(Append(q, m), K, a, b + 1)
           /\ m \notin K => Run(Append(q, m), K, a, b)
<1> DEFINE t == Append(q, m)
<1>1. /\ Len(q) \in Nat /\ DOMAIN q = 1 .. Len(q) /\ DOMAIN t = 1 .. Len(q) + 1
      /\ t[Len(q) + 1] = m /\ \A i \in 1 .. Len(q) : t[i] = q[i]
    OBVIOUS
<1> HIDE DEF t
<1>2. /\ \A i \in DOMAIN q : i \in DOMAIN t /\ i < Len(q) + 1 /\ t[i] = q[i]
      /\ \A i \in DOMAIN t : i \in Nat /\ (i \in DOMAIN q \/ i = Len(q) + 1)
      /\ Len(q) + 1 \in DOMAIN t
    BY <1>1
<1>3. CASE m \notin K
  <2>1. \A i, j \in DOMAIN t :
            i < j /\ t[i] \in K /\ t[j] \in K => t[i].seq < t[j].seq
    BY <1>1, <1>2, <1>3 DEF Run
  <2>2. \A n \in a .. b - 1 : \E i \in DOMAIN t : t[i] \in K /\ t[i].seq = n
    BY <1>2 DEF Run
  <2> QED BY <1>1, <1>2, <1>3, <2>1, <2>2 DEF Run, t
<1>4. CASE m \in K /\ m.seq = b
  <2>1. ASSUME NEW i \in DOMAIN t, NEW j \in DOMAIN t, i < j, t[i] \in K, t[j] \in K
        PROVE  t[i].seq < t[j].seq
    <3>1. i \in DOMAIN q
      BY <1>1, <1>2, <2>1
    <3>2. CASE j \in DOMAIN q
      BY <1>2, <2>1, <3>1, <3>2 DEF Run
    <3>3. CASE j = Len(q) + 1
      BY <1>1, <1>2, <1>4, <2>1, <3>1, <3>3 DEF Run
    <3> QED BY <1>2, <3>2, <3>3
  <2>2. ASSUME NEW n \in a .. b
        PROVE  \E i \in DOMAIN t : t[i] \in K /\ t[i].seq = n
    <3>1. CASE n \in a .. b - 1
      BY <1>2, <3>1 DEF Run
    <3>2. CASE n = b
      BY <1>1, <1>2, <1>4, <3>2
    <3> QED BY <2>2, <3>1, <3>2
  <2>3. \A i \in DOMAIN t : t[i] \in K => a <= t[i].seq /\ t[i].seq < b + 1
    <3>1. ASSUME NEW i \in DOMAIN t, t[i] \in K
          PROVE  a <= t[i].seq /\ t[i].seq < b + 1
      <4>1. CASE i \in DOMAIN q
        BY <1>2, <3>1, <4>1 DEF Run
      <4>2. CASE i = Len(q) + 1
        BY <1>1, <1>4, <4>2 DEF Run
      <4> QED BY <1>2, <4>1, <4>2
    <3> QED BY <3>1
  <2>4. a <= b + 1 /\ b + 1 - 1 = b
    BY DEF Run
  <2>5. \A i, j \in DOMAIN t :
            i < j /\ t[i] \in K /\ t[j] \in K => t[i].seq < t[j].seq
    BY <2>1
  <2>6. \A n \in a .. b : \E i \in DOMAIN t : t[i] \in K /\ t[i].seq = n
    BY <2>2
  <2>7. Run(t, K, a, b + 1)
    BY <2>3, <2>4, <2>5, <2>6 DEF Run
  <2>8. m \in K
    BY <1>4
  <2> QED BY <2>7, <2>8 DEF t
<1> QED BY <1>3, <1>4 DEF t

LEMMA RisingTail ==
    ASSUME NEW M, NEW q \in Seq(M), q # <<>>, NEW K, \A r \in K : r.seq \in Nat,
           NEW a \in Nat, Rising(q, K, a)
    PROVE  /\ Head(q) \in K => /\ Head(q).seq = a
                               /\ Rising(Tail(q), K, a + 1)
           /\ Head(q) \notin K => Rising(Tail(q), K, a)
<1> DEFINE t == Tail(q)
<1>1. /\ Len(q) \in Nat \ {0} /\ DOMAIN q = 1 .. Len(q) /\ Head(q) = q[1]
      /\ DOMAIN t = 1 .. Len(q) - 1 /\ \A i \in 1 .. Len(q) - 1 : t[i] = q[i + 1]
    OBVIOUS
<1> HIDE DEF t
<1>2. /\ \A i \in DOMAIN t : i \in Nat /\ i + 1 \in DOMAIN q /\ 1 < i + 1 /\ t[i] = q[i + 1]
      /\ \A i \in DOMAIN q : i # 1 => i - 1 \in DOMAIN t /\ t[i - 1] = q[i] /\ i \in Nat
      /\ 1 \in DOMAIN q /\ \A i \in DOMAIN q : ~(i < 1)
    BY <1>1
<1>3. ASSUME q[1] \in K
      PROVE  q[1].seq = a
  <2>1. q[1].seq \in Nat /\ a <= q[1].seq
    BY <1>2, <1>3 DEF Rising
  <2>2. a \notin a .. q[1].seq - 1
    BY <1>2, <1>3 DEF Rising
  <2> QED BY <2>1, <2>2
<1>4. ASSUME NEW c \in Nat, c = IF q[1] \in K THEN a + 1 ELSE a
      PROVE  Rising(t, K, c)
  <2> SUFFICES ASSUME NEW i \in DOMAIN t, t[i] \in K
               PROVE  /\ c <= t[i].seq
                      /\ \A j \in DOMAIN t : i < j /\ t[j] \in K => t[i].seq < t[j].seq
                      /\ \A n \in c .. t[i].seq - 1 :
                             \E j \in DOMAIN t : j < i /\ t[j] \in K /\ t[j].seq = n
    BY DEF Rising
  <2>1. /\ i + 1 \in DOMAIN q /\ q[i + 1] = t[i] /\ 1 < i + 1 /\ i \in Nat
        /\ t[i].seq \in Nat
    BY <1>2
  <2>2. c <= t[i].seq
    <3>1. q[1] \in K => q[1].seq < t[i].seq
      BY <1>2, <2>1 DEF Rising
    <3>2. a <= t[i].seq
      BY <2>1 DEF Rising
    <3> QED BY <1>3, <1>4, <2>1, <3>1, <3>2
  <2>3. \A j \in DOMAIN t : i < j /\ t[j] \in K => t[i].seq < t[j].seq
    BY <1>2, <2>1 DEF Rising
  <2>4. ASSUME NEW n \in c .. t[i].seq - 1
        PROVE  \E j \in DOMAIN t : j < i /\ t[j] \in K /\ t[j].seq = n
    <3>1. n \in a .. q[i + 1].seq - 1
      BY <1>4, <2>1
    <3>2. PICK j \in DOMAIN q : j < i + 1 /\ q[j] \in K /\ q[j].seq = n
      BY <2>1, <3>1 DEF Rising
    <3>3. j # 1
      BY <1>3, <1>4, <2>4, <3>2
    <3>4. j - 1 \in DOMAIN t /\ t[j - 1] = q[j] /\ j - 1 < i
      BY <1>2, <2>1, <3>2, <3>3
    <3> QED BY <3>2, <3>4
  <2> QED BY <2>2, <2>3, <2>4
<1> QED BY <1>1, <1>3, <1>4 DEF t

LEMMA RisingSent ==
    ASSUME NEW M, NEW q \in Seq(M), NEW m \in M, NEW K, m \notin K,
           NEW a \in Nat, Rising(q, K, a), NEW alive
    PROVE  Rising(Sent(q, alive, m), K, a)
<1> DEFINE t == Append(q, m)
<1>1. /\ Len(q) \in Nat /\ DOMAIN q = 1 .. Len(q) /\ DOMAIN t = 1 .. Len(q) + 1
      /\ t[Len(q) + 1] = m /\ \A i \in 1 .. Len(q) : t[i] = q[i]
    OBVIOUS
<1> HIDE DEF t
<1>2. /\ \A i \in DOMAIN q : i \in DOMAIN t /\ t[i] = q[i]
      /\ \A i \in DOMAIN t : t[i] \in K => i \in DOMAIN q
    BY <1>1
<1>3. Rising(t, K, a)
    BY <1>2 DEF Rising
<1> QED BY <1>3 DEF Sent, t

LEMMA RisingTruncated ==
    ASSUME NEW M, NEW q \in Seq(M), NEW t \in Truncations(q), NEW K,
           NEW a \in Nat, Rising(q, K, a)
    PROVE  Rising(t, K, a)
<1>1. t \in Seq(M) /\ Len(t) <= Len(q) /\ \A i \in 1 .. Len(t) : t[i] = q[i]
    BY TruncationsProps
<1>2. /\ DOMAIN q = 1 .. Len(q) /\ DOMAIN t = 1 .. Len(t)
      /\ Len(q) \in Nat /\ Len(t) \in Nat
    BY <1>1, LenProperties
<1>3. /\ \A i \in DOMAIN t : i \in DOMAIN q /\ t[i] = q[i]
      /\ \A i \in DOMAIN t, j \in DOMAIN q : j < i => j \in DOMAIN t
    BY <1>1, <1>2
<1> SUFFICES ASSUME NEW i \in DOMAIN t, t[i] \in K
             PROVE  /\ a <= t[i].seq
                    /\ \A j \in DOMAIN t : i < j /\ t[j] \in K => t[i].seq < t[j].seq
                    /\ \A n \in a .. t[i].seq - 1 :
                           \E j \in DOMAIN t : j < i /\ t[j] \in K /\ t[j].seq = n
    BY DEF Rising
<1>4. q[i] \in K /\ q[i] = t[i] /\ i \in DOMAIN q
    BY <1>3
<1>5. /\ a <= t[i].seq
      /\ \A j \in DOMAIN t : i < j /\ t[j] \in K => t[i].seq < t[j].seq
    BY <1>3, <1>4 DEF Rising
<1>6. \A n \in a .. t[i].seq - 1 :
          \E j \in DOMAIN q : j < i /\ q[j] \in K /\ q[j].seq = n
    BY <1>4 DEF Rising
<1> QED BY <1>3, <1>5, <1>6

LEMMA WithoutProps ==
    ASSUME NEW M, NEW q \in Seq(M), NEW K, Without(q, K)
    PROVE  /\ q # <<>> => Head(q) \notin K /\ Without(Tail(q), K)
           /\ \A m \in M : \A alive :
                  m \notin K => Without(Sent(q, alive, m), K)
           /\ \A t \in Truncations(q) : Without(t, K)
<1>1. q # <<>> => Head(q) \notin K /\ Without(Tail(q), K)
    BY DEF Without
<1>2. ASSUME NEW m \in M, NEW alive, m \notin K
      PROVE  Without(Sent(q, alive, m), K)
    BY <1>2 DEF Without, Sent
<1>3. ASSUME NEW t \in Truncations(q)
      PROVE  Without(t, K)
  <2>1. t \in Seq(M) /\ Len(t) <= Len(q) /\ \A i \in 1 .. Len(t) : t[i] = q[i]
    BY <1>3, TruncationsProps
  <2> QED BY <2>1 DEF Without
<1> QED BY <1>1, <1>2, <1>3

LEMMA EmptyRun == \A K : \A a \in Nat : /\ Run(<<>>, K, a, a) /\ Rising(<<>>, K, a)
                                        /\ Without(<<>>, K)
    BY DEF Run, Rising, Without

-----------------------------------------------------------------------------
(* The flow of frames to the medium and of acknowledgements back.          *)

Acks == [type : {"ack_frame"}, seq : FrameSeqs]

\* The output thread may still write.
Working == out \in {"take", "write", "ack", "ack last"}
Holding == out \in {"write", "ack", "ack last"} /\ IsFrame(inHand)
\* The connection has brought no frame yet; the medium holds none.
Fresh == recv \in {"request", "await"} /\ expect = Unseeded
Blank == Without(mounted, FrameRecords)

\* a is the first frame this writer has not acknowledged, b the first that
\* it has not received.
InFlow(a, b) ==
    /\ Holding => inHand.seq = a
    /\ Run(buffer, FrameRecords, IF Holding THEN a + 1 ELSE a, b)
    /\ recv \in {"request", "await"} => b = IF expect = Unseeded THEN acked ELSE expect

AckFlow(a) ==
    /\ serverAlive => Run(toServer, Acks, acked, a)
    /\ Blank => a = acked /\ Without(toServer, Acks)

\* The last frame on the medium is the one before the next to be written.
MediumFlow(a) ==
    \A i \in DOMAIN mounted :
        /\ IsFrame(mounted[i])
        /\ \A k \in DOMAIN mounted : IsFrame(mounted[k]) => k <= i
        => mounted[i].seq + 1 = IF out \in {"ack", "ack last"} THEN a + 1 ELSE a

Flow(a) == AckFlow(a) /\ MediumFlow(a) /\ \E b \in Nat : InFlow(a, b)

\* The first frame of a connection is the first the archiver lacks.
FirstReplies == {m \in Replies : m.type = "frame_record" => m.seq = acked}
FreshInv ==
    Working /\ Fresh =>
        /\ Blank /\ ~Holding
        /\ toWriter \in Seq(FirstReplies)
        /\ serverAlive /\ (\A i \in DOMAIN toWriter : toWriter[i].type # "frame_record")
              => nextSend = acked

\* What the output thread acknowledges is the last record of its medium.
HandInv ==
    out \in {"ack", "ack last"} =>
        mounted # <<>> /\ mounted[Len(mounted)] = inHand

\* Acknowledgements arrive in order, whatever became of their writer.
AckInv == InCall => Rising(toServer, Acks, acked)

FlowInv ==
    /\ HandInv /\ AckInv /\ FreshInv
    /\ Working => \E a \in Nat : Flow(a)

LEMMA KindsOfAck ==
    /\ \A r \in Acks : r.seq \in Nat
    /\ \A m \in Requests : m \in Acks <=> m.type = "ack_frame"
    /\ \A r \in FrameRecords : r.seq \in Nat /\ IsFrame(r)
    /\ \A r \in Records : r \in FrameRecords <=> IsFrame(r)
    /\ \A n \in FrameSeqs : AckFrame(n) \in Acks
    /\ NextFrame \notin Acks /\ Mark \notin FrameRecords
<1>1. FrameSeqs \subseteq Nat
    BY DEF FrameSeqs
<1>2. \A r \in Acks : r.seq \in Nat
    BY <1>1 DEF Acks
<1>3. \A m \in Requests : m \in Acks <=> m.type = "ack_frame"
    BY DEF Acks, Requests
<1>4. \A r \in FrameRecords : r.seq \in Nat /\ IsFrame(r)
    BY <1>1 DEF FrameRecords, IsFrame
<1>5. \A r \in Records : r \in FrameRecords <=> IsFrame(r)
    BY DEF FrameRecords, IsFrame, Records, Mark
<1>6. /\ \A n \in FrameSeqs : AckFrame(n) \in Acks
      /\ NextFrame \notin Acks /\ Mark \notin FrameRecords
    BY DEF Acks, AckFrame, NextFrame, Mark, FrameRecords
<1> QED BY <1>2, <1>3, <1>4, <1>5, <1>6

LEMMA LastPlace ==
    ASSUME NEW S, NEW q \in Seq(S), q # <<>>
    PROVE  Len(q) \in DOMAIN q
    OBVIOUS

LEMMA PipeTypes ==
    ASSUME PipeInv
    PROVE  /\ toServer \in Seq(Requests) /\ toWriter \in Seq(Replies)
           /\ buffer \in Seq(Records) /\ mounted \in Seq(Records)
           /\ acked \in Nat /\ nextSend \in Nat /\ EndSeq \in Nat /\ expect \in Nat
<1>1. /\ toServer \in Seq(Requests) /\ toWriter \in Seq(Replies)
      /\ buffer \in Seq(Records) /\ mounted \in Seq(Records) /\ expect \in 0 .. Unseeded
    BY DEF PipeInv, ServerInv, ServerTypeOK, WriterTypeOK, Records
<1>2. acked \in Nat /\ nextSend \in Nat /\ EndSeq \in Nat
    BY Ranges DEF PipeInv
<1> QED BY <1>1, <1>2 DEF Unseeded

LEMMA ServeMoves ==
    ASSUME PipeInv, AckInv, Serve
    PROVE  /\ UNCHANGED <<writerVars, writerAlive>>
           /\ serverAlive' => serverAlive
           /\ \/ toServer' = toServer /\ acked' = acked
              \/ /\ toServer # <<>> /\ toServer' = Tail(toServer)
                 /\ Head(toServer) \in Acks => acked' = acked + 1
                 /\ Head(toServer) \notin Acks => acked' = acked
<1>1. /\ ServerNext /\ UNCHANGED writerVars /\ toServer \in Seq(Requests)
      /\ acked \in Nat
    BY Ranges DEF Serve, PipeInv, ServerInv, ServerTypeOK
<1>2. ASSUME NEW type, Received(type)
      PROVE  /\ toServer # <<>> /\ toServer' = Tail(toServer)
             /\ Head(toServer) \in Acks <=> type = "ack_frame"
             /\ Head(toServer) \in Acks => Head(toServer).seq = acked
             /\ writerAlive' = writerAlive
  <2>1. /\ toServer # <<>> /\ toServer' = Tail(toServer) /\ InCall
        /\ Head(toServer).type = type /\ writerAlive' = writerAlive
    BY <1>2 DEF Received, AwaitsMessage, InCall
  <2>2. Head(toServer) \in Requests
    BY <1>1, <2>1
  <2>3. Head(toServer) \in Acks <=> type = "ack_frame"
    BY <2>1, <2>2, KindsOfAck
  <2>4. Head(toServer) \in Acks => Head(toServer).seq = acked
    BY <1>1, <2>1, KindsOfAck, RisingTail DEF AckInv
  <2> QED BY <2>1, <2>3, <2>4
<1>3. CASE ReadAck
  <2>1. Received("ack_frame") /\ acked' = acked + 1 /\ (serverAlive' => serverAlive)
    BY <1>3 DEF ReadAck, Return
  <2> QED BY <1>1, <1>2, <2>1
<1>4. CASE ReadAckOutOfOrder
    BY <1>2, <1>4 DEF ReadAckOutOfOrder, Received
<1>5. CASE ReadNextFrame \/ ReadRefused
  <2>1. Received("next_frame") \/ Received("other")
    BY <1>5 DEF ReadNextFrame, ReadRefused
  <2>2. acked' = acked
    BY <1>5 DEF ReadNextFrame, ReadRefused
  <2>3. serverAlive' => serverAlive
    BY <1>5 DEF ReadNextFrame, ReadRefused, Refuse, Return
  <2> QED BY <1>1, <1>2, <2>1, <2>2, <2>3
<1>6. CASE ReadEof \/ SendRetained \/ SendNewFrame \/ SendTapeEof
               \/ TakeDone \/ QueueEnded \/ SendArchiveEnd
  <2>1. /\ UNCHANGED <<toServer, acked, writerAlive>>
    BY <1>6 DEF ReadEof, SendRetained, SendNewFrame, SendTapeEof,
                TakeDone, QueueEnded, SendArchiveEnd, Popped
  <2>2. serverAlive' => serverAlive
    BY <1>6 DEF ReadEof, SendRetained, SendNewFrame, SendTapeEof,
                TakeDone, QueueEnded, SendArchiveEnd, Popped, Reply, Refuse, Return
  <2> QED BY <1>1, <2>1, <2>2
<1> QED BY <1>1, <1>3, <1>4, <1>5, <1>6 DEF ServerNext

\* The server's steps keep the order of frames and acknowledgements.
LEMMA FlowServe ==
    ASSUME PipeInv, FlowInv, Serve, Working, NEW a \in Nat, Flow(a)
    PROVE  Flow(a)' /\ (Blank => acked' = acked)
<1>1. /\ UNCHANGED writerVars /\ (serverAlive' => serverAlive)
      /\ \/ toServer' = toServer /\ acked' = acked
         \/ /\ toServer # <<>> /\ toServer' = Tail(toServer)
            /\ Head(toServer) \in Acks => acked' = acked + 1
            /\ Head(toServer) \notin Acks => acked' = acked
    BY ServeMoves DEF FlowInv
<1>2. UNCHANGED <<recv, out, buffer, inHand, expect, mounted>>
    BY <1>1 DEF writerVars
<1>3. toServer \in Seq(Requests) /\ acked \in Nat
    BY Ranges DEF PipeInv, ServerInv, ServerTypeOK
<1>4. Blank => acked' = acked /\ Without(toServer', Acks)
  <2> SUFFICES ASSUME Blank PROVE acked' = acked /\ Without(toServer', Acks)
    OBVIOUS
  <2>1. Without(toServer, Acks)
    BY DEF Flow, AckFlow
  <2>2. toServer # <<>> => Head(toServer) \notin Acks /\ Without(Tail(toServer), Acks)
    BY <1>3, <2>1, WithoutProps
  <2> QED BY <1>1, <2>1, <2>2
<1>5. serverAlive' => Run(toServer', Acks, acked', a)
  <2> SUFFICES ASSUME serverAlive' PROVE Run(toServer', Acks, acked', a)
    OBVIOUS
  <2>1. Run(toServer, Acks, acked, a)
    BY <1>1 DEF Flow, AckFlow
  <2>2. toServer # <<>> => /\ Head(toServer) \in Acks => Run(Tail(toServer), Acks, acked + 1, a)
                           /\ Head(toServer) \notin Acks => Run(Tail(toServer), Acks, acked, a)
    BY <1>3, <2>1, KindsOfAck, RunTail
  <2> QED BY <1>1, <2>1, <2>2
<1>6. (Blank' <=> Blank) /\ (Holding' <=> Holding) /\ (Fresh' <=> Fresh)
    BY <1>2 DEF Blank, Holding, Fresh, Unseeded, EndSeq, IsFrame, FrameRecords, FrameSeqs
<1>7. AckFlow(a)'
    BY <1>4, <1>5, <1>6 DEF AckFlow, Flow, Acks, FrameSeqs, EndSeq
<1>8. MediumFlow(a)'
    BY <1>2 DEF MediumFlow, Flow
<1>9. Fresh => Blank
    BY DEF FlowInv, FreshInv
<1>10. ASSUME NEW b \in Nat, InFlow(a, b)
       PROVE  InFlow(a, b)'
  <2>1. Run(buffer', FrameRecords, IF Holding' THEN a + 1 ELSE a, b)
    BY <1>2, <1>6, <1>10 DEF InFlow
  <2>2. Holding' => inHand'.seq = a
    BY <1>2, <1>6, <1>10 DEF InFlow
  <2>3. recv' \in {"request", "await"} =>
            b = IF expect' = Unseeded THEN acked' ELSE expect'
    BY <1>2, <1>4, <1>6, <1>9, <1>10 DEF InFlow, Fresh
  <2> QED BY <2>1, <2>2, <2>3 DEF InFlow, FrameRecords, FrameSeqs, EndSeq, Unseeded
<1>11. \E b \in Nat : InFlow(a, b)'
  <2>1. PICK b \in Nat : InFlow(a, b)
    BY DEF Flow
  <2> QED BY <1>10, <2>1
<1> QED BY <1>4, <1>7, <1>8, <1>11 DEF Flow

\* The server answers a connection that has brought no frame yet.
LEMMA FirstReply ==
    ASSUME PipeInv, DialogueInv, FreshInv, Working, Fresh,
           srv \in {"serve", "drain"},
           NEW m \in Replies, m.type = "frame_record" => m.seq = nextSend,
           NEW end, Reply(m, end), UNCHANGED acked
    PROVE  /\ toWriter' \in Seq(FirstReplies)
           /\ serverAlive' /\ (\A i \in DOMAIN toWriter' :
                                   toWriter'[i].type # "frame_record")
                 => nextSend' = acked
<1>1. /\ toWriter \in Seq(FirstReplies) /\ recv \in {"request", "await"}
      /\ serverAlive /\ (\A i \in DOMAIN toWriter : toWriter[i].type # "frame_record")
             => nextSend = acked
    BY DEF FreshInv, Fresh
<1>2. InCall /\ (~serverAlive => ~writerAlive)
    BY DEF InCall, DialogueInv, LinkInv
<1>3. CASE serverAlive' = FALSE
  <2>1. toWriter' = toWriter
    BY <1>2, <1>3 DEF Reply, Sent
  <2> QED BY <1>1, <1>3, <2>1
<1>4. CASE serverAlive' # FALSE
  <2>1. /\ toWriter' = Sent(toWriter, writerAlive, m) /\ serverAlive' = serverAlive
        /\ nextSend' = IF m.type = "frame_record" THEN nextSend + 1 ELSE nextSend
    BY <1>4 DEF Reply, Return
  <2>2. CASE serverAlive
    <3>1. writerAlive /\ toWriter = <<>>
      BY <1>1, <1>2, <2>2 DEF DialogueInv, LinkInv, RequestInv
    <3>2. toWriter' = <<m>> /\ nextSend = acked
      BY <1>1, <2>1, <2>2, <3>1 DEF Sent
    <3>3. m \in FirstReplies
      BY <3>2 DEF FirstReplies
    <3>4. 1 \in DOMAIN toWriter' /\ toWriter'[1] = m
      BY <3>2
    <3>5. toWriter' \in Seq(FirstReplies)
      BY <3>2, <3>3
    <3> QED BY <2>1, <3>2, <3>4, <3>5
  <2>3. CASE ~serverAlive
    <3>1. toWriter' = toWriter
      BY <1>2, <2>1, <2>3 DEF Sent
    <3> QED BY <1>1, <2>1, <2>3, <3>1
  <2> QED BY <2>2, <2>3
<1> QED BY <1>3, <1>4

LEMMA FreshServe ==
    ASSUME PipeInv, DialogueInv, FlowInv, Serve
    PROVE  FreshInv'
<1>1. /\ UNCHANGED writerVars /\ ServerNext /\ ServerTypeOK /\ ServerInv
    BY DEF Serve, PipeInv, ServerInv
<1>2. UNCHANGED <<recv, out, buffer, inHand, expect, mounted>>
    BY <1>1 DEF writerVars
<1>3. (Blank' <=> Blank) /\ (Holding' <=> Holding) /\ (Fresh' <=> Fresh)
      /\ (Working' <=> Working)
    BY <1>2 DEF Blank, Holding, Fresh, Unseeded, EndSeq, IsFrame, FrameRecords, FrameSeqs,
                Working
<1> SUFFICES ASSUME Working, Fresh
             PROVE  /\ toWriter' \in Seq(FirstReplies')
                    /\ serverAlive' /\ (\A i \in DOMAIN toWriter' :
                                            toWriter'[i].type # "frame_record")
                          => nextSend' = acked'
    BY <1>3 DEF FreshInv, FlowInv
<1>4. /\ Blank /\ toWriter \in Seq(FirstReplies) /\ FreshInv
      /\ serverAlive /\ (\A i \in DOMAIN toWriter : toWriter[i].type # "frame_record")
             => nextSend = acked
    BY DEF FreshInv, FlowInv
<1>5. acked' = acked
  <2>1. PICK a \in Nat : Flow(a)
    BY DEF FlowInv
  <2> QED BY <1>4, <2>1, FlowServe
<1>6. FirstReplies' = FirstReplies
    BY <1>5 DEF FirstReplies, Replies, FrameSeqs, EndSeq, Reasons
<1>7. ASSUME NEW why \in Reasons, Refuse(why)
      PROVE  toWriter' \in Seq(FirstReplies) /\ serverAlive' = FALSE
  <2>1. Error(why) \in FirstReplies
    BY ReplyTypes DEF FirstReplies, Error
  <2>2. Sent(toWriter, writerAlive, Error(why)) \in Seq(FirstReplies)
    BY <1>4, <2>1, SentProps
  <2> QED BY <1>7, <2>2, TruncationsProps DEF Refuse, Return
<1>8. CASE ReadAckOutOfOrder \/ ReadRefused \/ QueueEnded
  <2>1. \E why \in Reasons : Refuse(why)
    BY <1>8 DEF ReadAckOutOfOrder, ReadRefused, QueueEnded, Reasons
  <2> QED BY <1>6, <1>7, <2>1
<1>9. CASE ReadAck
  <2>1. acked' = acked + 1 /\ acked \in Nat
    BY <1>1, <1>9, Ranges DEF ReadAck
  <2> QED BY <1>5, <2>1
<1>10. CASE ReadNextFrame \/ TakeDone \/ ReadEof
  <2>1. toWriter' = toWriter
    BY <1>10 DEF ReadNextFrame, TakeDone, ReadEof
  <2>2. serverAlive' => nextSend' = nextSend /\ serverAlive
    BY <1>10 DEF ReadNextFrame, TakeDone, ReadEof, Return, callVars
  <2> QED BY <1>4, <1>5, <1>6, <2>1, <2>2
<1>11. ASSUME NEW m \in Replies, m.type = "frame_record" => m.seq = nextSend,
              NEW end, Reply(m, end), srv \in {"serve", "drain"}
       PROVE  /\ toWriter' \in Seq(FirstReplies')
              /\ serverAlive' /\ (\A i \in DOMAIN toWriter' :
                                      toWriter'[i].type # "frame_record")
                    => nextSend' = acked'
    BY <1>4, <1>5, <1>6, <1>11, FirstReply
<1>12. CASE SendRetained
  <2> DEFINE m == FrameRecord(nextSend, volumeNum)
             end == (nextSend = EndSeq)
  <2>1. /\ srv \in {"serve", "drain"} /\ Reply(m, end)
        /\ m \in Replies /\ m.seq = nextSend
    BY <1>1, <1>12, ReplyTypes DEF SendRetained, Serving, FrameRecord, ServerTypeOK
  <2> HIDE DEF m, end
  <2> QED BY <1>11, <2>1
<1>13. CASE SendNewFrame
  <2> DEFINE m == FrameRecord(Head(frameQueue).seq, volumeNum)
  <2>1. Popped("frame") /\ srv = "serve"
    BY <1>13 DEF SendNewFrame, Popped, Serving
  <2>2. CASE Refuse("no longer retained")
    BY <1>6, <1>7, <2>2 DEF Reasons
  <2>3. CASE ~Refuse("no longer retained")
    <3>1. Reply(m, FALSE) /\ Head(frameQueue).seq = nextSend
      BY <1>13, <2>3 DEF SendNewFrame
    <3>2. Head(frameQueue) \in Items /\ volumeNum \in Nat
      BY <1>1, <2>1 DEF Popped, ServerTypeOK
    <3>3. m \in Replies /\ m.seq = nextSend
      BY <3>1, <3>2, ReplyTypes DEF Items, FrameRecord
    <3> HIDE DEF m
    <3> QED BY <1>11, <2>1, <3>1, <3>3
  <2> QED BY <2>2, <2>3
<1>14. CASE SendTapeEof
  <2>1. /\ Reply(TapeEof, FALSE) /\ srv = "serve" /\ TapeEof \in Replies
        /\ TapeEof.type = "tape_eof"
    BY <1>14, ReplyTypes DEF SendTapeEof, Popped, Serving
  <2> HIDE DEF TapeEof
  <2> QED BY <1>11, <2>1
<1>15. CASE SendArchiveEnd
  <2> DEFINE m == FrameRecord(EndSeq, volumeNum)
  <2>1. Reply(m, TRUE) /\ srv = "drain"
    BY <1>15 DEF SendArchiveEnd
  <2>2. EndSeq \in FrameSeqs /\ volumeNum \in Nat /\ nextSend = EndSeq
    BY <1>1, <2>1, Ranges DEF FrameSeqs, ServerTypeOK, ServerInv, WindowInv
  <2>3. m \in Replies /\ m.seq = nextSend
    BY <2>2, ReplyTypes DEF FrameRecord
  <2> HIDE DEF m
  <2> QED BY <1>11, <2>1, <2>3
<1> QED BY <1>1, <1>8, <1>9, <1>10, <1>12, <1>13, <1>14, <1>15 DEF ServerNext

\* The writer takes the reply at the head of the connection.
LEMMA FlowReceive ==
    ASSUME PipeInv, DialogueInv, FlowInv, Working, Receiver, Receive,
           NEW a \in Nat, Flow(a)
    PROVE  Flow(a)' /\ FreshInv'
<1> DEFINE m == Head(toWriter)
<1>1. /\ UNCHANGED <<out, inHand, mounted, acked, nextSend, serverAlive, toServer>>
      /\ toWriter # <<>> /\ toWriter' = Tail(toWriter) /\ recv = "await"
      /\ ReceiveFrame(m) \/ ReceiveTapeEof(m) \/ ReceiveError(m)
    BY DEF Receiver, ReceiverNext, archiverVars, serverVars, Receive
<1>2. /\ toWriter \in Seq(Replies) /\ m \in Replies /\ buffer \in Seq(Records)
      /\ expect \in Nat /\ acked \in Nat /\ EndSeq \in Nat
  <2>1. toWriter \in Seq(Replies) /\ buffer \in Seq(Records) /\ expect \in 0 .. Unseeded
    BY DEF PipeInv, ServerInv, ServerTypeOK, WriterTypeOK, Records
  <2>2. acked \in Nat /\ EndSeq \in Nat
    BY Ranges DEF PipeInv
  <2>3. m \in Replies
    BY <1>1, <2>1, HeadTailProperties
  <2> QED BY <2>1, <2>2, <2>3 DEF Unseeded
<1>3. PICK b \in Nat : InFlow(a, b)
    BY DEF Flow
<1>4. /\ (Holding' <=> Holding) /\ (Blank' <=> Blank) /\ (Working' <=> Working)
      /\ FirstReplies' = FirstReplies
    BY <1>1 DEF Holding, Blank, Without, FrameRecords, FrameSeqs, EndSeq, IsFrame, Working,
                FirstReplies, Replies, Reasons
<1>5. AckFlow(a)' /\ MediumFlow(a)'
    BY <1>1, <1>4 DEF Flow, AckFlow, MediumFlow, Run, Without, Acks, FrameSeqs, EndSeq, IsFrame
<1>6. \/ expect = Unseeded /\ b = acked /\ Blank /\ ~Holding
         /\ (m.type = "frame_record" => m.seq = acked)
         /\ toWriter' \in Seq(FirstReplies)
      \/ expect # Unseeded /\ b = expect
  <2>1. b = IF expect = Unseeded THEN acked ELSE expect
    BY <1>1, <1>3 DEF InFlow
  <2>2. ASSUME expect = Unseeded
        PROVE  /\ Blank /\ ~Holding /\ (m.type = "frame_record" => m.seq = acked)
               /\ toWriter' \in Seq(FirstReplies)
    <3>1. Blank /\ ~Holding /\ toWriter \in Seq(FirstReplies)
      BY <1>1, <2>2 DEF FlowInv, FreshInv, Fresh
    <3>2. Head(toWriter) \in FirstReplies /\ Tail(toWriter) \in Seq(FirstReplies)
      BY <1>1, <3>1, HeadTailProperties
    <3>3. m.type = "frame_record" => m.seq = acked
      BY <3>2 DEF FirstReplies
    <3> QED BY <1>1, <3>1, <3>2, <3>3
  <2> QED BY <2>1, <2>2
<1>7. \A r \in FrameRecords : r.seq \in Nat
    BY KindsOfAck
<1>8. Run(buffer, FrameRecords, IF Holding THEN a + 1 ELSE a, b)
    BY <1>3 DEF InFlow
<1>9. FrameRecords' = FrameRecords /\ Unseeded' = Unseeded /\ (IF Holding THEN a + 1 ELSE a) \in Nat
    BY DEF FrameRecords, FrameSeqs, EndSeq, Unseeded
<1>10. CASE ReceiveFrame(m) /\ Acceptable(m.seq)
  <2> DEFINE r == Record(m.seq, m.vol)
  <2>1. /\ m.type = "frame_record" /\ buffer' = Append(buffer, r) /\ expect' = m.seq + 1
        /\ m.seq = EndSeq => recv' = "join"
    BY <1>10 DEF ReceiveFrame, Enqueue, StopReceiving
  <2>2. m.seq \in FrameSeqs /\ m.vol \in Nat
    BY <1>2, <2>1 DEF Replies
  <2>3. m.seq = b
    BY <1>6, <1>10, <2>1 DEF Acceptable
  <2>4. r \in Records /\ r \in FrameRecords /\ r.seq = m.seq
    BY <2>2, Kinds DEF Records
  <2> HIDE DEF r
  <2>5. Run(buffer', FrameRecords, IF Holding THEN a + 1 ELSE a, b + 1)
    <3> DEFINE c == IF Holding THEN a + 1 ELSE a
    <3>1. c \in Nat /\ Run(buffer, FrameRecords, c, b)
      BY <1>8, <1>9
    <3> HIDE DEF c
    <3>2. Run(Append(buffer, r), FrameRecords, c, b + 1)
      BY <1>2, <1>7, <2>3, <2>4, <3>1, RunAppend
    <3> QED BY <2>1, <3>2 DEF c
  <2>6. recv' \in {"request", "await"} => expect' # Unseeded /\ expect' = b + 1
    <3>1. m.seq \in Nat
      BY <2>2 DEF FrameSeqs
    <3>2. recv' \in {"request", "await"} => m.seq # EndSeq
      BY <2>1
    <3> HIDE DEF m
    <3>3. m.seq # EndSeq => m.seq + 1 # EndSeq + 1
      BY <1>2, <3>1
    <3> QED BY <1>9, <2>1, <2>3, <3>2, <3>3 DEF Unseeded
  <2>7. InFlow(a, b + 1)'
    BY <1>1, <1>3, <1>4, <1>9, <2>5, <2>6 DEF InFlow
  <2>8. ~Fresh'
    BY <1>9, <2>6 DEF Fresh
  <2> QED BY <1>5, <2>7, <2>8 DEF Flow, FreshInv
<1>11. CASE ReceiveTapeEof(m)
  <2>1. /\ m.type = "tape_eof" /\ buffer' = Append(buffer, Mark) /\ expect' = expect
        /\ recv' = "request"
    BY <1>11 DEF ReceiveTapeEof, Enqueue
  <2>2. Mark \in Records /\ Mark \notin FrameRecords
    BY KindsOfAck DEF Records
  <2>3. Run(buffer', FrameRecords, IF Holding THEN a + 1 ELSE a, b)
    <3> DEFINE c == IF Holding THEN a + 1 ELSE a
    <3>1. c \in Nat /\ Run(buffer, FrameRecords, c, b)
      BY <1>8, <1>9
    <3> HIDE DEF c, Mark
    <3>2. Run(Append(buffer, Mark), FrameRecords, c, b)
      BY <1>2, <1>7, <2>2, <3>1, RunAppend
    <3> QED BY <2>1, <3>2 DEF c
  <2>4. InFlow(a, b)'
    BY <1>1, <1>3, <1>4, <1>9, <2>1, <2>3 DEF InFlow
  <2>5. ASSUME Fresh'
        PROVE  /\ Blank /\ ~Holding /\ toWriter' \in Seq(FirstReplies)
               /\ serverAlive => nextSend = acked
    <3>1. expect = Unseeded /\ Fresh
      BY <1>1, <1>9, <2>1, <2>5 DEF Fresh
    <3>2. Blank /\ ~Holding /\ toWriter' \in Seq(FirstReplies)
      BY <1>6, <3>1
    <3>3. serverAlive => \A i \in DOMAIN toWriter : toWriter[i].type # "frame_record"
      <4>1. serverAlive => Replied
        BY <1>1 DEF DialogueInv, RequestInv
      <4>2. Replied => DOMAIN toWriter = {1} /\ toWriter[1] = m
        BY <1>1, <1>2 DEF Replied
      <4> QED BY <2>1, <4>1, <4>2
    <3> QED BY <3>1, <3>2, <3>3 DEF FlowInv, FreshInv
  <2>6. FreshInv'
    BY <1>1, <1>4, <2>5 DEF FreshInv
  <2> QED BY <1>5, <2>4, <2>6 DEF Flow
<1>12. CASE ReceiveError(m) \/ (ReceiveFrame(m) /\ ~Acceptable(m.seq))
  <2>1. recv' = "join" /\ buffer' = buffer
    BY <1>12 DEF ReceiveError, ReceiveFrame, StopReceiving
  <2>2. InFlow(a, b)'
    BY <1>1, <1>3, <1>4, <1>8, <1>9, <2>1 DEF InFlow
  <2>3. ~Fresh'
    BY <2>1 DEF Fresh
  <2> QED BY <1>5, <2>2, <2>3 DEF Flow, FreshInv
<1> QED BY <1>1, <1>10, <1>11, <1>12

LEMMA FlowReceiver ==
    ASSUME PipeInv, DialogueInv, FlowInv, Working, Receiver,
           NEW a \in Nat, Flow(a)
    PROVE  Flow(a)' /\ FreshInv'
<1>1. UNCHANGED <<out, inHand, mounted, acked, nextSend, serverAlive>>
    BY DEF Receiver, ReceiverNext, archiverVars, serverVars
<1>2. CASE RequestFrame /\ UNCHANGED expect
  <2>1. /\ UNCHANGED <<toWriter, buffer, expect>> /\ recv = "request"
        /\ recv' \in {"await", "join"}
        /\ toServer' = toServer \/ toServer' = Sent(toServer, serverAlive, NextFrame)
    BY <1>2 DEF RequestFrame, StopReceiving
  <2>2. toServer \in Seq(Requests) /\ acked \in Nat
    BY Ranges DEF PipeInv, ServerInv, ServerTypeOK
  <2>3. NextFrame \in Requests /\ NextFrame \notin Acks /\ \A r \in Acks : r.seq \in Nat
    BY Kinds, KindsOfAck
  <2>4. /\ (Holding' <=> Holding) /\ (Blank' <=> Blank) /\ (Working' <=> Working)
        /\ FirstReplies' = FirstReplies /\ Unseeded' = Unseeded /\ Acks' = Acks
        /\ (Fresh' => Fresh)
    BY <1>1, <2>1 DEF Holding, Blank, Without, FrameRecords, FrameSeqs, EndSeq, IsFrame,
           Working, FirstReplies, Replies, Reasons, Unseeded, Acks, Fresh
  <2> HIDE DEF NextFrame
  <2>5. Blank => Without(toServer', Acks)
    <3>1. Blank => Without(toServer, Acks)
      BY DEF Flow, AckFlow
    <3> QED BY <2>1, <2>2, <2>3, <3>1, WithoutProps
  <2>6. serverAlive => Run(toServer', Acks, acked, a)
    <3>1. serverAlive => Run(toServer, Acks, acked, a)
      BY DEF Flow, AckFlow
    <3>2. serverAlive => Run(Append(toServer, NextFrame), Acks, acked, a)
      BY <2>2, <2>3, <3>1, RunAppend
    <3> QED BY <2>1, <3>1, <3>2 DEF Sent
  <2>7. AckFlow(a)' /\ MediumFlow(a)'
    BY <1>1, <2>4, <2>5, <2>6 DEF Flow, AckFlow, MediumFlow, IsFrame
  <2>8. PICK b \in Nat : InFlow(a, b)
    BY DEF Flow
  <2>9. InFlow(a, b)'
    BY <1>1, <2>1, <2>4, <2>8 DEF InFlow, FrameRecords, FrameSeqs, EndSeq
  <2>10. FreshInv'
    BY <1>1, <2>1, <2>4 DEF FlowInv, FreshInv
  <2> QED BY <2>7, <2>9, <2>10 DEF Flow
<1>3. CASE ReceiveEof \/ NoticeOutputEnded
  <2>1. recv' = "join" /\ UNCHANGED <<toServer, buffer>>
    BY <1>3 DEF ReceiveEof, NoticeOutputEnded, StopReceiving
  <2>2. (Holding' <=> Holding) /\ (Blank' <=> Blank) /\ ~Fresh'
    BY <1>1, <2>1 DEF Holding, Blank, Without, FrameRecords, FrameSeqs, EndSeq, IsFrame,
                      Fresh
  <2>3. AckFlow(a)' /\ MediumFlow(a)'
    BY <1>1, <2>1, <2>2
       DEF Flow, AckFlow, MediumFlow, IsFrame, Run, Without, Acks, FrameSeqs, EndSeq
  <2>4. PICK b \in Nat : InFlow(a, b)
    BY DEF Flow
  <2>5. InFlow(a, b)'
    BY <1>1, <2>1, <2>2, <2>4 DEF InFlow, FrameRecords, FrameSeqs, EndSeq
  <2> QED BY <2>2, <2>3, <2>5 DEF Flow, FreshInv
<1> QED BY <1>2, <1>3, FlowReceive DEF Receiver, ReceiverNext

\* The acknowledgement the output thread sends is the next one.
LEMMA AckSent ==
    ASSUME PipeInv, FlowInv, out \in {"ack", "ack last"}, NEW a \in Nat, Flow(a),
           toServer' = Sent(toServer, serverAlive, AckFrame(inHand.seq))
    PROVE  /\ IsFrame(inHand) /\ inHand \in FrameRecords /\ inHand.seq = a
           /\ ~Blank /\ ~Fresh
           /\ serverAlive => Run(toServer', Acks, acked, a + 1)
           /\ ~serverAlive => toServer' = toServer
<1>1. inHand.kind = "frame" /\ inHand \in FrameRecords /\ mounted \in Seq(Records)
    BY Kinds DEF PipeInv, OutputInv, WriterTypeOK, Records
<1>2. Working /\ Holding
    BY <1>1 DEF Working, Holding, IsFrame
<1>3. inHand.seq = a
    BY <1>2 DEF Flow, InFlow
<1>4. ~Blank
  <2>1. mounted # <<>> /\ mounted[Len(mounted)] = inHand
    BY DEF FlowInv, HandInv
  <2>2. Len(mounted) \in DOMAIN mounted
    BY <1>1, <2>1, LastPlace
  <2> QED BY <1>1, <2>1, <2>2 DEF Blank, Without
<1>5. ~Fresh
    BY <1>2 DEF FlowInv, FreshInv
<1>6. serverAlive => Run(toServer', Acks, acked, a + 1)
  <2> DEFINE m == AckFrame(inHand.seq)
  <2>1. toServer \in Seq(Requests) /\ acked \in Nat
    BY PipeTypes
  <2>2. inHand.seq \in FrameSeqs
    BY <1>1 DEF FrameRecords
  <2>3. m \in Requests /\ m \in Acks /\ m.seq = a /\ \A r \in Acks : r.seq \in Nat
    BY <1>3, <2>2, Kinds, KindsOfAck
  <2> HIDE DEF m
  <2>4. serverAlive => Run(toServer, Acks, acked, a)
    BY DEF Flow, AckFlow
  <2>5. serverAlive => Run(Append(toServer, m), Acks, acked, a + 1)
    BY <2>1, <2>3, <2>4, RunAppend
  <2> QED BY <2>5 DEF Sent, m
<1> QED BY <1>1, <1>3, <1>4, <1>5, <1>6 DEF IsFrame, Sent

LEMMA FlowOutput ==
    ASSUME PipeInv, FlowInv, Output, Working, Working', NEW a \in Nat, Flow(a)
    PROVE  /\ FreshInv'
           /\ out \in {"ack", "ack last"} => out' = "take" /\ Flow(a + 1)'
           /\ out \notin {"ack", "ack last"} => Flow(a)'
<1>1. UNCHANGED <<recv, expect, acked, nextSend, serverAlive, toWriter>>
    BY DEF Output, OutputNext, archiverVars, serverVars
<1>2. /\ mounted \in Seq(Records) /\ buffer \in Seq(Records)
      /\ \A r \in FrameRecords : r.seq \in Nat
      /\ \A r \in Records : r \in FrameRecords <=> IsFrame(r)
    BY KindsOfAck DEF PipeInv, WriterTypeOK, Records
<1>3. PICK b \in Nat : InFlow(a, b)
    BY DEF Flow
<1>4. /\ FrameRecords' = FrameRecords /\ Unseeded' = Unseeded /\ Acks' = Acks
      /\ FirstReplies' = FirstReplies /\ (Fresh' <=> Fresh)
    BY <1>1 DEF FrameRecords, FrameSeqs, EndSeq, Unseeded, Acks, FirstReplies, Replies,
                Reasons, Fresh
<1>5. CASE TakeItem
  <2>1. /\ buffer # <<>> /\ inHand' = Head(buffer) /\ buffer' = Tail(buffer)
        /\ out = "take" /\ out' = "write" /\ UNCHANGED <<mounted, toServer>>
    BY <1>5 DEF TakeItem
  <2>2. Run(buffer, FrameRecords, a, b)
    BY <1>3, <2>1 DEF InFlow, Holding
  <2>3. Head(buffer) \in Records
    BY <1>2, <2>1
  <2>4. Holding' <=> Head(buffer) \in FrameRecords
    BY <1>2, <2>1, <2>3 DEF Holding, IsFrame
  <2>5. /\ Head(buffer) \in FrameRecords =>
               Head(buffer).seq = a /\ Run(Tail(buffer), FrameRecords, a + 1, b)
        /\ Head(buffer) \notin FrameRecords => Run(Tail(buffer), FrameRecords, a, b)
    BY <1>2, <2>1, <2>2, RunTail
  <2>6. InFlow(a, b)'
    BY <1>1, <1>3, <1>4, <2>1, <2>4, <2>5 DEF InFlow
  <2>7. (Blank' <=> Blank) /\ MediumFlow(a)' /\ AckFlow(a)'
    BY <1>1, <1>4, <2>1 DEF Flow, MediumFlow, AckFlow, Blank, Without, Run, IsFrame
  <2>8. Fresh => Head(buffer) \notin FrameRecords
    <3>1. Fresh => Blank
      BY DEF FlowInv, FreshInv
    <3>2. Fresh => a = acked /\ b = acked
      BY <1>3, <3>1 DEF Flow, AckFlow, InFlow, Fresh
    <3>3. buffer[1] = Head(buffer) /\ 1 \in DOMAIN buffer
      BY <1>2, <2>1
    <3>4. Head(buffer) \in FrameRecords => a <= Head(buffer).seq /\ Head(buffer).seq < b
      BY <2>2, <3>3 DEF Run
    <3>5. Head(buffer) \in FrameRecords => Head(buffer).seq \in Nat
      BY <1>2
    <3> QED BY <3>2, <3>4, <3>5
  <2>9. FreshInv'
    BY <1>1, <1>4, <2>4, <2>7, <2>8 DEF FlowInv, FreshInv
  <2> QED BY <2>1, <2>6, <2>7, <2>9 DEF Flow
<1>6. CASE WriteRecord(Faulty)
  <2>1. /\ mounted' = Append(mounted, inHand) /\ out' \in {"ack", "ack last"}
        /\ out = "write" /\ inHand.kind = "frame" /\ UNCHANGED <<inHand, buffer, toServer>>
    BY <1>6 DEF WriteRecord, StopOutput, Working
  <2>2. Holding /\ Holding' /\ ~Fresh /\ inHand.seq = a /\ inHand \in Records
    <3>1. Holding /\ Holding'
      BY <2>1 DEF Holding, IsFrame
    <3>2. ~Fresh /\ inHand.seq = a
      BY <1>3, <3>1 DEF FlowInv, FreshInv, InFlow
    <3>3. inHand \in Records
      BY <2>1, Kinds DEF PipeInv, WriterTypeOK, Records
    <3> QED BY <3>1, <3>2, <3>3
  <2>3. /\ Len(mounted) \in Nat /\ DOMAIN mounted' = 1 .. Len(mounted) + 1
        /\ mounted'[Len(mounted) + 1] = inHand
    <3> DEFINE r == inHand
    <3>1. r \in Records
      BY <2>2
    <3> HIDE DEF r
    <3>2. /\ Len(mounted) \in Nat /\ DOMAIN Append(mounted, r) = 1 .. Len(mounted) + 1
          /\ Append(mounted, r)[Len(mounted) + 1] = r
      BY <1>2, <3>1
    <3> QED BY <2>1, <3>2 DEF r
  <2>4. ~Blank'
    <3>1. inHand \in FrameRecords
      BY <1>2, <2>1, <2>2 DEF IsFrame
    <3> QED BY <1>4, <2>3, <3>1 DEF Blank, Without
  <2>5. MediumFlow(a)'
    <3> SUFFICES ASSUME NEW i \in DOMAIN mounted',
                        \A k \in DOMAIN mounted' : IsFrame(mounted'[k]) => k <= i
                 PROVE  mounted'[i].seq = a
      BY <2>1 DEF MediumFlow
    <3>1. Len(mounted) + 1 \in DOMAIN mounted' /\ IsFrame(mounted'[Len(mounted) + 1])
      <4>1. IsFrame(inHand)
        BY <2>1 DEF IsFrame
      <4>2. Len(mounted) + 1 \in DOMAIN mounted'
        BY <2>3
      <4> QED BY <2>3, <4>1, <4>2
    <3>2. Len(mounted) + 1 <= i /\ i <= Len(mounted) + 1 /\ i \in Nat
      BY <2>3, <3>1
    <3>3. i = Len(mounted) + 1
      BY <2>3, <3>2
    <3> QED BY <2>2, <2>3, <3>3
  <2>6. AckFlow(a)'
    BY <1>1, <1>4, <2>1, <2>4 DEF Flow, AckFlow, Run
  <2>7. InFlow(a, b)'
    BY <1>1, <1>3, <1>4, <2>1, <2>2 DEF InFlow
  <2> QED BY <1>4, <2>1, <2>2, <2>5, <2>6, <2>7 DEF Flow, FreshInv
<1>7. CASE WriteMark(Faulty)
  <2>1. /\ mounted' = Append(mounted, Mark) /\ out' = "take" /\ inHand' = Nothing
        /\ out = "write" /\ inHand = Mark /\ UNCHANGED <<buffer, toServer>>
    BY <1>7 DEF WriteMark, StopOutput, Working
  <2>2. ~Holding /\ ~Holding' /\ Mark \in Records /\ Mark \notin FrameRecords
        /\ ~IsFrame(Mark)
    BY <2>1, Kinds, KindsOfAck DEF Holding, IsFrame, Records
  <2> HIDE DEF Mark
  <2>3. /\ Len(mounted) \in Nat /\ DOMAIN mounted' = 1 .. Len(mounted) + 1
        /\ DOMAIN mounted = 1 .. Len(mounted)
        /\ mounted'[Len(mounted) + 1] = Mark
        /\ \A i \in DOMAIN mounted : mounted'[i] = mounted[i]
    BY <1>2, <2>1, <2>2
  <2>4. Blank' <=> Blank
    BY <1>4, <2>2, <2>3 DEF Blank, Without
  <2>5. MediumFlow(a)'
    <3> SUFFICES ASSUME NEW i \in DOMAIN mounted', IsFrame(mounted'[i]),
                        \A k \in DOMAIN mounted' : IsFrame(mounted'[k]) => k <= i
                 PROVE  mounted'[i].seq + 1 = a
      BY <2>1 DEF MediumFlow
    <3>1. i \in DOMAIN mounted /\ IsFrame(mounted[i])
      BY <2>2, <2>3
    <3>2. \A k \in DOMAIN mounted : IsFrame(mounted[k]) => k <= i
      BY <2>3
    <3> QED BY <2>1, <2>3, <3>1, <3>2 DEF Flow, MediumFlow
  <2>6. AckFlow(a)'
    BY <1>1, <1>4, <2>1, <2>4 DEF Flow, AckFlow, Run, Without
  <2>7. InFlow(a, b)'
    BY <1>1, <1>3, <1>4, <2>1, <2>2 DEF InFlow
  <2>8. FreshInv'
    BY <1>1, <1>4, <2>2, <2>4 DEF FlowInv, FreshInv
  <2> QED BY <2>1, <2>5, <2>6, <2>7, <2>8 DEF Flow
<1>8. CASE SendAck
  <2>1. /\ out \in {"ack", "ack last"} /\ out' = "take" /\ inHand' = Nothing
        /\ UNCHANGED <<buffer, mounted>>
        /\ toServer' = Sent(toServer, serverAlive, AckFrame(inHand.seq))
    BY <1>8 DEF SendAck, StopOutput, Working
  <2>2. /\ IsFrame(inHand) /\ ~Blank /\ ~Fresh
        /\ serverAlive => Run(toServer', Acks, acked, a + 1)
    BY <2>1, AckSent
  <2>3. Holding /\ ~Holding'
    BY <2>1, <2>2 DEF Holding, IsFrame, Nothing
  <2>4. InFlow(a + 1, b)'
    BY <1>1, <1>3, <1>4, <2>1, <2>3 DEF InFlow
  <2>5. ~Blank' /\ AckFlow(a + 1)'
    BY <1>1, <1>4, <2>1, <2>2 DEF AckFlow, Blank, Without
  <2>6. MediumFlow(a + 1)'
    BY <2>1 DEF Flow, MediumFlow, IsFrame
  <2> QED BY <1>4, <2>1, <2>2, <2>4, <2>5, <2>6 DEF Flow, FreshInv
<1>9. CASE InputEnded \/ WriteFinalMark(Faulty)
    BY <1>9 DEF InputEnded, WriteFinalMark, StopOutput, Working
<1> QED BY <1>5, <1>6, <1>7, <1>8, <1>9 DEF Output, OutputNext

\* The link is reset under a writer that goes on for a while.
LEMMA FlowReset ==
    ASSUME PipeInv, FlowInv, LinkReset, Working, NEW a \in Nat, Flow(a)
    PROVE  Flow(a)' /\ FreshInv'
<1>1. /\ UNCHANGED <<recv, out, buffer, inHand, expect, mounted, acked, nextSend>>
      /\ serverAlive' = FALSE /\ toServer' \in Truncations(toServer) /\ toWriter' = <<>>
    BY DEF LinkReset, archiverVars, serverVars, writerVars
<1>2. toServer \in Seq(Requests)
    BY PipeTypes
<1>3. Blank => Without(toServer', Acks)
    BY <1>1, <1>2, WithoutProps DEF Flow, AckFlow
<1>4. /\ (Holding' <=> Holding) /\ (Blank' <=> Blank) /\ (Fresh' <=> Fresh)
      /\ FrameRecords' = FrameRecords /\ Unseeded' = Unseeded /\ Acks' = Acks
    BY <1>1 DEF Holding, Blank, Without, FrameRecords, FrameSeqs, EndSeq, IsFrame, Fresh,
                Unseeded, Acks
<1>5. AckFlow(a)' /\ MediumFlow(a)'
    BY <1>1, <1>3, <1>4 DEF Flow, AckFlow, MediumFlow, IsFrame
<1>6. PICK b \in Nat : InFlow(a, b)
    BY DEF Flow
<1>7. InFlow(a, b)'
    BY <1>1, <1>4, <1>6 DEF InFlow
<1>8. toWriter' \in Seq(FirstReplies')
    BY <1>1
<1>9. FreshInv'
    BY <1>1, <1>4, <1>8 DEF FlowInv, FreshInv, Working
<1> QED BY <1>5, <1>7, <1>9 DEF Flow

\* A step that touches nothing of the flow.
LEMMA FlowKeeps ==
    ASSUME UNCHANGED <<recv, out, buffer, inHand, expect, mounted, acked, nextSend,
                       serverAlive, toServer, toWriter>>
    PROVE  /\ FreshInv => FreshInv'
           /\ \A a : Flow(a) => Flow(a)'
<1>1. /\ (Holding' <=> Holding) /\ (Blank' <=> Blank) /\ (Fresh' <=> Fresh)
      /\ FrameRecords' = FrameRecords /\ Unseeded' = Unseeded /\ Acks' = Acks
      /\ (Working' <=> Working) /\ FirstReplies' = FirstReplies
    BY DEF Holding, Blank, Without, FrameRecords, FrameSeqs, EndSeq, IsFrame, Fresh,
           Unseeded, Acks, Working, FirstReplies, Replies, Reasons
<1>2. FreshInv => FreshInv'
    BY <1>1 DEF FreshInv
<1>3. ASSUME NEW a, Flow(a)
      PROVE  Flow(a)'
  <2>1. AckFlow(a)' /\ MediumFlow(a)'
    BY <1>1, <1>3 DEF Flow, AckFlow, MediumFlow, IsFrame
  <2>2. PICK b \in Nat : InFlow(a, b)
    BY <1>3 DEF Flow
  <2>3. InFlow(a, b)'
    BY <1>1, <2>2 DEF InFlow
  <2> QED BY <2>1, <2>3 DEF Flow
<1> QED BY <1>2, <1>3

\* A connection begins with the first frame the archiver lacks.
LEMMA FlowConnect ==
    ASSUME PipeInv, Connect
    PROVE  FreshInv' /\ \E a \in Nat : a = acked /\ Flow(a)'
<1>1. /\ out' = "take" /\ buffer' = <<>> /\ inHand' = Nothing /\ expect' = Unseeded
      /\ mounted' = <<>> /\ toServer' = <<>> /\ toWriter' = <<>>
      /\ nextSend' = acked /\ acked' = acked
    BY DEF Connect, StartWriter, Accept, Open
<1>2. acked \in Nat
    BY PipeTypes
<1>3. PICK a \in Nat : a = acked
    BY <1>2
<1>4. ~Holding' /\ Blank' /\ Unseeded' = Unseeded
    BY <1>1, EmptyRun DEF Holding, Blank, Unseeded, EndSeq
<1>5. AckFlow(a)'
    BY <1>1, <1>3, EmptyRun DEF AckFlow
<1>6. MediumFlow(a)'
    BY <1>1 DEF MediumFlow
<1>7. InFlow(a, a)'
    BY <1>1, <1>3, <1>4, EmptyRun DEF InFlow
<1>8. toWriter' \in Seq(FirstReplies')
    BY <1>1
<1>9. FreshInv'
    BY <1>1, <1>4, <1>8 DEF FreshInv
<1> QED BY <1>3, <1>5, <1>6, <1>7, <1>9 DEF Flow

\* While a writer works the number of the frame it acknowledges next moves
\* with its acknowledgements only.
LEMMA FlowMoves ==
    ASSUME PipeInv, DialogueInv, FlowInv, [Next]_vars, Working, Working',
           NEW a \in Nat, Flow(a)
    PROVE  /\ FreshInv'
           /\ out \in {"ack", "ack last"} /\ out' = "take" => Flow(a + 1)'
           /\ ~(out \in {"ack", "ack last"} /\ out' = "take") => Flow(a)'
<1> DEFINE acks == out \in {"ack", "ack last"} /\ out' = "take"
           G == FreshInv' /\ (acks => Flow(a + 1)') /\ (~acks => Flow(a)')
<1>1. CASE Connect \/ Exit \/ Kill
    BY <1>1 DEF Connect, StartWriter, Exit, WriterExits, Kill, WriterKilled, Working
<1>2. CASE Serve
  <2>1. out' = out
    BY <1>2 DEF Serve, writerVars
  <2> QED BY <1>2, <2>1, FlowServe, FreshServe
<1>3. CASE Receiver
  <2>1. out' = out
    BY <1>3 DEF Receiver, ReceiverNext
  <2> QED BY <1>3, <2>1, FlowReceiver
<1>4. CASE Output
    BY <1>4, FlowOutput
<1>5. CASE LinkReset
  <2>1. out' = out
    BY <1>5 DEF LinkReset, writerVars
  <2> QED BY <1>5, <2>1, FlowReset
<1>6. CASE Produce \/ Finished \/ UNCHANGED vars
  <2>1. UNCHANGED <<recv, out, buffer, inHand, expect, mounted, acked, nextSend,
                    serverAlive, toServer, toWriter>>
    BY <1>6 DEF Produce, ProducerNext, Finished, vars, serverVars, wire, writerVars
  <2> QED BY <2>1, FlowKeeps DEF FlowInv
<1> QED BY <1>1, <1>2, <1>3, <1>4, <1>5, <1>6 DEF Next

LEMMA HandKept ==
    ASSUME PipeInv, HandInv, [Next]_vars
    PROVE  HandInv'
<1>1. CASE UNCHANGED <<out, mounted, inHand>>
    BY <1>1 DEF HandInv
<1>2. CASE out' \notin {"ack", "ack last"}
    BY <1>2 DEF HandInv
<1>3. CASE Output /\ WriteRecord(Faulty) /\ out' \in {"ack", "ack last"}
  <2>1. mounted' = Append(mounted, inHand) /\ inHand' = inHand /\ inHand.kind = "frame"
    BY <1>3 DEF WriteRecord, StopOutput
  <2>2. inHand \in Records /\ mounted \in Seq(Records)
    BY <2>1, Kinds DEF PipeInv, WriterTypeOK, Records
  <2> DEFINE q == Append(mounted, inHand)
  <2>3. q # <<>> /\ Len(q) = Len(mounted) + 1 /\ q[Len(mounted) + 1] = inHand
    BY <2>2, AppendProps
  <2> QED BY <2>1, <2>3 DEF HandInv
<1>4. \/ UNCHANGED <<out, mounted, inHand>>
      \/ out' \notin {"ack", "ack last"}
      \/ Output /\ WriteRecord(Faulty)
  <2>1. CASE Output
    BY <2>1 DEF Output, OutputNext, TakeItem, InputEnded, WriteMark, SendAck,
                WriteFinalMark, StopOutput
  <2>2. CASE Connect \/ Exit \/ Kill
    BY <2>2 DEF Connect, StartWriter, Exit, Kill, WriterExits, WriterKilled
  <2>3. CASE Produce \/ Serve \/ Receiver \/ LinkReset \/ Finished \/ UNCHANGED vars
    BY <2>3 DEF Produce, Serve, Receiver, ReceiverNext, LinkReset, Finished, writerVars,
                vars
  <2> QED BY <2>1, <2>2, <2>3 DEF Next
<1> QED BY <1>1, <1>2, <1>3, <1>4

LEMMA AckKept ==
    ASSUME PipeInv, DialogueInv, FlowInv, [Next]_vars
    PROVE  AckInv'
<1>1. /\ toServer \in Seq(Requests) /\ acked \in Nat
      /\ \A r \in Acks : r.seq \in Nat
    BY PipeTypes, KindsOfAck
<1>2. Acks' = Acks
    BY DEF Acks, FrameSeqs, EndSeq
<1>3. CASE Connect
  <2>1. toServer' = <<>> /\ acked' = acked
    BY <1>3 DEF Connect, Open, Accept
  <2> QED BY <1>1, <1>2, <2>1, EmptyRun DEF AckInv
<1>4. CASE Serve
  <2>1. InCall
    BY <1>4 DEF Serve, ServerNext, ReadAck, ReadAckOutOfOrder, ReadNextFrame, ReadRefused,
                ReadEof, SendRetained, SendNewFrame, SendTapeEof, TakeDone, QueueEnded,
                SendArchiveEnd, Received, AwaitsMessage, Popped, Serving, InCall
  <2>2. Rising(toServer, Acks, acked)
    BY <2>1 DEF FlowInv, AckInv
  <2>3. toServer # <<>> =>
            /\ Head(toServer) \in Acks => Rising(Tail(toServer), Acks, acked + 1)
            /\ Head(toServer) \notin Acks => Rising(Tail(toServer), Acks, acked)
    BY <1>1, <2>2, RisingTail
  <2>4. Rising(toServer', Acks, acked')
    BY <1>4, <2>2, <2>3, ServeMoves DEF FlowInv
  <2> QED BY <1>2, <2>4 DEF AckInv
<1>5. CASE /\ acked' = acked /\ (InCall' <=> InCall)
           /\ \/ toServer' = toServer \/ toServer' \in Truncations(toServer)
              \/ toServer' = Sent(toServer, serverAlive, NextFrame)
  <2>1. NextFrame \in Requests /\ NextFrame \notin Acks
    BY Kinds, KindsOfAck
  <2> HIDE DEF NextFrame
  <2>2. InCall => Rising(toServer, Acks, acked)
    BY DEF FlowInv, AckInv
  <2>3. toServer' \in Truncations(toServer) /\ InCall => Rising(toServer', Acks, acked)
    BY <1>1, <2>2, RisingTruncated
  <2>4. InCall => Rising(Sent(toServer, serverAlive, NextFrame), Acks, acked)
    BY <1>1, <2>1, <2>2, RisingSent
  <2>5. InCall => Rising(toServer', Acks, acked)
    BY <1>5, <2>2, <2>3, <2>4
  <2> QED BY <1>2, <1>5, <2>5 DEF AckInv
<1>6. CASE /\ acked' = acked /\ (InCall' <=> InCall) /\ out \in {"ack", "ack last"}
           /\ toServer' = Sent(toServer, serverAlive, AckFrame(inHand.seq))
  <2>1. PICK a \in Nat : Flow(a)
    BY <1>6 DEF FlowInv, Working
  <2>2. /\ serverAlive => Run(toServer', Acks, acked, a + 1)
        /\ ~serverAlive => toServer' = toServer
    BY <1>6, <2>1, AckSent
  <2>3. toServer' \in Seq(Requests)
    <3> DEFINE m == AckFrame(inHand.seq)
    <3>1. inHand \in FrameRecords
      BY <1>6, <2>1, AckSent
    <3>2. m \in Requests
      BY <3>1, Kinds DEF FrameRecords
    <3> HIDE DEF m
    <3>3. toServer' = Sent(toServer, serverAlive, m)
      BY <1>6 DEF m
    <3> QED BY <1>1, <3>2, <3>3, SentProps
  <2>4. serverAlive => Rising(toServer', Acks, acked)
    BY <1>1, <2>2, <2>3, RunRises
  <2>5. InCall => Rising(toServer', Acks, acked)
    BY <2>2, <2>4 DEF FlowInv, AckInv
  <2> QED BY <1>2, <1>6, <2>5 DEF AckInv
<1>7. CASE Produce \/ Receiver \/ Output \/ Exit \/ Kill \/ LinkReset \/ Finished
              \/ UNCHANGED vars
  <2>1. acked' = acked /\ srv' = srv
    BY <1>7 DEF Produce, ProducerNext, Receiver, Output, Exit, Kill, LinkReset, Finished,
                archiverVars, serverVars, vars
  <2>2. InCall' <=> InCall
    BY <2>1 DEF InCall
  <2>3. \/ toServer' = toServer \/ toServer' \in Truncations(toServer)
        \/ toServer' = Sent(toServer, serverAlive, NextFrame)
        \/ /\ out \in {"ack", "ack last"}
           /\ toServer' = Sent(toServer, serverAlive, AckFrame(inHand.seq))
    BY <1>7 DEF Produce, ProducerNext, Receiver, ReceiverNext, RequestFrame, Receive,
                ReceiveEof, NoticeOutputEnded, Output, OutputNext, TakeItem, InputEnded,
                WriteRecord, WriteMark, SendAck, WriteFinalMark, Exit, WriterExits, Kill,
                WriterKilled, LinkReset, Finished, wire, vars
  <2> QED BY <1>5, <1>6, <2>1, <2>2, <2>3
<1> QED BY <1>3, <1>4, <1>7 DEF Next

LEMMA FlowStep ==
    ASSUME PipeInv, DialogueInv, FlowInv, [Next]_vars
    PROVE  FlowInv'
<1>1. HandInv' /\ AckInv'
    BY HandKept, AckKept DEF FlowInv
<1>2. Working' => FreshInv' /\ \E a \in Nat : Flow(a)'
  <2> SUFFICES ASSUME Working' PROVE FreshInv' /\ \E a \in Nat : Flow(a)'
    OBVIOUS
  <2>1. CASE Working
    <3>1. PICK a \in Nat : Flow(a)
      BY <2>1 DEF FlowInv
    <3>2. a + 1 \in Nat
      OBVIOUS
    <3>3. FreshInv' /\ (Flow(a)' \/ Flow(a + 1)')
      BY <2>1, <3>1, FlowMoves
    <3> QED BY <3>2, <3>3
  <2>2. CASE ~Working
    <3>1. Connect
      BY <2>2 DEF Working, Next, Produce, ProducerNext, Serve, Receiver, ReceiverNext, Output,
             OutputNext, TakeItem, InputEnded, WriteRecord, WriteMark, SendAck, WriteFinalMark,
             StopOutput, Exit, WriterExits, Kill, WriterKilled, LinkReset, Finished, writerVars,
             vars
    <3> QED BY <3>1, FlowConnect
  <2> QED BY <2>1, <2>2
<1> QED BY <1>1, <1>2 DEF FlowInv, FreshInv

LEMMA FlowStart == Init => FlowInv
<1> SUFFICES ASSUME Init PROVE FlowInv
    OBVIOUS
<1>1. srv = "accept" /\ out = "off"
    BY DEF Init, ServerInit, WriterInit
<1> QED BY <1>1 DEF FlowInv, HandInv, AckInv, FreshInv, Working, InCall

\* The order of everything between archiver and medium is kept, whatever
\* media, writers and connections fail.
THEOREM FlowHolds == Spec => [](DialogueInv /\ FlowInv)
<1>1. Init => DialogueInv /\ FlowInv
    BY DialogueStart, FlowStart
<1>2. PipeInv /\ DialogueInv /\ FlowInv /\ [Next]_vars => DialogueInv' /\ FlowInv'
    BY DialogueStep, FlowStep
<1> QED BY <1>1, <1>2, PipelineInvariant, PTL DEF Spec

-----------------------------------------------------------------------------
(* Archiver and writer never talk past each other.                         *)

\* A refusal that is no one's fault but the producer's.
SoundReplies == {m \in Replies : m.type = "error" => m.reason = "producer"}

\* Of the server's refusals only the one of a failed producer can happen.
LEMMA OnlyProducerRefused ==
    ASSUME PipeInv, DialogueInv, FlowInv, Serve, toWriter \in Seq(SoundReplies)
    PROVE  toWriter' \in Seq(SoundReplies)
<1>1. /\ ServerNext /\ ServerInv /\ ServerTypeOK /\ toServer \in Seq(Requests)
      /\ \A r \in Acks : r.seq \in Nat
      /\ acked \in Nat
    BY PipeTypes, KindsOfAck DEF Serve, PipeInv, ServerInv
<1>2. ASSUME NEW type, Received(type)
      PROVE  /\ type # "other" /\ InCall
             /\ type = "next_frame" => Asked(toServer)
             /\ type = "ack_frame" => Head(toServer).seq = acked
  <2>1. /\ toServer # <<>> /\ InCall /\ Head(toServer).type = type
    BY <1>2 DEF Received, AwaitsMessage, InCall
  <2>2. 1 \in DOMAIN toServer /\ Head(toServer) = toServer[1] /\ Head(toServer) \in Requests
    BY <1>1, <2>1
  <2>3. type = "ack_frame" => Head(toServer) \in Acks
    BY <2>1, <2>2, KindsOfAck
  <2>4. Head(toServer) \in Acks => Head(toServer).seq = acked
    BY <1>1, <2>1, RisingTail DEF FlowInv, AckInv
  <2> QED BY <2>1, <2>2, <2>3, <2>4 DEF DialogueInv, RequestInv, OnlyRequests, Asked
<1>3. ~ReadAckOutOfOrder
    BY <1>2 DEF ReadAckOutOfOrder
<1>4. ~ReadRefused
  <2>1. ~Received("other")
    BY <1>2
  <2>2. Received("next_frame") => srv = "request" /\ ~endSent
    BY <1>2 DEF DialogueInv, RequestInv
  <2> QED BY <2>1, <2>2 DEF ReadRefused
<1>5. ASSUME NEW m \in Replies, m.type # "error", NEW end, Reply(m, end)
      PROVE  toWriter' \in Seq(SoundReplies)
  <2>1. m \in SoundReplies
    BY <1>5 DEF SoundReplies
  <2> QED BY <1>5, <2>1, SentProps DEF Reply
<1>6. CASE QueueEnded
  <2>1. producer = "failed"
    BY <1>6 DEF QueueEnded, Serving, DialogueInv, ClosedInv
  <2>2. Refuse("producer")
    BY <1>6, <2>1 DEF QueueEnded
  <2>3. Error("producer") \in SoundReplies
    BY ReplyTypes DEF SoundReplies, Error, Reasons
  <2>4. Sent(toWriter, writerAlive, Error("producer")) \in Seq(SoundReplies)
    BY <2>3, SentProps
  <2> QED BY <2>2, <2>4, TruncationsProps DEF Refuse
<1>7. CASE ReadAck \/ ReadNextFrame \/ ReadEof \/ TakeDone
    BY <1>7 DEF ReadAck, ReadNextFrame, ReadEof, TakeDone
<1>8. CASE SendRetained
  <2> DEFINE m == FrameRecord(nextSend, volumeNum)
             end == (nextSend = EndSeq)
  <2>1. Reply(m, end) /\ m \in Replies /\ m.type # "error"
    BY <1>1, <1>8, ReplyTypes DEF SendRetained, FrameRecord, ServerTypeOK
  <2> HIDE DEF m, end
  <2> QED BY <1>5, <2>1
<1>9. CASE SendNewFrame
  <2> DEFINE m == FrameRecord(Head(frameQueue).seq, volumeNum)
  <2>1. Popped("frame") /\ UNCHANGED producerVars
    BY <1>9 DEF SendNewFrame, Popped
  <2>2. Head(frameQueue) \in Items /\ Head(frameQueue).seq = Taken
    BY <1>1, <2>1, PopProps
  <2>3. nextSend = Taken
    BY <1>1, <2>1, PoppedNext
  <2>4. Reply(m, FALSE)
    BY <1>9, <2>2, <2>3 DEF SendNewFrame
  <2>5. m \in Replies /\ m.type # "error"
    BY <1>1, <2>2, ReplyTypes DEF FrameRecord, Items, ServerTypeOK
  <2> HIDE DEF m
  <2> QED BY <1>5, <2>4, <2>5
<1>10. CASE SendTapeEof
  <2>1. Reply(TapeEof, FALSE) /\ TapeEof \in Replies /\ TapeEof.type # "error"
    BY <1>10, ReplyTypes DEF SendTapeEof
  <2> HIDE DEF TapeEof
  <2> QED BY <1>5, <2>1
<1>11. CASE SendArchiveEnd
  <2> DEFINE m == FrameRecord(EndSeq, volumeNum)
  <2>1. EndSeq \in FrameSeqs /\ volumeNum \in Nat
    BY <1>1, Ranges DEF FrameSeqs, ServerTypeOK
  <2>2. Reply(m, TRUE) /\ m \in Replies /\ m.type # "error"
    BY <1>11, <2>1, ReplyTypes DEF SendArchiveEnd, FrameRecord
  <2> HIDE DEF m
  <2> QED BY <1>5, <2>2
<1> QED BY <1>1, <1>3, <1>4, <1>6, <1>7, <1>8, <1>9, <1>10, <1>11 DEF ServerNext

\* The server and the writer never talk past each other, whatever media and
\* writers fail: no acknowledgement arrives out of order, no request inside a
\* full window or behind archive_end, and no frame is asked for that is no
\* longer retained.
THEOREM NeverTalkPast == Spec => []NoProtocolError
<1> DEFINE Sound == toWriter \in Seq(SoundReplies)
<1>1. Init => Sound
    BY DEF Init, WireInit
<1>2. PipeInv /\ DialogueInv /\ FlowInv /\ Sound /\ [Next]_vars => Sound'
  <2> SUFFICES ASSUME PipeInv, DialogueInv, FlowInv, Sound, [Next]_vars
               PROVE  toWriter' \in Seq(SoundReplies)
    BY DEF SoundReplies, Replies, FrameSeqs, EndSeq, Reasons
  <2>1. CASE Serve
    BY <2>1, OnlyProducerRefused
  <2>2. CASE ~Serve
    <3>1. toWriter' \in {toWriter, <<>>} \/ (toWriter # <<>> /\ toWriter' = Tail(toWriter))
      BY <2>2 DEF Next, Connect, Open, Produce, ProducerNext, Receiver, ReceiverNext,
             RequestFrame, Receive, ReceiveEof, NoticeOutputEnded, Output, OutputNext, Exit,
             WriterExits, Kill, WriterKilled, LinkReset, Finished, wire, vars
    <3>2. <<>> \in Seq(SoundReplies)
      OBVIOUS
    <3> QED BY <3>1, <3>2, HeadTailProperties
  <2> QED BY <2>1, <2>2
<1>3. Sound => NoProtocolError
  <2> SUFFICES ASSUME Sound, NEW i \in DOMAIN toWriter, toWriter[i].type = "error"
               PROVE  toWriter[i].reason = "producer"
    BY DEF NoProtocolError
  <2>1. toWriter[i] \in SoundReplies
    OBVIOUS
  <2> QED BY <2>1 DEF SoundReplies
<1> QED BY <1>1, <1>2, <1>3, FlowHolds, PipelineInvariant, PTL DEF Spec

-----------------------------------------------------------------------------
(* The media can be read back in loading order.                            *)

\* A medium can be loaded behind the others.
Fits(sh, mt) ==
    /\ Consecutive(mt)
    /\ \A i \in DOMAIN mt :
           IsFirst(mt, i) /\ mt[i].seq > 0 =>
               \E u \in DOMAIN sh : FrameOn(sh[u], mt[i].seq - 1)

LEMMA OneMoreFits ==
    ASSUME NEW sh \in Seq(Seq(Records)), NEW mt \in Seq(Records)
    PROVE  Replayable(Append(sh, mt)) <=> Replayable(sh) /\ Fits(sh, mt)
<1> DEFINE R == Seq(Records)
           q == Append(sh, mt)
<1>1. sh \in Seq(R) /\ mt \in R
    OBVIOUS
<1> HIDE DEF R
<1>2. /\ Len(q) = Len(sh) + 1 /\ Len(sh) \in Nat
      /\ \A v \in 1 .. Len(sh) : q[v] = sh[v]
      /\ q[Len(sh) + 1] = mt
      /\ DOMAIN q = 1 .. Len(sh) + 1 /\ DOMAIN sh = 1 .. Len(sh)
    BY <1>1, AppendProps, LenProperties
<1> HIDE DEF q
<1> DEFINE P(s, v) == /\ Consecutive(s[v])
                      /\ \A i \in DOMAIN s[v] :
                             IsFirst(s[v], i) /\ s[v][i].seq > 0 =>
                                 \E u \in 1 .. v - 1 : FrameOn(s[u], s[v][i].seq - 1)
<1>3. /\ Replayable(q) <=> \A v \in 1 .. Len(sh) + 1 : P(q, v)
      /\ Replayable(sh) <=> \A v \in 1 .. Len(sh) : P(sh, v)
    BY <1>2 DEF Replayable
<1>4. \A v \in 1 .. Len(sh) : P(q, v) <=> P(sh, v)
  <2> SUFFICES ASSUME NEW v \in 1 .. Len(sh) PROVE P(q, v) <=> P(sh, v)
    OBVIOUS
  <2>1. q[v] = sh[v] /\ \A u \in 1 .. v - 1 : q[u] = sh[u]
    BY <1>2
  <2> QED BY <2>1
<1>5. P(q, Len(sh) + 1) <=> Fits(sh, mt)
  <2>1. /\ q[Len(sh) + 1] = mt /\ (Len(sh) + 1) - 1 = Len(sh)
        /\ \A u \in 1 .. Len(sh) : q[u] = sh[u]
    BY <1>2
  <2> QED BY <1>2, <2>1 DEF Fits
<1>6. \A v : v \in 1 .. Len(sh) + 1 <=> v \in 1 .. Len(sh) \/ v = Len(sh) + 1
    BY <1>2
<1> HIDE DEF P
<1> QED BY <1>3, <1>4, <1>5, <1>6 DEF q

\* The frames of a medium with one more record.
LEMMA FramesAppended ==
    ASSUME NEW mt \in Seq(Records), NEW r \in Records
    PROVE  /\ FramesOf(Append(mt, r)) =
                  FramesOf(mt) \cup (IF IsFrame(r) THEN {Len(mt) + 1} ELSE {})
           /\ \A i \in DOMAIN mt : Append(mt, r)[i] = mt[i] /\ i < Len(mt) + 1
           /\ Append(mt, r)[Len(mt) + 1] = r
           /\ FramesOf(mt) \subseteq DOMAIN mt /\ DOMAIN mt \subseteq Nat
           /\ DOMAIN Append(mt, r) = DOMAIN mt \cup {Len(mt) + 1} /\ Len(mt) \in Nat
<1> DEFINE q == Append(mt, r)
<1>1. /\ Len(mt) \in Nat /\ \A i \in 1 .. Len(mt) : q[i] = mt[i]
      /\ q[Len(mt) + 1] = r
      /\ DOMAIN q = 1 .. Len(mt) + 1 /\ DOMAIN mt = 1 .. Len(mt)
    BY AppendProps, LenProperties
<1> HIDE DEF q
<1>2. DOMAIN q = DOMAIN mt \cup {Len(mt) + 1}
    BY <1>1
<1>3. \A i \in DOMAIN mt : i < Len(mt) + 1 /\ i \in Nat /\ q[i] = mt[i]
    BY <1>1
<1>4. FramesOf(q) = FramesOf(mt) \cup (IF IsFrame(r) THEN {Len(mt) + 1} ELSE {})
    BY <1>1, <1>2, <1>3 DEF FramesOf, IsFrame
<1> QED BY <1>1, <1>2, <1>3, <1>4 DEF q, FramesOf

\* A filemark changes nothing.
LEMMA FitsMark ==
    ASSUME NEW sh, NEW mt \in Seq(Records), Fits(sh, mt)
    PROVE  Fits(sh, Append(mt, Mark))
<1> DEFINE q == Append(mt, Mark)
<1>1. Mark \in Records /\ ~IsFrame(Mark)
    BY Kinds DEF Records, IsFrame
<1> HIDE DEF Mark
<1>2. /\ FramesOf(q) = FramesOf(mt) /\ FramesOf(mt) \subseteq DOMAIN mt
      /\ \A i \in DOMAIN mt : q[i] = mt[i]
  <2>1. /\ FramesOf(q) = FramesOf(mt) \cup (IF IsFrame(Mark) THEN {Len(mt) + 1} ELSE {})
        /\ FramesOf(mt) \subseteq DOMAIN mt /\ \A i \in DOMAIN mt : q[i] = mt[i]
    BY <1>1, FramesAppended
  <2> HIDE DEF q
  <2> QED BY <1>1, <2>1
<1> HIDE DEF q
<1>3. \A i \in FramesOf(mt) : i \in DOMAIN mt /\ q[i] = mt[i]
    BY <1>2
<1>4. Consecutive(q)
    BY <1>2, <1>3 DEF Fits, Consecutive
<1>5. \A i : IsFirst(q, i) <=> IsFirst(mt, i)
    BY <1>2 DEF IsFirst
<1>6. \A i : IsFirst(mt, i) => i \in FramesOf(mt)
    BY DEF IsFirst
<1> QED BY <1>3, <1>4, <1>5, <1>6 DEF Fits, q

\* A frame fits behind the last one of its medium, and as the first one
\* behind the media before.
LEMMA FitsFrame ==
    ASSUME NEW sh, NEW mt \in Seq(Records), Fits(sh, mt), NEW r \in FrameRecords,
           \A i \in FramesOf(mt) :
               (\A k \in FramesOf(mt) : k <= i) => mt[i].seq + 1 = r.seq,
           FramesOf(mt) = {} /\ r.seq > 0 =>
               \E u \in DOMAIN sh : FrameOn(sh[u], r.seq - 1)
    PROVE  Fits(sh, Append(mt, r))
<1> DEFINE q == Append(mt, r)
           last == Len(mt) + 1
<1>1. r \in Records /\ IsFrame(r)
    BY KindsOfAck DEF Records
<1>2. /\ FramesOf(q) = FramesOf(mt) \cup {last}
      /\ \A i \in FramesOf(mt) : i \in DOMAIN mt /\ i \in Nat /\ q[i] = mt[i] /\ i < last
      /\ q[last] = r /\ last \in Nat
    BY <1>1, FramesAppended
<1> HIDE DEF q, last
<1>3. Consecutive(q)
  <2> SUFFICES ASSUME NEW i \in FramesOf(q), NEW j \in FramesOf(q), i < j,
                      \A k \in FramesOf(q) : k <= i \/ j <= k
               PROVE  q[j].seq = q[i].seq + 1
    BY DEF Consecutive
  <2>1. i # last
    BY <1>2
  <2>2. i \in FramesOf(mt) /\ q[i] = mt[i]
    BY <1>2, <2>1
  <2>3. CASE j = last
    <3>1. \A k \in FramesOf(mt) : k <= i
      BY <1>2, <2>3
    <3> QED BY <1>2, <2>2, <2>3, <3>1
  <2>4. CASE j # last
    <3>1. j \in FramesOf(mt) /\ q[j] = mt[j] /\ \A k \in FramesOf(mt) : k <= i \/ j <= k
      BY <1>2, <2>4
    <3> QED BY <2>2, <3>1 DEF Fits, Consecutive
  <2> QED BY <2>3, <2>4
<1>4. ASSUME NEW i, IsFirst(q, i), q[i].seq > 0
      PROVE  \E u \in DOMAIN sh : FrameOn(sh[u], q[i].seq - 1)
  <2>1. i \in FramesOf(q) /\ \A k \in FramesOf(q) : i <= k
    BY <1>4 DEF IsFirst
  <2>2. CASE i = last
    <3>1. FramesOf(mt) = {}
      BY <1>2, <2>1, <2>2
    <3> QED BY <1>2, <1>4, <2>2, <3>1
  <2>3. CASE i # last
    <3>1. IsFirst(mt, i) /\ i \in DOMAIN mt /\ q[i] = mt[i]
      BY <1>2, <2>1, <2>3 DEF IsFirst
    <3> QED BY <1>4, <3>1 DEF Fits
  <2> QED BY <2>2, <2>3
<1> QED BY <1>3, <1>4 DEF Fits, q

\* On tape every step leaves media that can be read back.
LEMMA ReplayStep ==
    ASSUME ~SpoolTarget, PipeInv, MediaInv, FlowInv, [Next]_vars,
           Replayable(shelf), Fits(shelf, mounted)
    PROVE  Replayable(shelf') /\ Fits(shelf', mounted')
<1>1. mounted \in Seq(Records) /\ shelf \in Seq(Seq(Records))
    BY DEF PipeInv, WriterTypeOK, Records
<1>2. CASE mounted' = mounted /\ shelf' = shelf
    BY <1>2
<1>3. CASE mounted' = Append(mounted, Mark) /\ shelf' = shelf
    BY <1>1, <1>3, FitsMark
<1>4. CASE /\ mounted' = Append(mounted, inHand) /\ shelf' = shelf
           /\ out = "write" /\ IsFrame(inHand)
  <2>1. inHand \in FrameRecords
    BY <1>4, Kinds DEF IsFrame, PipeInv, WriterTypeOK
  <2>2. PICK a \in Nat : Flow(a)
    BY <1>4 DEF FlowInv, Working
  <2>3. inHand.seq = a
    BY <1>4, <2>2 DEF Flow, InFlow, Holding
  <2>4. \A i \in FramesOf(mounted) :
            (\A k \in FramesOf(mounted) : k <= i) => mounted[i].seq + 1 = inHand.seq
    BY <1>4, <2>2, <2>3 DEF Flow, MediumFlow, FramesOf
  <2>5. ASSUME FramesOf(mounted) = {}, inHand.seq > 0
        PROVE  \E u \in DOMAIN shelf : FrameOn(shelf[u], inHand.seq - 1)
    <3>1. Blank
      BY <1>1, <2>5, KindsOfAck DEF Blank, Without, FramesOf
    <3>2. a = acked
      BY <2>2, <3>1 DEF Flow, AckFlow
    <3>3. OnMedia(inHand.seq - 1)
      <4>1. inHand.seq - 1 \in 0 .. acked - 1
        BY <2>3, <2>5, <3>2
      <4> QED BY <4>1 DEF MediaInv, AckedOnMedia
    <3>4. ~FrameOn(mounted, inHand.seq - 1)
      BY <2>5 DEF FrameOn, FramesOf
    <3> QED BY <1>1, <3>3, <3>4, OneMoreMedium DEF OnMedia, Media
  <2> QED BY <1>1, <1>4, <2>1, <2>4, <2>5, FitsFrame
<1>5. CASE /\ mounted' = <<>>
           /\ shelf' = IF mounted = <<>> THEN shelf ELSE Append(shelf, mounted)
  <2>1. Fits(shelf', <<>>)
    BY DEF Fits, Consecutive, FramesOf
  <2>2. Replayable(Append(shelf, mounted))
    BY <1>1, OneMoreFits
  <2> QED BY <1>5, <2>1, <2>2
<1> QED BY <1>2, <1>3, <1>4, <1>5, MediumSteps

\* Whatever goes wrong, the tapes of an archive can be read back in loading
\* order: within one the frames are consecutive, and each begins at most one
\* frame behind what the ones before it hold.
THEOREM TapesCanBeReadBack ==
    ASSUME ~SpoolTarget
    PROVE  Spec => []MediaReplayable
<1> DEFINE I == Replayable(shelf) /\ Fits(shelf, mounted)
<1>1. Init => I
  <2>1. Init => shelf = <<>> /\ mounted = <<>>
    BY DEF Init, WriterInit
  <2> QED BY <2>1 DEF Replayable, Fits, Consecutive, FramesOf
<1>2. PipeInv /\ MediaInv /\ FlowInv /\ I /\ [Next]_vars => I'
    BY ReplayStep
<1>3. PipeInv /\ I => MediaReplayable
  <2>1. PipeInv => mounted \in Seq(Records) /\ shelf \in Seq(Seq(Records))
    BY DEF PipeInv, WriterTypeOK, Records
  <2> QED BY <2>1, OneMoreFits DEF MediaReplayable, Media
<1> QED BY <1>1, <1>2, <1>3, FlowHolds, MediaHolds, PipelineInvariant, PTL DEF Spec

-----------------------------------------------------------------------------
(* What a writer's exit tells the operator.                                *)

LastAck == AckFrame(EndSeq)
EndUnsaid == srv # "complete" /\ Without(toServer, {LastAck})

\* The writer of archive_end has nothing left to write but the filemark.
Closing ==
    \/ out = "final mark"
    \/ out = "stopped" /\ status \in {"complete", "failed"}
    \/ out = "off" /\ exit \in {"complete", "error", "killed"}

\* A status says how the output thread ended, an exit how its writer did.
StatusInv ==
    /\ status # "running" => out = "stopped"
    /\ exit # "none" => out = "off"

ExitInv == StatusInv /\ (EndUnsaid \/ Closing)

LEMMA Squeezed == \A y \in Nat : \A x \in 0 .. y : x >= y => x = y
    OBVIOUS

\* Only the acknowledgement of archive_end ends the archive.
LEMMA EndSaid ==
    ASSUME PipeInv, [Next]_vars, EndUnsaid, out' # "final mark"
    PROVE  EndUnsaid'
<1>1. /\ toServer \in Seq(Requests) /\ Without(toServer, {LastAck})
      /\ LastAck' = LastAck
    BY PipeTypes DEF EndUnsaid, LastAck, EndSeq, AckFrame
<1>2. toServer # <<>> => Head(toServer) # LastAck
    BY <1>1, WithoutProps
<1>3. srv' # "complete"
  <2>1. ASSUME ReadAck, srv' = "complete"
        PROVE  FALSE
    <3>1. /\ toServer # <<>> /\ Head(toServer).type = "ack_frame"
          /\ Head(toServer).seq = acked
      BY <2>1 DEF ReadAck, Received
    <3>2. Head(toServer) \in [type : {"ack_frame"}, seq : FrameSeqs]
      <4>1. Head(toServer) \in Requests
        BY <1>1, <3>1, HeadTailProperties
      <4> QED BY <3>1, <4>1 DEF Requests
    <3>3. acked >= EndSeq
      BY <2>1 DEF ReadAck, EndUnsaid
    <3>4. acked = EndSeq
      <4>1. Head(toServer).seq \in FrameSeqs /\ EndSeq \in Nat
        BY <3>2, PipeTypes
      <4>2. acked \in 0 .. EndSeq
        BY <3>1, <4>1 DEF FrameSeqs
      <4> QED BY <3>3, <4>1, <4>2, Squeezed
    <3>5. Head(toServer) = LastAck
      BY <3>1, <3>2, <3>4 DEF LastAck, AckFrame
    <3> QED BY <1>2, <3>1, <3>5
  <2> QED BY <2>1, CountSteps DEF EndUnsaid
<1>4. Without(toServer', {LastAck})
  <2>1. CASE toServer' \in {toServer, <<>>}
    BY <1>1, <2>1, EmptyRun DEF Without
  <2>2. CASE toServer' \in Truncations(toServer)
    BY <1>1, <2>2, WithoutProps
  <2>3. CASE toServer # <<>> /\ toServer' = Tail(toServer)
    BY <1>1, <2>3, WithoutProps
  <2>4. CASE toServer' = Sent(toServer, serverAlive, NextFrame)
    <3>1. NextFrame \in Requests /\ NextFrame \notin {LastAck}
      BY Kinds DEF LastAck, AckFrame, NextFrame
    <3> HIDE DEF NextFrame
    <3> QED BY <1>1, <2>4, <3>1, WithoutProps
  <2>5. CASE /\ out \in {"ack", "ack last"}
             /\ toServer' = Sent(toServer, serverAlive, AckFrame(inHand.seq))
             /\ inHand.seq = EndSeq => out' = "final mark"
    <3> DEFINE m == AckFrame(inHand.seq)
    <3>1. inHand \in FrameRecords /\ inHand.seq # EndSeq
      BY <2>5, Kinds DEF PipeInv, OutputInv, WriterTypeOK
    <3>2. m \in Requests /\ m # LastAck
      <4>1. inHand.seq \in FrameSeqs /\ m.seq = inHand.seq /\ LastAck.seq = EndSeq
        BY <3>1 DEF FrameRecords, AckFrame, LastAck
      <4> QED BY <3>1, <4>1, Kinds
    <3> HIDE DEF m
    <3>3. toServer' = Sent(toServer, serverAlive, m)
      BY <2>5 DEF m
    <3> QED BY <1>1, <3>2, <3>3, WithoutProps
  <2> QED BY <2>1, <2>2, <2>3, <2>4, <2>5, RequestSteps
<1> QED BY <1>1, <1>3, <1>4 DEF EndUnsaid

LEMMA ExitStep ==
    ASSUME PipeInv, ExitInv, [Next]_vars
    PROVE  ExitInv'
<1>1. CASE Connect
  <2>1. /\ srv' = "request" /\ toServer' = <<>> /\ status' = "running" /\ exit' = "none"
    BY <1>1 DEF Connect, StartWriter, Accept, Open
  <2> QED BY <2>1, EmptyRun DEF ExitInv, StatusInv, EndUnsaid, Without
<1>2. CASE ~Connect
  <2>1. StatusInv'
    <3>1. CASE Output
      BY <3>1 DEF ExitInv, StatusInv, Output, OutputNext, TakeItem, InputEnded, WriteRecord,
                  WriteMark, SendAck, WriteFinalMark, StopOutput
    <3>2. CASE Exit \/ Kill
      BY <3>2 DEF StatusInv, Exit, WriterExits, Kill, WriterKilled
    <3>3. CASE Produce \/ Serve \/ Receiver \/ LinkReset \/ Finished \/ UNCHANGED vars
      BY <3>3 DEF ExitInv, StatusInv, Produce, Serve, Receiver, ReceiverNext, LinkReset,
                  Finished, writerVars, vars
    <3> QED BY <1>2, <3>1, <3>2, <3>3 DEF Next
  <2>2. ASSUME Closing PROVE Closing'
    <3>1. CASE Output
      BY <2>2, <3>1 DEF Closing, Output, OutputNext, TakeItem, InputEnded, WriteRecord,
             WriteMark, SendAck, WriteFinalMark, StopOutput
    <3>2. CASE Exit
      BY <2>2, <3>2 DEF Closing, Exit, WriterExits, ExitOf
    <3>3. CASE Kill
      BY <3>3 DEF Closing, Kill, WriterKilled
    <3>4. CASE Produce \/ Serve \/ Receiver \/ LinkReset \/ Finished \/ UNCHANGED vars
      BY <2>2, <3>4 DEF Closing, Produce, Serve, Receiver, ReceiverNext, LinkReset,
                        Finished, writerVars, vars
    <3> QED BY <1>2, <3>1, <3>2, <3>3, <3>4 DEF Next
  <2>3. EndUnsaid => EndUnsaid' \/ Closing'
    BY EndSaid DEF Closing
  <2> QED BY <2>1, <2>2, <2>3 DEF ExitInv
<1> QED BY <1>1, <1>2

LEMMA ExitStart == Init => ExitInv
<1> SUFFICES ASSUME Init PROVE ExitInv
    OBVIOUS
<1>1. srv = "accept" /\ toServer = <<>> /\ status = "running" /\ exit = "none"
    BY DEF Init, ServerInit, WireInit, WriterInit
<1> QED BY <1>1 DEF ExitInv, StatusInv, EndUnsaid, Without

\* Frames up to the one the output thread writes next are on the media.
NextToWrite(a) == IF out \in {"ack", "ack last"} THEN a + 1 ELSE a
TapeInv ==
    Working => \E a \in Nat : Flow(a) /\ \A n \in 0 .. NextToWrite(a) - 1 : OnMedia(n)

LEMMA TapeStep ==
    ASSUME ~SpoolTarget, PipeInv, PipeInv', MediaInv, DialogueInv, FlowInv, TapeInv,
           [Next]_vars
    PROVE  TapeInv'
<1> SUFFICES ASSUME Working'
             PROVE  \E a \in Nat : Flow(a)' /\ \A n \in 0 .. NextToWrite(a)' - 1 : OnMedia(n)'
    BY DEF TapeInv
<1>1. \A n : OnMedia(n) => OnMedia(n)'
    BY MediaKept
<1>2. CASE ~Working
  <2>1. Connect
    BY <1>2 DEF Working, Next, Produce, ProducerNext, Serve, Receiver, ReceiverNext, Output,
           OutputNext, TakeItem, InputEnded, WriteRecord, WriteMark, SendAck, WriteFinalMark,
           StopOutput, Exit, WriterExits, Kill, WriterKilled, LinkReset, Finished, writerVars,
           vars
  <2>2. PICK a \in Nat : a = acked /\ Flow(a)'
    BY <2>1, FlowConnect
  <2>3. NextToWrite(a)' = a
    BY <2>1 DEF NextToWrite, Connect, StartWriter
  <2>4. \A n \in 0 .. a - 1 : OnMedia(n)'
    BY <1>1, <2>2 DEF MediaInv, AckedOnMedia
  <2> QED BY <2>2, <2>3, <2>4
<1>3. CASE Working
  <2>1. PICK a \in Nat : Flow(a) /\ \A n \in 0 .. NextToWrite(a) - 1 : OnMedia(n)
    BY <1>3 DEF TapeInv
  <2>2. \A n \in 0 .. a - 1 : OnMedia(n)'
    <3>1. \A n \in 0 .. a - 1 : n \in 0 .. NextToWrite(a) - 1
      <4>1. NextToWrite(a) = a \/ NextToWrite(a) = a + 1
        BY DEF NextToWrite
      <4>2. \A n \in 0 .. a - 1 : n \in 0 .. (a + 1) - 1
        OBVIOUS
      <4> QED BY <4>1, <4>2
    <3> QED BY <1>1, <2>1, <3>1
  <2>3. CASE out \in {"ack", "ack last"} /\ out' = "take"
    <3>1. Flow(a + 1)'
      BY <1>3, <2>1, <2>3, FlowMoves
    <3>2. NextToWrite(a + 1)' = a + 1 /\ NextToWrite(a) = a + 1
      BY <2>3 DEF NextToWrite
    <3>3. \A n \in 0 .. (a + 1) - 1 : OnMedia(n)'
      BY <1>1, <2>1, <3>2
    <3> QED BY <3>1, <3>2, <3>3
  <2>4. CASE ~(out \in {"ack", "ack last"} /\ out' = "take")
    <3>1. Flow(a)'
      BY <1>3, <2>1, <2>4, FlowMoves
    <3>2. CASE out' \notin {"ack", "ack last"}
      <4>1. NextToWrite(a)' = a
        BY <3>2 DEF NextToWrite
      <4> QED BY <2>2, <3>1, <4>1
    <3>3. CASE out' \in {"ack", "ack last"}
      <4>1. NextToWrite(a)' = a + 1
        BY <3>3 DEF NextToWrite
      <4>2. Holding'
        BY <3>3 DEF Holding, IsFrame, PipeInv, OutputInv
      <4>3. inHand'.seq = a
        BY <3>1, <4>2 DEF Flow, InFlow
      <4>4. FrameOn(mounted', a)
        BY <3>3, <4>3, WrittenBeforeAck
      <4>5. OnMedia(a)'
        <5>1. mounted' \in Seq(Records) /\ shelf' \in Seq(Seq(Records))
          BY DEF PipeInv, WriterTypeOK, Records
        <5> QED BY <4>4, <5>1, OneMoreMedium DEF OnMedia, Media
      <4>6. \A n \in 0 .. (a + 1) - 1 : n \in 0 .. a - 1 \/ n = a
        OBVIOUS
      <4>7. \A n \in 0 .. (a + 1) - 1 : OnMedia(n)'
        BY <2>2, <4>5, <4>6
      <4> QED BY <3>1, <4>1, <4>7
    <3> QED BY <3>2, <3>3
  <2> QED BY <2>3, <2>4
<1> QED BY <1>2, <1>3

\* The medium of a finished archive ends with archive_end and a filemark.
EndsWithMark(mt) ==
    Len(mt) > 1 /\ mt[Len(mt)] = Mark /\ mt[Len(mt) - 1].seq = EndSeq
EndOnTape ==
    /\ out = "final mark" =>
           mounted # <<>> /\ mounted[Len(mounted)].seq = EndSeq
    /\ status = "complete" \/ exit = "complete" => EndsWithMark(mounted)
    /\ out = "final mark" \/ status = "complete" \/ exit = "complete" =>
           \A n \in FrameSeqs : OnMedia(n)

LEMMA Backward == \A n \in Nat : (n + 1) - 1 = n
    OBVIOUS

LEMMA MarkedEnd ==
    ASSUME NEW mt \in Seq(Records), mt # <<>>, mt[Len(mt)].seq = EndSeq
    PROVE  EndsWithMark(Append(mt, Mark))
<1> DEFINE q == Append(mt, Mark)
<1>1. Mark \in Records
    BY DEF Records
<1> HIDE DEF Mark
<1>2. /\ Len(q) = Len(mt) + 1 /\ q[Len(mt) + 1] = Mark
      /\ \A i \in 1 .. Len(mt) : q[i] = mt[i]
    BY <1>1, AppendProps
<1>3. Len(mt) \in Nat \ {0} /\ Len(mt) \in 1 .. Len(mt)
    BY EmptySeq
<1> HIDE DEF q
<1>4. Len(q) > 1 /\ Len(q) - 1 = Len(mt)
    BY <1>2, <1>3
<1> QED BY <1>2, <1>3, <1>4 DEF EndsWithMark, q

LEMMA EndStep ==
    ASSUME ~SpoolTarget, PipeInv, PipeInv', MediaInv, FlowInv, TapeInv, ExitInv, EndOnTape,
           [Next]_vars
    PROVE  EndOnTape'
<1>1. /\ \A n : OnMedia(n) => OnMedia(n)'
      /\ FrameSeqs' = FrameSeqs
      /\ \A mt : EndsWithMark(mt)' <=> EndsWithMark(mt)
    BY MediaKept DEF FrameSeqs, EndSeq, EndsWithMark
<1>2. CASE out' # "final mark" /\ status' # "complete" /\ exit' # "complete"
    BY <1>2 DEF EndOnTape
<1>3. CASE UNCHANGED <<out, status, exit, mounted>>
  <2>1. /\ out' = "final mark" => mounted' # <<>> /\ mounted'[Len(mounted')].seq = EndSeq
        /\ status' = "complete" \/ exit' = "complete" => EndsWithMark(mounted')
    BY <1>3 DEF EndOnTape
  <2>2. out' = "final mark" \/ status' = "complete" \/ exit' = "complete" =>
            \A n \in FrameSeqs : OnMedia(n)'
    BY <1>1, <1>3 DEF EndOnTape
  <2>3. EndSeq' = EndSeq /\ (EndsWithMark(mounted)' <=> EndsWithMark(mounted'))
    BY DEF EndSeq, EndsWithMark
  <2> QED BY <1>1, <2>1, <2>2, <2>3 DEF EndOnTape
<1>4. CASE Output /\ SendAck /\ out' = "final mark"
  <2>1. /\ out \in {"ack", "ack last"} /\ inHand.seq = EndSeq
        /\ UNCHANGED <<status, exit, mounted>>
    BY <1>4 DEF SendAck, StopOutput, Output, OutputNext
  <2>2. status' # "complete" /\ exit' # "complete"
    BY <2>1 DEF ExitInv, StatusInv
  <2>3. mounted' # <<>> /\ mounted'[Len(mounted')].seq = EndSeq
    BY <2>1 DEF FlowInv, HandInv
  <2>4. \A n \in FrameSeqs : OnMedia(n)
    <3>1. PICK a \in Nat : Flow(a) /\ \A n \in 0 .. NextToWrite(a) - 1 : OnMedia(n)
      BY <2>1 DEF TapeInv, Working
    <3>2. Holding
      BY <2>1 DEF Holding, IsFrame, PipeInv, OutputInv
    <3>3. a = EndSeq
      BY <2>1, <3>1, <3>2 DEF Flow, InFlow
    <3>4. NextToWrite(a) = a + 1
      BY <2>1 DEF NextToWrite
    <3>5. (a + 1) - 1 = a
      BY Backward
    <3> QED BY <3>1, <3>3, <3>4, <3>5 DEF FrameSeqs
  <2>5. EndSeq' = EndSeq
    BY DEF EndSeq
  <2> QED BY <1>1, <2>2, <2>3, <2>4, <2>5 DEF EndOnTape
<1>5. CASE Output /\ WriteFinalMark(Faulty) /\ status' = "complete"
  <2>1. /\ out = "final mark" /\ mounted' = Append(mounted, Mark) /\ out' # "final mark"
    BY <1>5 DEF WriteFinalMark, StopOutput
  <2>2. mounted # <<>> /\ mounted[Len(mounted)].seq = EndSeq /\ \A n \in FrameSeqs : OnMedia(n)
    BY <2>1 DEF EndOnTape
  <2>3. EndsWithMark(Append(mounted, Mark))
    BY <2>2, MarkedEnd DEF PipeInv, WriterTypeOK, Records
  <2>4. EndsWithMark(mounted') /\ (EndsWithMark(mounted)' <=> EndsWithMark(mounted'))
    BY <2>1, <2>3 DEF EndsWithMark, EndSeq
  <2> QED BY <1>1, <2>1, <2>2, <2>4 DEF EndOnTape
<1>6. CASE Exit /\ exit' = "complete"
  <2>1. /\ status = "complete" /\ UNCHANGED mounted /\ out' # "final mark"
    BY <1>6 DEF Exit, WriterExits, ExitOf
  <2>2. EndsWithMark(mounted) /\ \A n \in FrameSeqs : OnMedia(n)
    BY <2>1 DEF EndOnTape
  <2>3. EndsWithMark(mounted')
    BY <2>1, <2>2
  <2>4. EndsWithMark(mounted)' <=> EndsWithMark(mounted')
    BY DEF EndsWithMark, EndSeq
  <2> QED BY <1>1, <2>1, <2>2, <2>3, <2>4 DEF EndOnTape
<1>7. \/ out' # "final mark" /\ status' # "complete" /\ exit' # "complete"
      \/ UNCHANGED <<out, status, exit, mounted>>
      \/ Output /\ SendAck /\ out' = "final mark"
      \/ Output /\ WriteFinalMark(Faulty) /\ status' = "complete"
      \/ Exit /\ exit' = "complete"
  <2>1. CASE Output
    <3>1. /\ out \in {"take", "write", "ack", "ack last", "final mark"} /\ exit' = exit
      BY <2>1 DEF Output, OutputNext, TakeItem, InputEnded, WriteRecord, WriteMark, SendAck,
                  WriteFinalMark
    <3>2. status # "complete" /\ exit' # "complete"
      BY <3>1 DEF ExitInv, StatusInv
    <3> QED BY <2>1, <3>2 DEF Output, OutputNext, TakeItem, InputEnded, WriteRecord, WriteMark,
               SendAck, WriteFinalMark, StopOutput
  <2>2. CASE Connect \/ Exit \/ Kill
    BY <2>2 DEF Connect, StartWriter, Exit, WriterExits, Kill, WriterKilled
  <2>3. CASE Produce \/ Serve \/ Receiver \/ LinkReset \/ Finished \/ UNCHANGED vars
    BY <2>3 DEF Produce, Serve, Receiver, ReceiverNext, LinkReset, Finished, writerVars, vars
  <2> QED BY <2>1, <2>2, <2>3 DEF Next
<1> QED BY <1>2, <1>3, <1>4, <1>5, <1>6, <1>7

LEMMA TapeHolds ==
    ASSUME ~SpoolTarget
    PROVE  Spec => [](TapeInv /\ ExitInv /\ EndOnTape)
<1> DEFINE I == TapeInv /\ ExitInv /\ EndOnTape
<1>1. Init => I
  <2>1. Init => out = "off" /\ status = "running" /\ exit = "none"
    BY DEF Init, WriterInit
  <2> QED BY <2>1, ExitStart DEF TapeInv, EndOnTape, Working
<1>2. PipeInv /\ PipeInv' /\ MediaInv /\ DialogueInv /\ FlowInv /\ I /\ [Next]_vars => I'
    BY TapeStep, ExitStep, EndStep
<1> QED BY <1>1, <1>2, FlowHolds, MediaHolds, PipelineInvariant, PTL DEF Spec

\* What a writer to tape exits with is true: complete means that archive_end
\* and its filemark end this tape and that the whole archive is on the tapes,
\* volume_full that the archiver is waiting for the next one.
THEOREM ExitTellsTheTruth ==
    ASSUME ~SpoolTarget
    PROVE  Spec => []ExitIsTruthful
<1>1. ExitInv /\ EndOnTape => ExitIsTruthful
  <2> SUFFICES ASSUME ExitInv, EndOnTape PROVE ExitIsTruthful
    OBVIOUS
  <2>1. exit = "complete" => EndsWithMark(mounted) /\ \A n \in FrameSeqs : OnMedia(n)
    BY DEF EndOnTape
  <2>2. exit = "volume_full" => srv # "complete"
    BY DEF ExitInv, StatusInv, EndUnsaid, Closing
  <2> QED BY <2>1, <2>2 DEF ExitIsTruthful, EndsWithMark
<1> QED BY <1>1, TapeHolds, PTL

-----------------------------------------------------------------------------
(* Volume numbers and the frames their media start at.                     *)

\* A volume number is counted up only behind an acknowledgement.
LEMMA VolumeSteps ==
    ASSUME DialogueInv, [Next]_vars
    PROVE  \/ /\ UNCHANGED <<acked, volumeNum, committed>>
              /\ srv' = "complete" <=> srv = "complete"
           \/ /\ Serve /\ ReadAck /\ acked' = acked + 1 /\ volumeNum' = volumeNum
              /\ committed' \/ srv' = "complete"
           \/ /\ acked' = acked /\ ~committed'
              /\ volumeNum' = IF committed THEN volumeNum + 1 ELSE volumeNum
              /\ srv # "complete" /\ srv' # "complete"
<1>1. CASE Serve /\ ReadAck
    BY <1>1 DEF ReadAck, Return
<1>2. CASE Serve /\ ~ReadAck
  <2>1. acked' = acked
    BY <1>2 DEF Serve, ServerNext, ReadAckOutOfOrder, ReadNextFrame, ReadRefused, ReadEof,
                SendRetained, SendNewFrame, SendTapeEof, TakeDone, QueueEnded,
                SendArchiveEnd, Popped
  <2>2. srv # "complete"
    BY <1>2 DEF Serve, ServerNext, ReadAckOutOfOrder, ReadNextFrame, ReadRefused, ReadEof,
                SendRetained, SendNewFrame, SendTapeEof, TakeDone, QueueEnded,
                SendArchiveEnd, Popped, Received, AwaitsMessage, Serving
  <2>3. \/ UNCHANGED <<volumeNum, committed>> /\ srv' # "complete"
        \/ Return(FALSE, committed)
    BY <1>2 DEF Serve, ServerNext, ReadAckOutOfOrder, ReadNextFrame, ReadRefused, ReadEof,
                SendRetained, SendNewFrame, SendTapeEof, TakeDone, QueueEnded,
                SendArchiveEnd, Reply, Refuse, callVars
  <2>4. Return(FALSE, committed) =>
            /\ srv' = "accept" /\ ~committed'
            /\ volumeNum' = IF committed THEN volumeNum + 1 ELSE volumeNum
    BY DEF Return
  <2> QED BY <2>1, <2>2, <2>3, <2>4
<1>3. CASE Connect
  <2>1. ~committed
    BY <1>3 DEF Connect, DialogueInv, LinkInv, InCall
  <2> QED BY <1>3, <2>1 DEF Connect, Accept
<1>4. CASE Produce \/ Receiver \/ Output \/ Exit \/ Kill \/ LinkReset \/ Finished
              \/ UNCHANGED vars
    BY <1>4 DEF Produce, ProducerNext, Receiver, Output, Exit, Kill, LinkReset, Finished,
                archiverVars, serverVars, vars
<1> QED BY <1>1, <1>2, <1>3, <1>4 DEF Next

\* What the current volume's writer is given says its number.
VolumeReplies == {m \in Replies : m.type = "frame_record" => m.vol = volumeNum}
VolumeRecords == {r \in Records : r.kind = "frame" => r.vol = volumeNum}
BlankInv ==
    Working /\ Blank =>
        /\ ~committed
        /\ toWriter \in Seq(VolumeReplies)
        /\ buffer \in Seq(VolumeRecords) /\ inHand \in VolumeRecords \cup {Nothing}

\* While a medium has no frame nothing is acknowledged and no number counted.
LEMMA BlankStep ==
    ASSUME PipeInv, DialogueInv, FlowInv, ExitInv, BlankInv, [Next]_vars
    PROVE  BlankInv'
<1> SUFFICES ASSUME Working', Blank'
             PROVE  /\ ~committed'
                    /\ toWriter' \in Seq(VolumeReplies')
                    /\ buffer' \in Seq(VolumeRecords')
                    /\ inHand' \in VolumeRecords' \cup {Nothing}
    BY DEF BlankInv, VolumeReplies, VolumeRecords
<1>1. CASE ~Working
  <2>1. Connect
    BY <1>1 DEF Working, Next, Produce, ProducerNext, Serve, Receiver, ReceiverNext, Output,
           OutputNext, TakeItem, InputEnded, WriteRecord, WriteMark, SendAck, WriteFinalMark,
           StopOutput, Exit, WriterExits, Kill, WriterKilled, LinkReset, Finished, writerVars,
           vars
  <2>2. /\ toWriter' = <<>> /\ buffer' = <<>> /\ inHand' = Nothing /\ ~committed'
    BY <2>1 DEF Connect, StartWriter, Open, Accept
  <2> QED BY <2>2
<1>2. CASE Working
  <2>1. Blank
    <3>1. ~Kill /\ ~Connect
      BY <1>2 DEF Kill, WriterKilled, Working, Connect, StartWriter
    <3>2. mounted \in Seq(Records) /\ Mark \in Records /\ FrameRecords' = FrameRecords
          /\ (IsFrame(inHand) => inHand \in Records)
      BY PipeTypes, Kinds DEF Records, FrameRecords, FrameSeqs, EndSeq, IsFrame, PipeInv,
             WriterTypeOK
    <3>3. ASSUME NEW r \in Records, mounted' = Append(mounted, r)
          PROVE  Blank
      <4> DEFINE q == Append(mounted, r)
      <4>1. \A i \in DOMAIN mounted : i \in DOMAIN q /\ q[i] = mounted[i]
        BY <3>2, FramesAppended
      <4>2. \A i \in DOMAIN q : q[i] \notin FrameRecords
        BY <3>2, <3>3 DEF Blank, Without
      <4> HIDE DEF q
      <4> QED BY <4>1, <4>2 DEF Blank, Without
    <3>4. mounted' = mounted => Blank
      BY <3>2 DEF Blank, Without
    <3> HIDE DEF Mark
    <3> QED BY <3>1, <3>2, <3>3, <3>4, MediumSteps
  <2>2. /\ ~committed /\ toWriter \in Seq(VolumeReplies)
        /\ buffer \in Seq(VolumeRecords) /\ inHand \in VolumeRecords \cup {Nothing}
    BY <1>2, <2>1 DEF BlankInv
  <2>3. acked \in Nat
    BY PipeTypes
  <2>4. PICK a \in Nat : Flow(a)
    BY <1>2 DEF FlowInv
  <2>5. Serve => acked' = acked
    BY <1>2, <2>1, <2>4, FlowServe
  <2>6. ~(Serve /\ acked' = acked + 1)
    BY <2>3, <2>5
  <2>7. volumeNum' = volumeNum /\ ~committed'
    BY <2>2, <2>6, VolumeSteps
  <2>8. VolumeReplies' = VolumeReplies /\ VolumeRecords' = VolumeRecords
    BY <2>7 DEF VolumeReplies, VolumeRecords, Replies, Records, FrameRecords, FrameSeqs,
               EndSeq, Reasons
  <2>9. volumeNum \in Nat
    BY DEF PipeInv, ServerInv, ServerTypeOK
  <2>10. /\ TapeEof \in VolumeReplies /\ Mark \in VolumeRecords
         /\ \A why \in Reasons : Error(why) \in VolumeReplies
         /\ \A n \in FrameSeqs : FrameRecord(n, volumeNum) \in VolumeReplies
    <3>1. Mark \in VolumeRecords
      BY Kinds DEF VolumeRecords, Records
    <3>2. TapeEof \in VolumeReplies /\ \A why \in Reasons : Error(why) \in VolumeReplies
      BY ReplyTypes DEF VolumeReplies, Error, TapeEof
    <3>3. \A n \in FrameSeqs : FrameRecord(n, volumeNum) \in VolumeReplies
      BY <2>9, ReplyTypes DEF VolumeReplies, FrameRecord
    <3> QED BY <3>1, <3>2, <3>3
  <2>11. \A m \in VolumeReplies : m.type = "frame_record" =>
             Record(m.seq, m.vol) \in VolumeRecords
    <3>1. ASSUME NEW m \in VolumeReplies, m.type = "frame_record"
          PROVE  Record(m.seq, m.vol) \in VolumeRecords
      <4>1. m.seq \in FrameSeqs /\ m.vol \in Nat /\ m.vol = volumeNum
        BY <3>1 DEF VolumeReplies, Replies
      <4>2. Record(m.seq, m.vol) \in Records /\ Record(m.seq, m.vol).vol = volumeNum
        BY <4>1, Kinds DEF Records, Record
      <4> QED BY <4>2 DEF VolumeRecords
    <3> QED BY <3>1
  <2>12. /\ toWriter' \in Seq(VolumeReplies) /\ buffer' \in Seq(VolumeRecords)
         /\ inHand' \in VolumeRecords \cup {Nothing}
    <3> HIDE DEF Mark, TapeEof
    <3>1. CASE Serve
      <4>1. UNCHANGED <<buffer, inHand>>
        BY <3>1 DEF Serve, writerVars
      <4>2. toWriter' \in Seq(VolumeReplies)
        BY <2>2, <2>10, <3>1, ServerSends
      <4> QED BY <2>2, <4>1, <4>2
    <3>2. CASE ~Serve
      BY <2>2, <2>10, <2>11, <3>2, HandedOn
    <3> QED BY <3>1, <3>2
  <2> QED BY <2>7, <2>8, <2>12
<1> QED BY <1>1, <1>2

\* The frame a medium starts at.
StartOn(mt, r) == \E i \in DOMAIN mt : IsFirst(mt, i) /\ mt[i] = r
Starts(r) == \E v \in DOMAIN Media : StartOn(Media[v], r)

\* A number now in use starts where the acknowledged frames end.
StartInv ==
    \A r \in FrameRecords : Starts(r) =>
        /\ r.vol <= volumeNum
        /\ r.vol = volumeNum /\ ~committed /\ srv # "complete" => r.seq = acked
SameStart ==
    \A r, s \in FrameRecords : Starts(r) /\ Starts(s) /\ r.vol = s.vol => r.seq = s.seq

LEMMA OneMoreStart ==
    ASSUME NEW sh \in Seq(Seq(Records)), NEW mt \in Seq(Records), NEW r
    PROVE  (\E v \in DOMAIN Append(sh, mt) : StartOn(Append(sh, mt)[v], r))
               <=> StartOn(mt, r) \/ \E v \in DOMAIN sh : StartOn(sh[v], r)
<1> DEFINE R == Seq(Records)
           q == Append(sh, mt)
<1>1. sh \in Seq(R) /\ mt \in R
    OBVIOUS
<1> HIDE DEF R
<1>2. /\ Len(sh) \in Nat /\ \A i \in 1 .. Len(sh) : q[i] = sh[i]
      /\ q[Len(sh) + 1] = mt
      /\ DOMAIN q = 1 .. Len(sh) + 1 /\ DOMAIN sh = 1 .. Len(sh)
    BY <1>1, AppendProps, LenProperties
<1> HIDE DEF q
<1>3. \A v \in DOMAIN q : (v \in DOMAIN sh /\ q[v] = sh[v]) \/ q[v] = mt
    BY <1>2
<1>4. Len(sh) + 1 \in DOMAIN q /\ \A v \in DOMAIN sh : v \in DOMAIN q /\ q[v] = sh[v]
    BY <1>2
<1> QED BY <1>2, <1>3, <1>4 DEF q

\* What a step makes a medium start at.
LEMMA StartAppended ==
    ASSUME NEW mt \in Seq(Records), NEW f \in Records, NEW r, StartOn(Append(mt, f), r)
    PROVE  StartOn(mt, r) \/ (IsFrame(f) /\ FramesOf(mt) = {} /\ r = f)
<1> DEFINE q == Append(mt, f)
           last == Len(mt) + 1
<1>1. /\ FramesOf(q) = FramesOf(mt) \cup (IF IsFrame(f) THEN {last} ELSE {})
      /\ \A i \in DOMAIN mt : q[i] = mt[i] /\ i < last
      /\ q[last] = f
      /\ FramesOf(mt) \subseteq DOMAIN mt /\ DOMAIN mt \subseteq Nat
      /\ Len(mt) \in Nat
    BY FramesAppended
<1>2. PICK i : IsFirst(q, i) /\ q[i] = r
    BY DEF StartOn
<1>3. i \in FramesOf(q) /\ \A k \in FramesOf(q) : i <= k
    BY <1>2 DEF IsFirst
<1> HIDE DEF q, last
<1>4. CASE i \in FramesOf(mt)
  <2>1. IsFirst(mt, i) /\ i \in DOMAIN mt /\ mt[i] = r
    BY <1>1, <1>2, <1>3, <1>4 DEF IsFirst
  <2> QED BY <2>1 DEF StartOn
<1>5. CASE i \notin FramesOf(mt)
  <2>1. i = last /\ IsFrame(f)
    BY <1>1, <1>3, <1>5
  <2>2. ASSUME NEW k \in FramesOf(mt) PROVE FALSE
    <3>1. k < last /\ last <= k /\ k \in Nat
      BY <1>1, <1>3, <2>1, <2>2
    <3>2. last \in Nat
      BY <1>1 DEF last
    <3> QED BY <3>1, <3>2
  <2> QED BY <1>1, <1>2, <2>1, <2>2
<1> QED BY <1>4, <1>5

LEMMA StartTruncated ==
    ASSUME NEW mt \in Seq(Records), NEW t \in Truncations(mt), NEW r, StartOn(t, r)
    PROVE  StartOn(mt, r)
<1>1. /\ t \in Seq(Records) /\ Len(t) <= Len(mt) /\ \A i \in 1 .. Len(t) : t[i] = mt[i]
    BY TruncationsProps
<1>2. /\ DOMAIN t = 1 .. Len(t) /\ Len(t) \in Nat
      /\ DOMAIN mt = 1 .. Len(mt) /\ Len(mt) \in Nat
    BY <1>1, LenProperties
<1>3. PICK i : IsFirst(t, i) /\ t[i] = r
    BY DEF StartOn
<1>4. i \in DOMAIN t /\ IsFrame(t[i]) /\ \A k \in FramesOf(t) : i <= k
    BY <1>3 DEF IsFirst, FramesOf
<1>5. i \in DOMAIN mt /\ mt[i] = r /\ i \in FramesOf(mt)
    BY <1>1, <1>2, <1>3, <1>4 DEF FramesOf
<1>6. ASSUME NEW k \in FramesOf(mt) PROVE i <= k
  <2>1. k \in DOMAIN mt /\ IsFrame(mt[k])
    BY <1>6 DEF FramesOf
  <2>2. CASE k \in DOMAIN t
    <3>1. k \in FramesOf(t)
      BY <1>1, <1>2, <2>1, <2>2 DEF FramesOf
    <3> QED BY <1>4, <3>1
  <2>3. CASE k \notin DOMAIN t
    BY <1>2, <1>4, <2>1, <2>3
  <2> QED BY <2>2, <2>3
<1> QED BY <1>5, <1>6 DEF StartOn, IsFirst

\* A medium begins with the frame that is written to it while it has none.
LEMMA NewStart ==
    ASSUME PipeInv, PipeInv', [Next]_vars, NEW r, Starts(r)'
    PROVE  \/ Starts(r)
           \/ /\ Output /\ out = "write" /\ IsFrame(inHand)
              /\ FramesOf(mounted) = {} /\ r = inHand
<1>1. /\ mounted \in Seq(Records) /\ shelf \in Seq(Seq(Records))
      /\ mounted' \in Seq(Records) /\ shelf' \in Seq(Seq(Records))
    BY DEF PipeInv, WriterTypeOK, Records
<1>2. /\ Starts(r) <=> StartOn(mounted, r) \/ \E v \in DOMAIN shelf : StartOn(shelf[v], r)
      /\ StartOn(mounted', r) \/ \E v \in DOMAIN shelf' : StartOn(shelf'[v], r)
  <2>1. Starts(r) <=> StartOn(mounted, r) \/ \E v \in DOMAIN shelf : StartOn(shelf[v], r)
    BY <1>1, OneMoreStart DEF Starts, Media
  <2>2. \E v \in DOMAIN Append(shelf', mounted') : StartOn(Append(shelf', mounted')[v], r)
    BY DEF Starts, Media, StartOn, IsFirst, FramesOf, IsFrame
  <2> QED BY <1>1, <2>1, <2>2, OneMoreStart
<1>3. CASE mounted' = mounted /\ shelf' = shelf
    BY <1>2, <1>3
<1>4. CASE mounted' = Append(mounted, Mark) /\ shelf' = shelf
  <2>1. Mark \in Records /\ ~IsFrame(Mark)
    BY Kinds DEF Records, IsFrame
  <2> HIDE DEF Mark
  <2> QED BY <1>1, <1>2, <1>4, <2>1, StartAppended
<1>5. CASE /\ mounted' = Append(mounted, inHand) /\ shelf' = shelf
           /\ Output /\ out = "write" /\ IsFrame(inHand)
  <2>1. inHand \in Records
    BY <1>5, Kinds DEF Records, IsFrame, PipeInv, WriterTypeOK
  <2> QED BY <1>1, <1>2, <1>5, <2>1, StartAppended
<1>6. CASE /\ mounted' = <<>>
           /\ shelf' = IF mounted = <<>> THEN shelf ELSE Append(shelf, mounted)
  <2>1. ~StartOn(mounted', r)
    BY <1>6 DEF StartOn
  <2>2. \E v \in DOMAIN shelf' : StartOn(shelf'[v], r)
    BY <1>2, <2>1
  <2>3. CASE mounted = <<>>
    BY <1>2, <1>6, <2>2, <2>3
  <2>4. CASE mounted # <<>>
    <3>1. \E v \in DOMAIN Append(shelf, mounted) : StartOn(Append(shelf, mounted)[v], r)
      BY <1>6, <2>2, <2>4
    <3> QED BY <3>1 DEF Starts, Media
  <2> QED BY <2>3, <2>4
<1>7. CASE mounted' \in Truncations(mounted) /\ shelf' = shelf
    BY <1>1, <1>2, <1>7, StartTruncated
<1> QED BY <1>3, <1>4, <1>5, <1>6, <1>7, MediumSteps

LEMMA StartStep ==
    ASSUME PipeInv, PipeInv', DialogueInv, FlowInv, ExitInv, BlankInv, StartInv, SameStart,
           [Next]_vars
    PROVE  StartInv' /\ SameStart'
<1> DEFINE First == /\ Output /\ out = "write" /\ IsFrame(inHand) /\ FramesOf(mounted) = {}
<1>1. First => /\ inHand \in FrameRecords /\ inHand.vol = volumeNum /\ inHand.seq = acked
               /\ ~committed /\ srv # "complete"
               /\ UNCHANGED <<acked, volumeNum, committed, srv>>
  <2> SUFFICES ASSUME First
               PROVE  /\ inHand \in FrameRecords /\ inHand.vol = volumeNum
                      /\ inHand.seq = acked /\ ~committed /\ srv # "complete"
                      /\ UNCHANGED <<acked, volumeNum, committed, srv>>
    OBVIOUS
  <2>1. Working /\ Holding
    BY DEF Working, Holding
  <2>2. Blank
    BY PipeTypes, KindsOfAck DEF Blank, Without, FramesOf
  <2>3. PICK a \in Nat : Flow(a)
    BY <2>1 DEF FlowInv
  <2>4. inHand.seq = acked
    BY <2>1, <2>2, <2>3 DEF Flow, InFlow, AckFlow
  <2>5. ~committed /\ inHand \in FrameRecords /\ inHand.vol = volumeNum
    <3>1. ~committed /\ inHand \in VolumeRecords \cup {Nothing}
      BY <2>1, <2>2 DEF BlankInv
    <3>2. inHand.kind = "frame" /\ inHand # Nothing
      BY Kinds DEF IsFrame
    <3>3. inHand \in Records /\ inHand.vol = volumeNum
      BY <3>1, <3>2 DEF VolumeRecords
    <3> QED BY <3>1, <3>2, <3>3, Kinds
  <2>6. srv # "complete"
    BY <2>1 DEF ExitInv, EndUnsaid, Closing, Working
  <2>7. UNCHANGED <<acked, volumeNum, committed, srv>>
    BY DEF Output, archiverVars, serverVars
  <2> QED BY <2>4, <2>5, <2>6, <2>7
<1>2. \A r : Starts(r)' => Starts(r) \/ (First /\ r = inHand)
    BY NewStart
<1>3. volumeNum \in Nat /\ \A r \in FrameRecords : r.vol \in Nat
    BY DEF PipeInv, ServerInv, ServerTypeOK, FrameRecords
<1> HIDE DEF First
<1>4. FrameRecords' = FrameRecords
    BY DEF FrameRecords, FrameSeqs, EndSeq
<1>5. ASSUME NEW r \in FrameRecords, Starts(r)'
      PROVE  /\ r.vol <= volumeNum'
             /\ r.vol = volumeNum' /\ ~committed' /\ srv' # "complete" => r.seq = acked'
  <2>1. CASE First /\ r = inHand
    BY <1>1, <1>3, <2>1
  <2>2. CASE Starts(r)
    <3>1. /\ r.vol <= volumeNum /\ r.vol \in Nat
          /\ r.vol = volumeNum /\ ~committed /\ srv # "complete" => r.seq = acked
      BY <1>3, <2>2 DEF StartInv
    <3>2. CASE UNCHANGED <<acked, volumeNum, committed>>
               /\ (srv' = "complete" <=> srv = "complete")
      BY <3>1, <3>2
    <3>3. CASE volumeNum' = volumeNum /\ (committed' \/ srv' = "complete")
      BY <3>1, <3>3
    <3>4. CASE committed /\ volumeNum' = volumeNum + 1
      <4>1. r.vol <= volumeNum' /\ r.vol # volumeNum'
        BY <1>3, <3>1, <3>4
      <4> QED BY <4>1
    <3>5. CASE ~committed /\ volumeNum' = volumeNum /\ acked' = acked /\ srv # "complete"
      BY <3>1, <3>5
    <3> QED BY <3>2, <3>3, <3>4, <3>5, VolumeSteps
  <2> QED BY <1>2, <1>5, <2>1, <2>2
<1>6. ASSUME NEW r \in FrameRecords, NEW s \in FrameRecords, Starts(r)', Starts(s)',
             r.vol = s.vol
      PROVE  r.seq = s.seq
  <2>1. CASE Starts(r) /\ Starts(s)
    BY <1>6, <2>1 DEF SameStart
  <2>2. ASSUME NEW x \in FrameRecords, Starts(x), First, x.vol = inHand.vol
        PROVE  x.seq = inHand.seq
    BY <1>1, <2>2 DEF StartInv
  <2> QED BY <1>2, <1>6, <2>1, <2>2
<1> QED BY <1>4, <1>5, <1>6 DEF StartInv, SameStart

\* A volume number is used again only for a medium that starts at the same
\* frame, and so replaces the one nothing was acknowledged from: on tape and
\* in a spool directory, whatever becomes of media, writers and connections.
THEOREM VolumesStartWhereTheirNumberDid == Spec => []SameNumberSameStart
<1> DEFINE I == ExitInv /\ BlankInv /\ StartInv /\ SameStart
<1>1. Init => I
  <2> SUFFICES ASSUME Init PROVE I
    OBVIOUS
  <2>1. out = "off" /\ shelf = <<>> /\ mounted = <<>>
    BY DEF Init, WriterInit
  <2>2. ASSUME NEW r PROVE ~Starts(r)
    <3>1. /\ <<>> \in Seq(Records) /\ <<>> \in Seq(Seq(Records))
          /\ ~StartOn(<<>>, r) /\ \A v \in DOMAIN <<>> : FALSE
      BY DEF StartOn
    <3> QED BY <2>1, <3>1, OneMoreStart DEF Starts, Media
  <2> QED BY <2>1, <2>2, ExitStart DEF BlankInv, Working, StartInv, SameStart
<1>2. PipeInv /\ PipeInv' /\ DialogueInv /\ FlowInv /\ I /\ [Next]_vars => I'
    BY ExitStep, BlankStep, StartStep
<1>3. PipeInv /\ SameStart => SameNumberSameStart
  <2> SUFFICES ASSUME PipeInv, SameStart, NEW u \in DOMAIN Media, NEW v \in DOMAIN Media,
                      NEW i \in DOMAIN Media[u], NEW j \in DOMAIN Media[v],
                      IsFirst(Media[u], i), IsFirst(Media[v], j),
                      Media[u][i].vol = Media[v][j].vol
               PROVE  Media[u][i].seq = Media[v][j].seq
    BY DEF SameNumberSameStart
  <2>1. Media \in Seq(Seq(Records))
    <3>1. mounted \in Seq(Records) /\ shelf \in Seq(Seq(Records))
      BY DEF PipeInv, WriterTypeOK, Records
    <3> DEFINE R == Seq(Records)
    <3> HIDE DEF R
    <3>2. Append(shelf, mounted) \in Seq(R)
      BY <3>1, AppendProps DEF R
    <3> QED BY <3>2 DEF Media, R
  <2>2. ASSUME NEW w \in DOMAIN Media, NEW k, IsFirst(Media[w], k)
        PROVE  Media[w][k] \in FrameRecords /\ Starts(Media[w][k])
    <3>1. Media[w] \in Seq(Records) /\ k \in DOMAIN Media[w] /\ IsFrame(Media[w][k])
      BY <2>1, <2>2 DEF IsFirst, FramesOf
    <3>2. Media[w][k] \in Records
      BY <3>1
    <3> QED BY <2>2, <3>1, <3>2, KindsOfAck DEF Starts, StartOn
  <2> QED BY <2>2 DEF SameStart
<1> QED BY <1>1, <1>2, <1>3, FlowHolds, PipelineInvariant, PTL DEF Spec
=============================================================================
