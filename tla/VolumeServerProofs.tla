------------------------- MODULE VolumeServerProofs -------------------------
(***************************************************************************)
(* The inductive invariant of the volume server, and that every step of    *)
(* the producer and of the server preserves it, for every archive length,  *)
(* every slice layout, every window and every queue capacity.  The client  *)
(* is any that acknowledges only frames its connection was sent.           *)
(***************************************************************************)
EXTENDS VolumeServer, FiniteSetTheorems, SequenceTheorems, TLAPS

\* The number that follows an item in the stream.
After(item) == IF item.kind = "frame" THEN item.seq + 1 ELSE item.seq

InCall == srv \in {"request", "serve", "drain"}

\* The first frame that was never sent to any writer.
Held == IF EndBuilt THEN EndSeq + 1 ELSE Taken

\* How far the producer is when it is about to push its next item.
ProducerInv ==
    /\ producer = "frames" => nextSeq < NumFrames
    /\ producer \in {"done", "finished"} => nextSeq = NumFrames

\* The queue holds a consecutive part of the stream that ends where the
\* producer is, and nothing is behind the done item.
QueueInv ==
    /\ \A i \in 1 .. Len(frameQueue) :
         /\ frameQueue[i].kind = "frame" => frameQueue[i].seq < NumFrames
         /\ frameQueue[i].kind = "done" =>
                i = Len(frameQueue) /\ producer = "finished"
    /\ \A i \in 1 .. Len(frameQueue) - 1 :
           frameQueue[i + 1].seq = After(frameQueue[i])
    /\ frameQueue # <<>> => nextSeq = After(frameQueue[Len(frameQueue)])

\* What is retained is what left the queue and is not acknowledged; the
\* next frame to send is retained or the first that is not.
WindowInv ==
    /\ retention = acked .. Held - 1
    /\ acked <= Held
    /\ Held - acked <= RetentionFrames
    /\ nextSend <= Held
    /\ InCall => acked <= nextSend
    /\ endSent => EndBuilt
    /\ srv = "drain" => ~EndBuilt /\ nextSend = EndSeq
    /\ srv = "drain" \/ EndBuilt => frameQueue = <<>> /\ producer = "finished"
    /\ EndBuilt => acked >= EndSeq

ServerInv == ServerTypeOK /\ ProducerInv /\ QueueInv /\ WindowInv

\* No acknowledgement in the connection is of a frame it was not sent.
AcksSent ==
    InCall => \A i \in 1 .. Len(toServer) :
                  toServer[i].type = "ack_frame" => toServer[i].seq < nextSend

-----------------------------------------------------------------------------
(* Sequences. *)

\* Appending to a sequence keeps its elements and adds one at the end.
LEMMA AppendProps ==
    ASSUME NEW S, NEW q \in Seq(S), NEW e \in S
    PROVE  /\ Append(q, e) \in Seq(S)
           /\ Append(q, e) # <<>>
           /\ Len(Append(q, e)) = Len(q) + 1
           /\ \A i \in 1 .. Len(q) : Append(q, e)[i] = q[i]
           /\ Append(q, e)[Len(q) + 1] = e
    OBVIOUS

\* What a reset leaves of a queue is a sequence of the same messages.
LEMMA TruncationsProps ==
    ASSUME NEW S, NEW q \in Seq(S), NEW t \in Truncations(q)
    PROVE  /\ t \in Seq(S)
           /\ Len(t) <= Len(q)
           /\ \A i \in 1 .. Len(t) : t[i] = q[i]
<1>1. PICK k \in 0 .. Len(q) : t = SubSeq(q, 1, k)
    BY DEF Truncations
<1>2. \A i \in 1 .. k : q[i] \in S
    BY <1>1, LenProperties
<1>3. /\ SubSeq(q, 1, k) \in Seq(S)
      /\ Len(SubSeq(q, 1, k)) = IF 1 <= k THEN k - 1 + 1 ELSE 0
      /\ \A i \in 1 .. k - 1 + 1 : SubSeq(q, 1, k)[i] = q[1 + i - 1]
    BY <1>1, <1>2, SubSeqProperties, LenProperties
<1> QED
    BY <1>1, <1>3, LenProperties

\* What a write leaves in a queue is a sequence of messages.
LEMMA SentProps ==
    ASSUME NEW S, NEW q \in Seq(S), NEW m \in S, NEW alive
    PROVE  Sent(q, alive, m) \in Seq(S)
    BY AppendProps DEF Sent

-----------------------------------------------------------------------------
(* The queue between the producer and the server. *)

\* The item at the front of the queue has the number Taken, and taking it
\* moves Taken behind it.
LEMMA PopProps ==
    ASSUME ServerInv, NEW kind \in {"frame", "tape_eof", "done"}, Popped(kind),
           UNCHANGED producerVars
    PROVE  /\ Head(frameQueue) \in Items
           /\ Head(frameQueue).kind = kind
           /\ Head(frameQueue).seq = Taken
           /\ kind = "frame" => Taken < NumFrames
           /\ Taken' = IF kind = "frame" THEN Taken + 1 ELSE Taken
           /\ kind = "done" => frameQueue' = <<>> /\ producer = "finished"
           /\ frameQueue' \in Seq(Items)
           /\ QueueInv'
<1> DEFINE h == Head(frameQueue)
           rest == Tail(frameQueue)
<1>1. frameQueue \in Seq(Items) /\ frameQueue # <<>> /\ frameQueue' = rest
      /\ h.kind = kind
    BY DEF ServerInv, ServerTypeOK, Popped
<1>2. /\ h \in Items /\ rest \in Seq(Items)
      /\ Len(rest) = Len(frameQueue) - 1 /\ Len(frameQueue) \in Nat \ {0}
      /\ \A i \in 1 .. Len(rest) : rest[i] = frameQueue[i + 1]
      /\ h = frameQueue[1]
    BY <1>1, HeadTailProperties, EmptySeq, LenProperties
<1>3. nextSeq' = nextSeq /\ producer' = producer
    BY DEF producerVars
<1>a. \A i \in 1 .. Len(frameQueue) :
        /\ frameQueue[i].kind = "frame" => frameQueue[i].seq < NumFrames
        /\ frameQueue[i].kind = "done" =>
               i = Len(frameQueue) /\ producer = "finished"
    BY DEF ServerInv, QueueInv
<1>b. 1 \in 1 .. Len(frameQueue)
    BY <1>2
<1>4. /\ h.seq = Taken
      /\ kind = "frame" => Taken < NumFrames
      /\ kind = "done" => Len(rest) = 0 /\ producer = "finished"
    <2>1. h.seq = Taken
        BY <1>1 DEF Taken
    <2>2. /\ frameQueue[1].kind = "frame" => frameQueue[1].seq < NumFrames
          /\ frameQueue[1].kind = "done" =>
               1 = Len(frameQueue) /\ producer = "finished"
        BY <1>a, <1>b
    <2>3. kind = "frame" => Taken < NumFrames
        BY <1>1, <1>2, <2>1, <2>2
    <2>4. kind = "done" => Len(rest) = 0 /\ producer = "finished"
        BY <1>1, <1>2, <2>2
    <2> QED
        BY <2>1, <2>3, <2>4
<1>5. rest = <<>> <=> Len(frameQueue) = 1
    BY <1>2, EmptySeq
<1>6. Taken' = After(h)
    <2>1. CASE rest = <<>>
        BY <1>1, <1>2, <1>3, <1>5, <2>1 DEF Taken, ServerInv, QueueInv
    <2>2. CASE rest # <<>>
        <3>1. Head(rest) = rest[1] /\ 1 \in 1 .. Len(rest)
              /\ 1 \in 1 .. Len(frameQueue) - 1
            BY <1>2, <2>2, EmptySeq
        <3>2. frameQueue[1 + 1].seq = After(frameQueue[1])
            BY <3>1 DEF ServerInv, QueueInv
        <3> QED
            BY <1>1, <1>2, <2>2, <3>1, <3>2 DEF Taken
    <2> QED
        BY <2>1, <2>2
<1>7. QueueInv'
    <2>1. ASSUME NEW i \in 1 .. Len(rest)
          PROVE  /\ rest[i].kind = "frame" => rest[i].seq < NumFrames
                 /\ rest[i].kind = "done" =>
                        i = Len(rest) /\ producer = "finished"
        <3>1. i + 1 \in 1 .. Len(frameQueue)
            BY <1>2
        <3>2. /\ frameQueue[i + 1].kind = "frame" =>
                     frameQueue[i + 1].seq < NumFrames
              /\ frameQueue[i + 1].kind = "done" =>
                     i + 1 = Len(frameQueue) /\ producer = "finished"
            BY <1>a, <3>1
        <3>3. rest[i] = frameQueue[i + 1]
            BY <1>2
        <3>4. i + 1 = Len(frameQueue) => i = Len(rest)
            <4>1. /\ Len(rest) = Len(frameQueue) - 1
                  /\ Len(frameQueue) \in Nat /\ i \in Int
                BY <1>2
            <4> HIDE DEF rest
            <4> QED
                BY <4>1
        <3>5. ASSUME rest[i].kind = "frame" PROVE rest[i].seq < NumFrames
            <4>1. frameQueue[i + 1].kind = "frame"
                BY <3>3, <3>5, Zenon
            <4>2. frameQueue[i + 1].seq < NumFrames
                BY <3>2, <4>1, Zenon
            <4> QED
                BY <3>3, <4>2, Zenon
        <3>6. ASSUME rest[i].kind = "done"
              PROVE  i = Len(rest) /\ producer = "finished"
            <4>1. frameQueue[i + 1].kind = "done"
                BY <3>3, <3>6, Zenon
            <4> QED
                BY <3>2, <3>4, <4>1, Zenon
        <3> QED
            BY <3>5, <3>6, Zenon
    <2>2. ASSUME NEW i \in 1 .. Len(rest) - 1
          PROVE  rest[i + 1].seq = After(rest[i])
        <3>1. /\ i + 1 \in 1 .. Len(frameQueue) - 1
              /\ i \in 1 .. Len(rest) /\ i + 1 \in 1 .. Len(rest)
            BY <1>2
        <3>2. frameQueue[(i + 1) + 1].seq = After(frameQueue[i + 1])
            BY <3>1 DEF ServerInv, QueueInv
        <3> QED
            BY <1>2, <3>1, <3>2
    <2>3. rest # <<>> => nextSeq = After(rest[Len(rest)])
        <3>1. rest # <<>> => /\ Len(rest) \in 1 .. Len(rest)
                             /\ Len(rest) + 1 = Len(frameQueue)
            BY <1>2, EmptySeq
        <3> QED
            BY <1>1, <1>2, <3>1 DEF ServerInv, QueueInv
    <2> QED
        BY <1>1, <1>3, <2>1, <2>2, <2>3 DEF QueueInv, After
<1> QED
    BY <1>1, <1>2, <1>4, <1>5, <1>6, <1>7, EmptySeq DEF After

\* Pushing the item the producer is at leaves the front of the queue where
\* it is and extends the consecutive run.
LEMMA PushProps ==
    ASSUME ServerInv, NEW item \in Items, Push(item),
           item.seq = nextSeq, nextSeq' = After(item),
           producer # "finished",
           item.kind = "frame" => item.seq < NumFrames,
           item.kind = "done" => producer' = "finished"
    PROVE  /\ frameQueue' \in Seq(Items)
           /\ Taken' = Taken
           /\ QueueInv'
<1> DEFINE q == Append(frameQueue, item)
           n == Len(frameQueue)
<1>1. frameQueue \in Seq(Items) /\ frameQueue' = q
    BY DEF ServerInv, ServerTypeOK, Push
<1>2. /\ q \in Seq(Items) /\ q # <<>>
      /\ Len(q) = n + 1
      /\ \A i \in 1 .. n : q[i] = frameQueue[i]
      /\ q[n + 1] = item
    BY <1>1, AppendProps
<1>3. n \in Nat /\ (frameQueue = <<>> <=> n = 0)
    BY <1>1, EmptySeq, LenProperties
<1>a. \A i \in 1 .. n :
        /\ frameQueue[i].kind = "frame" => frameQueue[i].seq < NumFrames
        /\ frameQueue[i].kind # "done"
    BY DEF ServerInv, QueueInv
<1>4. Taken' = Taken
    <2>1. Head(q) = q[1]
        BY <1>2
    <2>2. CASE frameQueue = <<>>
        <3>1. Head(q) = item
            BY <1>2, <1>3, <2>1, <2>2
        <3> QED
            BY <1>1, <1>2, <2>2, <3>1 DEF Taken
    <2>3. CASE frameQueue # <<>>
        <3>1. 1 \in 1 .. n
            BY <1>3, <2>3
        <3>2. Head(q) = frameQueue[1]
            BY <1>2, <2>1, <3>1
        <3>3. Head(frameQueue) = frameQueue[1]
            BY <1>1, <2>3
        <3> QED
            BY <1>1, <1>2, <2>3, <3>2, <3>3 DEF Taken
    <2> QED
        BY <2>2, <2>3
<1>5. ASSUME NEW i \in 1 .. n + 1
      PROVE  /\ q[i].kind = "frame" => q[i].seq < NumFrames
             /\ q[i].kind = "done" => i = n + 1 /\ producer' = "finished"
    <2>1. CASE i = n + 1
        BY <1>2, <2>1
    <2>2. CASE i # n + 1
        <3>1. i \in 1 .. n
            BY <1>3, <2>2
        <3>2. q[i] = frameQueue[i]
            BY <1>2, <3>1
        <3> QED
            BY <1>a, <3>1, <3>2
    <2> QED
        BY <2>1, <2>2
<1>6. ASSUME NEW i \in 1 .. n
      PROVE  q[i + 1].seq = After(q[i])
    <2>0. q[i] = frameQueue[i]
        BY <1>2
    <2>1. CASE i = n
        <3>1. frameQueue # <<>>
            BY <1>3, <2>1
        <3>2. nextSeq = After(frameQueue[n])
            BY <3>1 DEF ServerInv, QueueInv
        <3> QED
            BY <1>2, <2>0, <2>1, <3>2
    <2>2. CASE i # n
        <3>1. i \in 1 .. n - 1 /\ i + 1 \in 1 .. n
            BY <1>3, <2>2
        <3>2. q[i + 1] = frameQueue[i + 1]
            BY <1>2, <3>1
        <3>3. frameQueue[i + 1].seq = After(frameQueue[i])
            BY <3>1 DEF ServerInv, QueueInv
        <3> QED
            BY <2>0, <3>2, <3>3
    <2> QED
        BY <2>1, <2>2
<1>7. QueueInv'
    <2>1. Len(q) - 1 = n
        BY <1>2, <1>3
    <2> QED
        BY <1>1, <1>2, <1>5, <1>6, <2>1 DEF QueueInv, After
<1> QED
    BY <1>1, <1>2, <1>4, <1>7

-----------------------------------------------------------------------------
(* The steps of the producer. *)

\* What the producer pushes are items of the stream.
LEMMA ItemTypes ==
    /\ \A n \in FrameSeqs : /\ FrameItem(n) \in Items
                            /\ EofItem(n) \in Items
                            /\ DoneItem(n) \in Items
    /\ \A n : /\ FrameItem(n).kind = "frame" /\ FrameItem(n).seq = n
              /\ EofItem(n).kind = "tape_eof" /\ EofItem(n).seq = n
              /\ DoneItem(n).kind = "done" /\ DoneItem(n).seq = n
    BY DEF FrameItem, EofItem, DoneItem, Items

\* Nothing the producer does moves the window.
LEMMA ProducerStep ==
    ASSUME ServerInv, ProducerNext
    PROVE  ServerInv'
<1>1. /\ UNCHANGED <<srv, acked, volumeNum, retention, nextSend, endSent,
                     committed, toServer, toWriter, writerAlive, serverAlive,
                     readShut>>
      /\ producer # "finished"
      /\ queueClosed' \in BOOLEAN
    BY DEF ProducerNext, serverVars, wire, ProduceFrame, EndSlice, ProduceDone,
           ProducerFails, Push, ServerInv, ServerTypeOK
<1>2. NumFrames \in Nat /\ nextSeq \in 0 .. NumFrames
      /\ nextSeq \in FrameSeqs
    BY StreamAssumption DEF ServerInv, ServerTypeOK, FrameSeqs, EndSeq
<1>3. /\ frameQueue' \in Seq(Items)
      /\ Taken' = Taken
      /\ QueueInv'
      /\ nextSeq' \in 0 .. NumFrames
      /\ producer' \in {"frames", "tape_eof", "done", "finished", "failed"}
      /\ ProducerInv'
    <2>1. CASE ProduceFrame
        <3>1. Push(FrameItem(nextSeq)) /\ nextSeq' = nextSeq + 1
              /\ producer' = IF nextSeq \in SliceEnds THEN "tape_eof"
                                                     ELSE "frames"
            BY <2>1 DEF ProduceFrame
        <3>2. nextSeq < NumFrames
            BY <2>1 DEF ProduceFrame, ServerInv, ProducerInv
        <3>3. nextSeq' = After(FrameItem(nextSeq))
            BY <3>1, ItemTypes DEF After
        <3>4. frameQueue' \in Seq(Items) /\ Taken' = Taken /\ QueueInv'
            BY <1>1, <1>2, <3>1, <3>2, <3>3, ItemTypes, PushProps
        <3>5. nextSeq # NumFrames - 1 \/ nextSeq \in SliceEnds
            BY <1>2, <3>2, StreamAssumption
        <3> QED
            BY <1>2, <3>1, <3>2, <3>4, <3>5 DEF ProducerInv
    <2>2. CASE EndSlice
        <3>1. Push(EofItem(nextSeq)) /\ nextSeq' = nextSeq
              /\ producer' = IF nextSeq = NumFrames THEN "done" ELSE "frames"
            BY <2>2 DEF EndSlice
        <3>2. nextSeq' = After(EofItem(nextSeq))
            BY <3>1, ItemTypes DEF After
        <3>3. frameQueue' \in Seq(Items) /\ Taken' = Taken /\ QueueInv'
            BY <1>1, <1>2, <3>1, <3>2, ItemTypes, PushProps
        <3> QED
            BY <1>2, <3>1, <3>3 DEF ProducerInv
    <2>3. CASE ProduceDone
        <3>1. Push(DoneItem(nextSeq)) /\ nextSeq' = nextSeq
              /\ producer' = "finished" /\ producer = "done"
            BY <2>3 DEF ProduceDone
        <3>2. nextSeq' = After(DoneItem(nextSeq))
            BY <3>1, ItemTypes DEF After
        <3>3. frameQueue' \in Seq(Items) /\ Taken' = Taken /\ QueueInv'
            BY <1>1, <1>2, <3>1, <3>2, ItemTypes, PushProps
        <3> QED
            BY <1>2, <3>1, <3>3 DEF ProducerInv, ServerInv
    <2>4. CASE ProducerFails
        <3>1. producer' = "failed" /\ nextSeq' = nextSeq
              /\ frameQueue' = frameQueue
            BY <2>4 DEF ProducerFails
        <3>2. \A i \in 1 .. Len(frameQueue) : frameQueue[i].kind # "done"
            BY <1>1 DEF ServerInv, QueueInv
        <3>3. QueueInv'
            BY <3>1, <3>2 DEF QueueInv, After, ServerInv
        <3> QED
            BY <1>2, <3>1, <3>3
               DEF ProducerInv, ServerInv, ServerTypeOK, Taken
    <2> QED
        BY <2>1, <2>2, <2>3, <2>4 DEF ProducerNext
<1>4. EndBuilt' = EndBuilt /\ Held' = Held /\ InCall' = InCall
    BY <1>1, <1>3 DEF EndBuilt, Held, InCall, EndSeq
<1>5. ~(srv = "drain" \/ EndBuilt)
    BY <1>1 DEF ServerInv, WindowInv
<1>6. ServerTypeOK'
    BY <1>1, <1>3 DEF ServerInv, ServerTypeOK
<1>7. WindowInv'
    BY <1>1, <1>4, <1>5 DEF ServerInv, WindowInv, EndSeq
<1> QED
    BY <1>3, <1>6, <1>7 DEF ServerInv

-----------------------------------------------------------------------------
(* The steps of the server. *)

\* The ranges of the numbers the invariant is about.
LEMMA Ranges ==
    ASSUME ServerInv
    PROVE  /\ NumFrames \in Nat /\ EndSeq = NumFrames
           /\ RetentionFrames \in Nat \ {0}
           /\ Taken \in 0 .. NumFrames
           /\ Held \in 0 .. EndSeq + 1
           /\ acked \in 0 .. EndSeq + 1
           /\ nextSend \in 0 .. EndSeq + 1
<1>1. /\ NumFrames \in Nat /\ EndSeq = NumFrames
      /\ RetentionFrames \in Nat \ {0}
    BY StreamAssumption, ServerAssumption DEF EndSeq
<1>2. Taken \in 0 .. NumFrames
    <2>1. CASE frameQueue = <<>>
        BY <2>1 DEF Taken, ServerInv, ServerTypeOK
    <2>2. CASE frameQueue # <<>>
        <3>1. Head(frameQueue) \in Items
            BY <2>2, HeadTailProperties DEF ServerInv, ServerTypeOK
        <3> QED
            BY <1>1, <2>2, <3>1 DEF Taken, Items, FrameSeqs
    <2> QED
        BY <2>1, <2>2
<1>3. Held \in 0 .. EndSeq + 1
    BY <1>1, <1>2 DEF Held
<1> QED
    BY <1>1, <1>2, <1>3 DEF ServerInv, ServerTypeOK

\* A number that is not retained and may be sent is the first never sent.
LEMMA NotRetained ==
    ASSUME ServerInv, InCall, nextSend \notin retention
    PROVE  nextSend = Held
    BY Ranges DEF ServerInv, WindowInv

\* While the window is open nothing is evicted to make room.
LEMMA NothingEvicted ==
    ASSUME ServerInv, nextSend = Held, Outstanding < RetentionFrames, NEW n
    PROVE  Retain(n) = retention \cup {n}
<1>1. retention = acked .. Held - 1 /\ acked <= Held
    BY DEF ServerInv, WindowInv
<1>2. Cardinality(acked .. Held - 1) = Held - acked
    BY <1>1, Ranges, FS_Interval
<1> QED
    BY <1>1, <1>2, Ranges DEF Retain, Outstanding

\* What the server writes are replies of the protocol.
LEMMA ReplyTypes ==
    /\ \A n \in FrameSeqs, v \in Nat : FrameRecord(n, v) \in Replies
    /\ TapeEof \in Replies
    /\ \A why \in Reasons : Error(why) \in Replies
    /\ \A n, v : FrameRecord(n, v).type = "frame_record"
    /\ TapeEof.type = "tape_eof"
    BY DEF FrameRecord, TapeEof, Error, Replies

\* A call that returned left its own variables reset.
LEMMA ReturnProps ==
    ASSUME ServerTypeOK, NEW complete \in BOOLEAN, NEW counted \in BOOLEAN,
           Return(complete, counted)
    PROVE  /\ srv' \in {"accept", "complete"}
           /\ volumeNum' \in Nat /\ queueClosed' \in BOOLEAN
           /\ nextSend' = 0 /\ endSent' = FALSE /\ committed' = FALSE
           /\ serverAlive' = FALSE
    BY DEF Return, ServerTypeOK

\* A refusal leaves well-formed replies and ends the call.
LEMMA RefuseProps ==
    ASSUME ServerTypeOK, NEW why \in Reasons, Refuse(why)
    PROVE  /\ toWriter' \in Seq(Replies)
           /\ Return(FALSE, committed)
<1>1. /\ Error(why) \in Replies
      /\ toWriter \in Seq(Replies)
    BY ReplyTypes DEF ServerTypeOK
<1>2. Sent(toWriter, writerAlive, Error(why)) \in Seq(Replies)
    BY <1>1, SentProps
<1> QED
    BY <1>2, TruncationsProps DEF Refuse

\* A reply was sent and the call goes on, or the call returned.
LEMMA ReplyProps ==
    ASSUME ServerTypeOK, NEW m \in Replies, NEW end \in BOOLEAN, Reply(m, end)
    PROVE  /\ toWriter' \in Seq(Replies)
           /\ volumeNum' \in Nat /\ queueClosed' \in BOOLEAN
           /\ serverAlive' \in BOOLEAN /\ committed' \in BOOLEAN
           /\ \/ /\ srv' = "request"
                 /\ nextSend' = IF m.type = "frame_record" THEN nextSend + 1
                                                           ELSE nextSend
                 /\ endSent' = end
              \/ /\ srv' \in {"accept", "complete"}
                 /\ nextSend' = 0 /\ endSent' = FALSE
<1>1. CASE Return(FALSE, committed) /\ UNCHANGED toWriter
    <2>1. committed \in BOOLEAN /\ toWriter \in Seq(Replies)
        BY DEF ServerTypeOK
    <2> QED
        BY <1>1, <2>1, ReturnProps
<1>2. CASE /\ toWriter' = Sent(toWriter, writerAlive, m)
           /\ srv' = "request"
           /\ nextSend' = IF m.type = "frame_record" THEN nextSend + 1
                                                     ELSE nextSend
           /\ endSent' = end
           /\ UNCHANGED <<committed, volumeNum, queueClosed, serverAlive>>
    <2>1. toWriter' \in Seq(Replies)
        BY <1>2, SentProps DEF ServerTypeOK
    <2> QED
        BY <1>2, <2>1 DEF ServerTypeOK
<1> QED
    BY <1>1, <1>2 DEF Reply

\* What holds of a step that leaves queue, acknowledgements and retained
\* frames as they are.
LEMMA WindowKept ==
    ASSUME ServerInv,
           UNCHANGED <<nextSeq, producer, frameQueue, acked, retention>>
    PROVE  /\ Taken' = Taken /\ (EndBuilt' <=> EndBuilt) /\ Held' = Held
           /\ ProducerInv' /\ QueueInv'
<1>1. Taken' = Taken /\ EndBuilt' = EndBuilt
    BY DEF Taken, EndBuilt, EndSeq
<1>2. Held' = Held
    BY <1>1 DEF Held, EndSeq
<1> QED
    BY <1>1, <1>2 DEF ServerInv, ProducerInv, QueueInv, After

\* Reading a message shortens the queue and keeps what follows.
LEMMA ReceivedProps ==
    ASSUME ServerTypeOK, NEW type, Received(type)
    PROVE  /\ InCall
           /\ Head(toServer) = toServer[1] /\ 1 \in 1 .. Len(toServer)
           /\ toServer' \in Seq(Requests)
           /\ Len(toServer') \in Nat
           /\ \A i \in 1 .. Len(toServer') : /\ i + 1 \in 1 .. Len(toServer)
                                             /\ toServer'[i] = toServer[i + 1]
<1>1. toServer \in Seq(Requests) /\ toServer # <<>> /\ toServer' = Tail(toServer)
    BY DEF ServerTypeOK, Received
<1>2. /\ Tail(toServer) \in Seq(Requests)
      /\ Len(Tail(toServer)) = Len(toServer) - 1 /\ Len(toServer) \in Nat \ {0}
      /\ \A i \in 1 .. Len(Tail(toServer)) : Tail(toServer)[i] = toServer[i + 1]
    BY <1>1, HeadTailProperties, EmptySeq
<1>3. InCall
    BY DEF Received, AwaitsMessage, InCall
<1> QED
    BY <1>1, <1>2, <1>3

\* A step after which no call is running, and which took nothing from the
\* queue, kept nothing new and counted no acknowledgement.
LEMMA CallEnds ==
    ASSUME ServerInv,
           UNCHANGED <<nextSeq, producer, frameQueue, acked, retention>>,
           srv' \in {"accept", "complete"}, nextSend' = 0, endSent' = FALSE
    PROVE  ProducerInv' /\ QueueInv' /\ WindowInv' /\ AcksSent'
<1>1. /\ (EndBuilt' <=> EndBuilt) /\ Held' = Held
      /\ ProducerInv' /\ QueueInv'
    BY WindowKept
<1>2. ~InCall'
    BY DEF InCall
<1>3. /\ retention' = acked' .. Held' - 1
      /\ acked' <= Held'
      /\ Held' - acked' <= RetentionFrames
      /\ EndBuilt' => acked' >= EndSeq
      /\ EndBuilt' => frameQueue' = <<>> /\ producer' = "finished"
    BY <1>1 DEF ServerInv, WindowInv
<1>4. nextSend' <= Held'
    BY <1>1, Ranges
<1> QED
    BY <1>1, <1>2, <1>3, <1>4 DEF WindowInv, AcksSent, EndSeq

\* An acknowledgement in order was taken from the connection.
LEMMA ReadAckStep ==
    ASSUME ServerInv, AcksSent, ReadAck
    PROVE  ServerInv' /\ AcksSent'
<1> DEFINE over == endSent /\ acked >= EndSeq
<1>1. /\ Received("ack_frame") /\ Head(toServer).seq = acked
      /\ acked' = acked + 1 /\ retention' = retention \ {acked}
      /\ UNCHANGED <<nextSeq, producer, frameQueue, toWriter, writerAlive,
                     readShut>>
    BY DEF ReadAck, Received, producerVars
<1>2. /\ InCall
      /\ Head(toServer) = toServer[1] /\ 1 \in 1 .. Len(toServer)
      /\ toServer' \in Seq(Requests)
      /\ \A i \in 1 .. Len(toServer') : /\ i + 1 \in 1 .. Len(toServer)
                                        /\ toServer'[i] = toServer[i + 1]
    BY <1>1, ReceivedProps DEF ServerInv
<1>3. acked < nextSend /\ nextSend <= Held
    <2>1. toServer[1].type = "ack_frame" /\ toServer[1].seq = acked
        BY <1>1, <1>2 DEF Received
    <2> QED
        BY <1>2, <2>1 DEF AcksSent, ServerInv, WindowInv
<1>4. /\ Taken' = Taken
      /\ ProducerInv' /\ QueueInv'
    BY <1>1 DEF Taken, ProducerInv, QueueInv, ServerInv, After
<1>5. EndBuilt' <=> EndBuilt
    <2>1. CASE EndBuilt
        <3>1. Held = EndSeq + 1 /\ acked <= EndSeq
            BY <1>3, <2>1, Ranges DEF Held
        <3>2. EndSeq \in retention
            BY <2>1, <3>1, Ranges DEF EndBuilt
        <3> QED
            BY <1>1, <2>1, <3>1, <3>2, Ranges DEF EndBuilt, EndSeq
    <2>2. CASE ~EndBuilt
        <3>1. Held = Taken /\ EndSeq \notin retention
            BY <2>2 DEF Held, EndBuilt
        <3>2. acked + 1 <= EndSeq
            BY <1>3, <3>1, Ranges
        <3>3. ~(acked' > EndSeq) /\ EndSeq \notin retention'
            BY <1>1, <3>1, <3>2, Ranges
        <3> QED
            BY <2>2, <3>3 DEF EndBuilt, EndSeq
    <2> QED
        BY <2>1, <2>2
<1>6. Held' = Held
    BY <1>4, <1>5 DEF Held, EndSeq
<1>7. /\ retention' = acked' .. Held' - 1
      /\ acked' <= Held'
      /\ Held' - acked' <= RetentionFrames
      /\ EndBuilt' => acked' >= EndSeq
      /\ EndBuilt' => frameQueue' = <<>> /\ producer' = "finished"
    <2>1. retention = acked .. Held - 1 /\ Held - acked <= RetentionFrames
        BY DEF ServerInv, WindowInv
    <2>2. retention' = acked + 1 .. Held - 1
        BY <1>1, <2>1, Ranges
    <2>3. EndBuilt => /\ acked >= EndSeq /\ frameQueue = <<>>
                      /\ producer = "finished"
        BY DEF ServerInv, WindowInv
    <2>4. Held' - acked' <= RetentionFrames /\ acked' <= Held'
        BY <1>1, <1>3, <1>6, <2>1, Ranges
    <2>5. EndBuilt' => acked' >= EndSeq
        BY <1>1, <1>5, <2>3, Ranges
    <2>6. EndBuilt' => frameQueue' = <<>> /\ producer' = "finished"
        BY <1>1, <1>5, <2>3
    <2> QED
        BY <1>1, <1>6, <2>2, <2>4, <2>5, <2>6
<1>8. /\ acked' \in 0 .. EndSeq + 1
      /\ retention' \in SUBSET FrameSeqs
    BY <1>1, <1>3, Ranges DEF ServerInv, ServerTypeOK
<1>9. CASE over
    <2>1. Return(TRUE, TRUE)
        BY <1>9 DEF ReadAck
    <2>2. /\ srv' \in {"accept", "complete"}
          /\ volumeNum' \in Nat /\ queueClosed' \in BOOLEAN
          /\ nextSend' = 0 /\ endSent' = FALSE /\ committed' = FALSE
          /\ serverAlive' = FALSE
        BY <2>1, ReturnProps DEF ServerInv
    <2>3. WindowInv'
        BY <1>7, <1>6, <2>2, Ranges DEF WindowInv, InCall, EndSeq
    <2>4. AcksSent'
        BY <2>2 DEF AcksSent, InCall
    <2>5. /\ srv' \in ServerStates /\ nextSend' \in 0 .. EndSeq' + 1
          /\ endSent' \in BOOLEAN /\ committed' \in BOOLEAN
          /\ serverAlive' \in BOOLEAN
        <3>1. srv' \in ServerStates
            BY <2>2 DEF ServerStates
        <3>2. nextSend' \in 0 .. EndSeq' + 1
            BY <2>2, Ranges DEF EndSeq
        <3> QED
            BY <2>2, <3>1, <3>2
    <2>6. ServerTypeOK'
        BY <1>1, <1>2, <1>8, <2>2, <2>5 DEF ServerInv, ServerTypeOK
    <2> QED
        BY <1>4, <2>3, <2>4, <2>6 DEF ServerInv
<1>10. CASE ~over
    <2>1. committed' = TRUE
          /\ UNCHANGED <<srv, volumeNum, nextSend, endSent, serverAlive,
                         queueClosed>>
        BY <1>10 DEF ReadAck
    <2>2. WindowInv'
        <3>1. /\ endSent => EndBuilt
              /\ srv = "drain" => ~EndBuilt /\ nextSend = EndSeq
              /\ srv = "drain" \/ EndBuilt =>
                     frameQueue = <<>> /\ producer = "finished"
            BY DEF ServerInv, WindowInv
        <3>2. acked' <= nextSend' /\ nextSend' <= Held'
            BY <1>1, <1>3, <1>6, <2>1, Ranges
        <3> QED
            BY <1>1, <1>5, <1>7, <2>1, <3>1, <3>2 DEF WindowInv, InCall, EndSeq
    <2>3. AcksSent'
        BY <1>2, <2>1 DEF AcksSent, InCall
    <2>4. ServerTypeOK'
        BY <1>1, <1>2, <1>8, <2>1 DEF ServerInv, ServerTypeOK
    <2> QED
        BY <1>4, <2>2, <2>3, <2>4 DEF ServerInv
<1> QED
    BY <1>9, <1>10

\* The call returns: on an error, on an end of file, or because a write
\* failed.
LEMMA ReturnStep ==
    ASSUME ServerInv, Return(FALSE, committed),
           UNCHANGED <<nextSeq, producer, frameQueue, acked, retention,
                       writerAlive, readShut>>,
           toServer' \in Seq(Requests), toWriter' \in Seq(Replies)
    PROVE  ServerInv' /\ AcksSent'
<1>1. ServerTypeOK /\ committed \in BOOLEAN
    BY DEF ServerInv, ServerTypeOK
<1>2. /\ srv' \in {"accept", "complete"}
      /\ volumeNum' \in Nat /\ queueClosed' \in BOOLEAN
      /\ nextSend' = 0 /\ endSent' = FALSE /\ committed' = FALSE
      /\ serverAlive' = FALSE
    BY <1>1, ReturnProps
<1>3. ProducerInv' /\ QueueInv' /\ WindowInv' /\ AcksSent'
    BY <1>2, CallEnds
<1>4. srv' \in ServerStates
    BY <1>2 DEF ServerStates
<1>5. nextSend' \in 0 .. EndSeq' + 1
    BY <1>2, Ranges DEF EndSeq
<1>6. ServerTypeOK'
    BY <1>1, <1>2, <1>4, <1>5 DEF ServerTypeOK
<1> QED
    BY <1>3, <1>6 DEF ServerInv

\* A refused message or a closed queue ends the call and keeps the invariant.
LEMMA RefusedStep ==
    ASSUME ServerInv, ReadAckOutOfOrder \/ ReadRefused \/ QueueEnded
    PROVE  ServerInv' /\ AcksSent'
<1>1. ServerTypeOK
    BY DEF ServerInv
<1>2. /\ UNCHANGED <<nextSeq, producer, frameQueue, acked, retention,
                     writerAlive, readShut>>
      /\ \E why \in Reasons : Refuse(why)
    BY DEF ReadAckOutOfOrder, ReadRefused, QueueEnded, Received, Reasons,
           producerVars
<1>3. toServer' \in Seq(Requests)
    <2>1. CASE ReadAckOutOfOrder \/ ReadRefused
        <3>1. \E type : Received(type)
            BY <2>1 DEF ReadAckOutOfOrder, ReadRefused
        <3> QED
            BY <1>1, <3>1, ReceivedProps
    <2>2. CASE QueueEnded
        BY <1>1, <2>2 DEF QueueEnded, ServerTypeOK
    <2> QED
        BY <2>1, <2>2
<1>4. toWriter' \in Seq(Replies) /\ Return(FALSE, committed)
    BY <1>1, <1>2, RefuseProps
<1> QED
    BY <1>2, <1>3, <1>4, ReturnStep

\* A writer that disconnected ends the call and keeps the invariant.
LEMMA ReadEofStep ==
    ASSUME ServerInv, ReadEof
    PROVE  ServerInv' /\ AcksSent'
<1>1. /\ UNCHANGED <<nextSeq, producer, frameQueue, acked, retention,
                     writerAlive, readShut>>
      /\ UNCHANGED <<toServer, toWriter>>
      /\ Return(FALSE, committed)
    BY DEF ReadEof, producerVars
<1>2. toServer' \in Seq(Requests) /\ toWriter' \in Seq(Replies)
    BY <1>1 DEF ServerInv, ServerTypeOK
<1> QED
    BY <1>1, <1>2, ReturnStep

\* Taking a request keeps the invariant.
LEMMA ReadNextFrameStep ==
    ASSUME ServerInv, AcksSent, ReadNextFrame
    PROVE  ServerInv' /\ AcksSent'
<1>1. /\ srv = "request" /\ srv' = "serve" /\ Received("next_frame")
      /\ UNCHANGED <<nextSeq, producer, frameQueue, queueClosed, acked,
                     volumeNum, retention, nextSend, endSent, committed,
                     toWriter, writerAlive, serverAlive, readShut>>
    BY DEF ReadNextFrame, Received, producerVars, queueVars, callVars
<1>2. /\ toServer' \in Seq(Requests)
      /\ \A i \in 1 .. Len(toServer') : /\ i + 1 \in 1 .. Len(toServer)
                                        /\ toServer'[i] = toServer[i + 1]
    BY <1>1, ReceivedProps DEF ServerInv
<1>3. /\ (EndBuilt' <=> EndBuilt) /\ Held' = Held
      /\ ProducerInv' /\ QueueInv'
    BY <1>1, WindowKept
<1>4. WindowInv'
    BY <1>1, <1>3 DEF ServerInv, WindowInv, InCall, EndSeq
<1>5. AcksSent'
    BY <1>1, <1>2 DEF AcksSent, InCall
<1>6. ServerTypeOK'
    BY <1>1, <1>2 DEF ServerInv, ServerTypeOK, ServerStates
<1> QED
    BY <1>3, <1>4, <1>5, <1>6 DEF ServerInv

\* A retained frame is sent again.
LEMMA SendRetainedStep ==
    ASSUME ServerInv, AcksSent, SendRetained
    PROVE  ServerInv' /\ AcksSent'
<1> DEFINE m == FrameRecord(nextSend, volumeNum)
           end == nextSend = EndSeq
<1>1. /\ srv = "serve" /\ nextSend \in retention /\ Reply(m, end)
      /\ UNCHANGED <<nextSeq, producer, frameQueue, acked, retention,
                     toServer, writerAlive, readShut>>
    BY DEF SendRetained, Serving, producerVars
<1>2. ServerTypeOK /\ m \in Replies /\ m.type = "frame_record"
      /\ end \in BOOLEAN
    BY <1>1, ReplyTypes DEF ServerInv, ServerTypeOK
<1>3. /\ (EndBuilt' <=> EndBuilt) /\ Held' = Held
      /\ ProducerInv' /\ QueueInv'
    BY <1>1, WindowKept
<1>4. /\ toWriter' \in Seq(Replies)
      /\ volumeNum' \in Nat /\ queueClosed' \in BOOLEAN
      /\ serverAlive' \in BOOLEAN /\ committed' \in BOOLEAN
      /\ \/ /\ srv' = "request" /\ nextSend' = nextSend + 1 /\ endSent' = end
         \/ /\ srv' \in {"accept", "complete"}
            /\ nextSend' = 0 /\ endSent' = FALSE
    <2> HIDE DEF m, end
    <2> QED
        BY <1>1, <1>2, ReplyProps
<1>5. CASE srv' \in {"accept", "complete"} /\ nextSend' = 0 /\ endSent' = FALSE
    <2>1. ProducerInv' /\ QueueInv' /\ WindowInv' /\ AcksSent'
        BY <1>1, <1>5, CallEnds
    <2>2. srv' \in ServerStates /\ nextSend' \in 0 .. EndSeq' + 1
        BY <1>5, Ranges DEF ServerStates, EndSeq
    <2>3. ServerTypeOK'
        BY <1>1, <1>2, <1>4, <1>5, <2>2 DEF ServerTypeOK
    <2> QED
        BY <2>1, <2>3 DEF ServerInv
<1>6. CASE srv' = "request" /\ nextSend' = nextSend + 1 /\ endSent' = end
    <2>1. /\ retention = acked .. Held - 1 /\ acked <= nextSend
          /\ nextSend + 1 <= Held
        BY <1>1, Ranges DEF ServerInv, WindowInv, InCall
    <2>2. endSent' => EndBuilt
        BY <1>1, <1>6 DEF EndBuilt
    <2>3. WindowInv'
        <3>1. acked' <= nextSend' /\ nextSend' <= Held'
            BY <1>1, <1>3, <1>6, <2>1, Ranges
        <3> QED
            BY <1>1, <1>3, <1>6, <2>2, <3>1
               DEF ServerInv, WindowInv, InCall, EndSeq
    <2>4. AcksSent'
        <3>1. \A i \in 1 .. Len(toServer) :
                 toServer[i].type = "ack_frame" => toServer[i].seq < nextSend
            BY <1>1 DEF AcksSent, InCall
        <3>2. \A i \in 1 .. Len(toServer) :
                 toServer[i].type = "ack_frame" => toServer[i].seq \in FrameSeqs
            BY <1>2 DEF ServerTypeOK, Requests
        <3> QED
            BY <1>1, <1>6, <3>1, <3>2, Ranges DEF AcksSent, FrameSeqs
    <2>5. srv' \in ServerStates /\ nextSend' \in 0 .. EndSeq' + 1
        BY <1>6, <2>1, Ranges DEF ServerStates, EndSeq
    <2>6. endSent' \in BOOLEAN
        BY <1>2, <1>6
    <2>7. ServerTypeOK'
        BY <1>1, <1>2, <1>4, <2>5, <2>6 DEF ServerTypeOK
    <2> QED
        BY <1>3, <2>3, <2>4, <2>7 DEF ServerInv
<1> QED
    BY <1>4, <1>5, <1>6

\* Acknowledgements of sent frames stay so while more frames are sent.
LEMMA AcksStaySent ==
    ASSUME ServerInv, AcksSent, InCall, UNCHANGED toServer,
           nextSend' \in {nextSend, nextSend + 1}
    PROVE  AcksSent'
<1>1. \A i \in 1 .. Len(toServer) :
         toServer[i].type = "ack_frame" => toServer[i].seq < nextSend
    BY DEF AcksSent
<1>2. \A i \in 1 .. Len(toServer) :
         toServer[i].type = "ack_frame" => toServer[i].seq \in FrameSeqs
    BY DEF ServerInv, ServerTypeOK, Requests
<1> QED
    BY <1>1, <1>2, Ranges DEF AcksSent, FrameSeqs

\* The item the server pops is the one behind everything that was sent.
LEMMA PoppedNext ==
    ASSUME ServerInv, NEW kind \in {"frame", "tape_eof", "done"}, Popped(kind)
    PROVE  /\ UNCHANGED <<nextSeq, producer, acked, toServer, writerAlive,
                          readShut>>
           /\ srv = "serve" /\ Outstanding < RetentionFrames
           /\ ~EndBuilt /\ Held = Taken /\ nextSend = Taken
           /\ acked <= nextSend
           /\ ProducerInv'
<1>1. /\ UNCHANGED <<nextSeq, producer, acked, toServer, writerAlive, readShut>>
      /\ srv = "serve" /\ Outstanding < RetentionFrames
      /\ nextSend \notin retention /\ frameQueue # <<>>
    BY DEF Popped, Serving, WindowOpen, producerVars
<1>2. ~EndBuilt /\ InCall /\ acked <= nextSend
    BY <1>1 DEF ServerInv, WindowInv, InCall
<1>3. Held = Taken /\ nextSend = Held
    BY <1>1, <1>2, NotRetained DEF Held
<1> QED
    BY <1>1, <1>2, <1>3 DEF ServerInv, ProducerInv

\* Forwarding a slice end keeps the invariant: no frame number moves.
LEMMA SendTapeEofStep ==
    ASSUME ServerInv, AcksSent, SendTapeEof
    PROVE  ServerInv' /\ AcksSent'
<1>1. Popped("tape_eof") /\ Reply(TapeEof, FALSE) /\ UNCHANGED retention
    BY DEF SendTapeEof
<1>2. /\ UNCHANGED <<nextSeq, producer, acked, toServer, writerAlive, readShut>>
      /\ srv = "serve" /\ ~EndBuilt /\ Held = Taken /\ nextSend = Taken
      /\ acked <= nextSend
      /\ ProducerInv'
    BY <1>1, PoppedNext
<1>3. Taken' = Taken /\ frameQueue' \in Seq(Items) /\ QueueInv'
    BY <1>1, <1>2, PopProps DEF producerVars
<1>4. ServerTypeOK /\ TapeEof \in Replies /\ TapeEof.type = "tape_eof"
    BY ReplyTypes DEF ServerInv
<1>5. /\ toWriter' \in Seq(Replies)
      /\ volumeNum' \in Nat /\ queueClosed' \in BOOLEAN
      /\ serverAlive' \in BOOLEAN /\ committed' \in BOOLEAN
      /\ \/ srv' = "request" /\ nextSend' = nextSend /\ endSent' = FALSE
         \/ /\ srv' \in {"accept", "complete"}
            /\ nextSend' = 0 /\ endSent' = FALSE
    <2> HIDE DEF TapeEof
    <2> QED
        BY <1>1, <1>4, ReplyProps
<1>6. ~EndBuilt' /\ Held' = Taken
    BY <1>1, <1>2, <1>3 DEF EndBuilt, Held, EndSeq
<1>7. nextSend' \in 0 .. EndSeq' + 1 /\ srv' \in ServerStates
    BY <1>5, Ranges DEF EndSeq, ServerStates
<1>8. WindowInv'
    <2>1. /\ retention' = acked' .. Held' - 1
          /\ acked' <= Held' /\ Held' - acked' <= RetentionFrames
        BY <1>1, <1>2, <1>6 DEF ServerInv, WindowInv
    <2>2. nextSend' <= Held' /\ (InCall' => acked' <= nextSend')
        BY <1>2, <1>5, <1>6, Ranges DEF InCall
    <2> QED
        BY <1>5, <1>6, <2>1, <2>2 DEF WindowInv
<1>9. AcksSent'
    <2>1. CASE nextSend' = nextSend
        BY <1>2, <2>1, AcksStaySent DEF InCall
    <2>2. CASE srv' \in {"accept", "complete"}
        BY <2>2 DEF AcksSent, InCall
    <2> QED
        BY <1>5, <2>1, <2>2
<1>10. ServerTypeOK'
    <2>1. endSent' \in BOOLEAN
        BY <1>5
    <2> QED
        BY <1>1, <1>2, <1>3, <1>4, <1>5, <1>7, <2>1 DEF ServerTypeOK
<1> QED
    BY <1>2, <1>3, <1>8, <1>9, <1>10 DEF ServerInv

\* A frame is taken from the queue, retained and sent.
LEMMA SendNewFrameStep ==
    ASSUME ServerInv, AcksSent, SendNewFrame
    PROVE  ServerInv' /\ AcksSent'
<1> DEFINE m == FrameRecord(Taken, volumeNum)
<1>1. /\ Popped("frame")
      /\ LET n == Head(frameQueue).seq IN
         n = nextSend => retention' = Retain(n)
                         /\ Reply(FrameRecord(n, volumeNum), FALSE)
    BY DEF SendNewFrame
<1>2. /\ UNCHANGED <<nextSeq, producer, acked, toServer, writerAlive, readShut>>
      /\ srv = "serve" /\ Outstanding < RetentionFrames
      /\ ~EndBuilt /\ Held = Taken /\ nextSend = Taken
      /\ acked <= nextSend
      /\ ProducerInv'
    BY <1>1, PoppedNext
<1>3. /\ Head(frameQueue).seq = Taken /\ Taken < NumFrames
      /\ Taken' = Taken + 1 /\ frameQueue' \in Seq(Items) /\ QueueInv'
    BY <1>1, <1>2, PopProps DEF producerVars
<1>4. retention' = Retain(Taken) /\ Reply(m, FALSE)
    BY <1>1, <1>2, <1>3
<1>5. /\ ServerTypeOK /\ m \in Replies /\ m.type = "frame_record"
      /\ Taken \in FrameSeqs
    BY Ranges, ReplyTypes DEF ServerInv, ServerTypeOK, FrameSeqs
<1>6. /\ toWriter' \in Seq(Replies)
      /\ volumeNum' \in Nat /\ queueClosed' \in BOOLEAN
      /\ serverAlive' \in BOOLEAN /\ committed' \in BOOLEAN
      /\ \/ srv' = "request" /\ nextSend' = nextSend + 1 /\ endSent' = FALSE
         \/ /\ srv' \in {"accept", "complete"}
            /\ nextSend' = 0 /\ endSent' = FALSE
    <2> HIDE DEF m
    <2> QED
        BY <1>4, <1>5, ReplyProps
<1>7. retention' = acked .. Taken
    <2>1. retention' = retention \cup {Taken}
        BY <1>2, <1>4, NothingEvicted
    <2>2. retention = acked .. Taken - 1
        BY <1>2 DEF ServerInv, WindowInv
    <2> QED
        BY <1>2, <2>1, <2>2, Ranges
<1>8. ~EndBuilt' /\ Held' = Taken + 1
    <2>1. ~EndBuilt'
        BY <1>2, <1>3, <1>7, Ranges DEF EndBuilt, EndSeq
    <2> QED
        BY <1>3, <2>1 DEF Held
<1>9. WindowInv'
    <2>1. retention' = acked' .. Held' - 1 /\ acked' <= Held'
        BY <1>2, <1>7, <1>8, Ranges
    <2>2. Held' - acked' <= RetentionFrames
        BY <1>2, <1>8, Ranges DEF Outstanding
    <2>3. nextSend' <= Held' /\ (InCall' => acked' <= nextSend')
        BY <1>2, <1>6, <1>8, Ranges DEF InCall
    <2> QED
        BY <1>6, <1>8, <2>1, <2>2, <2>3 DEF WindowInv
<1>10. AcksSent'
    <2>1. CASE nextSend' = nextSend + 1
        BY <1>2, <2>1, AcksStaySent DEF InCall
    <2>2. CASE srv' \in {"accept", "complete"}
        BY <2>2 DEF AcksSent, InCall
    <2> QED
        BY <1>6, <2>1, <2>2
<1>11. ServerTypeOK'
    <2>1. endSent' \in BOOLEAN /\ srv' \in ServerStates
        BY <1>6 DEF ServerStates
    <2>2. nextSend' \in 0 .. EndSeq' + 1
        BY <1>2, <1>3, <1>6, Ranges DEF EndSeq
    <2>3. retention' \in SUBSET FrameSeqs'
        BY <1>3, <1>7, Ranges DEF FrameSeqs, EndSeq
    <2> QED
        BY <1>2, <1>3, <1>5, <1>6, <2>1, <2>2, <2>3 DEF ServerTypeOK
<1> QED
    BY <1>2, <1>3, <1>9, <1>10, <1>11 DEF ServerInv

\* The done item is taken: everything before it was sent.
LEMMA TakeDoneStep ==
    ASSUME ServerInv, AcksSent, TakeDone
    PROVE  ServerInv' /\ AcksSent'
<1>1. /\ Popped("done") /\ srv' = "drain"
      /\ UNCHANGED <<volumeNum, retention, nextSend, endSent, committed,
                     queueClosed, toWriter, serverAlive>>
    BY DEF TakeDone, callVars
<1>2. /\ UNCHANGED <<nextSeq, producer, acked, toServer, writerAlive, readShut>>
      /\ srv = "serve" /\ ~EndBuilt /\ Held = Taken /\ nextSend = Taken
      /\ acked <= nextSend
      /\ ProducerInv'
    BY <1>1, PoppedNext
<1>3. /\ Taken' = Taken /\ frameQueue' \in Seq(Items) /\ QueueInv'
      /\ frameQueue' = <<>> /\ producer = "finished"
    BY <1>1, <1>2, PopProps DEF producerVars
<1>4. Taken = EndSeq
    BY <1>2, <1>3, Ranges DEF Taken, ProducerInv
<1>5. ~EndBuilt' /\ Held' = Held
    BY <1>1, <1>2, <1>3 DEF EndBuilt, Held, EndSeq
<1>6. WindowInv'
    <2>1. /\ retention' = acked' .. Held' - 1
          /\ acked' <= Held' /\ Held' - acked' <= RetentionFrames
          /\ nextSend' <= Held' /\ acked' <= nextSend'
        BY <1>1, <1>2, <1>5 DEF ServerInv, WindowInv, InCall
    <2>2. ~endSent'
        BY <1>1, <1>2 DEF ServerInv, WindowInv
    <2>3. nextSend' = EndSeq'
        BY <1>1, <1>2, <1>4 DEF EndSeq
    <2> QED
        BY <1>2, <1>3, <1>5, <2>1, <2>2, <2>3 DEF WindowInv
<1>7. AcksSent'
    BY <1>1, <1>2, AcksStaySent DEF InCall
<1>8. ServerTypeOK'
    BY <1>1, <1>2, <1>3 DEF ServerInv, ServerTypeOK, ServerStates
<1> QED
    BY <1>2, <1>3, <1>6, <1>7, <1>8 DEF ServerInv

\* The archive_end frame is built, retained and sent.
LEMMA SendArchiveEndStep ==
    ASSUME ServerInv, AcksSent, SendArchiveEnd
    PROVE  ServerInv' /\ AcksSent'
<1> DEFINE m == FrameRecord(EndSeq, volumeNum)
<1>1. /\ srv = "drain" /\ Outstanding = 0
      /\ retention' = Retain(EndSeq) /\ Reply(m, TRUE)
      /\ UNCHANGED <<nextSeq, producer, frameQueue, acked, toServer,
                     writerAlive, readShut>>
    BY DEF SendArchiveEnd, producerVars
<1>2. /\ ~EndBuilt /\ nextSend = EndSeq /\ acked = EndSeq /\ Held = EndSeq
      /\ frameQueue = <<>> /\ producer = "finished"
    <2>1. /\ ~EndBuilt /\ nextSend = EndSeq /\ nextSend <= Held
          /\ frameQueue = <<>> /\ producer = "finished"
        BY <1>1 DEF ServerInv, WindowInv
    <2>2. acked = EndSeq
        BY <1>1, <2>1, Ranges DEF Outstanding
    <2>3. Held = EndSeq
        BY <2>1, Ranges DEF Held
    <2> QED
        BY <2>1, <2>2, <2>3
<1>3. retention' = acked .. EndSeq
    <2>1. Outstanding < RetentionFrames
        BY <1>1, Ranges
    <2>2. retention' = retention \cup {EndSeq}
        BY <1>1, <1>2, <2>1, NothingEvicted
    <2>3. retention = acked .. EndSeq - 1
        BY <1>2 DEF ServerInv, WindowInv
    <2> QED
        BY <1>2, <2>2, <2>3, Ranges
<1>4. EndBuilt' /\ Held' = EndSeq + 1
    <2>1. EndSeq \in retention'
        BY <1>2, <1>3, Ranges
    <2> QED
        BY <2>1 DEF EndBuilt, Held, EndSeq
<1>5. /\ ServerTypeOK /\ m \in Replies /\ m.type = "frame_record"
      /\ EndSeq \in FrameSeqs
    BY Ranges, ReplyTypes DEF ServerInv, ServerTypeOK, FrameSeqs
<1>6. /\ toWriter' \in Seq(Replies)
      /\ volumeNum' \in Nat /\ queueClosed' \in BOOLEAN
      /\ serverAlive' \in BOOLEAN /\ committed' \in BOOLEAN
      /\ \/ /\ srv' = "request" /\ nextSend' = nextSend + 1 /\ endSent' = TRUE
         \/ /\ srv' \in {"accept", "complete"}
            /\ nextSend' = 0 /\ endSent' = FALSE
    <2> HIDE DEF m
    <2> QED
        BY <1>1, <1>5, ReplyProps
<1>7. ProducerInv' /\ QueueInv'
    BY <1>1 DEF ServerInv, ProducerInv, QueueInv, After
<1>8. WindowInv'
    <2>1. retention' = acked' .. Held' - 1 /\ acked' <= Held'
          /\ Held' - acked' <= RetentionFrames /\ acked' >= EndSeq'
        BY <1>1, <1>2, <1>3, <1>4, Ranges DEF EndSeq
    <2>2. nextSend' <= Held' /\ (InCall' => acked' <= nextSend')
        BY <1>1, <1>2, <1>4, <1>6, Ranges DEF InCall
    <2> QED
        BY <1>1, <1>2, <1>4, <1>6, <2>1, <2>2 DEF WindowInv
<1>9. AcksSent'
    <2>1. CASE nextSend' = nextSend + 1
        BY <1>1, <2>1, AcksStaySent DEF InCall
    <2>2. CASE srv' \in {"accept", "complete"}
        BY <2>2 DEF AcksSent, InCall
    <2> QED
        BY <1>6, <2>1, <2>2
<1>10. ServerTypeOK'
    <2>1. endSent' \in BOOLEAN /\ srv' \in ServerStates
        BY <1>6 DEF ServerStates
    <2>2. nextSend' \in 0 .. EndSeq' + 1
        BY <1>2, <1>6, Ranges DEF EndSeq
    <2>3. retention' \in SUBSET FrameSeqs'
        BY <1>2, <1>3, Ranges DEF FrameSeqs, EndSeq
    <2> QED
        BY <1>1, <1>5, <1>6, <2>1, <2>2, <2>3 DEF ServerTypeOK
<1> QED
    BY <1>7, <1>8, <1>9, <1>10 DEF ServerInv

\* Every step of the server preserves the invariant, whatever the client.
LEMMA ServerStep ==
    ASSUME ServerInv, AcksSent, ServerNext
    PROVE  ServerInv' /\ AcksSent'
    BY ReadAckStep, RefusedStep, ReadNextFrameStep, ReadEofStep,
       SendRetainedStep, SendNewFrameStep, SendTapeEofStep, TakeDoneStep,
       SendArchiveEndStep DEF ServerNext

\* A connection is accepted.
LEMMA AcceptStep ==
    ASSUME ServerInv, srv = "accept", Accept, Open,
           UNCHANGED <<producerVars, queueVars>>
    PROVE  ServerInv' /\ AcksSent'
<1>1. /\ srv' = "request" /\ nextSend' = acked /\ endSent' = FALSE
      /\ committed' = FALSE /\ toServer' = <<>> /\ toWriter' = <<>>
      /\ writerAlive' = TRUE /\ serverAlive' = TRUE /\ readShut' = FALSE
      /\ UNCHANGED <<nextSeq, producer, frameQueue, queueClosed, acked,
                     volumeNum, retention>>
    BY DEF Accept, Open, producerVars, queueVars
<1>2. /\ (EndBuilt' <=> EndBuilt) /\ Held' = Held
      /\ ProducerInv' /\ QueueInv'
    BY <1>1, WindowKept
<1>3. WindowInv'
    <2>1. nextSend' <= Held' /\ acked' <= nextSend'
        BY <1>1, <1>2, Ranges DEF ServerInv, WindowInv
    <2> QED
        BY <1>1, <1>2, <2>1 DEF ServerInv, WindowInv, EndSeq
<1>4. AcksSent'
    BY <1>1 DEF AcksSent
<1>5. ServerTypeOK'
    <2>1. toServer' \in Seq(Requests) /\ toWriter' \in Seq(Replies)
        BY <1>1, EmptySeq
    <2>2. nextSend' \in 0 .. EndSeq' + 1
        BY <1>1, Ranges DEF EndSeq
    <2> QED
        BY <1>1, <2>1, <2>2 DEF ServerInv, ServerTypeOK, ServerStates
<1> QED
    BY <1>2, <1>3, <1>4, <1>5 DEF ServerInv

\* The invariant holds when the archiver starts.
LEMMA ServerStart ==
    ASSUME ServerInit, WireInit
    PROVE  ServerInv /\ AcksSent
<1>1. /\ nextSeq = 0 /\ frameQueue = <<>>
      /\ producer = IF NumFrames = 0 THEN "tape_eof" ELSE "frames"
      /\ queueClosed = FALSE /\ srv = "accept" /\ acked = 0 /\ volumeNum = 1
      /\ retention = {} /\ nextSend = 0 /\ endSent = FALSE /\ committed = FALSE
      /\ toServer = <<>> /\ toWriter = <<>>
      /\ writerAlive = FALSE /\ serverAlive = FALSE /\ readShut = FALSE
    BY DEF ServerInit, WireInit
<1>2. NumFrames \in Nat /\ RetentionFrames \in Nat \ {0}
    BY StreamAssumption, ServerAssumption
<1>3. ServerTypeOK
    <2>1. /\ frameQueue \in Seq(Items) /\ toServer \in Seq(Requests)
          /\ toWriter \in Seq(Replies)
        BY <1>1, EmptySeq
    <2>2. srv \in ServerStates /\ 0 \in 0 .. EndSeq + 1 /\ 0 \in 0 .. NumFrames
        BY <1>1, <1>2 DEF ServerStates, EndSeq
    <2>3. retention \in SUBSET FrameSeqs
        BY <1>1
    <2> QED
        BY <1>1, <2>1, <2>2, <2>3 DEF ServerTypeOK
<1>4. ~EndBuilt /\ Held = 0
    BY <1>1, <1>2 DEF EndBuilt, Held, Taken, EndSeq
<1>5. WindowInv
    BY <1>1, <1>2, <1>4 DEF WindowInv, InCall
<1>6. QueueInv
    BY <1>1, EmptySeq DEF QueueInv
<1> QED
    BY <1>1, <1>2, <1>3, <1>5, <1>6 DEF ServerInv, ProducerInv, AcksSent, InCall

\* What the invariant says of the retention buffer.
LEMMA InvCovers ==
    ASSUME ServerInv
    PROVE  RetentionCovers
<1>1. /\ retention = acked .. Held - 1 /\ acked <= Held
      /\ Held - acked <= RetentionFrames
    BY DEF ServerInv, WindowInv
<1>2. Cardinality(retention) <= RetentionFrames
    <2>1. Cardinality(acked .. Held - 1) =
              IF acked > Held - 1 THEN 0 ELSE Held - 1 - acked + 1
        <3>1. acked \in Int /\ Held - 1 \in Int
            BY Ranges
        <3> QED
            BY <3>1, FS_Interval
    <2> QED
        BY <1>1, <2>1, Ranges
<1>3. Held - 1 \in {Taken - 1, EndSeq}
    BY Ranges DEF Held
<1> QED
    BY <1>1, <1>2, <1>3 DEF RetentionCovers

-----------------------------------------------------------------------------
(* The steps of the other end. *)

\* A step that touches only the connection keeps the server's invariant.
LEMMA ConnectionStep ==
    ASSUME ServerInv, UNCHANGED <<producerVars, queueVars, serverVars>>,
           toServer' \in Seq(Requests), toWriter' \in Seq(Replies),
           writerAlive' \in BOOLEAN, serverAlive' \in BOOLEAN,
           readShut' \in BOOLEAN
    PROVE  ServerInv'
<1>1. UNCHANGED <<nextSeq, producer, frameQueue, queueClosed, srv, acked,
                  volumeNum, retention, nextSend, endSent, committed>>
    BY DEF producerVars, queueVars, serverVars
<1>2. /\ (EndBuilt' <=> EndBuilt) /\ Held' = Held
      /\ ProducerInv' /\ QueueInv'
    BY <1>1, WindowKept
<1>3. WindowInv'
    BY <1>1, <1>2 DEF ServerInv, WindowInv, InCall, EndSeq
<1>4. ServerTypeOK'
    BY <1>1 DEF ServerInv, ServerTypeOK
<1> QED
    BY <1>2, <1>3, <1>4 DEF ServerInv

\* The other end sends a message that acknowledges at most what was sent.
LEMMA AcksAfterSend ==
    ASSUME ServerInv, AcksSent, NEW m \in Requests, NEW alive,
           m.type = "ack_frame" /\ InCall => m.seq < nextSend,
           toServer' = Sent(toServer, alive, m), UNCHANGED serverVars
    PROVE  AcksSent' /\ toServer' \in Seq(Requests)
<1> DEFINE q == Append(toServer, m)
<1>1. toServer \in Seq(Requests) /\ srv' = srv /\ nextSend' = nextSend
    BY DEF ServerInv, ServerTypeOK, serverVars
<1>2. CASE toServer' = toServer
    BY <1>1, <1>2 DEF AcksSent, InCall
<1>3. CASE toServer' = q
    <2>1. /\ q \in Seq(Requests) /\ Len(q) = Len(toServer) + 1
          /\ \A i \in 1 .. Len(toServer) : q[i] = toServer[i]
          /\ q[Len(toServer) + 1] = m
          /\ Len(toServer) \in Nat
        BY <1>1, AppendProps, LenProperties
    <2>2. ASSUME InCall, NEW i \in 1 .. Len(q), q[i].type = "ack_frame"
          PROVE  q[i].seq < nextSend
        <3>1. CASE i \in 1 .. Len(toServer)
            BY <2>1, <2>2, <3>1 DEF AcksSent
        <3>2. CASE i = Len(toServer) + 1
            BY <2>1, <2>2, <3>2
        <3> QED
            BY <2>1, <3>1, <3>2
    <2> QED
        BY <1>1, <1>3, <2>1, <2>2 DEF AcksSent, InCall
<1> QED
    BY <1>2, <1>3 DEF Sent

\* The last messages of the other end are lost.
LEMMA AcksAfterReset ==
    ASSUME ServerInv, AcksSent, toServer' \in Truncations(toServer),
           UNCHANGED serverVars
    PROVE  AcksSent' /\ toServer' \in Seq(Requests)
<1>1. toServer \in Seq(Requests) /\ srv' = srv /\ nextSend' = nextSend
    BY DEF ServerInv, ServerTypeOK, serverVars
<1>2. /\ toServer' \in Seq(Requests) /\ Len(toServer') <= Len(toServer)
      /\ \A i \in 1 .. Len(toServer') : toServer'[i] = toServer[i]
    BY <1>1, TruncationsProps
<1>3. \A i \in 1 .. Len(toServer') : i \in 1 .. Len(toServer)
    BY <1>1, <1>2, LenProperties
<1> QED
    BY <1>1, <1>2, <1>3 DEF AcksSent, InCall
=============================================================================
