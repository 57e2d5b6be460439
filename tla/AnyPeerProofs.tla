---------------------------- MODULE AnyPeerProofs ----------------------------
(***************************************************************************)
(* Each end of the write protocol by itself: the volume server against any *)
(* client, for every archive, window, queue capacity and number of         *)
(* messages in flight, and the volume writer against any server, for every *)
(* archive, medium and number of replies.                                  *)
(***************************************************************************)
EXTENDS ServerAnyClient, WriterAnyServer, VolumeServerProofs

-----------------------------------------------------------------------------
(* The server against any client. *)

\* What a client sends acknowledges only what it was sent.
LEMMA ClientSendsStep ==
    ASSUME ServerInv, AcksSent, ClientSends
    PROVE  ServerInv' /\ AcksSent'
<1>1. PICK m \in {NextFrame, OtherRequest}
                    \cup {AckFrame(n) : n \in {k \in FrameSeqs : k < nextSend}} :
              toServer' = Append(toServer, m)
    BY DEF ClientSends
<1>2. /\ UNCHANGED <<producerVars, queueVars, serverVars>>
      /\ UNCHANGED <<toWriter, writerAlive, serverAlive, readShut>>
    BY DEF ClientSends
<1>3. m \in Requests /\ (m.type = "ack_frame" => m.seq < nextSend)
    BY DEF NextFrame, OtherRequest, AckFrame, Requests
<1>4. AcksSent' /\ toServer' \in Seq(Requests)
    <2>1. toServer' = Sent(toServer, TRUE, m)
        BY <1>1 DEF Sent
    <2> QED
        BY <1>2, <1>3, <2>1, AcksAfterSend
<1>5. ServerTypeOK
    BY DEF ServerInv
<1> QED
    BY <1>2, <1>4, <1>5, ConnectionStep DEF ServerTypeOK

\* A client that reads a reply changes nothing the server relies on.
LEMMA ClientReadsStep ==
    ASSUME ServerInv, AcksSent, ClientReads
    PROVE  ServerInv' /\ AcksSent'
<1>1. /\ UNCHANGED <<producerVars, queueVars, serverVars>>
      /\ UNCHANGED <<toServer, writerAlive, serverAlive, readShut>>
      /\ toWriter # <<>> /\ toWriter' = Tail(toWriter)
    BY DEF ClientReads
<1>2. ServerTypeOK
    BY DEF ServerInv
<1>3. toWriter' \in Seq(Replies)
    BY <1>1, <1>2, HeadTailProperties DEF ServerTypeOK
<1>4. ServerInv'
    BY <1>1, <1>2, <1>3, ConnectionStep DEF ServerTypeOK
<1>5. AcksSent'
    BY <1>1 DEF AcksSent, InCall, serverVars
<1> QED
    BY <1>4, <1>5

\* A client that leaves, or stops reading, loses messages and adds none.
LEMMA ClientLeavesStep ==
    ASSUME ServerInv, AcksSent, ClientLeaves
    PROVE  ServerInv' /\ AcksSent'
<1>1. /\ UNCHANGED <<producerVars, queueVars, serverVars>>
      /\ UNCHANGED <<toWriter, serverAlive>>
      /\ toServer' \in Truncations(toServer) \/ toServer' = toServer
      /\ writerAlive' = FALSE \/ writerAlive' = writerAlive
      /\ readShut' = TRUE \/ readShut' = readShut
    BY DEF ClientLeaves
<1>2. ServerTypeOK
    BY DEF ServerInv
<1>3. AcksSent' /\ toServer' \in Seq(Requests)
    <2>1. CASE toServer' = toServer
        BY <1>1, <1>2, <2>1 DEF AcksSent, InCall, serverVars, ServerTypeOK
    <2> QED
        BY <1>1, <2>1, AcksAfterReset
<1>4. writerAlive' \in BOOLEAN /\ readShut' \in BOOLEAN
      /\ toWriter' \in Seq(Replies) /\ serverAlive' \in BOOLEAN
    BY <1>1, <1>2 DEF ServerTypeOK
<1> QED
    BY <1>1, <1>3, <1>4, ConnectionStep

\* The producer does not touch the connection.
LEMMA ProducerKeepsAcks ==
    ASSUME AcksSent, ProducerNext
    PROVE  AcksSent'
    BY DEF AcksSent, ProducerNext, InCall, serverVars, wire

\* The invariant is inductive.
LEMMA Preserved ==
    ASSUME ServerInv, AcksSent, [Next]_vars
    PROVE  ServerInv' /\ AcksSent'
<1>1. CASE ProducerNext
    BY <1>1, ProducerStep, ProducerKeepsAcks
<1>2. CASE ServerNext
    BY <1>2, ServerStep
<1>3. CASE ClientConnects
    BY <1>3, AcceptStep DEF ClientConnects
<1>4. CASE ClientSends
    BY <1>4, ClientSendsStep
<1>5. CASE ClientReads
    BY <1>5, ClientReadsStep
<1>6. CASE ClientLeaves
    BY <1>6, ClientLeavesStep
<1>7. CASE UNCHANGED vars
    <2>1. /\ UNCHANGED <<producerVars, queueVars, serverVars>>
          /\ UNCHANGED <<toServer, toWriter, writerAlive, serverAlive, readShut>>
        BY <1>7 DEF vars, wire
    <2>2. ServerTypeOK
        BY DEF ServerInv
    <2>3. ServerInv'
        BY <2>1, <2>2, ConnectionStep DEF ServerTypeOK
    <2>4. AcksSent'
        BY <2>1 DEF AcksSent, InCall, serverVars
    <2> QED
        BY <2>3, <2>4
<1> QED
    BY <1>1, <1>2, <1>3, <1>4, <1>5, <1>6, <1>7 DEF Next

-----------------------------------------------------------------------------

\* The server's invariant holds whatever clients do.
THEOREM Invariant == Spec => [](ServerInv /\ AcksSent)
<1>1. Init => ServerInv /\ AcksSent
    BY ServerStart DEF Init
<1>2. ServerInv /\ AcksSent /\ [Next]_vars => (ServerInv /\ AcksSent)'
    BY Preserved
<1> QED
    BY <1>1, <1>2, PTL DEF Spec

\* Every variable of the server keeps its type; the frame numbers stay
\* within the archive.
THEOREM TypeCorrect == Spec => []ServerTypeOK
<1>1. ServerInv => ServerTypeOK
    BY DEF ServerInv
<1> QED
    BY <1>1, Invariant, PTL

\* FrameRetentionBuffer::add never evicts a frame that is not acknowledged.
THEOREM NothingNeededIsEvicted == Spec => []RetentionCovers
<1>1. ServerInv => RetentionCovers
    BY InvCovers
<1> QED
    BY <1>1, Invariant, PTL

\* serve_volume_client builds archive_end only behind the last data
\* acknowledgement.
THEOREM EndIsLast == Spec => []EndBehindAllAcks
<1>1. ServerInv => EndBehindAllAcks
    BY DEF ServerInv, WindowInv, EndBehindAllAcks
<1> QED
    BY <1>1, Invariant, PTL

\* One step of anyone moves acked and volumeNum by at most one, and
\* volumeNum only out of a call that was acknowledged something.
LEMMA CountsStep ==
    ASSUME [Next]_vars
    PROVE  /\ acked' \in {acked, acked + 1}
           /\ volumeNum' \in {volumeNum, volumeNum + 1}
           /\ volumeNum' # volumeNum => committed
<1> DEFINE Counts == /\ acked' \in {acked, acked + 1}
                     /\ volumeNum' \in {volumeNum, volumeNum + 1}
                     /\ volumeNum' # volumeNum => committed
<1>1. CASE ReadAck
    <2>1. acked' = acked + 1
        BY <1>1 DEF ReadAck
    <2>2. Return(TRUE, TRUE) \/ UNCHANGED volumeNum
        BY <1>1 DEF ReadAck
    <2> QED
        BY <2>1, <2>2 DEF Return
<1>2. CASE ReadAckOutOfOrder \/ ReadRefused \/ ReadEof \/ QueueEnded
    <2>1. Return(FALSE, committed) /\ UNCHANGED acked
        BY <1>2 DEF ReadAckOutOfOrder, ReadRefused, ReadEof, QueueEnded, Refuse
    <2> QED
        BY <2>1 DEF Return
<1>3. CASE ReadNextFrame \/ TakeDone
    BY <1>3 DEF ReadNextFrame, TakeDone, Popped
<1>4. CASE SendRetained \/ SendNewFrame \/ SendTapeEof \/ SendArchiveEnd
    <2>1. UNCHANGED acked
        BY <1>4 DEF SendRetained, SendNewFrame, SendTapeEof, SendArchiveEnd,
                    Popped
    <2>2. UNCHANGED volumeNum \/ Return(FALSE, committed)
        BY <1>4 DEF SendRetained, SendNewFrame, SendTapeEof, SendArchiveEnd,
                    Reply, Refuse
    <2> QED
        BY <2>1, <2>2 DEF Return
<1>5. CASE \/ ProducerNext \/ ClientConnects \/ ClientSends \/ ClientReads
           \/ ClientLeaves \/ UNCHANGED vars
    BY <1>5 DEF ProducerNext, ClientConnects, Accept, ClientSends, ClientReads,
                ClientLeaves, serverVars, vars
<1> QED
    BY <1>1, <1>2, <1>3, <1>4, <1>5 DEF Next, ServerNext

\* run_volume_server counts a volume only when frames of it were
\* acknowledged, and acknowledgements count one by one.
THEOREM VolumesCounted == Spec => CommitCountsVolumes
<1>1. [Next]_vars => [/\ acked' \in {acked, acked + 1}
                      /\ volumeNum' \in {volumeNum, volumeNum + 1}
                      /\ volumeNum' # volumeNum => committed]_vars
    BY CountsStep
<1> QED
    BY <1>1, PTL DEF Spec, CommitCountsVolumes

-----------------------------------------------------------------------------
(* The writer against any server. *)

OnMedium == FrameRecords \cup {Mark}
Told == {NextFrame} \cup {AckFrame(n) : n \in FrameSeqs}
Answers == {FrameRecord(n, 1) : n \in FrameSeqs} \cup {TapeEof, Error("producer")}

\* The output thread has acknowledged what it wrote, or has yet to.
Settled == out \in {"take", "write", "final mark"}
Owing == out \in {"ack", "ack last"}

SessionTypes ==
    /\ toServer \in Seq(Told) /\ toWriter \in Seq(Answers)
    /\ buffer \in Seq(OnMedium) /\ mounted \in Seq(OnMedium)
    /\ inHand \in OnMedium \cup {Nothing}
    /\ Owing => inHand \in FrameRecords

AcksOf(q) == {i \in DOMAIN q : q[i].type = "ack_frame"}

\* The k-th acknowledgement in q names the k-th frame of s.
Matched(q, s) ==
    \A a \in AcksOf(q) : \E f \in FramesOf(s) :
        /\ Rank(FramesOf(s), f) = Rank(AcksOf(q), a)
        /\ s[f].seq = q[a].seq

\* How far the output thread is ahead of what a listening server was told.
ToldEnough(q, s) ==
    /\ Settled => Cardinality(FramesOf(s)) = Cardinality(AcksOf(q))
    /\ Owing => /\ Cardinality(FramesOf(s)) = Cardinality(AcksOf(q)) + 1
                /\ s # <<>> /\ s[Len(s)] = inHand
    /\ Cardinality(FramesOf(s)) <= Cardinality(AcksOf(q)) + 1

AckInv ==
    recv # "off" =>
        /\ Matched(toServer, mounted)
        /\ serverAlive => ToldEnough(toServer, mounted)

\* Places in a sequence that grows by one.
LEMMA PlacesOf ==
    ASSUME NEW S, NEW q \in Seq(S)
    PROVE  /\ AcksOf(q) \subseteq 1 .. Len(q) /\ FramesOf(q) \subseteq 1 .. Len(q)
           /\ Len(q) \in Nat
           /\ IsFiniteSet(AcksOf(q)) /\ IsFiniteSet(FramesOf(q))
           /\ Cardinality(AcksOf(q)) \in Nat /\ Cardinality(FramesOf(q)) \in Nat
<1>1. AcksOf(q) \subseteq 1 .. Len(q) /\ FramesOf(q) \subseteq 1 .. Len(q) /\ Len(q) \in Nat
  BY DEF AcksOf, FramesOf
<1>2. IsFiniteSet(1 .. Len(q))
  BY <1>1, FS_Interval
<1>3. IsFiniteSet(AcksOf(q)) /\ IsFiniteSet(FramesOf(q))
  BY <1>1, <1>2, FS_Subset
<1> QED BY <1>1, <1>3, FS_CardinalityType

LEMMA PlacesGrow ==
    ASSUME NEW S, NEW q \in Seq(S), NEW e \in S
    PROVE  /\ AcksOf(Append(q, e)) =
                  AcksOf(q) \cup (IF e.type = "ack_frame" THEN {Len(q) + 1} ELSE {})
           /\ FramesOf(Append(q, e)) =
                  FramesOf(q) \cup (IF IsFrame(e) THEN {Len(q) + 1} ELSE {})
<1>1. /\ DOMAIN q = 1 .. Len(q) /\ Len(q) \in Nat
      /\ DOMAIN Append(q, e) = 1 .. (Len(q) + 1)
      /\ Append(q, e)[Len(q) + 1] = e
      /\ \A i \in 1 .. Len(q) : Append(q, e)[i] = q[i]
  OBVIOUS
<1> DEFINE p == Append(q, e)
<1> HIDE DEF p
<1>2. DOMAIN p = (DOMAIN q) \cup {Len(q) + 1} /\ Len(q) + 1 \notin DOMAIN q
  BY <1>1 DEF p
<1>3. p[Len(q) + 1] = e /\ \A i \in DOMAIN q : p[i] = q[i]
  BY <1>1 DEF p
<1>4. AcksOf(p) = AcksOf(q) \cup (IF e.type = "ack_frame" THEN {Len(q) + 1} ELSE {})
  BY <1>2, <1>3 DEF AcksOf
<1>5. FramesOf(p) = FramesOf(q) \cup (IF IsFrame(e) THEN {Len(q) + 1} ELSE {})
  BY <1>2, <1>3 DEF FramesOf
<1> QED BY <1>4, <1>5 DEF p

LEMMA RankGrows ==
    ASSUME NEW n \in Nat, NEW places, places \subseteq 1 .. n
    PROVE  /\ \A i \in 1 .. n : Rank(places \cup {n + 1}, i) = Rank(places, i)
           /\ Rank(places \cup {n + 1}, n + 1) = Cardinality(places) + 1
           /\ Cardinality(places \cup {n + 1}) = Cardinality(places) + 1
           /\ Rank(places, n) = Cardinality(places)
<1>0. \A j \in places : j \in 1 .. n /\ j <= n /\ j <= n + 1
  OBVIOUS
<1>1. \A i \in 1 .. n : {j \in places \cup {n + 1} : j <= i} = {j \in places : j <= i}
  OBVIOUS
<1>2. {j \in places \cup {n + 1} : j <= n + 1} = places \cup {n + 1}
  <2>1. n + 1 <= n + 1
    OBVIOUS
  <2> QED BY <1>0, <2>1
<1>3. {j \in places : j <= n} = places
  BY <1>0
<1>4. IsFiniteSet(places) /\ n + 1 \notin places
  <2>1. IsFiniteSet(1 .. n)
    BY FS_Interval
  <2>2. IsFiniteSet(places)
    BY <2>1, FS_Subset
  <2>3. ~(n + 1 <= n)
    OBVIOUS
  <2> QED BY <1>0, <2>2, <2>3
<1>5. Cardinality(places \cup {n + 1}) = Cardinality(places) + 1
  BY <1>4, FS_AddElement
<1> QED BY <1>1, <1>2, <1>3, <1>5 DEF Rank

\* A record is written.
LEMMA MatchedWhenWritten ==
    ASSUME NEW q \in Seq(Told), NEW s \in Seq(OnMedium), NEW e \in OnMedium, Matched(q, s)
    PROVE  Matched(q, Append(s, e))
<1> DEFINE p == Append(s, e)
<1>1. FramesOf(s) \subseteq 1 .. Len(s) /\ Len(s) \in Nat
  BY PlacesOf
<1>2. FramesOf(p) = FramesOf(s) \cup (IF IsFrame(e) THEN {Len(s) + 1} ELSE {})
  BY PlacesGrow
<1>4. \A f \in FramesOf(s) : p[f] = s[f]
  BY <1>1
<1> HIDE DEF p
<1>3. \A f \in FramesOf(s) : Rank(FramesOf(p), f) = Rank(FramesOf(s), f)
  <2>1. CASE FramesOf(p) = FramesOf(s)
    BY <2>1
  <2>2. CASE FramesOf(p) = FramesOf(s) \cup {Len(s) + 1}
    <3>1. \A f \in 1 .. Len(s) :
              Rank(FramesOf(s) \cup {Len(s) + 1}, f) = Rank(FramesOf(s), f)
      BY <1>1, RankGrows
    <3> QED BY <1>1, <2>2, <3>1
  <2> QED BY <1>2, <2>1, <2>2
<1>5. FramesOf(s) \subseteq FramesOf(p)
  BY <1>2
<1> QED BY <1>3, <1>4, <1>5 DEF Matched, p

\* The record written last is acknowledged.
LEMMA MatchedWhenAcked ==
    ASSUME NEW q \in Seq(Told), NEW s \in Seq(OnMedium), Matched(q, s), s # <<>>,
           NEW r \in FrameRecords, s[Len(s)] = r,
           Cardinality(FramesOf(s)) = Cardinality(AcksOf(q)) + 1
    PROVE  /\ Append(q, AckFrame(r.seq)) \in Seq(Told)
           /\ Matched(Append(q, AckFrame(r.seq)), s)
           /\ Cardinality(AcksOf(Append(q, AckFrame(r.seq)))) =
                  Cardinality(FramesOf(s))
<1> DEFINE m == AckFrame(r.seq)
<1>1. m \in Told /\ m.type = "ack_frame" /\ m.seq = r.seq
  BY DEF Told, AckFrame, FrameRecords
<1> HIDE DEF m
<1> DEFINE p == Append(q, m)
<1>2. /\ AcksOf(q) \subseteq 1 .. Len(q) /\ Len(q) \in Nat
      /\ FramesOf(s) \subseteq 1 .. Len(s) /\ Len(s) \in Nat
  BY PlacesOf
<1>3. AcksOf(p) = AcksOf(q) \cup {Len(q) + 1}
  BY <1>1, PlacesGrow
<1>4. /\ p[Len(q) + 1] = m /\ \A a \in AcksOf(q) : p[a] = q[a]
      /\ p \in Seq(Told)
  BY <1>1, <1>2
<1> HIDE DEF p
<1>5. /\ \A a \in AcksOf(q) : Rank(AcksOf(p), a) = Rank(AcksOf(q), a)
      /\ Rank(AcksOf(p), Len(q) + 1) = Cardinality(FramesOf(s))
      /\ Cardinality(AcksOf(p)) = Cardinality(FramesOf(s))
  BY <1>2, <1>3, RankGrows
<1>6. Len(s) \in FramesOf(s) /\ Rank(FramesOf(s), Len(s)) = Cardinality(FramesOf(s))
  <2>1. Len(s) \in DOMAIN s
    OBVIOUS
  <2>2. IsFrame(s[Len(s)])
    BY DEF IsFrame, FrameRecords
  <2> QED BY <1>2, <2>1, <2>2, RankGrows DEF FramesOf
<1>7. Matched(p, s)
  <2> SUFFICES ASSUME NEW a \in AcksOf(p)
               PROVE  \E f \in FramesOf(s) : /\ Rank(FramesOf(s), f) = Rank(AcksOf(p), a)
                                             /\ s[f].seq = p[a].seq
    BY DEF Matched
  <2>1. CASE a \in AcksOf(q)
    BY <1>4, <1>5, <2>1 DEF Matched
  <2>2. CASE a = Len(q) + 1
    BY <1>1, <1>4, <1>5, <1>6, <2>2
  <2> QED BY <1>3, <2>1, <2>2
<1> QED BY <1>4, <1>5, <1>7 DEF p, m

\* A request says nothing about the medium.
LEMMA MatchedWhenAsked ==
    ASSUME NEW q \in Seq(Told)
    PROVE  /\ Append(q, NextFrame) \in Seq(Told)
           /\ AcksOf(Append(q, NextFrame)) = AcksOf(q)
           /\ \A s : Matched(q, s) => Matched(Append(q, NextFrame), s)
<1>1. NextFrame \in Told /\ NextFrame.type # "ack_frame"
  BY DEF Told, NextFrame
<1> DEFINE p == Append(q, NextFrame)
<1>2. AcksOf(p) = AcksOf(q)
  <2>1. AcksOf(p) =
            AcksOf(q) \cup (IF NextFrame.type = "ack_frame" THEN {Len(q) + 1} ELSE {})
    BY <1>1, PlacesGrow
  <2> QED BY <1>1, <2>1
<1>3. p \in Seq(Told)
  BY <1>1
<1>4. \A a \in AcksOf(q) : p[a] = q[a]
  BY PlacesOf
<1> HIDE DEF p
<1>5. \A s : Matched(q, s) => Matched(p, s)
  BY <1>2, <1>4 DEF Matched
<1> QED BY <1>2, <1>3, <1>5 DEF p

\* Where the output thread stands behind a step.
LEMMA Standing ==
    /\ (out = "take" \/ out = "write" \/ out = "final mark") => Settled /\ ~Owing
    /\ (out = "ack" \/ out = "ack last") => Owing /\ ~Settled
    /\ (out = "stopped" \/ out = "off") => ~Owing /\ ~Settled
BY Zenon DEF Settled, Owing

LEMMA StandingNext ==
    /\ (out' = "take" \/ out' = "write" \/ out' = "final mark") => Settled' /\ ~Owing'
    /\ (out' = "ack" \/ out' = "ack last") => Owing' /\ ~Settled'
    /\ (out' = "stopped" \/ out' = "off") => ~Owing' /\ ~Settled'
BY Zenon DEF Settled, Owing

LEMMA StandingStays == UNCHANGED out => (Settled' <=> Settled) /\ (Owing' <=> Owing)
BY Zenon DEF Settled, Owing

LEMMA SessionTypesStart == SessionInit => SessionTypes /\ AckInv
<1> SUFFICES ASSUME SessionInit PROVE SessionTypes /\ AckInv
  OBVIOUS
<1>1. /\ recv = "off" /\ out = "off" /\ buffer = <<>> /\ inHand = Nothing
      /\ mounted = <<>> /\ toServer = <<>> /\ toWriter = <<>>
  BY DEF SessionInit, WireInit, WriterInit
<1>2. ~Owing
  BY <1>1, Standing
<1> QED BY <1>1, <1>2 DEF SessionTypes, AckInv

LEMMA StartSessionKeeps ==
    ASSUME SessionStart
    PROVE  SessionTypes' /\ AckInv'
<1>1. /\ out' = "take" /\ buffer' = <<>> /\ inHand' = Nothing
      /\ mounted' = <<>> /\ toServer' = <<>> /\ toWriter' = <<>>
  BY DEF SessionStart, StartWriter, Open
<1>2. ~Owing'
  BY <1>1, StandingNext
<1>3. SessionTypes'
  BY <1>1, <1>2 DEF SessionTypes
<1>4. AcksOf(<<>>) = {} /\ FramesOf(<<>>) = {}
  BY DEF AcksOf, FramesOf
<1>5. Matched(<<>>, <<>>)
  BY <1>4 DEF Matched
<1>6. ToldEnough(toServer, mounted)'
  BY <1>1, <1>2, <1>4, FS_EmptySet DEF ToldEnough
<1> QED BY <1>1, <1>3, <1>5, <1>6 DEF AckInv

\* A step that leaves the medium, the thread and what it has told alone.
LEMMA SameTold ==
    ASSUME AckInv, UNCHANGED <<recv, out, inHand, mounted, toServer>>,
           serverAlive' = FALSE \/ serverAlive' = serverAlive
    PROVE  AckInv'
<1>1. (Settled' <=> Settled) /\ (Owing' <=> Owing)
  BY StandingStays
<1>2. ToldEnough(toServer, mounted) => ToldEnough(toServer, mounted)'
  BY <1>1 DEF ToldEnough
<1> QED BY <1>2 DEF AckInv

LEMMA ServerSideKeeps ==
    ASSUME SessionTypes, AckInv, ServerReplies \/ ServerLeaves
    PROVE  SessionTypes' /\ AckInv'
<1>1. /\ UNCHANGED <<toServer, recv, out, buffer, inHand, mounted>>
      /\ serverAlive' = FALSE \/ serverAlive' = serverAlive
      /\ toWriter' = toWriter \/ \E m \in Answers : toWriter' = Append(toWriter, m)
  BY DEF ServerReplies, ServerLeaves, Answers, writerVars
<1>2. toWriter' \in Seq(Answers)
  <2>1. toWriter \in Seq(Answers)
    BY DEF SessionTypes
  <2>2. \A m \in Answers : Append(toWriter, m) \in Seq(Answers)
    BY <2>1, AppendProperties
  <2> QED BY <1>1, <2>1, <2>2
<1>3. SessionTypes'
  BY <1>1, <1>2, StandingStays DEF SessionTypes
<1> QED BY <1>1, <1>3, SameTold

LEMMA ReceiverKeeps ==
    ASSUME SessionTypes, AckInv, ReceiverNext
    PROVE  SessionTypes' /\ AckInv'
<1>1. /\ UNCHANGED <<out, inHand, mounted, serverAlive>> /\ recv # "off"
  BY DEF ReceiverNext, RequestFrame, Receive, ReceiveEof, NoticeOutputEnded
<1>2. \/ toServer' = toServer
      \/ toServer' = Append(toServer, NextFrame)
  BY DEF ReceiverNext, RequestFrame, Receive, ReceiveEof, NoticeOutputEnded, Sent
<1>3. /\ toServer' \in Seq(Told) /\ AcksOf(toServer') = AcksOf(toServer)
      /\ Matched(toServer, mounted) => Matched(toServer', mounted)
  BY <1>2, MatchedWhenAsked DEF SessionTypes
<1>4. toWriter' \in Seq(Answers) /\ buffer' \in Seq(OnMedium)
  <2>1. CASE RequestFrame \/ ReceiveEof \/ NoticeOutputEnded
    BY <2>1 DEF RequestFrame, ReceiveEof, NoticeOutputEnded, SessionTypes
  <2>2. CASE Receive
    <3> DEFINE m == Head(toWriter)
    <3>1. m \in Answers /\ toWriter' \in Seq(Answers)
      <4>1. toWriter \in Seq(Answers) /\ toWriter # <<>> /\ toWriter' = Tail(toWriter)
        BY <2>2 DEF Receive, SessionTypes
      <4> QED BY <4>1, HeadTailProperties
    <3>2. buffer \in Seq(OnMedium) /\ Mark \in OnMedium
      BY DEF SessionTypes, OnMedium
    <3>3. \/ buffer' = buffer
          \/ m.type = "frame_record" /\ buffer' = Append(buffer, Record(m.seq, m.vol))
          \/ buffer' = Append(buffer, Mark)
      BY <2>2 DEF Receive, ReceiveFrame, ReceiveTapeEof, ReceiveError, Enqueue
    <3> HIDE DEF m
    <3>4. m.type = "frame_record" => Record(m.seq, m.vol) \in OnMedium
      <4> SUFFICES ASSUME m.type = "frame_record" PROVE Record(m.seq, m.vol) \in OnMedium
        OBVIOUS
      <4>1. m.seq \in FrameSeqs /\ m.vol = 1
        BY <3>1 DEF Answers, FrameRecord, TapeEof, Error
      <4> QED BY <4>1 DEF Record, OnMedium, FrameRecords
    <3>5. buffer' \in Seq(OnMedium)
      BY <3>2, <3>3, <3>4, AppendProperties
    <3> QED BY <3>1, <3>5
  <2> QED BY <2>1, <2>2 DEF ReceiverNext
<1>5. SessionTypes'
  BY <1>1, <1>3, <1>4, StandingStays DEF SessionTypes
<1>6. AckInv'
  <2>1. (Settled' <=> Settled) /\ (Owing' <=> Owing)
    BY <1>1, StandingStays
  <2>2. ToldEnough(toServer, mounted) => ToldEnough(toServer, mounted)'
    BY <1>1, <1>3, <2>1 DEF ToldEnough
  <2>3. Matched(toServer, mounted) => Matched(toServer, mounted)'
    BY <1>1, <1>3
  <2> QED BY <1>1, <2>2, <2>3 DEF AckInv
<1> QED BY <1>5, <1>6

\* Something is written behind what the medium has.
LEMMA FramesCounted ==
    ASSUME NEW q \in Seq(Told), NEW s \in Seq(OnMedium), NEW e \in OnMedium, Matched(q, s)
    PROVE  /\ Append(s, e) \in Seq(OnMedium) /\ Append(s, e) # <<>>
           /\ Append(s, e)[Len(Append(s, e))] = e
           /\ Matched(q, Append(s, e))
           /\ IsFrame(e) => /\ e \in FrameRecords
                            /\ Cardinality(FramesOf(Append(s, e))) = Cardinality(FramesOf(s)) + 1
           /\ ~IsFrame(e) => Cardinality(FramesOf(Append(s, e))) = Cardinality(FramesOf(s))
<1>1. /\ Append(s, e) \in Seq(OnMedium) /\ Append(s, e) # <<>>
      /\ Append(s, e)[Len(Append(s, e))] = e
  BY AppendProperties
<1>2. FramesOf(Append(s, e)) = FramesOf(s) \cup (IF IsFrame(e) THEN {Len(s) + 1} ELSE {})
  BY PlacesGrow
<1>3. FramesOf(s) \subseteq 1 .. Len(s) /\ Len(s) \in Nat
  BY PlacesOf
<1>4. IsFrame(e) => Cardinality(FramesOf(Append(s, e))) = Cardinality(FramesOf(s)) + 1
  <2>1. Cardinality(FramesOf(s) \cup {Len(s) + 1}) = Cardinality(FramesOf(s)) + 1
    BY <1>3, RankGrows
  <2> QED BY <1>2, <2>1
<1>5. IsFrame(e) => e \in FrameRecords
  BY DEF OnMedium, Mark, IsFrame
<1> QED BY <1>1, <1>2, <1>4, <1>5, MatchedWhenWritten

\* The output thread stops with what the medium has.
LEMMA StopOutputKeeps ==
    ASSUME SessionTypes, AckInv, NEW result, NEW failed, StopOutput(result, failed),
           UNCHANGED <<recv, toServer, toWriter, serverAlive>>, buffer' \in Seq(OnMedium),
           NEW e \in OnMedium, Settled \/ e = Mark,
           mounted' = mounted \/ mounted' = Append(mounted, e)
    PROVE  SessionTypes' /\ AckInv'
<1>1. out' = "stopped" /\ inHand' = Nothing
  BY DEF StopOutput
<1>2. ~Owing' /\ ~Settled'
  BY <1>1, StandingNext
<1>3. toServer \in Seq(Told) /\ mounted \in Seq(OnMedium) /\ ~IsFrame(Mark)
  BY DEF SessionTypes, Mark, IsFrame
<1>4. /\ Cardinality(FramesOf(mounted)) \in Nat /\ Cardinality(AcksOf(toServer)) \in Nat
  BY <1>3, PlacesOf
<1>5. mounted' \in Seq(OnMedium)
  BY <1>3, AppendProperties
<1>6. SessionTypes'
  BY <1>1, <1>2, <1>5 DEF SessionTypes
<1>7. AckInv'
  <2> SUFFICES ASSUME recv # "off"
               PROVE  Matched(toServer, mounted') /\ (serverAlive => ToldEnough(toServer, mounted)')
    BY DEF AckInv
  <2>1. /\ Matched(toServer, mounted)
        /\ serverAlive => ToldEnough(toServer, mounted)
    BY DEF AckInv
  <2>2. CASE mounted' = mounted
    <3>1. ToldEnough(toServer, mounted) => ToldEnough(toServer, mounted)'
      BY <1>2, <2>2 DEF ToldEnough
    <3> QED BY <2>1, <2>2, <3>1
  <2>3. CASE mounted' = Append(mounted, e)
    <3>1. /\ Matched(toServer, mounted')
          /\ IsFrame(e) => Cardinality(FramesOf(mounted')) = Cardinality(FramesOf(mounted)) + 1
          /\ ~IsFrame(e) => Cardinality(FramesOf(mounted')) = Cardinality(FramesOf(mounted))
      BY <1>3, <2>1, <2>3, FramesCounted
    <3>2. ToldEnough(toServer, mounted) => ToldEnough(toServer, mounted)'
      BY <1>2, <1>3, <1>4, <3>1 DEF ToldEnough
    <3> QED BY <2>1, <3>1, <3>2
  <2> QED BY <2>2, <2>3
<1> QED BY <1>6, <1>7

\* A record, or a mark, is written and the output thread goes on.
LEMMA WriteKeeps ==
    ASSUME SessionTypes, AckInv, Settled, inHand \in OnMedium,
           mounted' = Append(mounted, inHand),
           UNCHANGED <<recv, toServer, toWriter, serverAlive, buffer>>,
           \/ IsFrame(inHand) /\ inHand' = inHand /\ Owing' /\ ~Settled'
           \/ inHand = Mark /\ inHand' = Nothing /\ ~Owing'
    PROVE  SessionTypes' /\ AckInv'
<1>1. toServer \in Seq(Told) /\ mounted \in Seq(OnMedium) /\ ~IsFrame(Mark)
  BY DEF SessionTypes, Mark, IsFrame
<1>2. /\ Cardinality(FramesOf(mounted)) \in Nat /\ Cardinality(AcksOf(toServer)) \in Nat
  BY <1>1, PlacesOf
<1>3. mounted' \in Seq(OnMedium)
  BY <1>1, AppendProperties
<1>4. IsFrame(inHand) => inHand \in FrameRecords
  BY DEF OnMedium, Mark, IsFrame
<1>5. SessionTypes'
  BY <1>3, <1>4 DEF SessionTypes
<1>6. AckInv'
  <2> SUFFICES ASSUME recv # "off"
               PROVE  Matched(toServer, mounted') /\ (serverAlive => ToldEnough(toServer, mounted)')
    BY DEF AckInv
  <2>1. /\ Matched(toServer, mounted)
        /\ serverAlive => ToldEnough(toServer, mounted)
    BY DEF AckInv
  <2>2. /\ Matched(toServer, mounted') /\ mounted' # <<>> /\ mounted'[Len(mounted')] = inHand
        /\ IsFrame(inHand) => Cardinality(FramesOf(mounted')) = Cardinality(FramesOf(mounted)) + 1
        /\ ~IsFrame(inHand) => Cardinality(FramesOf(mounted')) = Cardinality(FramesOf(mounted))
    BY <1>1, <2>1, FramesCounted
  <2>3. ToldEnough(toServer, mounted) =>
            Cardinality(FramesOf(mounted)) = Cardinality(AcksOf(toServer))
    BY DEF ToldEnough
  <2>4. CASE IsFrame(inHand) /\ inHand' = inHand /\ Owing' /\ ~Settled'
    <3>1. ToldEnough(toServer, mounted) => ToldEnough(toServer, mounted)'
      BY <1>2, <2>2, <2>3, <2>4 DEF ToldEnough
    <3> QED BY <2>1, <2>2, <3>1
  <2>5. CASE inHand = Mark /\ ~Owing'
    <3>1. ToldEnough(toServer, mounted) => ToldEnough(toServer, mounted)'
      BY <1>1, <1>2, <2>2, <2>3, <2>5 DEF ToldEnough
    <3> QED BY <2>1, <2>2, <3>1
  <2> QED BY <2>4, <2>5
<1> QED BY <1>5, <1>6

LEMMA SendAckKeeps ==
    ASSUME SessionTypes, AckInv, SendAck, UNCHANGED <<recv, toWriter, serverAlive>>
    PROVE  SessionTypes' /\ AckInv'
<1>1. Owing /\ UNCHANGED <<buffer, mounted>>
  BY Standing DEF SendAck
<1>2. /\ toServer \in Seq(Told) /\ mounted \in Seq(OnMedium) /\ buffer' \in Seq(OnMedium)
      /\ inHand \in FrameRecords /\ Mark \in OnMedium
  BY <1>1 DEF SessionTypes, OnMedium
<1>3. CASE toServer' = toServer /\ StopOutput("failed", TRUE)
  BY <1>1, <1>2, <1>3, StopOutputKeeps
<1>4. CASE toServer' = Sent(toServer, serverAlive, AckFrame(inHand.seq))
  <2>1. /\ out' = "final mark" \/ out' = "take" \/ out' = "stopped" \/ StopOutput("failed", TRUE)
        /\ inHand' \in OnMedium \cup {Nothing}
    BY <1>2, <1>4 DEF SendAck, StopOutput, OnMedium
  <2>2. ~Owing'
    BY <2>1, StandingNext DEF StopOutput
  <2>3. AckFrame(inHand.seq) \in Told
    BY <1>2 DEF Told, FrameRecords
  <2>4. toServer' \in Seq(Told)
    BY <1>2, <1>4, <2>3, AppendProperties DEF Sent
  <2>5. SessionTypes'
    BY <1>1, <1>2, <2>1, <2>2, <2>4 DEF SessionTypes
  <2>6. AckInv'
    <3> SUFFICES ASSUME recv # "off"
                 PROVE  /\ Matched(toServer', mounted)
                        /\ serverAlive => ToldEnough(toServer, mounted)'
      BY <1>1 DEF AckInv
    <3>1. CASE ~serverAlive
      BY <1>4, <3>1 DEF Sent, AckInv
    <3>2. CASE serverAlive
      <4>1. /\ Matched(toServer, mounted) /\ mounted # <<>> /\ mounted[Len(mounted)] = inHand
            /\ Cardinality(FramesOf(mounted)) = Cardinality(AcksOf(toServer)) + 1
        BY <1>1, <3>2 DEF AckInv, ToldEnough
      <4>2. toServer' = Append(toServer, AckFrame(inHand.seq))
        BY <1>4, <3>2 DEF Sent
      <4>3. /\ Matched(toServer', mounted)
            /\ Cardinality(AcksOf(toServer')) = Cardinality(FramesOf(mounted))
        BY <1>2, <4>1, <4>2, MatchedWhenAcked
      <4>4. Cardinality(FramesOf(mounted)) \in Nat
        BY <1>2, PlacesOf
      <4>5. ToldEnough(toServer, mounted)'
        BY <1>1, <2>2, <4>3, <4>4 DEF ToldEnough
      <4> QED BY <4>3, <4>5
    <3> QED BY <3>1, <3>2
  <2> QED BY <2>5, <2>6
<1> QED BY <1>3, <1>4 DEF SendAck

LEMMA OutputKeeps ==
    ASSUME SessionTypes, AckInv, NEW faulty, OutputNext(faulty)
    PROVE  SessionTypes' /\ AckInv'
<1>1. UNCHANGED <<recv, toWriter, serverAlive>> /\ Mark \in OnMedium
  BY DEF OutputNext, OnMedium
<1>2. CASE TakeItem
  <2>1. /\ out' = "write" /\ out = "take" /\ UNCHANGED <<mounted, toServer>>
        /\ buffer # <<>> /\ inHand' = Head(buffer) /\ buffer' = Tail(buffer)
    BY <1>2 DEF TakeItem
  <2>2. Settled /\ Settled' /\ ~Owing /\ ~Owing'
    BY <2>1, Standing, StandingNext
  <2>3. inHand' \in OnMedium /\ buffer' \in Seq(OnMedium)
    BY <2>1, HeadTailProperties DEF SessionTypes
  <2>4. SessionTypes'
    BY <1>1, <2>1, <2>2, <2>3 DEF SessionTypes
  <2>5. ToldEnough(toServer, mounted) => ToldEnough(toServer, mounted)'
    BY <2>1, <2>2 DEF ToldEnough
  <2> QED BY <1>1, <2>1, <2>4, <2>5 DEF AckInv
<1>3. CASE InputEnded
  <2>1. /\ StopOutput("failed", FALSE) /\ UNCHANGED <<mounted, toServer>>
        /\ buffer' \in Seq(OnMedium)
    BY <1>3 DEF InputEnded, SessionTypes
  <2> QED BY <1>1, <2>1, StopOutputKeeps
<1>4. CASE WriteRecord(faulty)
  <2>1. /\ out = "write" /\ IsFrame(inHand) /\ UNCHANGED <<buffer, toServer>>
    BY <1>4 DEF WriteRecord, IsFrame
  <2>2. inHand \in OnMedium /\ buffer' \in Seq(OnMedium) /\ Settled
    BY <2>1, Standing DEF SessionTypes, Nothing, IsFrame
  <2>3. CASE /\ mounted' = Append(mounted, inHand) /\ inHand' = inHand
             /\ out' = "ack" \/ out' = "ack last"
    <3>1. Owing' /\ ~Settled'
      BY <2>3, StandingNext
    <3> QED BY <1>1, <2>1, <2>2, <2>3, <3>1, WriteKeeps
  <2>4. ASSUME NEW result, NEW failed, StopOutput(result, failed),
               mounted' \in Uncertain(Append(mounted, inHand))
        PROVE  SessionTypes' /\ AckInv'
    <3>1. mounted' = mounted \/ mounted' = Append(mounted, inHand)
      BY <2>4 DEF Uncertain
    <3> QED BY <1>1, <2>1, <2>2, <2>4, <3>1, StopOutputKeeps
  <2> QED BY <1>4, <2>3, <2>4 DEF WriteRecord
<1>5. CASE WriteMark(faulty)
  <2>1. /\ out = "write" /\ inHand = Mark /\ UNCHANGED <<buffer, toServer>>
    BY <1>5 DEF WriteMark
  <2>2. inHand \in OnMedium /\ buffer' \in Seq(OnMedium) /\ Settled
    BY <1>1, <2>1, Standing DEF SessionTypes
  <2>3. CASE mounted' = Append(mounted, Mark) /\ inHand' = Nothing /\ out' = "take"
    <3>1. ~Owing'
      BY <2>3, StandingNext
    <3> QED BY <1>1, <2>1, <2>2, <2>3, <3>1, WriteKeeps
  <2>4. ASSUME NEW result, NEW failed, StopOutput(result, failed),
               mounted' \in {mounted} \/ mounted' \in Uncertain(Append(mounted, Mark))
        PROVE  SessionTypes' /\ AckInv'
    <3>1. mounted' = mounted \/ mounted' = Append(mounted, Mark)
      BY <2>4 DEF Uncertain
    <3> QED BY <1>1, <2>1, <2>2, <2>4, <3>1, StopOutputKeeps
  <2>5. \/ mounted' = Append(mounted, Mark) /\ inHand' = Nothing /\ out' = "take"
        \/ StopOutput("volume_full", FALSE) /\ mounted' \in Uncertain(Append(mounted, Mark))
        \/ /\ StopOutput("failed", TRUE)
           /\ mounted' \in {mounted} \/ mounted' \in Uncertain(Append(mounted, Mark))
    BY <1>5 DEF WriteMark
  <2> QED BY <2>3, <2>4, <2>5
<1>6. CASE SendAck
  BY <1>1, <1>6, SendAckKeeps
<1>7. CASE WriteFinalMark(faulty)
  <2>1. /\ UNCHANGED <<buffer, toServer>>
        /\ \E result, failed : StopOutput(result, failed)
        /\ mounted' = mounted \/ mounted' = Append(mounted, Mark)
    BY <1>7 DEF WriteFinalMark, Uncertain
  <2>2. buffer' \in Seq(OnMedium)
    BY <2>1 DEF SessionTypes
  <2> QED BY <1>1, <2>1, <2>2, StopOutputKeeps
<1> QED BY <1>2, <1>3, <1>4, <1>5, <1>6, <1>7 DEF OutputNext

LEMMA ExitKeeps ==
    ASSUME SessionTypes, NEW faulty, WriterExits(faulty)
    PROVE  SessionTypes' /\ AckInv'
<1>1. /\ recv' = "off" /\ out' = "off" /\ buffer' = <<>>
      /\ UNCHANGED <<inHand, mounted, toWriter>>
      /\ toServer' = toServer \/ toServer' \in Truncations(toServer)
  BY DEF WriterExits
<1>2. toServer' \in Seq(Told)
  <2>1. toServer \in Seq(Told)
    BY DEF SessionTypes
  <2>2. \A k \in 0 .. Len(toServer) : SubSeq(toServer, 1, k) \in Seq(Told)
    BY <2>1, SubSeqProperties
  <2> QED BY <1>1, <2>1, <2>2 DEF Truncations
<1>3. ~Owing'
  BY <1>1, StandingNext
<1>4. SessionTypes'
  BY <1>1, <1>2, <1>3 DEF SessionTypes
<1> QED BY <1>1, <1>4 DEF AckInv

\* For every server, whatever it answers and whenever it leaves, for every
\* archive, buffer and number of replies: the k-th acknowledgement the output
\* thread sends names the k-th record it wrote, none is sent for a record the
\* medium refused, and only the last record can be without one.
THEOREM AcknowledgesWhatItWrote == SessionSpec => []AcksFollowTheMedium
<1>1. SessionInit => SessionTypes /\ AckInv
  BY SessionTypesStart
<1>2. SessionTypes /\ AckInv /\ [SessionNext]_sessionVars => SessionTypes' /\ AckInv'
  <2> SUFFICES ASSUME SessionTypes, AckInv, [SessionNext]_sessionVars
               PROVE  SessionTypes' /\ AckInv'
    OBVIOUS
  <2>1. CASE UNCHANGED sessionVars
    <3>1. UNCHANGED <<toServer, toWriter, serverAlive, recv, out, buffer, inHand, mounted>>
      BY <2>1 DEF sessionVars, writerVars, wire
    <3>2. SessionTypes'
      BY <3>1, StandingStays DEF SessionTypes
    <3> QED BY <3>1, <3>2, SameTold
  <2> QED BY <2>1, StartSessionKeeps, ServerSideKeeps, ReceiverKeeps, OutputKeeps, ExitKeeps
          DEF SessionNext
<1>3. AckInv => AcksFollowTheMedium
  BY DEF AckInv, ToldEnough, AcksFollowTheMedium, Matched, AcksOf, AckPlaces
<1> QED BY <1>1, <1>2, <1>3, PTL DEF SessionSpec
=============================================================================
