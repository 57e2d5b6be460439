-------------------------------- MODULE Wire --------------------------------
(***************************************************************************)
(* The stream socket between the archiver and the writer of the volume it  *)
(* is serving.  Each direction is a FIFO of messages.  An end that is gone *)
(* is seen by the other as end of file after the messages already sent;    *)
(* writing to it either disappears or fails.                               *)
(***************************************************************************)
EXTENDS Naturals, Sequences

VARIABLES
    toServer,       \* messages the server has not read
    toWriter,       \* messages the writer has not read
    writerAlive,    \* the connection as the server's end sees it
    serverAlive,    \* the connection as the writer's end sees it
    readShut        \* the writer has shut down its receiving side

wire == <<toServer, toWriter, writerAlive, serverAlive, readShut>>

NextFrame    == [type |-> "next_frame"]
AckFrame(n)  == [type |-> "ack_frame", seq |-> n]
OtherRequest == [type |-> "other"]      \* every type the server refuses

FrameRecord(n, v) == [type |-> "frame_record", seq |-> n, vol |-> v]
TapeEof           == [type |-> "tape_eof"]
Error(why)        == [type |-> "error", reason |-> why]

WireInit ==
    /\ toServer = <<>> /\ toWriter = <<>>
    /\ writerAlive = FALSE /\ serverAlive = FALSE /\ readShut = FALSE

\* A new connection: nothing is left over from the last one.
Open ==
    /\ toServer' = <<>> /\ toWriter' = <<>>
    /\ writerAlive' = TRUE /\ serverAlive' = TRUE /\ readShut' = FALSE

\* What a write leaves in the other end's queue.
Sent(queue, peerAlive, m) == IF peerAlive THEN Append(queue, m) ELSE queue

\* A server write raises an exception only at a peer that stopped reading.
ServerWriteMayFail == ~writerAlive \/ readShut
WriterWriteMayFail == ~serverAlive

\* What is left of a queue when a reset discards its last messages.
Truncations(queue) == {SubSeq(queue, 1, k) : k \in 0 .. Len(queue)}
=============================================================================
