--------------------------- MODULE ServerAnyClient ---------------------------
(***************************************************************************)
(* The volume server against clients that are not this repository's        *)
(* writer: they ask whenever they like, acknowledge frames they were sent  *)
(* in any order and more than once, send messages that are no requests,    *)
(* stop reading and disconnect.  The only thing asked of them is that they *)
(* acknowledge no frame the connection did not send them.                  *)
(***************************************************************************)
EXTENDS VolumeServer

CONSTANT MaxInFlight    \* messages a client sends ahead, or leaves unread

ASSUME InFlightAssumption == MaxInFlight \in Nat \ {0}

vars == <<producerVars, queueVars, serverVars, wire>>

Init == ServerInit /\ WireInit

ClientConnects ==
    /\ srv = "accept"
    /\ Accept /\ Open
    /\ UNCHANGED <<producerVars, queueVars>>

ClientSends ==
    /\ writerAlive /\ Len(toServer) < MaxInFlight
    /\ Len(toWriter) < MaxInFlight
    /\ \E m \in {NextFrame, OtherRequest}
                    \cup {AckFrame(n) : n \in {k \in FrameSeqs : k < nextSend}} :
           toServer' = Append(toServer, m)
    /\ UNCHANGED <<producerVars, queueVars, serverVars, toWriter, writerAlive,
                   serverAlive, readShut>>

ClientReads ==
    /\ toWriter # <<>>
    /\ toWriter' = Tail(toWriter)
    /\ UNCHANGED <<producerVars, queueVars, serverVars, toServer, writerAlive,
                   serverAlive, readShut>>

ClientLeaves ==
    /\ writerAlive /\ srv # "accept"
    /\ \/ writerAlive' = FALSE /\ toServer' \in Truncations(toServer)
          /\ UNCHANGED readShut
       \/ readShut' = TRUE /\ UNCHANGED <<toServer, writerAlive>>
    /\ UNCHANGED <<producerVars, queueVars, serverVars, toWriter, serverAlive>>

Next ==
    \/ ProducerNext \/ ServerNext
    \/ ClientConnects \/ ClientSends \/ ClientReads \/ ClientLeaves

Spec == Init /\ [][Next]_vars

-----------------------------------------------------------------------------

\* The archive_end frame is built only when every data frame has been
\* acknowledged: a medium that holds it ends a complete archive.
EndBehindAllAcks == EndBuilt => acked >= EndSeq

\* The acknowledged frames grow one at a time, only while a client is being
\* served, and a connection that added none leaves the volume number as it
\* was, so that the next writer labels its medium like the abandoned one.
CommitCountsVolumes ==
    [][/\ acked' \in {acked, acked + 1}
       /\ volumeNum' \in {volumeNum, volumeNum + 1}
       /\ volumeNum' # volumeNum => committed]_vars
=============================================================================
