--------------------------- MODULE WriterAnyServer ---------------------------
(***************************************************************************)
(* One writer against a server that answers its requests with any frame,   *)
(* a tape_eof or an error, in any order, and may disconnect.  The server   *)
(* keeps what it received, so that toServer is the history of the writer's *)
(* requests and acknowledgements.                                          *)
(***************************************************************************)
EXTENDS VolumeWriter

CONSTANT MaxReplies     \* replies the server gives

ASSUME RepliesAssumption == MaxReplies \in Nat

VARIABLE replies

sessionVars == <<wire, writerVars, replies>>

SessionInit == WireInit /\ WriterInit /\ replies = 0

SessionStart ==
    /\ exit = "none" /\ StartWriter /\ Open
    /\ UNCHANGED replies

Requested == Cardinality({i \in DOMAIN toServer : toServer[i].type = "next_frame"})

ServerReplies ==
    /\ serverAlive /\ replies < Requested /\ replies < MaxReplies
    /\ \E m \in {FrameRecord(n, 1) : n \in FrameSeqs}
                    \cup {TapeEof, Error("producer")} :
           toWriter' = Append(toWriter, m)
    /\ replies' = replies + 1
    /\ UNCHANGED <<toServer, writerAlive, serverAlive, readShut, writerVars>>

ServerLeaves ==
    /\ serverAlive /\ recv # "off"
    /\ serverAlive' = FALSE
    /\ UNCHANGED <<toServer, toWriter, writerAlive, readShut, writerVars, replies>>

SessionNext ==
    \/ SessionStart \/ ServerReplies \/ ServerLeaves
    \/ ReceiverNext /\ UNCHANGED replies
    \/ OutputNext(TRUE) /\ UNCHANGED replies
    \/ WriterExits(TRUE) /\ UNCHANGED replies

SessionSpec == SessionInit /\ [][SessionNext]_sessionVars

SessionFairness ==
    /\ WF_sessionVars(ReceiverNext /\ UNCHANGED replies)
    /\ WF_sessionVars(OutputNext(TRUE) /\ UNCHANGED replies)
    /\ WF_sessionVars(WriterExits(TRUE) /\ UNCHANGED replies)

FairSessionSpec == SessionSpec /\ SessionFairness

-----------------------------------------------------------------------------

AckPlaces == {i \in DOMAIN toServer : toServer[i].type = "ack_frame"}

\* The how many-th of these places i is.
Rank(places, i) == Cardinality({j \in places : j <= i})

\* The acknowledgements name the records on the medium, in the order they
\* were written, each once: the k-th names the k-th record.  While the server
\* listens, at most the last record is not acknowledged.
AcksFollowTheMedium ==
    recv # "off" =>
        /\ \A a \in AckPlaces : \E f \in FramesOf(mounted) :
               /\ Rank(FramesOf(mounted), f) = Rank(AckPlaces, a)
               /\ mounted[f].seq = toServer[a].seq
        /\ serverAlive =>
               Cardinality(FramesOf(mounted)) <= Cardinality(AckPlaces) + 1

\* When either the server disconnects or the medium ends, the writer exits.
WriterLeaves ==
    (recv # "off" /\ (~serverAlive \/ out = "stopped")) ~> (recv = "off")
=============================================================================
