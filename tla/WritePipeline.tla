---------------------------- MODULE WritePipeline ----------------------------
(***************************************************************************)
(* The writing pipeline: one archiver and the writers an operator runs     *)
(* against it one after the other, each on the next medium.                *)
(***************************************************************************)
EXTENDS VolumeServer, VolumeWriter

CONSTANT MaxSessions    \* writers before the one that meets no fault

ASSUME SessionAssumption == MaxSessions \in Nat \ {0}

VARIABLE session        \* writers started, counted up to MaxSessions

vars == <<producerVars, queueVars, serverVars, wire, writerVars, session>>

archiverVars == <<producerVars, queueVars, serverVars>>

\* Media end and processes and connections fail in the earlier sessions
\* only, so that a run of faults is finite.
Faulty == session < MaxSessions

Init == ServerInit /\ WireInit /\ WriterInit /\ session = 0

\* A writer connects and is accepted.  One that waits in the listen backlog
\* does nothing until then, so that the two are one step.
Connect ==
    /\ srv = "accept"
    /\ StartWriter /\ Accept /\ Open
    /\ session' = IF Faulty THEN session + 1 ELSE session
    /\ UNCHANGED <<producerVars, queueVars>>

Produce == ProducerNext /\ UNCHANGED <<writerVars, session>>

Serve == ServerNext /\ UNCHANGED <<writerVars, session>>

Receiver == ReceiverNext /\ UNCHANGED <<archiverVars, session>>

Output == OutputNext(Faulty) /\ UNCHANGED <<archiverVars, session>>

Exit == WriterExits(Faulty) /\ UNCHANGED <<archiverVars, session>>

Kill == Faulty /\ WriterKilled /\ UNCHANGED <<archiverVars, session>>

\* The connection is reset under both ends; what was in flight may be lost.
LinkReset ==
    /\ Faulty /\ writerAlive /\ serverAlive
    /\ writerAlive' = FALSE /\ serverAlive' = FALSE
    /\ toServer' \in Truncations(toServer)
    /\ toWriter' = <<>>
    /\ UNCHANGED <<archiverVars, writerVars, readShut, session>>

\* The archiver has exited and the last writer too.
Finished == srv = "complete" /\ recv = "off" /\ UNCHANGED vars

Next ==
    \/ Connect \/ Produce \/ Serve \/ Receiver \/ Output \/ Exit
    \/ Kill \/ LinkReset \/ Finished

Spec == Init /\ [][Next]_vars

\* Every thread keeps running and the operator keeps supplying writers.
Fairness ==
    /\ WF_vars(Connect) /\ WF_vars(Produce) /\ WF_vars(Serve)
    /\ WF_vars(Receiver) /\ WF_vars(Output) /\ WF_vars(Exit)

FairSpec == Spec /\ Fairness

-----------------------------------------------------------------------------

\* The type invariant of the whole pipeline.
TypeOK == ServerTypeOK /\ WriterTypeOK /\ session \in 0 .. MaxSessions

OnMedia(n) == \E v \in DOMAIN Media : FrameOn(Media[v], n)

\* A frame the archiver counts as acknowledged, and so will never send
\* again, is on a medium a reader can read.
AckedOnMedia == \A n \in 0 .. acked - 1 : OnMedia(n)

\* The write path keeps the promise of DurableArchive: a frame is counted
\* only when a medium holds it, media lose nothing they held, and the
\* archive is over only when its last frame is counted.
Durable == INSTANCE DurableArchive WITH held <- {n \in FrameSeqs : OnMedia(n)},
                                        taken <- acked,
                                        over <- srv = "complete"
StoresArchive == Durable!Spec

\* The server and the writer never talk past each other: no acknowledgement
\* arrives out of order, no request inside a full window or behind
\* archive_end, and no frame is asked for that is no longer retained.
NoProtocolError ==
    \A i \in DOMAIN toWriter :
        toWriter[i].type = "error" => toWriter[i].reason = "producer"

\* The media can be read back in loading order, whatever went wrong.
MediaReplayable == Replayable(Media)

\* A volume number is used again only for a medium that starts at the same
\* frame and so replaces the one nothing was acknowledged from.
SameNumberSameStart ==
    \A u, v \in DOMAIN Media : \A i \in DOMAIN Media[u], j \in DOMAIN Media[v] :
        /\ IsFirst(Media[u], i) /\ IsFirst(Media[v], j)
        /\ Media[u][i].vol = Media[v][j].vol
        => Media[u][i].seq = Media[v][j].seq

\* What a writer's exit tells the operator: complete means that archive_end
\* and its filemark end this medium and the whole archive is on the media,
\* volume_full that the archiver is waiting for the next one.
ExitIsTruthful ==
    /\ exit = "complete" =>
         /\ mounted[Len(mounted)] = Mark
         /\ mounted[Len(mounted) - 1].seq = EndSeq
         /\ \A n \in FrameSeqs : OnMedia(n)
    /\ exit = "volume_full" => srv # "complete"

\* However often media end and writers or connections fail, the archive is
\* completed once writers run without faults, unless the producer failed.
ArchiveCompletes == <>(srv = "complete" \/ producer = "failed")

\* The done item has left the queue and no archive_end frame was built.
DoneLost ==
    /\ producer = "finished" /\ frameQueue = <<>>
    /\ ~EndBuilt /\ srv # "drain"

\* Only the loss of the done item keeps an archive from being completed.
CompletesUnlessDoneLost == <>(srv = "complete" \/ DoneLost)

\* A producer that fails leaves an archive without an end: no writer is
\* given an archive_end frame that would make it look complete.
NoEndAfterFailure == producer = "failed" => ~OnMedia(EndSeq)

\* A writer connected to an archiver whose producer failed leaves, and never
\* with success.
FailureReachesWriters ==
    (producer = "failed" /\ recv # "off")
        ~> (recv = "off" /\ exit \notin {"none", "complete"})
=============================================================================
