----------------------------- MODULE MediaLayout -----------------------------
(***************************************************************************)
(* What writer and reader know of a medium: a sequence of records and      *)
(* filemarks.  It is the one thing the two halves of the system share.     *)
(***************************************************************************)
EXTENDS Naturals, Sequences

Mark == [kind |-> "mark"]

IsFrame(r) == r.kind = "frame"
FrameOn(volume, n) == \E i \in DOMAIN volume :
                          IsFrame(volume[i]) /\ volume[i].seq = n

\* The places of the frames on a medium, and the first of them.
FramesOf(volume) == {i \in DOMAIN volume : IsFrame(volume[i])}
IsFirst(volume, i) == i \in FramesOf(volume) /\ \A k \in FramesOf(volume) : i <= k

\* Reading the media in loading order meets no gap: within one medium the
\* numbers are consecutive, and each medium begins at most one frame behind
\* what the media before it hold (the rest of it is a replay).
Consecutive(volume) ==
    \A i, j \in FramesOf(volume) :
        i < j /\ (\A k \in FramesOf(volume) : k <= i \/ j <= k) =>
            volume[j].seq = volume[i].seq + 1

Replayable(media) ==
    \A v \in DOMAIN media :
        /\ Consecutive(media[v])
        /\ \A i \in DOMAIN media[v] :
               IsFirst(media[v], i) /\ media[v][i].seq > 0 =>
                   \E u \in 1 .. v - 1 : FrameOn(media[u], media[v][i].seq - 1)
=============================================================================
