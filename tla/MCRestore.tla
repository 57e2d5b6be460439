------------------------------ MODULE MCRestore ------------------------------
(***************************************************************************)
(* Small instances of the restore: an archive of five frames in two        *)
(* slices, the first with a metadata channel inside the content channel.   *)
(***************************************************************************)
EXTENDS Restore

DataFrame(n, slice, channel, chSeq, end) ==
    [archive |-> "", seq |-> n, slice |-> slice, channel |-> channel,
     chSeq |-> chSeq, end |-> end, body |-> n, check |-> "ok"]

MCStream ==
    << DataFrame(0, 0, "content", 0, FALSE),
       DataFrame(1, 0, "metadata", 0, TRUE),
       DataFrame(2, 0, "content", 1, TRUE),
       DataFrame(3, 1, "content", 0, TRUE),
       DataFrame(4, 0, "archive_end", 0, TRUE) >>

Copy(a, n) == [kind |-> "frame", archive |-> a, seq |-> n, check |-> "ok"]
A(n) == Copy("A", n)
Junk == [kind |-> "junk"]       \* the recovery bundle in front of a tape

\* A medium that ended with acknowledgements lost: the next repeats 1 and 2.
Repeating ==
    << <<Junk, Mark, A(0), A(1), A(2), Mark>>,
       <<A(1), A(2), Mark, A(3), Mark, A(4), Mark>> >>

\* The writer failed twice before anything but the first frame was
\* acknowledged.
Restarted ==
    << <<A(0)>>, <<A(0), A(1)>>, <<A(1), A(2), Mark, A(3), Mark, A(4), Mark>> >>

\* No frame lies on more than one medium.
Disjoint == << <<A(0), A(1)>>, <<A(2), Mark, A(3), Mark, A(4), Mark>> >>

\* A medium of another archive among them.
Foreign == Append(Repeating, <<Copy("B", 0), Copy("B", 1)>>)

MCLayouts == {Repeating, Restarted, Disjoint}
MCLayoutsAndForeign == {Foreign, Repeating, Restarted}
MCDisjoint == {Disjoint}

MCArchives == {"A", "B"}

Plain == [spool |-> FALSE, salvage |-> FALSE, keys |-> FALSE,
          flushMayFail |-> FALSE]
Spool == [Plain EXCEPT !.spool = TRUE, !.keys = TRUE]
Salvaging == [Plain EXCEPT !.salvage = TRUE]

MCPlain == {Plain}
MCFullOutput == {[Plain EXCEPT !.flushMayFail = TRUE]}
MCRobust == {Plain, [Salvaging EXCEPT !.flushMayFail = TRUE]}
MCAll == {Plain, Spool, Salvaging}

AllFrames == 0 .. 4
NoFrame == {}
AnyDamage == {"bad_hash", "bad_size", "torn", "unreadable"}
BadHash == {"bad_hash"}
=============================================================================
