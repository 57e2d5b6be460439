--------------------------- MODULE FrameValidator ---------------------------
(***************************************************************************)
(* FrameValidator as operators on its state v, a record, and on the frame  *)
(* f it is fed.  Block size and label are part of the archive's identity;  *)
(* the content of a record is its body, and check is what check_frame      *)
(* found.  A frame is accepted, taken for a replay, or refused; writer and *)
(* extractor never use the validator again once it has refused a frame,    *)
(* and salvage refuses before it changes anything, so a refusal has no     *)
(* next state.                                                             *)
(***************************************************************************)
EXTENDS Naturals, Sequences

CONSTANT HistoryLimit       \* retry_history_records

ASSUME HistoryAssumption == HistoryLimit \in Nat \ {0}

SliceChannels == {"content", "metadata"}
Checks == {"ok", "bad_hash", "bad_size"}
NoArchive == ""
NoReplay == 0               \* replay_next_ is a number behind an accepted one

\* FrameValidator::reset and the initial values of its members.
Unused ==
    [archive |-> NoArchive, expected |-> 0, slice |-> 0,
     anyFrame |-> FALSE, endSeen |-> FALSE, seeded |-> FALSE,
     nextSeq |-> [c \in SliceChannels |-> 0],
     seen |-> [c \in SliceChannels |-> FALSE],
     ended |-> [c \in SliceChannels |-> FALSE],
     unknown |-> [c \in SliceChannels |-> FALSE],
     history |-> <<>>, replayNext |-> NoReplay]

\* seed_for_stream_start with the first frame of a volume.
SeededBy(f) ==
    [Unused EXCEPT !.expected = f.seq, !.slice = f.slice, !.seeded = TRUE,
                   !.unknown = [c \in SliceChannels |-> TRUE]]

Intact(f) == f.check = "ok"

\* Mutant: a replay that broke off goes on in the next connection.
BeginConnectionKeepingReplay(v) == v

BeginConnection(v) == [v EXCEPT !.replayNext = NoReplay]

-----------------------------------------------------------------------------
(* Replays: physical repetitions of frames accepted before. *)

\* What frame_hash_with_volume_seq compares: everything but the volume.
Content(f) == [f EXCEPT !.check = "ok"]

\* Mutant: the content of a repeated frame is not compared.
RemembersNumber(v, f) == \E i \in DOMAIN v.history : v.history[i].seq = f.seq

Remembers(v, f) == \E i \in DOMAIN v.history : v.history[i] = Content(f)

Remember(v, f) ==
    LET all == Append(v.history, f)
    IN  IF ~Intact(f) THEN v.history
        ELSE IF Len(all) > HistoryLimit THEN Tail(all) ELSE all

IsOld(v, f) == f.seq < v.expected

\* A replay is known, and continues the one that has begun.
IsReplay(v, f) ==
    /\ IsOld(v, f) /\ Intact(f) /\ Remembers(v, f)
    /\ v.replayNext \in {NoReplay, f.seq}

\* Mutant: a new frame breaks a replay off.
MayBeNewInReplay(v, f) == ~IsOld(v, f)

\* Inside a replay no new frame may come.
MayBeNew(v, f) == ~IsOld(v, f) /\ v.replayNext = NoReplay

Replayed(v, f) ==
    [v EXCEPT !.replayNext = IF f.seq + 1 = v.expected THEN NoReplay ELSE f.seq + 1]

-----------------------------------------------------------------------------
(* New frames. *)

AllSeenEnded(v) == \A c \in SliceChannels : v.seen[c] => v.ended[c]

\* Mutant: a slice may begin while a channel of the last one is open.
SliceFollowsUnended(v, f) ==
    IF ~v.anyFrame THEN v.seeded \/ f.slice = 0
    ELSE f.slice \in {v.slice, v.slice + 1}

SliceFollows(v, f) ==
    IF ~v.anyFrame THEN v.seeded \/ f.slice = 0
    ELSE f.slice = v.slice \/ (f.slice = v.slice + 1 /\ AllSeenEnded(v))

\* The state in the frame's slice: a later slice starts its channels anew.
InSliceOf(v, f) ==
    IF ~v.anyFrame \/ f.slice = v.slice
    THEN [v EXCEPT !.slice = f.slice, !.anyFrame = TRUE]
    ELSE [v EXCEPT !.slice = f.slice,
                   !.nextSeq = [c \in SliceChannels |-> 0],
                   !.seen = [c \in SliceChannels |-> FALSE],
                   !.ended = [c \in SliceChannels |-> FALSE],
                   !.unknown = [c \in SliceChannels |-> FALSE]]

ChannelFollows(v, f) ==
    /\ ~v.ended[f.channel]
    /\ v.unknown[f.channel] \/ f.chSeq = v.nextSeq[f.channel]

EndFollows(v) == v.anyFrame => AllSeenEnded(v)

\* validate accepts f as the next frame of the archive.
IsNext(v, f, allowBadHash) ==
    /\ MayBeNew(v, f)
    /\ ~v.endSeen
    /\ Intact(f) \/ (f.check = "bad_hash" /\ allowBadHash)
    /\ v.archive \in {NoArchive, f.archive}
    /\ f.seq = v.expected
    /\ IF f.channel = "archive_end" THEN EndFollows(v)
       ELSE SliceFollows(v, f) /\ ChannelFollows(InSliceOf(v, f), f)

Accepted(v, f) ==
    LET w == [v EXCEPT !.archive = f.archive, !.expected = f.seq + 1,
                       !.history = Remember(v, f)]
        s == InSliceOf(w, f)
    IN  IF f.channel = "archive_end" THEN [w EXCEPT !.endSeen = TRUE]
        ELSE [s EXCEPT !.nextSeq[f.channel] = f.chSeq + 1,
                       !.seen[f.channel] = TRUE,
                       !.ended[f.channel] = f.end,
                       !.unknown[f.channel] = FALSE]

\* validate_restore_frame: a metadata frame may have a wrong hash.
IsNextRestored(v, f) == IsNext(v, f, f.channel = "metadata")

-----------------------------------------------------------------------------
(* validate_salvage_frame. *)

\* Another archive starts without a past.
InArchiveOf(v, f) ==
    IF v.archive = f.archive THEN v
    ELSE [v EXCEPT !.archive = f.archive, !.expected = 0,
                   !.history = <<>>, !.replayNext = NoReplay]

IsSalvageReplay(v, f) == Intact(f) /\ IsReplay(InArchiveOf(v, f), f)

\* Mutant: salvage still wants the next number.
IsSalvagedInSequence(v, f) ==
    Intact(f) /\ MayBeNew(InArchiveOf(v, f), f) /\ f.seq = v.expected

IsSalvaged(v, f) == Intact(f) /\ MayBeNew(InArchiveOf(v, f), f)

Salvaged(v, f) ==
    [InArchiveOf(v, f) EXCEPT !.expected = f.seq + 1,
                              !.history = Remember(InArchiveOf(v, f), f)]
=============================================================================
