--------------------------- MODULE ValidatedStream ---------------------------
(***************************************************************************)
(* FrameValidator fed with every frame that can be encoded, as it may find *)
(* them on unknown media: what it accepts, set against a definition of a   *)
(* well-formed stream that keeps no state.                                 *)
(***************************************************************************)
EXTENDS FrameValidator

CONSTANTS
    Archives,       \* identities an archive may have
    MaxFrames,      \* frames accepted before the feeding stops
    MaxSlice,
    Bodies

ASSUME FeedAssumption ==
    /\ NoArchive \notin Archives
    /\ MaxFrames \in Nat /\ MaxSlice \in Nat

VARIABLES
    start,          \* the validator begins with an archive or with a volume
    v,              \* the FrameValidator
    stream,         \* the frames it accepted
    state           \* "open", or "refused" once it has refused a frame

vars == <<start, v, stream, state>>

Empty == "empty"            \* the body of every archive_end

\* What parse_fixed_header lets pass.
Headers ==
    LET Numbers == 0 .. MaxFrames - 1
    IN  [archive : Archives, seq : Numbers, slice : 0 .. MaxSlice,
         channel : SliceChannels, chSeq : Numbers, end : BOOLEAN,
         body : Bodies, check : Checks]
        \cup [archive : Archives, seq : Numbers, slice : {0},
              channel : {"archive_end"}, chSeq : {0}, end : {TRUE},
              body : {Empty}, check : Checks]

Init ==
    /\ start \in {"archive", "volume"}
    /\ v = Unused /\ stream = <<>> /\ state = "open"

\* The writer seeds its validator with the first frame of a connection.
Prepared(f) ==
    IF start = "volume" /\ stream = <<>> THEN SeededBy(f) ELSE v

Accept(f) ==
    /\ Len(stream) < MaxFrames
    /\ IsNextRestored(Prepared(f), f)
    /\ v' = Accepted(Prepared(f), f)
    /\ stream' = Append(stream, f)
    /\ UNCHANGED state

Repeat(f) ==
    /\ IsReplay(Prepared(f), f)
    /\ v' = Replayed(v, f)
    /\ UNCHANGED <<stream, state>>

Refuse(f) ==
    /\ ~IsNextRestored(Prepared(f), f) /\ ~IsReplay(Prepared(f), f)
    /\ state' = "refused"
    /\ UNCHANGED <<v, stream>>

Feed ==
    /\ state = "open"
    /\ \E f \in Headers : Accept(f) \/ Repeat(f) \/ Refuse(f)
    /\ UNCHANGED start

Reconnect ==
    /\ state = "open"
    /\ v' = BeginConnection(v)
    /\ UNCHANGED <<start, stream, state>>

Next == Feed \/ Reconnect

Spec == Init /\ [][Next]_vars

-----------------------------------------------------------------------------
(* A well-formed stream s, by its frames alone. *)

SameChannel(s, i, j) ==
    s[i].slice = s[j].slice /\ s[i].channel = s[j].channel

DataFrames(s) == {i \in DOMAIN s : s[i].channel \in SliceChannels}

\* A channel of a slice counts from 0; in the first slice behind a volume's
\* beginning from wherever it stood.
ChannelsCount(s, from) ==
    \A j \in DataFrames(s) :
        LET before == {i \in DataFrames(s) : i < j /\ SameChannel(s, i, j)}
        IN  IF before # {}
            THEN \E i \in before : s[j].chSeq = s[i].chSeq + 1
                                   /\ \A k \in before : k <= i
            ELSE s[j].chSeq = 0 \/ (from = "volume" /\ s[j].slice = s[1].slice)

\* END is the last frame of its channel, and no other slice and no end of
\* the archive comes before it.
ChannelsEnd(s) ==
    \A i \in DataFrames(s) : \A j \in i + 1 .. Len(s) :
        /\ s[i].end => ~SameChannel(s, i, j)
        /\ s[j].channel = "archive_end" \/ s[j].slice # s[i].slice =>
               \E k \in i .. j - 1 : SameChannel(s, i, k) /\ s[k].end

WellFormed(s, from) ==
    /\ \A i \in DOMAIN s :
          /\ s[i].archive = s[1].archive
          /\ s[i].seq = (IF from = "volume" THEN s[1].seq ELSE 0) + i - 1
          /\ s[i].channel = "archive_end" => i = Len(s)
    /\ \A i, j \in DataFrames(s) :
          j = i + 1 => s[j].slice \in {s[i].slice, s[i].slice + 1}
    /\ from = "archive" /\ 1 \in DataFrames(s) => s[1].slice = 0
    /\ ChannelsCount(s, from) /\ ChannelsEnd(s)

\* What check_frame may have found of an accepted frame.
Credible(f) == Intact(f) \/ (f.check = "bad_hash" /\ f.channel = "metadata")

-----------------------------------------------------------------------------

\* The few fields validate looks at decide exactly the question a look at
\* the whole stream would: outside a replay, it accepts the frames that
\* continue the stream well and no others.
AcceptsExactlyTheWellFormed ==
    state = "open" /\ v.replayNext = NoReplay =>
        \A f \in Headers :
            ~IsOld(Prepared(f), f) =>
                (IsNextRestored(Prepared(f), f) <=>
                    Credible(f) /\ WellFormed(Append(stream, f), start))

\* A frame taken for a replay, whose output is suppressed, is one accepted
\* before, the same in everything a record holds.
ReplaysAreRepetitions ==
    \A f \in Headers :
        IsReplay(v, f) => \E i \in DOMAIN stream : stream[i] = f

\* A replay that has begun runs on to the last accepted frame: after it the
\* next frame can only be the one the stream lacks.
ReplayEndsAtTheEnd ==
    v.replayNext # NoReplay =>
        /\ v.replayNext \in 1 .. v.expected - 1
        /\ \A f \in Headers : ~IsNextRestored(v, f)
        /\ \A f \in Headers : IsReplay(v, f) => f.seq = v.replayNext
=============================================================================
