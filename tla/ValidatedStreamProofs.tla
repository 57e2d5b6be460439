------------------------ MODULE ValidatedStreamProofs ------------------------
(***************************************************************************)
(* The validator on streams of every length, of any number of archives,    *)
(* slices and bodies: the fields it keeps say of the stream it accepted    *)
(* exactly what the next frame must be measured against.                   *)
(***************************************************************************)
EXTENDS ValidatedStream, SequenceTheorems, TLAPS

ValidatorStates ==
    [archive : Archives \cup {NoArchive}, expected : Nat, slice : Nat,
     anyFrame : BOOLEAN, endSeen : BOOLEAN, seeded : BOOLEAN,
     nextSeq : [SliceChannels -> Nat],
     seen : [SliceChannels -> BOOLEAN],
     ended : [SliceChannels -> BOOLEAN],
     unknown : [SliceChannels -> BOOLEAN],
     history : Seq(Headers), replayNext : Nat]

TypeOK ==
    /\ start \in {"archive", "volume"}
    /\ v \in ValidatorStates
    /\ stream \in Seq(Headers)
    /\ state \in {"open", "refused"}

\* The frames of channel c in slice n.
Earlier(s, n, c) ==
    {i \in DataFrames(s) : s[i].slice = n /\ s[i].channel = c}

\* Index i is the last of them.
IsLastOf(s, n, c, i) ==
    i \in Earlier(s, n, c) /\ \A k \in Earlier(s, n, c) : k <= i

\* What validator w knows of channel c of its slice.
ChannelKnown(w, s, from, c) ==
    IF w.seen[c]
    THEN /\ ~w.unknown[c]
         /\ \E i \in DOMAIN s : /\ IsLastOf(s, w.slice, c, i)
                                /\ w.nextSeq[c] = s[i].chSeq + 1
                                /\ w.ended[c] = s[i].end
    ELSE /\ Earlier(s, w.slice, c) = {}
         /\ w.nextSeq[c] = 0 /\ ~w.ended[c]
         /\ w.unknown[c] = (from = "volume" /\ w.slice = s[1].slice)

\* What it knows of the stream s as long as the archive has not ended.
SliceKnown(w, s, from) ==
    /\ w.anyFrame /\ w.slice = s[Len(s)].slice
    /\ \A i \in DOMAIN s : s[i].slice <= w.slice
    /\ \A c \in SliceChannels : ChannelKnown(w, s, from, c)

Known(w, s, from) ==
    /\ w.archive = s[1].archive
    /\ w.expected = s[Len(s)].seq + 1
    /\ w.endSeen = (s[Len(s)].channel = "archive_end")
    /\ ~w.endSeen => SliceKnown(w, s, from)

HistoryKnown(w, s) ==
    \A i \in DOMAIN w.history :
        Intact(w.history[i]) /\ \E k \in DOMAIN s : w.history[i] = s[k]

ReplayKnown(w) == w.replayNext # NoReplay => w.replayNext \in 1 .. w.expected - 1

FeedInv ==
    /\ TypeOK
    /\ WellFormed(stream, start)
    /\ IF stream = <<>> THEN v = Unused ELSE Known(v, stream, start)
    /\ HistoryKnown(v, stream)
    /\ ReplayKnown(v)

-----------------------------------------------------------------------------
(* One more frame f behind the stream s: what it takes for the longer      *)
(* stream to be well formed.                                               *)

CountsOn(s, f, from) ==
    LET before == Earlier(s, f.slice, f.channel)
    IN  IF before # {}
        THEN \E i \in before : f.chSeq = s[i].chSeq + 1 /\ \A k \in before : k <= i
        ELSE \/ f.chSeq = 0
             \/ from = "volume" /\ f.slice = (IF s = <<>> THEN f ELSE s[1]).slice

EndedBefore(s, f) ==
    \A i \in DataFrames(s) :
        /\ s[i].end => ~ (s[i].slice = f.slice /\ s[i].channel = f.channel)
        /\ f.channel = "archive_end" \/ f.slice # s[i].slice =>
               \E k \in i .. Len(s) : SameChannel(s, i, k) /\ s[k].end

NumberedOn(s, f, from) ==
    IF s = <<>> THEN from = "archive" => f.seq = 0
    ELSE /\ f.archive = s[1].archive
         /\ f.seq = (IF from = "volume" THEN s[1].seq ELSE 0) + Len(s)
         /\ s[Len(s)].channel # "archive_end"

SliceFollowsOn(s, f, from) ==
    IF s = <<>> THEN from = "archive" => f.slice = 0
    ELSE s[Len(s)].channel \in SliceChannels
             => f.slice \in {s[Len(s)].slice, s[Len(s)].slice + 1}

Continues(s, f, from) ==
    /\ NumberedOn(s, f, from)
    /\ EndedBefore(s, f)
    /\ f.channel \in SliceChannels =>
           SliceFollowsOn(s, f, from) /\ CountsOn(s, f, from)

LEMMA HeaderTypes ==
    ASSUME NEW f \in Headers
    PROVE  /\ f.archive \in Archives /\ f.archive # NoArchive
           /\ f.seq \in Nat /\ f.slice \in Nat /\ f.chSeq \in Nat
           /\ f.channel \in SliceChannels \cup {"archive_end"}
           /\ f.channel = "archive_end" => f.end
           /\ f.end \in BOOLEAN /\ f.check \in Checks
           /\ Intact(f) => Content(f) = f
<1>1. /\ f.archive \in Archives /\ f.check \in Checks
      /\ f.seq \in 0 .. MaxFrames - 1 /\ f.slice \in 0 .. MaxSlice \cup {0}
      /\ f.chSeq \in 0 .. MaxFrames - 1 \cup {0}
    BY DEF Headers
<1>2. f.seq \in Nat /\ f.slice \in Nat /\ f.chSeq \in Nat
    BY <1>1
<1>3. f.channel \in SliceChannels \cup {"archive_end"} /\ f.end \in BOOLEAN
    BY DEF Headers
<1>4. f.channel = "archive_end" => f.end
    BY DEF Headers, SliceChannels
<1>5. Intact(f) => Content(f) = f
    BY DEF Headers, Intact, Content
<1> QED BY <1>1, <1>2, <1>3, <1>4, <1>5, FeedAssumption

LEMMA AppendFacts ==
    ASSUME NEW s \in Seq(Headers), NEW f \in Headers, NEW t, t = Append(s, f)
    PROVE  /\ t \in Seq(Headers) /\ Len(s) \in Nat /\ Len(t) = Len(s) + 1
           /\ DOMAIN s = 1 .. Len(s) /\ DOMAIN t = 1 .. Len(s) + 1
           /\ \A i \in 1 .. Len(s) : t[i] = s[i] /\ s[i] \in Headers
           /\ t[Len(s) + 1] = f
           /\ s = <<>> <=> Len(s) = 0
    OBVIOUS

LEMMA AppendData ==
    ASSUME NEW s \in Seq(Headers), NEW f \in Headers, NEW t, t = Append(s, f)
    PROVE  /\ \A i : i \in DataFrames(s)
                        <=> i \in 1 .. Len(s) /\ s[i].channel \in SliceChannels
           /\ \A i : i \in DataFrames(t)
                        <=> \/ i \in DataFrames(s)
                            \/ i = Len(s) + 1 /\ f.channel \in SliceChannels
    BY AppendFacts DEF DataFrames

LEMMA CountExtends ==
    ASSUME NEW s \in Seq(Headers), NEW f \in Headers, NEW t, t = Append(s, f),
           NEW from, ChannelsCount(s, from)
    PROVE  ChannelsCount(t, from)
               <=> (f.channel \in SliceChannels => CountsOn(s, f, from))
<1> DEFINE Before(u, j) == {i \in DataFrames(u) : i < j /\ SameChannel(u, i, j)}
           Counts(u, j) ==
               IF Before(u, j) # {}
               THEN \E i \in Before(u, j) : u[j].chSeq = u[i].chSeq + 1
                                            /\ \A k \in Before(u, j) : k <= i
               ELSE u[j].chSeq = 0 \/ (from = "volume" /\ u[j].slice = u[1].slice)
           n == Len(s)
<1>1. \A u : ChannelsCount(u, from) <=> \A j \in DataFrames(u) : Counts(u, j)
    BY DEF ChannelsCount
<1>2. /\ n \in Nat /\ t[n + 1] = f /\ (s = <<>> <=> n = 0)
      /\ \A i \in 1 .. n : t[i] = s[i]
      /\ \A i : i \in DataFrames(s) <=> i \in 1 .. n /\ s[i].channel \in SliceChannels
      /\ \A i : i \in DataFrames(t)
             <=> i \in DataFrames(s) \/ (i = n + 1 /\ f.channel \in SliceChannels)
      /\ t[1] = IF s = <<>> THEN f ELSE s[1]
  <2>1. n \in Nat /\ t[n + 1] = f /\ (s = <<>> <=> n = 0) /\ \A i \in 1 .. n : t[i] = s[i]
    BY AppendFacts
  <2>2. t[1] = IF s = <<>> THEN f ELSE s[1]
    BY <2>1
  <2>3. /\ \A i : i \in DataFrames(s) <=> i \in 1 .. n /\ s[i].channel \in SliceChannels
        /\ \A i : i \in DataFrames(t)
               <=> i \in DataFrames(s) \/ (i = n + 1 /\ f.channel \in SliceChannels)
    BY AppendData
  <2> QED BY <2>1, <2>2, <2>3
<1> HIDE DEF n
<1>3. ASSUME NEW j \in DataFrames(s) PROVE Counts(t, j)
  <2>1. j \in 1 .. n
    BY <1>2
  <2>2. 1 \in 1 .. n
    BY <1>2, <2>1
  <2>3. t[j] = s[j] /\ t[1] = s[1]
    BY <1>2, <2>1, <2>2
  <2>4. \A i : i \in Before(t, j) <=> i \in Before(s, j)
    <3>1. ASSUME NEW i \in 1 .. n
          PROVE SameChannel(t, i, j) <=> SameChannel(s, i, j)
      BY <1>2, <2>1 DEF SameChannel
    <3> QED BY <1>2, <2>1, <3>1
  <2>5. \A i \in Before(s, j) : t[i] = s[i]
    BY <1>2
  <2>6. Counts(s, j)
    BY <1>1
  <2> HIDE DEF Before
  <2>7. Before(t, j) = Before(s, j)
    BY <2>4
  <2> QED BY <2>1, <2>3, <2>5, <2>6, <2>7
<1>4. ASSUME f.channel \in SliceChannels
      PROVE  Counts(t, n + 1) <=> CountsOn(s, f, from)
  <2>1. Before(t, n + 1) = Earlier(s, f.slice, f.channel)
    <3>1. \A i \in 1 .. n : SameChannel(t, i, n + 1)
                                <=> s[i].slice = f.slice /\ s[i].channel = f.channel
      BY <1>2 DEF SameChannel
    <3>2. \A i \in DataFrames(t) : i < n + 1 <=> i \in DataFrames(s)
      BY <1>2
    <3>3. \A i \in DataFrames(s) : i \in 1 .. n /\ i \in DataFrames(t)
      BY <1>2
    <3> QED BY <3>1, <3>2, <3>3 DEF Earlier
  <2>2. \A i \in Earlier(s, f.slice, f.channel) : t[i] = s[i]
    BY <1>2 DEF Earlier
  <2> HIDE DEF Before
  <2> QED BY <1>2, <2>1, <2>2 DEF CountsOn
<1> HIDE DEF Counts
<1> QED BY <1>1, <1>2, <1>3, <1>4

LEMMA EndExtends ==
    ASSUME NEW s \in Seq(Headers), NEW f \in Headers, NEW t, t = Append(s, f),
           ChannelsEnd(s)
    PROVE  ChannelsEnd(t) <=> EndedBefore(s, f)
<1> DEFINE Fine(u, i, j) ==
               /\ u[i].end => ~SameChannel(u, i, j)
               /\ u[j].channel = "archive_end" \/ u[j].slice # u[i].slice =>
                      \E k \in i .. j - 1 : SameChannel(u, i, k) /\ u[k].end
           n == Len(s)
<1>1. \A u : ChannelsEnd(u) <=>
                 \A i \in DataFrames(u) : \A j \in i + 1 .. Len(u) : Fine(u, i, j)
    BY DEF ChannelsEnd
<1>2. n \in Nat /\ \A i \in 1 .. n : t[i] = s[i]
    BY AppendFacts
<1>3. \A i, k \in 1 .. n : SameChannel(t, i, k) <=> SameChannel(s, i, k)
    BY <1>2 DEF SameChannel
<1>4. ASSUME NEW i \in DataFrames(s), NEW j \in i + 1 .. n PROVE Fine(t, i, j)
  <2>1. i \in 1 .. n /\ j \in 1 .. n /\ \A k \in i .. j - 1 : k \in 1 .. n
    BY <1>2, AppendData
  <2>2. Fine(s, i, j)
    BY <1>1
  <2> QED BY <1>2, <1>3, <2>1, <2>2
<1>5. ASSUME NEW i \in DataFrames(s)
      PROVE  Fine(t, i, n + 1) <=>
                 /\ s[i].end => ~ (s[i].slice = f.slice /\ s[i].channel = f.channel)
                 /\ f.channel = "archive_end" \/ f.slice # s[i].slice =>
                        \E k \in i .. n : SameChannel(s, i, k) /\ s[k].end
  <2>1. i \in 1 .. n /\ \A k \in i .. n : k \in 1 .. n
    BY <1>2, AppendData
  <2>2. t[n + 1] = f /\ (n + 1) - 1 = n
    BY <1>2, AppendFacts
  <2>3. SameChannel(t, i, n + 1) <=> s[i].slice = f.slice /\ s[i].channel = f.channel
    BY <1>2, <2>1, <2>2 DEF SameChannel
  <2> QED BY <1>2, <1>3, <2>1, <2>2, <2>3
<1> HIDE DEF Fine
<1>6. \A i \in DataFrames(s) : \A j \in i + 1 .. n + 1 : j \in i + 1 .. n \/ j = n + 1
    BY <1>2, AppendData
<1>7. \A i \in DataFrames(s) : n + 1 \in i + 1 .. n + 1
    BY <1>2, AppendData
<1>8. /\ \A i \in DataFrames(t) : i \in DataFrames(s) \/ i = n + 1
      /\ \A i \in DataFrames(s) : i \in DataFrames(t)
    BY AppendData
<1>9. Len(t) = n + 1 /\ n + 1 + 1 .. n + 1 = {}
    BY <1>2, AppendFacts
<1>10. ChannelsEnd(t) <=> \A i \in DataFrames(s) : Fine(t, i, n + 1)
  <2> HIDE DEF n
  <2> QED BY <1>1, <1>4, <1>6, <1>7, <1>8, <1>9
<1> QED BY <1>5, <1>10 DEF EndedBefore

LEMMA WellFormedExtends ==
    ASSUME NEW s \in Seq(Headers), NEW f \in Headers,
           NEW from \in {"archive", "volume"}, WellFormed(s, from)
    PROVE  WellFormed(Append(s, f), from) <=> Continues(s, f, from)
<1> DEFINE t == Append(s, f)
           n == Len(s)
           Base(u) == IF from = "volume" THEN u[1].seq ELSE 0
           Placed(u, i) == /\ u[i].archive = u[1].archive
                           /\ u[i].seq = Base(u) + i - 1
                           /\ u[i].channel = "archive_end" => i = Len(u)
           Steady(u, i) == u[i + 1].slice \in {u[i].slice, u[i].slice + 1}
           First(u) == from = "archive" /\ 1 \in DataFrames(u) => u[1].slice = 0
           WF(u) == /\ \A i \in DOMAIN u : Placed(u, i)
                    /\ \A i \in DataFrames(u) : i + 1 \in DataFrames(u) => Steady(u, i)
                    /\ First(u) /\ ChannelsCount(u, from) /\ ChannelsEnd(u)
<1>1. \A u : WellFormed(u, from) <=> WF(u)
    BY DEF WellFormed
<1>2. /\ n \in Nat /\ Len(t) = n + 1 /\ t[n + 1] = f /\ (s = <<>> <=> n = 0)
      /\ DOMAIN s = 1 .. n /\ DOMAIN t = 1 .. n + 1
      /\ \A i \in 1 .. n : t[i] = s[i] /\ s[i] \in Headers
    BY AppendFacts
<1>3. /\ \A i : i \in DataFrames(s) <=> i \in 1 .. n /\ s[i].channel \in SliceChannels
      /\ \A i : i \in DataFrames(t)
             <=> i \in DataFrames(s) \/ (i = n + 1 /\ f.channel \in SliceChannels)
    BY AppendData
<1>4. f.seq \in Nat /\ \A i \in 1 .. n : s[i].seq \in Nat
    BY <1>2, HeaderTypes
<1> HIDE DEF t, n
<1>5. (\A i \in DOMAIN t : Placed(t, i)) <=> NumberedOn(s, f, from)
  <2>1. CASE s = <<>>
    <3>1. n = 0 /\ t[1] = f /\ DOMAIN t = {1} /\ Len(t) = 1
      BY <1>2, <2>1
    <3>2. Placed(t, 1) <=> (from = "archive" => f.seq = 0)
      BY <1>4, <3>1
    <3> QED BY <2>1, <3>1, <3>2 DEF NumberedOn
  <2>2. CASE s # <<>>
    <3>1. n \in 1 .. n /\ 1 \in 1 .. n
      BY <1>2, <2>2
    <3>2. t[1] = s[1] /\ Base(t) = Base(s) /\ t[n] = s[n] /\ Base(s) \in Nat
      BY <1>2, <1>4, <3>1
    <3>3. Placed(t, n + 1) <=> /\ f.archive = s[1].archive
                               /\ f.seq = Base(s) + n
      BY <1>2, <1>4, <3>1, <3>2
    <3>4. ASSUME NEW i \in 1 .. n
          PROVE  Placed(t, i) <=> s[i].channel # "archive_end"
      <4>1. t[i] = s[i] /\ Len(t) = n + 1 /\ i # n + 1
        BY <1>2
      <4>2. Placed(s, i)
        BY <1>1, <1>2
      <4> QED BY <3>2, <4>1, <4>2
    <3>5. \A i \in 1 .. n : s[i].channel = "archive_end" => i = n
      BY <1>1, <1>2 DEF n
    <3>6. (\A i \in 1 .. n : Placed(t, i)) <=> s[n].channel # "archive_end"
      <4> HIDE DEF Placed
      <4> QED BY <3>1, <3>4, <3>5
    <3>7. (\A i \in DOMAIN t : Placed(t, i))
            <=> (\A i \in 1 .. n : Placed(t, i)) /\ Placed(t, n + 1)
      <4> HIDE DEF Placed
      <4> QED BY <1>2
    <3>8. NumberedOn(s, f, from) <=>
             /\ f.archive = s[1].archive /\ f.seq = Base(s) + n
             /\ s[n].channel # "archive_end"
      BY <2>2 DEF NumberedOn, n
    <3> HIDE DEF Placed, Base
    <3> QED BY <3>3, <3>6, <3>7, <3>8
  <2> QED BY <2>1, <2>2
<1>6. /\ \A i \in DataFrames(t) : i + 1 \in DataFrames(t) => Steady(t, i)
      /\ First(t)
      <=> (f.channel \in SliceChannels => SliceFollowsOn(s, f, from))
  <2>1. CASE s = <<>>
    <3>1. n = 0 /\ t[1] = f /\ DataFrames(s) = {}
      BY <1>2, <1>3, <2>1
    <3>2. \A i \in DataFrames(t) : i = 1
      BY <1>3, <3>1
    <3>3. 1 \in DataFrames(t) <=> f.channel \in SliceChannels
      BY <1>3, <3>1
    <3>4. \A i \in DataFrames(t) : ~ (i + 1 \in DataFrames(t))
      BY <3>2
    <3> QED BY <2>1, <3>1, <3>3, <3>4 DEF SliceFollowsOn
  <2>2. CASE s # <<>>
    <3>1. n \in 1 .. n /\ 1 \in 1 .. n /\ t[1] = s[1] /\ t[n] = s[n] /\ n + 1 # 1
      BY <1>2, <2>2
    <3>2. First(t)
      <4>1. 1 \in DataFrames(t) => 1 \in DataFrames(s)
        BY <1>3, <3>1
      <4>2. First(s)
        BY <1>1
      <4> QED BY <3>1, <4>1, <4>2
    <3>3. ASSUME NEW i \in DataFrames(t), i + 1 \in DataFrames(t), i # n
          PROVE  Steady(t, i)
      <4>1. i \in 1 .. n /\ i + 1 \in 1 .. n /\ i \in DataFrames(s) /\ i + 1 \in DataFrames(s)
        BY <1>2, <1>3, <3>3
      <4>2. Steady(s, i)
        BY <1>1, <4>1
      <4> QED BY <1>2, <4>1, <4>2
    <3>4. n \in DataFrames(t) /\ n + 1 \in DataFrames(t)
            <=> s[n].channel \in SliceChannels /\ f.channel \in SliceChannels
      <4>1. n \in DataFrames(t) <=> s[n].channel \in SliceChannels
        BY <1>2, <1>3, <3>1
      <4>2. n + 1 \in DataFrames(t) <=> f.channel \in SliceChannels
        BY <1>2, <1>3
      <4> QED BY <4>1, <4>2
    <3>5. Steady(t, n) <=> f.slice \in {s[n].slice, s[n].slice + 1}
      BY <1>2, <3>1
    <3>6. (f.channel \in SliceChannels => SliceFollowsOn(s, f, from)) <=>
             (s[n].channel \in SliceChannels /\ f.channel \in SliceChannels
                  => Steady(t, n))
      BY <2>2, <3>5 DEF SliceFollowsOn, n
    <3> HIDE DEF Steady
    <3> QED BY <3>2, <3>3, <3>4, <3>6
  <2> QED BY <2>1, <2>2
<1>7. ChannelsCount(t, from) <=> (f.channel \in SliceChannels => CountsOn(s, f, from))
    BY <1>1, CountExtends DEF t
<1>8. ChannelsEnd(t) <=> EndedBefore(s, f)
    BY <1>1, EndExtends DEF t
<1>9. WellFormed(t, from) <=> WF(t)
    BY <1>1
<1> HIDE DEF Placed, Steady, First
<1> QED BY <1>5, <1>6, <1>7, <1>8, <1>9 DEF Continues, t

-----------------------------------------------------------------------------
(* What the validator knows decides whether f continues the stream. *)

LEMMA DataFrameFacts ==
    ASSUME NEW s \in Seq(Headers)
    PROVE  /\ Len(s) \in Nat /\ DOMAIN s = 1 .. Len(s)
           /\ \A i \in 1 .. Len(s) : s[i] \in Headers /\ s[i].slice \in Nat
                                     /\ s[i].seq \in Nat /\ s[i].chSeq \in Nat
                                     /\ s[i].end \in BOOLEAN
           /\ \A i : i \in DataFrames(s)
                        <=> i \in 1 .. Len(s) /\ s[i].channel \in SliceChannels
           /\ \A m, c, i : i \in Earlier(s, m, c) <=>
                  /\ i \in 1 .. Len(s) /\ s[i].channel \in SliceChannels
                  /\ s[i].slice = m /\ s[i].channel = c
           /\ s = <<>> <=> Len(s) = 0
<1>1. Len(s) \in Nat /\ DOMAIN s = 1 .. Len(s) /\ (s = <<>> <=> Len(s) = 0)
    OBVIOUS
<1>2. \A i \in 1 .. Len(s) : s[i] \in Headers
    OBVIOUS
<1>3. \A i : i \in DataFrames(s) <=> i \in 1 .. Len(s) /\ s[i].channel \in SliceChannels
    BY <1>1 DEF DataFrames
<1> QED BY <1>1, <1>2, <1>3, HeaderTypes DEF Earlier

\* A slice left behind is complete.
LEMMA OldSlicesEnded ==
    ASSUME NEW s \in Seq(Headers), s # <<>>, ChannelsEnd(s), NEW i \in DataFrames(s),
           s[i].slice # s[Len(s)].slice
    PROVE  \E k \in i .. Len(s) : SameChannel(s, i, k) /\ s[k].end
<1>1. Len(s) \in i + 1 .. Len(s) /\ i \in Nat /\ Len(s) \in Nat
  <2>1. i \in 1 .. Len(s) /\ Len(s) \in Nat
    BY DataFrameFacts
  <2>2. i # Len(s)
    OBVIOUS
  <2> QED BY <2>1, <2>2
<1>2. PICK k \in i .. Len(s) - 1 : SameChannel(s, i, k) /\ s[k].end
    BY <1>1 DEF ChannelsEnd
<1>3. k \in i .. Len(s)
    BY <1>1
<1> QED BY <1>2, <1>3

\* A channel that has ended holds an END, and no other one does.
LEMMA EndedKnown ==
    ASSUME NEW s \in Seq(Headers), ChannelsEnd(s), NEW m, NEW c,
           NEW i \in DOMAIN s, IsLastOf(s, m, c, i)
    PROVE  \A j \in Earlier(s, m, c) :
               /\ s[j].end => j = i
               /\ SameChannel(s, j, i)
<1> SUFFICES ASSUME NEW j \in Earlier(s, m, c)
             PROVE  (s[j].end => j = i) /\ SameChannel(s, j, i)
    OBVIOUS
<1>1. i \in 1 .. Len(s) /\ j \in 1 .. Len(s) /\ j <= i /\ Len(s) \in Nat
      /\ j \in DataFrames(s)
    BY DataFrameFacts DEF IsLastOf
<1>2. SameChannel(s, j, i)
    BY DEF SameChannel, IsLastOf, Earlier
<1>3. j # i => i \in j + 1 .. Len(s)
    BY <1>1
<1>4. j # i => ~s[j].end
    BY <1>1, <1>2, <1>3 DEF ChannelsEnd
<1> QED BY <1>2, <1>4

LEMMA AllEndedKnown ==
    ASSUME NEW w \in ValidatorStates, NEW s \in Seq(Headers), s # <<>>, NEW from,
           SliceKnown(w, s, from), ChannelsEnd(s)
    PROVE  AllSeenEnded(w) <=>
               \A i \in DataFrames(s) :
                   \E k \in i .. Len(s) : SameChannel(s, i, k) /\ s[k].end
<1>1. ASSUME AllSeenEnded(w), NEW i \in DataFrames(s)
      PROVE  \E k \in i .. Len(s) : SameChannel(s, i, k) /\ s[k].end
  <2>1. CASE s[i].slice # w.slice
    BY <2>1, OldSlicesEnded DEF SliceKnown
  <2>2. CASE s[i].slice = w.slice
    <3> DEFINE c == s[i].channel
    <3>1. c \in SliceChannels /\ i \in Earlier(s, w.slice, c) /\ i \in 1 .. Len(s)
      BY <2>2, DataFrameFacts
    <3>2. ChannelKnown(w, s, from, c) /\ Earlier(s, w.slice, c) # {}
      BY <3>1 DEF SliceKnown
    <3>3. w.seen[c] /\ w.ended[c]
      BY <1>1, <3>1, <3>2 DEF ChannelKnown, AllSeenEnded
    <3>4. PICK k \in DOMAIN s : IsLastOf(s, w.slice, c, k) /\ w.ended[c] = s[k].end
      BY <3>2, <3>3 DEF ChannelKnown
    <3>5. SameChannel(s, i, k) /\ s[k].end
      BY <3>1, <3>3, <3>4, EndedKnown
    <3>6. i <= k /\ k \in 1 .. Len(s)
      BY <3>1, <3>4, DataFrameFacts DEF IsLastOf
    <3>7. k \in i .. Len(s)
      BY <3>1, <3>6, DataFrameFacts
    <3> QED BY <3>5, <3>7
  <2> QED BY <2>1, <2>2
<1>2. ASSUME \A i \in DataFrames(s) :
                 \E k \in i .. Len(s) : SameChannel(s, i, k) /\ s[k].end,
             NEW c \in SliceChannels, w.seen[c]
      PROVE  w.ended[c]
  <2>1. PICK i \in DOMAIN s : IsLastOf(s, w.slice, c, i) /\ w.ended[c] = s[i].end
    BY <1>2 DEF SliceKnown, ChannelKnown
  <2>2. i \in DataFrames(s) /\ i \in Earlier(s, w.slice, c)
    BY <2>1 DEF IsLastOf, Earlier
  <2>3. PICK k \in i .. Len(s) : SameChannel(s, i, k) /\ s[k].end
    BY <1>2, <2>2
  <2>4. k \in 1 .. Len(s) /\ i \in 1 .. Len(s) /\ i <= k
    BY <2>2, DataFrameFacts
  <2>5. k \in Earlier(s, w.slice, c)
    <3>1. s[i].channel \in SliceChannels /\ s[i].slice = w.slice /\ s[i].channel = c
      BY <2>2, DataFrameFacts
    <3>2. s[k].channel \in SliceChannels /\ s[k].slice = w.slice /\ s[k].channel = c
      BY <2>3, <3>1 DEF SameChannel
    <3> QED BY <2>4, <3>2, DataFrameFacts
  <2>6. k = i
    BY <2>1, <2>3, <2>5, EndedKnown
  <2> QED BY <2>1, <2>3, <2>6
<1> QED BY <1>1, <1>2 DEF AllSeenEnded

\* An END is never followed by its own channel.
LEMMA SameSliceKnown ==
    ASSUME NEW w \in ValidatorStates, NEW s \in Seq(Headers), s # <<>>, NEW from,
           NEW f \in Headers, f.channel \in SliceChannels, f.slice = w.slice,
           SliceKnown(w, s, from), ChannelsEnd(s)
    PROVE  EndedBefore(s, f) <=> ~w.ended[f.channel]
<1> DEFINE c == f.channel
<1>0. ChannelKnown(w, s, from, c) /\ w.slice = s[Len(s)].slice
    BY DEF SliceKnown
<1>1. ASSUME NEW i \in DataFrames(s), f.channel = "archive_end" \/ f.slice # s[i].slice
      PROVE \E k \in i .. Len(s) : SameChannel(s, i, k) /\ s[k].end
    BY <1>0, <1>1, OldSlicesEnded DEF SliceChannels
<1>2. EndedBefore(s, f) <=> \A i \in Earlier(s, w.slice, c) : ~s[i].end
    BY <1>1 DEF EndedBefore, Earlier
<1>3. CASE ~w.seen[c]
    BY <1>0, <1>2, <1>3 DEF ChannelKnown
<1>4. CASE w.seen[c]
  <2>1. PICK i \in DOMAIN s : IsLastOf(s, w.slice, c, i) /\ w.ended[c] = s[i].end
    BY <1>0, <1>4 DEF ChannelKnown
  <2>2. i \in Earlier(s, w.slice, c)
    BY <2>1 DEF IsLastOf
  <2>3. \A j \in Earlier(s, w.slice, c) : s[j].end => j = i
    BY <2>1, EndedKnown
  <2> QED BY <1>2, <2>1, <2>2, <2>3
<1> QED BY <1>3, <1>4

LEMMA SameSliceCounts ==
    ASSUME NEW w \in ValidatorStates, NEW s \in Seq(Headers), s # <<>>, NEW from,
           NEW f \in Headers, f.channel \in SliceChannels, f.slice = w.slice,
           SliceKnown(w, s, from)
    PROVE  CountsOn(s, f, from)
               <=> w.unknown[f.channel] \/ f.chSeq = w.nextSeq[f.channel]
<1> DEFINE c == f.channel
<1>0. ChannelKnown(w, s, from, c)
    BY DEF SliceKnown
<1>1. CASE ~w.seen[c]
    BY <1>0, <1>1 DEF ChannelKnown, CountsOn
<1>2. CASE w.seen[c]
  <2>1. PICK i \in DOMAIN s : IsLastOf(s, w.slice, c, i) /\ w.nextSeq[c] = s[i].chSeq + 1
    BY <1>0, <1>2 DEF ChannelKnown
  <2>2. ~w.unknown[c]
    BY <1>0, <1>2 DEF ChannelKnown
  <2>3. i \in Earlier(s, w.slice, c) /\ \A k \in Earlier(s, w.slice, c) : k <= i
    BY <2>1 DEF IsLastOf
  <2>4. \A j \in Earlier(s, w.slice, c) :
            (\A k \in Earlier(s, w.slice, c) : k <= j) => j = i
    BY <2>3, DataFrameFacts
  <2>5. CountsOn(s, f, from) <=> f.chSeq = s[i].chSeq + 1
    BY <2>3, <2>4 DEF CountsOn
  <2> QED BY <2>1, <2>2, <2>5
<1> QED BY <1>1, <1>2

LEMMA NewSliceKnown ==
    ASSUME NEW w \in ValidatorStates, NEW s \in Seq(Headers), s # <<>>, NEW from,
           NEW f \in Headers, f.channel \in SliceChannels, f.slice = w.slice + 1,
           SliceKnown(w, s, from), ChannelsEnd(s)
    PROVE  /\ EndedBefore(s, f) <=> AllSeenEnded(w)
           /\ CountsOn(s, f, from) <=> f.chSeq = 0
           /\ \A c : Earlier(s, f.slice, c) = {}
           /\ f.slice # s[1].slice
<1>1. w.slice \in Nat /\ f.slice # w.slice /\ \A i \in 1 .. Len(s) : f.slice # s[i].slice
    BY DataFrameFacts DEF SliceKnown, ValidatorStates
<1>2. 1 \in 1 .. Len(s)
    BY DataFrameFacts
<1>3. \A c : Earlier(s, f.slice, c) = {}
    BY <1>1, DataFrameFacts
<1>4. \A i \in DataFrames(s) : f.slice # s[i].slice
    BY <1>1, DataFrameFacts
<1>5. EndedBefore(s, f) <=>
         \A i \in DataFrames(s) : \E k \in i .. Len(s) : SameChannel(s, i, k) /\ s[k].end
    BY <1>4 DEF EndedBefore
<1>6. EndedBefore(s, f) <=> AllSeenEnded(w)
    BY <1>5, AllEndedKnown
<1>7. CountsOn(s, f, from) <=> f.chSeq = 0
    BY <1>1, <1>2, <1>3 DEF CountsOn
<1> QED BY <1>1, <1>2, <1>3, <1>6, <1>7

LEMMA ChannelFollowsKnown ==
    ASSUME NEW w \in ValidatorStates, NEW f \in Headers, f.channel \in SliceChannels,
           w.anyFrame
    PROVE  ChannelFollows(InSliceOf(w, f), f) <=>
               IF f.slice = w.slice
               THEN /\ ~w.ended[f.channel]
                    /\ w.unknown[f.channel] \/ f.chSeq = w.nextSeq[f.channel]
               ELSE f.chSeq = 0
    BY DEF ChannelFollows, InSliceOf, ValidatorStates

LEMMA CredibleChecks ==
    ASSUME NEW f
    PROVE  Intact(f) \/ (f.check = "bad_hash" /\ f.channel = "metadata") <=> Credible(f)
    BY DEF Credible

LEMMA NumberedKnown ==
    ASSUME NEW w \in ValidatorStates, NEW s \in Seq(Headers), s # <<>>,
           NEW from \in {"archive", "volume"}, NEW f \in Headers,
           WellFormed(s, from), Known(w, s, from)
    PROVE  NumberedOn(s, f, from) <=>
               ~w.endSeen /\ w.archive \in {NoArchive, f.archive} /\ f.seq = w.expected
<1>1. 1 \in 1 .. Len(s) /\ Len(s) \in 1 .. Len(s) /\ Len(s) \in Nat
    BY DataFrameFacts
<1>2. s[1] \in Headers /\ s[1].archive # NoArchive /\ s[1].seq \in Nat /\ f.seq \in Nat
    BY <1>1, DataFrameFacts, HeaderTypes
<1>3. w.archive \in {NoArchive, f.archive} <=> f.archive = s[1].archive
    BY <1>2 DEF Known
<1>4. s[Len(s)].seq = (IF from = "volume" THEN s[1].seq ELSE 0) + Len(s) - 1
    BY <1>1, DataFrameFacts DEF WellFormed
<1>5. w.expected = (IF from = "volume" THEN s[1].seq ELSE 0) + Len(s)
    BY <1>1, <1>2, <1>4 DEF Known
<1>6. w.endSeen <=> s[Len(s)].channel = "archive_end"
    BY DEF Known
<1> QED BY <1>3, <1>5, <1>6 DEF NumberedOn

LEMMA ContinuesKnown ==
    ASSUME NEW w \in ValidatorStates, NEW s \in Seq(Headers), s # <<>>,
           NEW from \in {"archive", "volume"}, NEW f \in Headers,
           WellFormed(s, from), Known(w, s, from), w.replayNext = NoReplay
    PROVE  IsNextRestored(w, f) <=> Credible(f) /\ Continues(s, f, from)
<1> DEFINE Channels == IF f.channel = "archive_end" THEN EndFollows(w)
                       ELSE SliceFollows(w, f) /\ ChannelFollows(InSliceOf(w, f), f)
<1>1. f.seq \in Nat /\ w.expected \in Nat /\ w.slice \in Nat /\ f.slice \in Nat
      /\ f.channel \in SliceChannels \cup {"archive_end"}
    BY HeaderTypes DEF ValidatorStates
<1>2. f.seq = w.expected => MayBeNew(w, f)
    BY <1>1 DEF MayBeNew, IsOld
<1>3. IsNextRestored(w, f) <=>
          /\ ~w.endSeen /\ w.archive \in {NoArchive, f.archive} /\ f.seq = w.expected
          /\ Credible(f) /\ Channels
    BY <1>2, CredibleChecks DEF IsNextRestored, IsNext
<1>4. ASSUME ~w.endSeen
      PROVE  Channels <=> EndedBefore(s, f) /\ (f.channel \in SliceChannels =>
                 SliceFollowsOn(s, f, from) /\ CountsOn(s, f, from))
  <2>1. SliceKnown(w, s, from) /\ w.anyFrame /\ w.slice = s[Len(s)].slice /\ ChannelsEnd(s)
    BY <1>4 DEF Known, SliceKnown, WellFormed
  <2>2. CASE f.channel = "archive_end"
    <3>1. \A i \in DataFrames(s) : s[i].channel # f.channel
      BY <2>2, DataFrameFacts DEF SliceChannels
    <3>2. EndedBefore(s, f) <=>
             \A i \in DataFrames(s) : \E k \in i .. Len(s) : SameChannel(s, i, k) /\ s[k].end
      BY <2>2, <3>1 DEF EndedBefore
    <3>3. EndedBefore(s, f) <=> AllSeenEnded(w)
      BY <2>1, <3>2, AllEndedKnown
    <3> QED BY <2>1, <2>2, <3>3 DEF EndFollows, SliceChannels
  <2>3. CASE f.channel \in SliceChannels
    <3>1. s[Len(s)].channel \in SliceChannels
      <4>1. s[Len(s)].channel # "archive_end"
        BY <1>4 DEF Known
      <4>2. Len(s) \in 1 .. Len(s)
        BY DataFrameFacts
      <4>3. s[Len(s)] \in Headers
        BY <4>2, DataFrameFacts
      <4> QED BY <4>1, <4>3, HeaderTypes
    <3>2. SliceFollowsOn(s, f, from) <=> f.slice \in {w.slice, w.slice + 1}
      BY <2>1, <3>1 DEF SliceFollowsOn
    <3>3. SliceFollows(w, f) <=> f.slice = w.slice \/ (f.slice = w.slice + 1 /\ AllSeenEnded(w))
      BY <2>1 DEF SliceFollows
    <3>4. CASE f.slice = w.slice
      BY <2>1, <2>3, <3>2, <3>3, <3>4, SameSliceKnown, SameSliceCounts,
         ChannelFollowsKnown DEF SliceChannels
    <3>5. CASE f.slice = w.slice + 1
      <4>1. f.slice # w.slice
        BY <1>1, <3>5
      <4> QED BY <2>1, <2>3, <3>2, <3>3, <3>5, <4>1, NewSliceKnown, ChannelFollowsKnown
              DEF SliceChannels
    <3>6. CASE ~ (f.slice \in {w.slice, w.slice + 1})
      BY <2>3, <3>2, <3>3, <3>6 DEF SliceChannels
    <3> QED BY <3>4, <3>5, <3>6
  <2> QED BY <1>1, <2>2, <2>3
<1>5. NumberedOn(s, f, from) <=>
          ~w.endSeen /\ w.archive \in {NoArchive, f.archive} /\ f.seq = w.expected
    BY NumberedKnown
<1> HIDE DEF Channels
<1> QED BY <1>3, <1>4, <1>5 DEF Continues

\* The first frame: of the archive, or of the volume it is seeded with.
LEMMA FirstKnown ==
    ASSUME NEW from \in {"archive", "volume"}, NEW f \in Headers, NEW w,
           w = IF from = "volume" THEN SeededBy(f) ELSE Unused
    PROVE  IsNextRestored(w, f) <=> Credible(f) /\ Continues(<<>>, f, from)
<1>1. DataFrames(<<>>) = {} /\ \A m, c : Earlier(<<>>, m, c) = {}
    BY DEF DataFrames, Earlier
<1>2. f.seq \in Nat /\ f.channel \in SliceChannels \cup {"archive_end"}
    BY HeaderTypes
<1>3. Continues(<<>>, f, from) <=>
          /\ from = "archive" => f.seq = 0
          /\ f.channel \in SliceChannels =>
                 /\ from = "archive" => f.slice = 0
                 /\ f.chSeq = 0 \/ from = "volume"
    BY <1>1 DEF Continues, NumberedOn, EndedBefore, SliceFollowsOn, CountsOn
<1>4. /\ w.replayNext = NoReplay /\ ~w.endSeen /\ w.archive = NoArchive /\ ~w.anyFrame
      /\ w.seeded = (from = "volume")
      /\ w.expected = IF from = "volume" THEN f.seq ELSE 0
    BY DEF SeededBy, Unused
<1>5. f.seq = w.expected => MayBeNew(w, f)
    BY <1>2, <1>4 DEF MayBeNew, IsOld
<1>6. f.seq = w.expected <=> (from = "archive" => f.seq = 0)
    BY <1>4
<1>7. ASSUME f.channel \in SliceChannels
      PROVE  ChannelFollows(InSliceOf(w, f), f) <=> (f.chSeq = 0 \/ from = "volume")
  <2>1. CASE from = "volume"
    BY <1>7, <2>1 DEF ChannelFollows, InSliceOf, SeededBy, Unused
  <2>2. CASE from = "archive"
    BY <1>7, <2>2 DEF ChannelFollows, InSliceOf, Unused
  <2> QED BY <2>1, <2>2
<1>8. SliceFollows(w, f) <=> (from = "archive" => f.slice = 0)
    BY <1>4 DEF SliceFollows
<1>9. EndFollows(w)
    BY <1>4 DEF EndFollows
<1>10. IsNextRestored(w, f) <=>
          /\ f.seq = w.expected /\ Credible(f)
          /\ IF f.channel = "archive_end" THEN TRUE
             ELSE SliceFollows(w, f) /\ ChannelFollows(InSliceOf(w, f), f)
    BY <1>4, <1>5, <1>9, CredibleChecks DEF IsNextRestored, IsNext
<1> QED BY <1>2, <1>3, <1>6, <1>7, <1>8, <1>10 DEF SliceChannels

-----------------------------------------------------------------------------
(* What it knows when it has accepted f. *)

LEMMA RememberKnown ==
    ASSUME NEW w \in ValidatorStates, NEW s \in Seq(Headers), NEW f \in Headers,
           HistoryKnown(w, s)
    PROVE  /\ Remember(w, f) \in Seq(Headers)
           /\ \A i \in DOMAIN Remember(w, f) :
                  /\ Intact(Remember(w, f)[i])
                  /\ \E k \in DOMAIN Append(s, f) : Remember(w, f)[i] = Append(s, f)[k]
<1> DEFINE h == w.history
           all == Append(h, f)
           t == Append(s, f)
           Good(g) == Intact(g) /\ \E k \in DOMAIN t : g = t[k]
<1>1. h \in Seq(Headers) /\ all \in Seq(Headers) /\ Len(h) \in Nat
      /\ Len(all) = Len(h) + 1 /\ DOMAIN h = 1 .. Len(h) /\ DOMAIN all = 1 .. Len(h) + 1
      /\ all[Len(h) + 1] = f /\ \A i \in 1 .. Len(h) : all[i] = h[i]
  <2>1. h \in Seq(Headers)
    BY DEF ValidatorStates
  <2> QED BY <2>1, AppendFacts
<1>2. /\ \A k \in DOMAIN s : k \in DOMAIN t /\ t[k] = s[k]
      /\ Len(s) + 1 \in DOMAIN t /\ t[Len(s) + 1] = f
    BY AppendFacts
<1> HIDE DEF h, all, t
<1>3. \A i \in 1 .. Len(h) : Good(h[i])
    BY <1>1, <1>2 DEF HistoryKnown, h
<1>4. Intact(f) => Good(f)
    BY <1>2
<1> HIDE DEF Good
<1>5. Intact(f) => \A i \in 1 .. Len(h) + 1 : Good(all[i])
  <2> SUFFICES ASSUME Intact(f), NEW i \in 1 .. Len(h) + 1 PROVE Good(all[i])
    OBVIOUS
  <2>1. i \in 1 .. Len(h) \/ i = Len(h) + 1
    BY <1>1
  <2> QED BY <1>1, <1>3, <1>4, <2>1
<1>6. Tail(all) \in Seq(Headers) /\ DOMAIN Tail(all) = 1 .. Len(h)
      /\ \A i \in 1 .. Len(h) : Tail(all)[i] = all[i + 1]
  <2>1. all # <<>>
    BY <1>1
  <2>2. Tail(all) \in Seq(Headers) /\ Len(Tail(all)) = Len(h)
        /\ \A i \in 1 .. Len(Tail(all)) : Tail(all)[i] = all[i + 1]
    BY <1>1, <2>1, HeadTailProperties
  <2> QED BY <2>2
<1>7. Remember(w, f) = IF ~Intact(f) THEN h
                       ELSE IF Len(all) > HistoryLimit THEN Tail(all) ELSE all
    BY DEF Remember, h, all
<1>8. Remember(w, f) \in Seq(Headers)
    BY <1>1, <1>6, <1>7
<1>9. \A i \in DOMAIN Remember(w, f) : Good(Remember(w, f)[i])
  <2>1. CASE ~Intact(f)
    BY <1>1, <1>3, <1>7, <2>1
  <2>2. CASE Intact(f) /\ Remember(w, f) = all
    BY <1>1, <1>5, <2>2
  <2>3. CASE Intact(f) /\ Remember(w, f) = Tail(all)
    <3>1. \A i \in 1 .. Len(h) : i + 1 \in 1 .. Len(h) + 1
      BY <1>1
    <3> QED BY <1>5, <1>6, <2>3, <3>1
  <2> QED BY <1>7, <2>1, <2>2, <2>3
<1> QED BY <1>8, <1>9 DEF Good, t

LEMMA NumberChanged ==
    ASSUME NEW w \in ValidatorStates, NEW x \in Archives \cup {NoArchive}, NEW n \in Nat,
           NEW h \in Seq(Headers)
    PROVE  [w EXCEPT !.archive = x, !.expected = n, !.history = h] \in ValidatorStates
    BY DEF ValidatorStates

LEMMA SliceNumbered ==
    ASSUME NEW w \in ValidatorStates, NEW n \in Nat
    PROVE  /\ [w EXCEPT !.slice = n] \in ValidatorStates
           /\ [w EXCEPT !.slice = n, !.anyFrame = TRUE] \in ValidatorStates
    BY DEF ValidatorStates

LEMMA EndNoted ==
    ASSUME NEW w \in ValidatorStates
    PROVE  [w EXCEPT !.endSeen = TRUE] \in ValidatorStates
    BY DEF ValidatorStates

LEMMA AcceptedFields ==
    ASSUME NEW w \in ValidatorStates, NEW f \in Headers, NEW a, a = Accepted(w, f),
           Remember(w, f) \in Seq(Headers)
    PROVE  /\ a \in ValidatorStates
           /\ a.archive = f.archive /\ a.expected = f.seq + 1
           /\ a.history = Remember(w, f) /\ a.replayNext = w.replayNext
           /\ f.channel = "archive_end" => a.endSeen
           /\ f.channel \in SliceChannels =>
                  /\ a.endSeen = w.endSeen /\ a.anyFrame /\ a.slice = f.slice
                  /\ a.seen[f.channel] /\ ~a.unknown[f.channel]
                  /\ a.nextSeq[f.channel] = f.chSeq + 1
                  /\ a.ended[f.channel] = f.end
                  /\ \A c \in SliceChannels \ {f.channel} :
                        IF ~w.anyFrame \/ f.slice = w.slice
                        THEN /\ a.seen[c] = w.seen[c] /\ a.unknown[c] = w.unknown[c]
                             /\ a.nextSeq[c] = w.nextSeq[c] /\ a.ended[c] = w.ended[c]
                        ELSE /\ ~a.seen[c] /\ ~a.unknown[c]
                             /\ a.nextSeq[c] = 0 /\ ~a.ended[c]
<1> DEFINE w1 == [w EXCEPT !.archive = f.archive, !.expected = f.seq + 1,
                           !.history = Remember(w, f)]
           sl == InSliceOf(w1, f)
<1>1. f.archive \in Archives /\ f.seq \in Nat /\ f.slice \in Nat /\ f.chSeq \in Nat
      /\ f.end \in BOOLEAN /\ f.channel \in SliceChannels \cup {"archive_end"}
    BY HeaderTypes
<1>2. /\ w1 \in ValidatorStates
      /\ w1.archive = f.archive /\ w1.expected = f.seq + 1
      /\ w1.history = Remember(w, f) /\ w1.replayNext = w.replayNext
      /\ w1.endSeen = w.endSeen /\ w1.anyFrame = w.anyFrame /\ w1.slice = w.slice
      /\ w1.seen = w.seen /\ w1.unknown = w.unknown /\ w1.nextSeq = w.nextSeq
      /\ w1.ended = w.ended
  <2>0. f.archive \in Archives \cup {NoArchive} /\ f.seq + 1 \in Nat
    BY <1>1
  <2>1. w1 \in ValidatorStates
    BY <2>0, NumberChanged
  <2> QED BY <2>1 DEF ValidatorStates
<1> HIDE DEF w1
<1>3. CASE f.channel = "archive_end"
  <2>1. a = [w1 EXCEPT !.endSeen = TRUE]
    BY <1>3 DEF Accepted, w1
  <2>2. "archive_end" \notin SliceChannels
    BY DEF SliceChannels
  <2>3. a \in ValidatorStates
    BY <1>2, <2>1, EndNoted
  <2>4. /\ a.archive = w1.archive /\ a.expected = w1.expected /\ a.history = w1.history
        /\ a.replayNext = w1.replayNext /\ a.endSeen
    BY <1>2, <2>1 DEF ValidatorStates
  <2> QED BY <1>2, <1>3, <2>2, <2>3, <2>4
<1>4. CASE f.channel \in SliceChannels
  <2>1. a = [sl EXCEPT !.nextSeq[f.channel] = f.chSeq + 1, !.seen[f.channel] = TRUE,
                       !.ended[f.channel] = f.end, !.unknown[f.channel] = FALSE]
    BY <1>4 DEF Accepted, w1, SliceChannels
  <2>2. /\ sl \in ValidatorStates
        /\ sl.archive = f.archive /\ sl.expected = f.seq + 1
        /\ sl.history = Remember(w, f) /\ sl.replayNext = w.replayNext
        /\ sl.endSeen = w.endSeen /\ sl.anyFrame /\ sl.slice = f.slice
        /\ \A c \in SliceChannels :
              IF ~w.anyFrame \/ f.slice = w.slice
              THEN /\ sl.seen[c] = w.seen[c] /\ sl.unknown[c] = w.unknown[c]
                   /\ sl.nextSeq[c] = w.nextSeq[c] /\ sl.ended[c] = w.ended[c]
              ELSE /\ ~sl.seen[c] /\ ~sl.unknown[c] /\ sl.nextSeq[c] = 0 /\ ~sl.ended[c]
    <3>1. CASE ~w.anyFrame \/ f.slice = w.slice
      <4>1. sl = [w1 EXCEPT !.slice = f.slice, !.anyFrame = TRUE]
        BY <1>2, <3>1 DEF InSliceOf
      <4>2. sl \in ValidatorStates
        BY <1>1, <1>2, <4>1, SliceNumbered
      <4>3. /\ sl.archive = w1.archive /\ sl.expected = w1.expected
            /\ sl.history = w1.history /\ sl.replayNext = w1.replayNext
            /\ sl.endSeen = w1.endSeen /\ sl.anyFrame /\ sl.slice = f.slice
            /\ sl.seen = w1.seen /\ sl.unknown = w1.unknown
            /\ sl.nextSeq = w1.nextSeq /\ sl.ended = w1.ended
        BY <1>2, <4>1 DEF ValidatorStates
      <4> QED BY <1>2, <3>1, <4>2, <4>3
    <3>2. CASE w.anyFrame /\ f.slice # w.slice
      <4>1. sl = [w1 EXCEPT !.slice = f.slice,
                            !.nextSeq = [c \in SliceChannels |-> 0],
                            !.seen = [c \in SliceChannels |-> FALSE],
                            !.ended = [c \in SliceChannels |-> FALSE],
                            !.unknown = [c \in SliceChannels |-> FALSE]]
        BY <1>2, <3>2 DEF InSliceOf
      <4> DEFINE zeros == [c \in SliceChannels |-> 0]
                 nones == [c \in SliceChannels |-> FALSE]
      <4>2. sl \in ValidatorStates
        <5>1. zeros \in [SliceChannels -> Nat] /\ nones \in [SliceChannels -> BOOLEAN]
          OBVIOUS
        <5>2. sl = [[w1 EXCEPT !.slice = f.slice] EXCEPT !.nextSeq = zeros, !.seen = nones,
                                                       !.ended = nones, !.unknown = nones]
          BY <4>1
        <5> DEFINE w2 == [w1 EXCEPT !.slice = f.slice]
        <5> HIDE DEF zeros, nones
        <5>3. w2 \in ValidatorStates
          BY <1>1, <1>2, SliceNumbered
        <5> HIDE DEF w2
        <5>4. sl = [w2 EXCEPT !.nextSeq = zeros, !.seen = nones,
                              !.ended = nones, !.unknown = nones]
          BY <5>2 DEF w2
        <5> QED BY <5>1, <5>3, <5>4 DEF ValidatorStates
      <4>3. /\ sl.archive = w1.archive /\ sl.expected = w1.expected
            /\ sl.history = w1.history /\ sl.replayNext = w1.replayNext
            /\ sl.endSeen = w1.endSeen /\ sl.anyFrame = w1.anyFrame /\ sl.slice = f.slice
            /\ sl.seen = [c \in SliceChannels |-> FALSE]
            /\ sl.unknown = [c \in SliceChannels |-> FALSE]
            /\ sl.nextSeq = [c \in SliceChannels |-> 0]
            /\ sl.ended = [c \in SliceChannels |-> FALSE]
        BY <1>2, <4>1 DEF ValidatorStates
      <4>4. \A c \in SliceChannels :
                ~sl.seen[c] /\ ~sl.unknown[c] /\ sl.nextSeq[c] = 0 /\ ~sl.ended[c]
        BY <4>3
      <4> QED BY <1>2, <3>2, <4>2, <4>3, <4>4
    <3> QED BY <3>1, <3>2
  <2> HIDE DEF sl
  <2>3. "archive_end" \notin SliceChannels
    BY DEF SliceChannels
  <2>4. /\ a.archive = sl.archive /\ a.expected = sl.expected
        /\ a.history = sl.history /\ a.replayNext = sl.replayNext
        /\ a.endSeen = sl.endSeen /\ a.anyFrame = sl.anyFrame /\ a.slice = sl.slice
        /\ a.seeded = sl.seeded
        /\ a.nextSeq = [sl.nextSeq EXCEPT ![f.channel] = f.chSeq + 1]
        /\ a.seen = [sl.seen EXCEPT ![f.channel] = TRUE]
        /\ a.ended = [sl.ended EXCEPT ![f.channel] = f.end]
        /\ a.unknown = [sl.unknown EXCEPT ![f.channel] = FALSE]
    BY <2>1, <2>2 DEF ValidatorStates
  <2>5. /\ sl.nextSeq \in [SliceChannels -> Nat] /\ sl.seen \in [SliceChannels -> BOOLEAN]
        /\ sl.ended \in [SliceChannels -> BOOLEAN] /\ sl.unknown \in [SliceChannels -> BOOLEAN]
    BY <2>2 DEF ValidatorStates
  <2>6. a \in ValidatorStates
    <3>1. /\ a.nextSeq \in [SliceChannels -> Nat] /\ a.seen \in [SliceChannels -> BOOLEAN]
          /\ a.ended \in [SliceChannels -> BOOLEAN] /\ a.unknown \in [SliceChannels -> BOOLEAN]
      BY <1>1, <1>4, <2>4, <2>5
    <3>2. a = [sl EXCEPT !.nextSeq = a.nextSeq, !.seen = a.seen,
                         !.ended = a.ended, !.unknown = a.unknown]
      BY <2>1, <2>2, <2>4 DEF ValidatorStates
    <3> QED BY <2>2, <3>1, <3>2 DEF ValidatorStates
  <2>7. /\ a.nextSeq[f.channel] = f.chSeq + 1 /\ a.seen[f.channel]
        /\ a.ended[f.channel] = f.end /\ ~a.unknown[f.channel]
    BY <1>1, <1>4, <2>4, <2>5
  <2>8. \A c \in SliceChannels \ {f.channel} :
           /\ a.nextSeq[c] = sl.nextSeq[c] /\ a.seen[c] = sl.seen[c]
           /\ a.ended[c] = sl.ended[c] /\ a.unknown[c] = sl.unknown[c]
    BY <1>4, <2>4, <2>5
  <2>9. ASSUME NEW c \in SliceChannels \ {f.channel}
        PROVE  IF ~w.anyFrame \/ f.slice = w.slice
               THEN /\ a.seen[c] = w.seen[c] /\ a.unknown[c] = w.unknown[c]
                    /\ a.nextSeq[c] = w.nextSeq[c] /\ a.ended[c] = w.ended[c]
               ELSE ~a.seen[c] /\ ~a.unknown[c] /\ a.nextSeq[c] = 0 /\ ~a.ended[c]
    <3>1. c \in SliceChannels
      OBVIOUS
    <3>2. /\ a.nextSeq[c] = sl.nextSeq[c] /\ a.seen[c] = sl.seen[c]
          /\ a.ended[c] = sl.ended[c] /\ a.unknown[c] = sl.unknown[c]
      BY <2>8
    <3>3. IF ~w.anyFrame \/ f.slice = w.slice
          THEN /\ sl.seen[c] = w.seen[c] /\ sl.unknown[c] = w.unknown[c]
               /\ sl.nextSeq[c] = w.nextSeq[c] /\ sl.ended[c] = w.ended[c]
          ELSE ~sl.seen[c] /\ ~sl.unknown[c] /\ sl.nextSeq[c] = 0 /\ ~sl.ended[c]
      BY <2>2, <3>1
    <3> QED BY <3>2, <3>3
  <2>10. /\ a.archive = f.archive /\ a.expected = f.seq + 1
         /\ a.history = Remember(w, f) /\ a.replayNext = w.replayNext
         /\ a.endSeen = w.endSeen /\ a.anyFrame /\ a.slice = f.slice
    BY <2>2, <2>4
  <2> QED BY <1>4, <2>3, <2>6, <2>7, <2>9, <2>10
<1> QED BY <1>1, <1>3, <1>4

LEMMA UnusedFields ==
    ASSUME NEW from, NEW f, NEW w,
           w = IF from = "volume" THEN SeededBy(f) ELSE Unused
    PROVE  /\ ~w.anyFrame /\ ~w.endSeen
           /\ w.history = <<>> /\ w.replayNext = NoReplay
<1>1. CASE from = "volume"
    BY <1>1 DEF SeededBy, Unused
<1>2. CASE from # "volume"
    BY <1>2 DEF Unused
<1> QED BY <1>1, <1>2

\* Behind s the validator w knew it, behind f as well it knows all of it.
LEMMA KnownAccepted ==
    ASSUME NEW w \in ValidatorStates, NEW s \in Seq(Headers),
           NEW from \in {"archive", "volume"}, NEW f \in Headers, NEW a,
           IF s = <<>> THEN w = IF from = "volume" THEN SeededBy(f) ELSE Unused
           ELSE /\ Known(w, s, from) /\ ~w.endSeen
                /\ f.channel \in SliceChannels => f.slice \in {w.slice, w.slice + 1},
           f.archive = Append(s, f)[1].archive,
           a = Accepted(w, f), Remember(w, f) \in Seq(Headers)
    PROVE  Known(a, Append(s, f), from)
<1> DEFINE t == Append(s, f)
           n == Len(s)
<1>1. /\ n \in Nat /\ Len(t) = n + 1 /\ t[n + 1] = f /\ t \in Seq(Headers)
      /\ DOMAIN t = 1 .. n + 1 /\ (s = <<>> <=> n = 0)
      /\ \A i \in 1 .. n : t[i] = s[i]
  <2>1. t = Append(s, f)
    OBVIOUS
  <2> HIDE DEF t
  <2> QED BY <2>1, AppendFacts
<1>2. f.channel \in SliceChannels \cup {"archive_end"} /\ f.slice \in Nat /\ w.slice \in Nat
    BY HeaderTypes DEF ValidatorStates
<1>3. /\ a.archive = t[1].archive /\ a.expected = t[Len(t)].seq + 1
    BY <1>1, AcceptedFields
<1>4. CASE f.channel = "archive_end"
  <2>1. a.endSeen /\ a.endSeen \in BOOLEAN
    <3>1. a \in ValidatorStates /\ a.endSeen
      BY <1>4, AcceptedFields
    <3> QED BY <3>1 DEF ValidatorStates
  <2>2. t[Len(t)].channel = "archive_end"
    BY <1>1, <1>4
  <2> HIDE DEF t
  <2> QED BY <1>3, <2>1, <2>2 DEF Known, t
<1>5. CASE f.channel \in SliceChannels
  <2>1. /\ a.endSeen = w.endSeen /\ a.anyFrame /\ a.slice = f.slice
        /\ a.seen[f.channel] /\ ~a.unknown[f.channel]
        /\ a.nextSeq[f.channel] = f.chSeq + 1
        /\ a.ended[f.channel] = f.end
    BY <1>5, AcceptedFields
  <2>2. ~w.endSeen /\ t[Len(t)].channel # "archive_end"
    <3>1. s = <<>> => ~w.endSeen
      BY UnusedFields
    <3>2. t[Len(t)].channel # "archive_end"
      BY <1>1, <1>5 DEF SliceChannels
    <3> QED BY <3>1, <3>2
  <2>3. \A m, c, i : i \in Earlier(t, m, c) <=>
            \/ i \in Earlier(s, m, c)
            \/ i = n + 1 /\ f.channel \in SliceChannels /\ f.slice = m /\ f.channel = c
    <3>1. \A i : i \in DataFrames(t)
             <=> i \in DataFrames(s) \/ (i = n + 1 /\ f.channel \in SliceChannels)
      BY AppendData
    <3>2. \A i \in DataFrames(s) : t[i] = s[i] /\ i # n + 1
      BY <1>1, DataFrameFacts
    <3> HIDE DEF t, n
    <3> QED BY <1>1, <3>1, <3>2 DEF Earlier
  <2>4. ChannelKnown(a, t, from, f.channel)
    <3>1. n + 1 \in Earlier(t, a.slice, f.channel)
      BY <1>5, <2>1, <2>3
    <3>2. \A k \in Earlier(t, a.slice, f.channel) : k <= n + 1
      BY <1>1, <2>3, DataFrameFacts
    <3>3. IsLastOf(t, a.slice, f.channel, n + 1) /\ n + 1 \in DOMAIN t
      BY <1>1, <3>1, <3>2 DEF IsLastOf
    <3> HIDE DEF t
    <3> QED BY <1>1, <2>1, <3>3 DEF ChannelKnown
  <2>5. \A i \in 1 .. n : t[i].slice <= a.slice
    <3>1. CASE s = <<>>
      BY <1>1, <3>1
    <3>2. CASE s # <<>>
      <4>1. \A i \in 1 .. n : s[i].slice <= w.slice /\ s[i].slice \in Nat
        BY <3>2, DataFrameFacts DEF Known, SliceKnown
      <4>2. f.slice >= w.slice
        BY <1>2, <1>5, <3>2
      <4> QED BY <1>1, <1>2, <2>1, <4>1, <4>2
    <3> QED BY <3>1, <3>2
  <2>6. \A i \in DOMAIN t : t[i].slice <= a.slice
    <3>1. t[n + 1].slice <= a.slice
      BY <1>1, <1>2, <2>1
    <3>2. \A i \in DOMAIN t : i \in 1 .. n \/ i = n + 1
      BY <1>1
    <3> HIDE DEF t, n
    <3> QED BY <2>5, <3>1, <3>2
  <2>7. ASSUME NEW c \in SliceChannels \ {f.channel} PROVE ChannelKnown(a, t, from, c)
    <3>1. Earlier(t, a.slice, c) = Earlier(s, f.slice, c)
      <4>1. \A i : i \in Earlier(t, a.slice, c) <=> i \in Earlier(s, f.slice, c)
        BY <2>1, <2>3
      <4> QED BY <4>1
    <3>2. IF ~w.anyFrame \/ f.slice = w.slice
          THEN /\ a.seen[c] = w.seen[c] /\ a.unknown[c] = w.unknown[c]
               /\ a.nextSeq[c] = w.nextSeq[c] /\ a.ended[c] = w.ended[c]
          ELSE /\ ~a.seen[c] /\ ~a.unknown[c]
               /\ a.nextSeq[c] = 0 /\ ~a.ended[c]
      BY <1>5, AcceptedFields
    <3>3. CASE s = <<>>
      <4>1. /\ ~w.anyFrame /\ ~w.seen[c] /\ ~w.ended[c] /\ w.nextSeq[c] = 0
            /\ w.unknown[c] = (from = "volume")
        <5>1. w = IF from = "volume" THEN SeededBy(f) ELSE Unused
          BY <3>3
        <5>2. \A d \in SliceChannels :
                 /\ ~w.seen[d] /\ ~w.ended[d] /\ w.nextSeq[d] = 0
                 /\ w.unknown[d] = (from = "volume")
          <6>1. CASE from = "volume"
            BY <5>1, <6>1 DEF SeededBy, Unused
          <6>2. CASE from = "archive"
            BY <5>1, <6>2 DEF Unused
          <6> QED BY <6>1, <6>2
        <5>3. ~w.anyFrame
          BY <5>1, UnusedFields
        <5> QED BY <5>2, <5>3
      <4>2. Earlier(s, f.slice, c) = {}
        BY <3>3 DEF Earlier, DataFrames
      <4>3. a.slice = t[1].slice
        BY <1>1, <2>1, <3>3
      <4> HIDE DEF t
      <4> QED BY <3>1, <3>2, <4>1, <4>2, <4>3 DEF ChannelKnown
    <3>4. CASE s # <<>> /\ f.slice = w.slice
      <4>1. ChannelKnown(w, s, from, c)
        BY <2>2, <3>4 DEF Known, SliceKnown
      <4>2. t[1] = s[1] /\ \A i \in DOMAIN s : t[i] = s[i] /\ i \in DOMAIN t
        BY <1>1, <3>4, DataFrameFacts
      <4>3. \A i : IsLastOf(t, a.slice, c, i) <=> IsLastOf(s, w.slice, c, i)
        BY <3>1, <3>4 DEF IsLastOf
      <4>4. /\ a.seen[c] = w.seen[c] /\ a.unknown[c] = w.unknown[c]
            /\ a.nextSeq[c] = w.nextSeq[c] /\ a.ended[c] = w.ended[c]
        BY <3>2, <3>4
      <4>5. CASE w.seen[c]
        <5>1. PICK i \in DOMAIN s : /\ IsLastOf(s, w.slice, c, i)
                                    /\ w.nextSeq[c] = s[i].chSeq + 1
                                    /\ w.ended[c] = s[i].end
          BY <4>1, <4>5 DEF ChannelKnown
        <5>2. /\ i \in DOMAIN t /\ IsLastOf(t, a.slice, c, i)
              /\ a.nextSeq[c] = t[i].chSeq + 1 /\ a.ended[c] = t[i].end
          BY <4>2, <4>3, <4>4, <5>1
        <5>3. a.seen[c] /\ ~a.unknown[c]
          BY <4>1, <4>4, <4>5 DEF ChannelKnown
        <5> HIDE DEF t
        <5> QED BY <5>2, <5>3 DEF ChannelKnown
      <4>6. CASE ~w.seen[c]
        <5>1. /\ Earlier(s, w.slice, c) = {} /\ w.nextSeq[c] = 0 /\ ~w.ended[c]
              /\ w.unknown[c] = (from = "volume" /\ w.slice = s[1].slice)
          BY <4>1, <4>6 DEF ChannelKnown
        <5> HIDE DEF t
        <5> QED BY <2>1, <3>1, <3>4, <4>2, <4>4, <4>6, <5>1 DEF ChannelKnown
      <4> QED BY <4>5, <4>6
    <3>5. CASE s # <<>> /\ f.slice # w.slice
      <4>1. f.slice = w.slice + 1 /\ w.anyFrame
        BY <1>5, <2>2, <3>5 DEF Known, SliceKnown
      <4>2. \A i \in 1 .. n : s[i].slice <= w.slice /\ s[i].slice \in Nat
        BY <2>2, <3>5, DataFrameFacts DEF Known, SliceKnown
      <4>3. \A i \in 1 .. n : f.slice # s[i].slice
        BY <1>2, <4>1, <4>2
      <4>4. Earlier(s, f.slice, c) = {} /\ t[1].slice # f.slice
        <5>1. 1 \in 1 .. n
          BY <1>1, <3>5
        <5> QED BY <1>1, <4>3, <5>1, DataFrameFacts
      <4> HIDE DEF t
      <4>5. ~a.seen[c] /\ ~a.unknown[c] /\ a.nextSeq[c] = 0 /\ ~a.ended[c]
        BY <3>2, <3>5, <4>1
      <4>6. a.unknown[c] \in BOOLEAN
        <5>1. a \in ValidatorStates
          BY AcceptedFields
        <5> HIDE DEF t
        <5> QED BY <5>1 DEF ValidatorStates
      <4>7. a.slice # t[1].slice
        BY <2>1, <4>4
      <4> QED BY <3>1, <4>4, <4>5, <4>6, <4>7 DEF ChannelKnown
    <3> QED BY <3>3, <3>4, <3>5
  <2>8. a.slice = t[Len(t)].slice
    BY <1>1, <2>1
  <2>9. \A c \in SliceChannels : ChannelKnown(a, t, from, c)
    BY <2>4, <2>7
  <2>10. SliceKnown(a, t, from)
    <3> HIDE DEF t
    <3> QED BY <2>1, <2>6, <2>8, <2>9 DEF SliceKnown
  <2>11. a.endSeen = (t[Len(t)].channel = "archive_end")
    <3>1. w.endSeen \in BOOLEAN
      BY DEF ValidatorStates
    <3> QED BY <2>1, <2>2, <3>1
  <2> HIDE DEF t
  <2> QED BY <1>3, <2>10, <2>11 DEF Known, t
<1> QED BY <1>2, <1>4, <1>5

-----------------------------------------------------------------------------
(* Steps. *)

LEMMA ReplayChanged ==
    ASSUME NEW w \in ValidatorStates, NEW r \in Nat, NEW a,
           a = [w EXCEPT !.replayNext = r]
    PROVE  /\ a \in ValidatorStates /\ a.replayNext = r /\ a.expected = w.expected
           /\ \A s, from : Known(w, s, from) => Known(a, s, from)
           /\ \A s : HistoryKnown(w, s) => HistoryKnown(a, s)
<1>1. a \in ValidatorStates /\ a.replayNext = r
    BY DEF ValidatorStates
<1>2. /\ a.archive = w.archive /\ a.expected = w.expected /\ a.endSeen = w.endSeen
      /\ a.anyFrame = w.anyFrame /\ a.slice = w.slice /\ a.nextSeq = w.nextSeq
      /\ a.seen = w.seen /\ a.ended = w.ended /\ a.unknown = w.unknown
      /\ a.history = w.history
    BY DEF ValidatorStates
<1>3. ASSUME NEW s, NEW from, NEW c, ChannelKnown(w, s, from, c)
      PROVE  ChannelKnown(a, s, from, c)
    BY <1>2, <1>3 DEF ChannelKnown
<1>4. \A s, from : SliceKnown(w, s, from) => SliceKnown(a, s, from)
    BY <1>2, <1>3 DEF SliceKnown
<1> QED BY <1>1, <1>2, <1>4 DEF Known, HistoryKnown

LEMMA PreparedKnown ==
    ASSUME FeedInv, NEW f \in Headers
    PROVE  /\ Prepared(f) \in ValidatorStates
           /\ HistoryKnown(Prepared(f), stream)
           /\ stream # <<>> => Prepared(f) = v /\ Known(v, stream, start)
           /\ stream = <<>> =>
                 /\ Prepared(f) = IF start = "volume" THEN SeededBy(f) ELSE Unused
                 /\ v = Unused /\ ~IsOld(Prepared(f), f)
<1>1. start \in {"archive", "volume"} /\ v \in ValidatorStates
    BY DEF FeedInv, TypeOK
<1>2. f.seq \in Nat /\ f.slice \in Nat
    BY HeaderTypes
<1>3. CASE stream # <<>> \/ start = "archive"
  <2>1. Prepared(f) = v
    BY <1>3 DEF Prepared
  <2>2. stream = <<>> => v = Unused /\ v.expected = 0
    BY DEF FeedInv, Unused
  <2> QED BY <1>1, <1>2, <1>3, <2>1, <2>2 DEF FeedInv, IsOld
<1>4. CASE stream = <<>> /\ start = "volume"
  <2>1. Prepared(f) = SeededBy(f) /\ v = Unused
    BY <1>4 DEF Prepared, FeedInv
  <2>2. Unused \in ValidatorStates
    BY <1>1, <2>1
  <2>3. SeededBy(f) \in ValidatorStates
    BY <1>2, <2>2 DEF SeededBy, ValidatorStates
  <2>4. SeededBy(f).expected = f.seq /\ SeededBy(f).history = <<>>
    BY <1>2, <2>2 DEF SeededBy, Unused
  <2> QED BY <1>2, <1>4, <2>1, <2>3, <2>4 DEF IsOld, HistoryKnown
<1> QED BY <1>1, <1>3, <1>4

\* The heart of it: outside a replay, the next frame is the one the stream
\* goes on well with.
LEMMA NextContinues ==
    ASSUME FeedInv, NEW f \in Headers, v.replayNext = NoReplay
    PROVE  IsNextRestored(Prepared(f), f) <=>
               Credible(f) /\ WellFormed(Append(stream, f), start)
<1>1. start \in {"archive", "volume"} /\ stream \in Seq(Headers) /\ WellFormed(stream, start)
      /\ v \in ValidatorStates
    BY DEF FeedInv, TypeOK
<1>2. WellFormed(Append(stream, f), start) <=> Continues(stream, f, start)
    BY <1>1, WellFormedExtends
<1>3. CASE stream = <<>>
    BY <1>1, <1>2, <1>3, PreparedKnown, FirstKnown
<1>4. CASE stream # <<>>
    BY <1>1, <1>2, <1>4, PreparedKnown, ContinuesKnown
<1> QED BY <1>3, <1>4

LEMMA AcceptOutsideReplay ==
    ASSUME FeedInv, NEW f \in Headers, IsNextRestored(Prepared(f), f)
    PROVE  v.replayNext = NoReplay /\ Prepared(f).replayNext = NoReplay
<1>1. Prepared(f).replayNext = NoReplay
    BY DEF IsNextRestored, IsNext, MayBeNew
<1>2. stream = <<>> => v.replayNext = NoReplay
    BY PreparedKnown DEF Unused
<1> QED BY <1>1, <1>2, PreparedKnown

LEMMA EmptyWellFormed == ASSUME NEW from PROVE WellFormed(<<>>, from)
    BY DEF WellFormed, DataFrames, ChannelsCount, ChannelsEnd

LEMMA FeedInitInv == Init => FeedInv
<1> SUFFICES ASSUME Init PROVE FeedInv
    OBVIOUS
<1>1. start \in {"archive", "volume"} /\ v = Unused /\ stream = <<>> /\ state = "open"
    BY DEF Init
<1>2. Unused \in ValidatorStates
  <2>1. <<>> \in Seq(Headers)
    OBVIOUS
  <2> QED BY <2>1 DEF Unused, ValidatorStates, NoReplay
<1>3. HistoryKnown(Unused, <<>>) /\ ReplayKnown(Unused)
    BY DEF HistoryKnown, ReplayKnown, Unused
<1>4. WellFormed(stream, start)
    BY <1>1, EmptyWellFormed
<1>5. stream \in Seq(Headers)
    BY <1>1
<1> QED BY <1>1, <1>2, <1>3, <1>4, <1>5 DEF FeedInv, TypeOK

LEMMA FeedAccept ==
    ASSUME FeedInv, NEW f \in Headers, Accept(f), UNCHANGED start PROVE FeedInv'
<1> DEFINE w == Prepared(f)
           t == Append(stream, f)
           a == Accepted(w, f)
<1>1. /\ start \in {"archive", "volume"} /\ stream \in Seq(Headers)
      /\ state \in {"open", "refused"} /\ t \in Seq(Headers)
    BY DEF FeedInv, TypeOK
<1>2. /\ v' = a /\ stream' = t /\ state' = state /\ start' = start
      /\ IsNextRestored(w, f)
    BY DEF Accept
<1>3. v.replayNext = NoReplay /\ w.replayNext = NoReplay
    BY <1>2, AcceptOutsideReplay
<1>4. WellFormed(t, start)
    BY <1>2, <1>3, NextContinues
<1>5. w \in ValidatorStates /\ HistoryKnown(w, stream)
    BY PreparedKnown
<1>6. /\ Remember(w, f) \in Seq(Headers)
      /\ \A i \in DOMAIN Remember(w, f) :
             /\ Intact(Remember(w, f)[i])
             /\ \E k \in DOMAIN t : Remember(w, f)[i] = t[k]
    BY <1>1, <1>5, RememberKnown
<1>7. a \in ValidatorStates /\ a.history = Remember(w, f) /\ a.replayNext = NoReplay
    BY <1>3, <1>5, <1>6, AcceptedFields
<1>8. t # <<>> /\ f.archive = t[1].archive
  <2>1. 1 \in DOMAIN t /\ Len(stream) + 1 \in DOMAIN t /\ t[Len(stream) + 1] = f
        /\ Len(stream) \in Nat
    BY <1>1, AppendFacts
  <2>2. \A i \in DOMAIN t : t[i].archive = t[1].archive
    BY <1>4 DEF WellFormed
  <2> QED BY <2>1, <2>2
<1>9. Known(a, t, start)
  <2>1. CASE stream = <<>>
    <3>1. w = IF start = "volume" THEN SeededBy(f) ELSE Unused
      BY <2>1, PreparedKnown
    <3> HIDE DEF w
    <3> QED BY <1>1, <1>5, <1>6, <1>8, <2>1, <3>1, KnownAccepted
  <2>2. CASE stream # <<>>
    <3>1. Known(w, stream, start)
      BY <2>2, PreparedKnown
    <3>2. ~w.endSeen
      BY <1>2 DEF IsNextRestored, IsNext
    <3>3. w.anyFrame
      BY <3>1, <3>2 DEF Known, SliceKnown
    <3>4. f.channel \in SliceChannels => f.slice \in {w.slice, w.slice + 1}
      BY <1>2, <3>3 DEF IsNextRestored, IsNext, SliceFollows, SliceChannels
    <3> HIDE DEF w
    <3> QED BY <1>1, <1>5, <1>6, <1>8, <2>2, <3>1, <3>2, <3>4, KnownAccepted
  <2> QED BY <2>1, <2>2
<1> HIDE DEF w, t, a
<1>10. TypeOK'
    BY <1>1, <1>2, <1>7 DEF TypeOK
<1>11. HistoryKnown(a, t) /\ ReplayKnown(a)
    BY <1>6, <1>7 DEF HistoryKnown, ReplayKnown
<1> QED BY <1>2, <1>4, <1>8, <1>9, <1>10, <1>11 DEF FeedInv

LEMMA FeedReplayChanged ==
    ASSUME FeedInv, NEW r \in Nat, v' = [v EXCEPT !.replayNext = r],
           r # NoReplay => r \in 1 .. v.expected - 1, stream # <<>> \/ r = NoReplay,
           UNCHANGED <<start, stream, state>>
    PROVE  FeedInv'
<1>1. v \in ValidatorStates
    BY DEF FeedInv, TypeOK
<1>2. /\ v' \in ValidatorStates /\ v'.replayNext = r /\ v'.expected = v.expected
      /\ Known(v, stream, start) => Known(v', stream, start)
      /\ HistoryKnown(v, stream) => HistoryKnown(v', stream)
  <2> DEFINE a == [v EXCEPT !.replayNext = r]
  <2>1. v' = a
    OBVIOUS
  <2>2. a = [v EXCEPT !.replayNext = r]
    OBVIOUS
  <2> HIDE DEF a
  <2>3. /\ a \in ValidatorStates /\ a.replayNext = r /\ a.expected = v.expected
        /\ Known(v, stream, start) => Known(a, stream, start)
        /\ HistoryKnown(v, stream) => HistoryKnown(a, stream)
    BY <1>1, <2>2, ReplayChanged
  <2> QED BY <2>1, <2>3
<1>3. stream = <<>> => v' = Unused
  <2> SUFFICES ASSUME stream = <<>> PROVE v' = Unused
    OBVIOUS
  <2>1. v' = [Unused EXCEPT !.replayNext = NoReplay]
    BY DEF FeedInv
  <2> QED BY <2>1 DEF Unused
<1>4. TypeOK'
    BY <1>2 DEF FeedInv, TypeOK
<1>5. ReplayKnown(v')
    BY <1>2 DEF ReplayKnown
<1> QED BY <1>2, <1>3, <1>4, <1>5 DEF FeedInv

LEMMA FeedStep == ASSUME FeedInv, [Next]_vars PROVE FeedInv'
<1>1. ASSUME NEW f \in Headers, Accept(f), UNCHANGED start PROVE FeedInv'
    BY <1>1, FeedAccept
<1>2. ASSUME NEW f \in Headers, Repeat(f), UNCHANGED start PROVE FeedInv'
  <2>1. stream # <<>> /\ Prepared(f) = v
    BY <1>2, PreparedKnown DEF Repeat, IsReplay
  <2>2. f.seq \in Nat /\ v.expected \in Nat /\ f.seq < v.expected
    BY <1>2, <2>1, HeaderTypes DEF Repeat, IsReplay, IsOld, FeedInv, TypeOK, ValidatorStates
  <2> DEFINE r == IF f.seq + 1 = v.expected THEN NoReplay ELSE f.seq + 1
  <2>3. v' = [v EXCEPT !.replayNext = r] /\ UNCHANGED <<start, stream, state>>
    BY <1>2 DEF Repeat, Replayed
  <2>4. r \in Nat /\ (r # NoReplay => r \in 1 .. v.expected - 1)
    BY <2>2 DEF NoReplay
  <2> HIDE DEF r
  <2> QED BY <2>1, <2>3, <2>4, FeedReplayChanged
<1>3. ASSUME NEW f \in Headers, Refuse(f), UNCHANGED start PROVE FeedInv'
    BY <1>3 DEF Refuse, FeedInv, TypeOK
<1>4. CASE Reconnect
  <2>1. v' = [v EXCEPT !.replayNext = NoReplay] /\ UNCHANGED <<start, stream, state>>
    BY <1>4 DEF Reconnect, BeginConnection
  <2>2. NoReplay \in Nat
    BY DEF NoReplay
  <2> QED BY <2>1, <2>2, FeedReplayChanged
<1>5. CASE UNCHANGED vars
    BY <1>5 DEF vars, FeedInv, TypeOK
<1> QED BY <1>1, <1>2, <1>3, <1>4, <1>5 DEF Next, Feed

THEOREM ValidatorKnows == Spec => []FeedInv
<1>1. FeedInv /\ [Next]_vars => FeedInv'
    BY FeedStep
<1> QED BY FeedInitInv, <1>1, PTL DEF Spec

-----------------------------------------------------------------------------

\* The validator accepts exactly the well-formed streams, however long they
\* are and however many frames could come next (FrameValidator::validate).
THEOREM AcceptsExactly == Spec => []AcceptsExactlyTheWellFormed
<1>1. FeedInv => AcceptsExactlyTheWellFormed
    BY NextContinues DEF AcceptsExactlyTheWellFormed
<1> QED BY <1>1, ValidatorKnows, PTL

\* A suppressed frame is a repetition of an accepted one
\* (FrameValidator::validate_replay).
THEOREM ReplaysRepeat == Spec => []ReplaysAreRepetitions
<1>1. ASSUME FeedInv PROVE ReplaysAreRepetitions
  <2> SUFFICES ASSUME NEW f \in Headers, IsReplay(v, f)
               PROVE  \E i \in DOMAIN stream : stream[i] = f
    BY DEF ReplaysAreRepetitions
  <2>1. Content(f) = f
    BY HeaderTypes DEF IsReplay
  <2>2. PICK i \in DOMAIN v.history : v.history[i] = f
    BY <2>1 DEF IsReplay, Remembers
  <2> QED BY <1>1, <2>2 DEF FeedInv, HistoryKnown
<1> QED BY <1>1, ValidatorKnows, PTL

\* No new frame is accepted before a replay has run to its end
\* (FrameValidator::validate, replay_next_).
THEOREM ReplayEnds == Spec => []ReplayEndsAtTheEnd
<1>1. ASSUME FeedInv PROVE ReplayEndsAtTheEnd
  <2> SUFFICES ASSUME v.replayNext # NoReplay
               PROVE  /\ v.replayNext \in 1 .. v.expected - 1
                      /\ \A f \in Headers : ~IsNextRestored(v, f)
                      /\ \A f \in Headers : IsReplay(v, f) => f.seq = v.replayNext
    BY DEF ReplayEndsAtTheEnd
  <2>1. v.replayNext \in 1 .. v.expected - 1
    BY <1>1 DEF FeedInv, ReplayKnown
  <2>2. \A f \in Headers : ~IsNextRestored(v, f)
    BY DEF IsNextRestored, IsNext, MayBeNew
  <2>3. \A f \in Headers : IsReplay(v, f) => f.seq = v.replayNext
    BY DEF IsReplay
  <2> QED BY <2>1, <2>2, <2>3
<1> QED BY <1>1, ValidatorKnows, PTL
=============================================================================
