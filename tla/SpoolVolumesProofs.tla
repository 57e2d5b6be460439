------------------------- MODULE SpoolVolumesProofs -------------------------
(***************************************************************************)
(* A spool directory for every archive and any number of sessions: a       *)
(* finished tape file is removed by --erase and by nothing else, however   *)
(* the sessions before it failed or were killed, and what has been         *)
(* acknowledged can be read back.                                          *)
(***************************************************************************)
EXTENDS SpoolVolumes, FiniteSetTheorems, FunctionTheorems,
        WellFoundedInduction, TLAPS

Shape ==
    /\ pending.num \in Nat
    /\ pending = [num |-> pending.num, records |-> pending.records]

Numbered ==
    /\ Shape
    /\ \A f \in files : f.num \in Nat
    /\ \E n \in Nat : \A f \in files : f.num < n

\* What is finished comes before the pending file; only when it has just
\* been renamed do both have one number, and then it holds nothing.
Behind(f) ==
    \/ f.num < pending.num
    \/ /\ f.num = pending.num /\ pending.records = <<>>
       /\ phase \in {"marked", "closing"}

SpoolInv ==
    /\ Numbered
    /\ mode \in {"default", "erase", "append"}
    /\ phase # "off" /\ mode # "erase" => \A f \in files : Behind(f)
    /\ phase = "erasing" /\ mode # "erase" => files = {}

-----------------------------------------------------------------------------
(* The number of the next file. *)

LEMMA Maximum ==
    ASSUME NEW S \in SUBSET Nat, S # {}, NEW n \in Nat, \A x \in S : x <= n
    PROVE  Max(S) \in S /\ \A x \in S : x <= Max(S)
<1> DEFINE U == {m \in Nat : \A x \in S : x <= m}
<1>1. \E m \in U : \A k \in U : ~ (<<k, m>> \in OpToRel(<, Nat))
  <2>1. U \subseteq Nat /\ U # {}
    OBVIOUS
  <2> HIDE DEF U
  <2> QED BY <2>1, NatLessThanWellFounded, WFMin
<1>2. PICK m \in U : \A k \in U : ~ (k < m)
    BY <1>1 DEF OpToRel
<1>3. m \in S
  <2> SUFFICES ASSUME m \notin S PROVE FALSE
    OBVIOUS
  <2>1. \A x \in S : x <= m - 1 /\ x \in Nat
    BY <1>2
  <2>2. m - 1 \in Nat
    <3>1. PICK x \in S : TRUE
      OBVIOUS
    <3>2. x \in Nat /\ x <= m - 1 /\ m \in Nat
      BY <1>2, <2>1
    <3> QED BY <3>2
  <2> QED BY <1>2, <2>1, <2>2
<1>4. \E x \in S : \A y \in S : x >= y
    BY <1>2, <1>3
<1> QED BY <1>4 DEF Max

LEMMA NextIsBehindNone ==
    ASSUME Numbered PROVE NextNumber \in Nat /\ \A f \in files : f.num < NextNumber
<1> DEFINE S == {0} \cup {f.num + 1 : f \in files}
<1>1. PICK n \in Nat : \A f \in files : f.num < n
    BY DEF Numbered
<1>2. S \in SUBSET Nat /\ S # {} /\ \A x \in S : x <= n
    BY <1>1 DEF Numbered
<1>3. Max(S) \in S /\ \A x \in S : x <= Max(S)
  <2> HIDE DEF S
  <2> QED BY <1>2, Maximum
<1>4. \A f \in files : f.num \in Nat /\ f.num + 1 <= Max(S)
    BY <1>3 DEF Numbered
<1>5. Max(S) \in Nat
    BY <1>2, <1>3
<1>6. NextNumber = Max(S)
    BY DEF NextNumber
<1> HIDE DEF S
<1> QED BY <1>4, <1>5, <1>6

-----------------------------------------------------------------------------
(* Steps. *)

LEMMA SpoolInitInv == SpoolInit => SpoolInv
    BY DEF SpoolInit, SpoolInv, Numbered, Shape, Empty

LEMMA EmptyNumber ==
    ASSUME NEW n
    PROVE  /\ Empty(n).num = n /\ Empty(n).records = <<>>
           /\ Empty(n) = [num |-> Empty(n).num, records |-> Empty(n).records]
    BY DEF Empty

LEMMA HasRecordsNotEmpty == HasRecords => pending.records # <<>>
    BY DEF HasRecords

\* A new file takes the number of the pending one.
LEMMA NumberedStep == ASSUME Numbered, [SpoolNext]_vars PROVE Numbered'
<1> USE DEF fileVars
<1>1. ASSUME files' \subseteq files \cup {Finished} PROVE
        /\ \A f \in files' : f.num \in Nat
        /\ \E n \in Nat : \A f \in files' : f.num < n
  <2>1. Finished.num = pending.num /\ pending.num \in Nat
    BY DEF Finished, Numbered, Shape
  <2>2. PICK n \in Nat : \A f \in files : f.num < n
    BY DEF Numbered
  <2>3. \A f \in files' : f.num \in Nat
    BY <1>1, <2>1 DEF Numbered
  <2>4. CASE pending.num < n
    BY <1>1, <2>1, <2>2, <2>3, <2>4
  <2>5. CASE ~ (pending.num < n)
    <3>1. \A f \in files' : f.num < pending.num + 1
      BY <1>1, <2>1, <2>2, <2>3, <2>5 DEF Numbered
    <3> QED BY <2>1, <2>3, <3>1
  <2> QED BY <2>4, <2>5
<1>2. files' \subseteq files \cup {Finished}
    BY DEF SpoolNext, vars, EraseFile, WriteMark, WriteFinalMark, Finalize, Close,
       Renamed, Open, RefuseToOverwrite, GoToEnd, Rewind, EraseEnds, InstallBundle,
       RemoveBundle, WriteRecord, WriteTorn, OpenNext, Stop, Kill, Abandon
<1>3. ASSUME NEW n \in Nat, pending' = Empty(n) PROVE Shape'
    BY <1>3, EmptyNumber DEF Shape
<1>4. ASSUME NEW r, pending' = [pending EXCEPT !.records = Append(@, r)] PROVE Shape'
    BY <1>4 DEF Numbered, Shape
<1>5. ASSUME UNCHANGED pending PROVE Shape'
    BY <1>5 DEF Numbered, Shape
<1>6. pending.num \in Nat /\ pending.num + 1 \in Nat /\ NextNumber \in Nat /\ 0 \in Nat
    BY NextIsBehindNone DEF Numbered, Shape
<1>7. Shape'
  <2>1. CASE WriteRecord \/ WriteTorn
    BY <1>4, <2>1 DEF WriteRecord, WriteTorn
  <2>2. CASE \E m \in {"default", "erase", "append"}, b \in BOOLEAN : Open(m, b)
    BY <1>3, <1>6, <2>2 DEF Open
  <2>3. CASE Rewind \/ EraseEnds \/ OpenNext \/ Close
    BY <1>3, <1>5, <1>6, <2>3 DEF Rewind, EraseEnds, OpenNext, Close
  <2>4. CASE WriteMark \/ WriteFinalMark
    BY <1>3, <1>5, <1>6, <2>4 DEF WriteMark, WriteFinalMark, Finalize
  <2>5. CASE \/ RefuseToOverwrite \/ GoToEnd \/ \E f \in files : EraseFile(f)
             \/ InstallBundle \/ RemoveBundle \/ Stop \/ Kill \/ Abandon
    BY <1>5, <2>5 DEF RefuseToOverwrite, GoToEnd, EraseFile, InstallBundle,
       RemoveBundle, Stop, Kill, Abandon
  <2> QED BY <1>5, <2>1, <2>2, <2>3, <2>4, <2>5 DEF SpoolNext, vars
<1> QED BY <1>1, <1>2, <1>7 DEF Numbered

LEMMA SpoolStep == ASSUME SpoolInv, [SpoolNext]_vars PROVE SpoolInv'
<1> USE DEF fileVars, sessionVars
<1>1. Numbered /\ Numbered'
    BY NumberedStep DEF SpoolInv
<1>2. CASE UNCHANGED <<files, pending, phase, mode>>
    BY <1>1, <1>2 DEF SpoolInv, Behind
<1>3. ASSUME UNCHANGED <<files, pending, mode>>, phase # "off",
             phase' = phase \/ phase \notin {"marked", "closing"},
             phase' # "erasing"
      PROVE  SpoolInv'
    BY <1>1, <1>3 DEF SpoolInv, Behind
<1>4. CASE \E m \in {"default", "erase", "append"}, b \in BOOLEAN : Open(m, b)
  <2>1. /\ pending'.num = NextNumber /\ files' = files /\ phase' = "opened"
        /\ mode' \in {"default", "erase", "append"}
    BY <1>4, EmptyNumber DEF Open
  <2> QED BY <1>1, <2>1, NextIsBehindNone DEF SpoolInv, Behind
<1>5. CASE RefuseToOverwrite \/ Kill
    BY <1>1, <1>5 DEF RefuseToOverwrite, Kill, SpoolInv
<1>6. CASE GoToEnd \/ InstallBundle \/ RemoveBundle \/ Stop
    BY <1>1, <1>3, <1>6 DEF GoToEnd, InstallBundle, RemoveBundle, Stop, SpoolInv
<1>7. CASE Rewind \/ EraseEnds \/ \E f \in files : EraseFile(f)
    BY <1>1, <1>7 DEF Rewind, EraseEnds, EraseFile, SpoolInv
<1>8. CASE WriteRecord \/ WriteTorn
  <2>1. /\ UNCHANGED <<files, mode>> /\ pending'.num = pending.num
        /\ phase = "writing" /\ phase' # "erasing"
    BY <1>1, <1>8 DEF WriteRecord, WriteTorn, Numbered, Shape
  <2> QED BY <1>1, <2>1 DEF SpoolInv, Behind
<1>9. CASE WriteMark \/ WriteFinalMark
  <2>1. CASE UNCHANGED <<files, pending>>
    BY <1>1, <1>9, <2>1 DEF WriteMark, WriteFinalMark, Finalize, SpoolInv, Behind
  <2>2. CASE files' = Renamed /\ pending' = Empty(pending.num)
    <3>1. /\ phase' \in {"marked", "closing"} /\ mode' = mode
          /\ phase \notin {"off", "marked", "closing"}
      BY <1>9, <2>2 DEF WriteMark, WriteFinalMark, Finalize
    <3>2. /\ pending'.num = pending.num /\ pending'.records = <<>>
          /\ files' \subseteq files \cup {Finished} /\ Finished.num = pending.num
      BY <2>2, EmptyNumber DEF Renamed, Finished
    <3> QED BY <1>1, <3>1, <3>2 DEF SpoolInv, Behind
  <2> QED BY <1>9, <2>1, <2>2 DEF WriteMark, WriteFinalMark, Finalize
<1>10. CASE OpenNext
  <2>1. CASE phase' = "closing" /\ UNCHANGED pending
    BY <1>1, <1>10, <2>1 DEF OpenNext, SpoolInv, Behind
  <2>2. CASE pending' = Empty(pending.num + 1)
    BY <1>1, <1>10, <2>2, EmptyNumber DEF OpenNext, SpoolInv, Behind, Numbered, Shape
  <2> QED BY <1>10, <2>1, <2>2 DEF OpenNext
<1>11. CASE Close
    BY <1>1, <1>11 DEF Close, SpoolInv
<1>12. CASE Abandon
    BY <1>2, <1>12 DEF Abandon
<1> QED BY <1>2, <1>4, <1>5, <1>6, <1>7, <1>8, <1>9, <1>10, <1>11, <1>12
        DEF SpoolNext, vars

-----------------------------------------------------------------------------

\* The numbering of the tape files, over all sessions.
THEOREM SpoolInvariant == SpoolSpec => []SpoolInv
    BY SpoolInitInv, SpoolStep, PTL DEF SpoolSpec

-----------------------------------------------------------------------------
(* The numbers of the files. *)

\* An erase that removed nothing of what it should or broke off is told by
\* these two words; then the numbers may be anything.
Erasures == departures \cap {"half erased", "not erased"}

InOrder == phase \notin {"off", "erasing"} => \A f \in files : Behind(f)

Upto(n) ==
    /\ {f.num : f \in files} = {k \in Nat : k < n}
    /\ \/ phase \in {"off", "erasing"}
       \/ pending.num = n /\ phase # "marked"
       \/ /\ pending.num + 1 = n /\ pending.records = <<>>
          /\ phase \in {"marked", "closing"}

Counted ==
    /\ "not erased" \notin Erasures =>
           InOrder /\ \A f, g \in files : f # g => f.num # g.num
    /\ Erasures = {} /\ phase # "erasing" => \E n \in Nat : Upto(n)

\* The files under a new session, or when the set of them stays.
LEMMA CountedStays ==
    ASSUME SpoolInv, Counted, UNCHANGED <<files, pending, Erasures>>,
           phase \notin {"off", "erasing"}, phase' # "erasing",
           \/ phase' \in {phase, "off"}
           \/ phase \notin {"marked", "closing"} /\ phase' # "marked"
    PROVE  Counted'
<1>1. ASSUME NEW n \in Nat, Upto(n) PROVE Upto(n)'
    BY <1>1 DEF Upto
<1>2. InOrder => InOrder'
    BY DEF InOrder, Behind
<1> QED BY <1>1, <1>2 DEF Counted

LEMMA Succ ==
    ASSUME NEW n \in Nat
    PROVE  n + 1 \in Nat /\ \A k \in Nat : k < n + 1 <=> k < n \/ k = n
    OBVIOUS

LEMMA Less ==
    ASSUME NEW n \in Nat, NEW k \in Nat, k < n PROVE k # n
    OBVIOUS

LEMMA CountedRenames ==
    ASSUME SpoolInv, Counted, UNCHANGED Erasures, files' = Renamed,
           phase \in {"writing", "final mark", "closing"}, pending.records # <<>>,
           \/ phase' \in {"marked", "closing"} /\ pending' = Empty(pending.num)
           \/ phase' = "off"
    PROVE  Counted'
<1>1. Finished.num = pending.num /\ pending.num \in Nat
    BY DEF Finished, SpoolInv, Numbered, Shape
<1>2. ASSUME "not erased" \notin Erasures
      PROVE  /\ \A f \in files : f.num < pending.num /\ f.num \in Nat
             /\ files' = files \cup {Finished}
  <2>1. \A f \in files : f.num < pending.num /\ f.num \in Nat
    BY <1>2 DEF Counted, InOrder, Behind, SpoolInv, Numbered
  <2>2. ASSUME NEW f \in files PROVE f.num # Finished.num
    <3>1. f.num < pending.num /\ f.num \in Nat
      BY <2>1
    <3> QED BY <1>1, <3>1, Less
  <2>3. Renamed = files \cup {Finished}
    BY <2>2 DEF Renamed
  <2> QED BY <2>1, <2>3
<1>3. ASSUME "not erased" \notin Erasures
      PROVE  InOrder' /\ \A f, g \in files' : f # g => f.num # g.num
  <2>1. InOrder'
    <3>1. CASE phase' = "off"
      BY <3>1 DEF InOrder
    <3>2. CASE phase' \in {"marked", "closing"} /\ pending' = Empty(pending.num)
      <4>1. pending'.num = pending.num /\ pending'.records = <<>>
        BY <3>2, EmptyNumber
      <4> QED BY <1>1, <1>2, <1>3, <3>2, <4>1 DEF InOrder, Behind
    <3> QED BY <3>1, <3>2
  <2>2. ASSUME NEW f \in files', NEW g \in files', f # g PROVE f.num # g.num
    <3>1. CASE f \in files /\ g \in files
      BY <1>3, <2>2, <3>1 DEF Counted
    <3>2. CASE f \in files /\ g = Finished
      <4>1. f.num < pending.num /\ f.num \in Nat
        BY <1>2, <1>3, <3>2
      <4> QED BY <1>1, <3>2, <4>1, Less
    <3>3. CASE g \in files /\ f = Finished
      <4>1. g.num < pending.num /\ g.num \in Nat
        BY <1>2, <1>3, <3>3
      <4> QED BY <1>1, <3>3, <4>1, Less
    <3> QED BY <1>2, <1>3, <2>2, <3>1, <3>2, <3>3
  <2> QED BY <2>1, <2>2
<1>4. ASSUME Erasures = {} PROVE \E n \in Nat : Upto(n)'
  <2>1. PICK n \in Nat : Upto(n)
    BY <1>4 DEF Counted
  <2>2. n = pending.num
    BY <2>1 DEF Upto
  <2>3. "not erased" \notin Erasures
    BY <1>4
  <2>4. {f.num : f \in files'} = {k \in Nat : k < n} \cup {n}
    BY <1>1, <1>2, <2>1, <2>2, <2>3 DEF Upto
  <2>5. {f.num : f \in files'} = {k \in Nat : k < n + 1} /\ n + 1 \in Nat
    <3>1. n + 1 \in Nat /\ \A k \in Nat : k < n + 1 <=> k < n \/ k = n
      BY <2>1, Succ
    <3>2. {k \in Nat : k < n} \cup {n} = {k \in Nat : k < n + 1}
      BY <2>1, <3>1
    <3> QED BY <2>4, <3>1, <3>2
  <2>6. \/ phase' = "off"
        \/ /\ phase' \in {"marked", "closing"}
           /\ pending'.num = n /\ pending'.records = <<>>
    BY <2>2, EmptyNumber
  <2>7. ASSUME NEW m \in Nat, m = n + 1 PROVE Upto(m)'
    BY <2>5, <2>6, <2>7 DEF Upto
  <2> QED BY <2>5, <2>7
<1> QED BY <1>3, <1>4 DEF Counted

LEMMA CountedOpens ==
    ASSUME SpoolInv, Counted, NEW m, NEW b, Open(m, b) PROVE Counted'
<1> USE DEF fileVars, sessionVars
<1>1. /\ pending'.num = NextNumber /\ files' = files /\ phase' = "opened"
      /\ phase = "off" /\ departures' = departures /\ ~Duplicate
    BY EmptyNumber DEF Open
<1>2. NextNumber \in Nat /\ \A f \in files : f.num < NextNumber
    BY NextIsBehindNone DEF SpoolInv
<1>3. ASSUME NEW n \in Nat, Upto(n) PROVE Upto(n)'
  <2> DEFINE S == {0} \cup {f.num + 1 : f \in files}
  <2>1. S = 0 .. n
    <3>1. \A f \in files : f.num \in Nat /\ f.num < n
      BY <1>3 DEF Upto
    <3>2. \A k \in Nat : k < n => \E f \in files : f.num = k
      BY <1>3 DEF Upto
    <3>3. ASSUME NEW k \in 1 .. n PROVE k \in S
      <4>1. k - 1 \in Nat /\ k - 1 < n
        BY <1>3
      <4>2. PICK f \in files : f.num = k - 1
        BY <3>2, <4>1
      <4>3. f.num + 1 = k
        BY <4>2
      <4> QED BY <4>3
    <3>4. S \subseteq 0 .. n
      BY <1>3, <3>1
    <3> HIDE DEF S
    <3>5. 0 .. n = {0} \cup 1 .. n
      BY <1>3
    <3>6. 0 \in S
      BY DEF S
    <3> QED BY <3>3, <3>4, <3>5, <3>6
  <2>2. NextNumber = Max(0 .. n)
    BY <2>1 DEF NextNumber
  <2>3. Max(0 .. n) = n
    <3>1. /\ 0 .. n \in SUBSET Nat /\ 0 .. n # {}
          /\ \A x \in 0 .. n : x <= n /\ n \in 0 .. n
      BY <1>3
    <3>2. Max(0 .. n) \in 0 .. n /\ \A x \in 0 .. n : x <= Max(0 .. n)
      BY <1>3, <3>1, Maximum
    <3> QED BY <1>3, <3>1, <3>2
  <2> QED BY <1>1, <1>3, <2>2, <2>3 DEF Upto
<1>4. InOrder'
    BY <1>1, <1>2 DEF InOrder, Behind
<1> QED BY <1>1, <1>3, <1>4 DEF Counted, Erasures, Duplicate

LEMMA CountedStep ==
    ASSUME SpoolInv, Counted, [SpoolNext]_vars PROVE Counted'
<1> USE DEF fileVars, sessionVars
<1>1. CASE UNCHANGED <<files, pending, phase, departures>>
  <2>1. \A n : Upto(n)' <=> Upto(n)
    BY <1>1 DEF Upto
  <2> QED BY <1>1, <2>1 DEF Counted, InOrder, Behind, Erasures
<1>2. CASE \E m \in {"default", "erase", "append"}, b \in BOOLEAN : Open(m, b)
    BY <1>2, CountedOpens
<1>3. CASE RefuseToOverwrite \/ GoToEnd \/ InstallBundle \/ RemoveBundle \/ Stop
    BY <1>3, CountedStays DEF Erasures, RefuseToOverwrite, GoToEnd, InstallBundle,
       RemoveBundle, Stop
<1>4. CASE Kill
  <2>1. files' = files /\ phase' = "off" /\ Erasures \subseteq Erasures'
    BY <1>4 DEF Kill, Erasures
  <2>2. ASSUME Erasures' = {} PROVE phase # "erasing"
    BY <1>4, <2>2 DEF Kill, Erasures
  <2>3. ASSUME NEW n \in Nat, Upto(n) PROVE Upto(n)'
    BY <2>1, <2>3 DEF Upto
  <2> QED BY <2>1, <2>2, <2>3 DEF Counted, InOrder
<1>5. CASE Rewind \/ \E f \in files : EraseFile(f)
    BY <1>5 DEF Rewind, EraseFile, Counted, InOrder, Erasures
<1>6. CASE EraseEnds
  <2>1. CASE files = {}
    <3>1. /\ files' = {} /\ pending'.num = 0
          /\ phase' \notin {"off", "erasing", "marked"}
      BY <1>6, <2>1, EmptyNumber DEF EraseEnds
    <3>2. ASSUME NEW n \in Nat, n = 0 PROVE Upto(n)'
      BY <3>1, <3>2 DEF Upto
    <3>3. \E n \in Nat : Upto(n)'
      BY <3>2
    <3>4. InOrder'
      BY <3>1 DEF InOrder
    <3> QED BY <3>1, <3>3, <3>4 DEF Counted
  <2>2. CASE files # {}
    BY <1>6, <2>2 DEF EraseEnds, Counted, Erasures
  <2> QED BY <2>1, <2>2
<1>7. CASE WriteRecord \/ WriteTorn
  <2>1. /\ UNCHANGED <<files, Erasures>> /\ pending'.num = pending.num
        /\ phase = "writing" /\ phase' \notin {"off", "erasing", "marked"}
    BY <1>7 DEF WriteRecord, WriteTorn, SpoolInv, Numbered, Shape, Erasures
  <2>2. ASSUME NEW n \in Nat, Upto(n) PROVE Upto(n)'
    BY <2>1, <2>2 DEF Upto
  <2> QED BY <2>1, <2>2 DEF Counted, InOrder, Behind, Erasures
<1>8. CASE WriteMark \/ WriteFinalMark
    BY <1>8, CountedStays, CountedRenames DEF Erasures, WriteMark, WriteFinalMark, Finalize
<1>9. CASE OpenNext
  <2>1. CASE phase' = "closing" /\ UNCHANGED pending
    <3>1. ASSUME NEW n \in Nat, Upto(n) PROVE Upto(n)'
      BY <1>9, <2>1, <3>1 DEF OpenNext, Upto
    <3>2. UNCHANGED <<files, Erasures>> /\ phase = "marked"
      BY <1>9 DEF OpenNext, Erasures
    <3> QED BY <2>1, <3>1, <3>2 DEF Counted, InOrder, Behind, Erasures
  <2>2. CASE phase' = "writing" /\ pending' = Empty(pending.num + 1)
    <3>1. UNCHANGED <<files, Erasures>> /\ phase = "marked"
      BY <1>9 DEF OpenNext, Erasures
    <3>2. pending'.num = pending.num + 1 /\ pending.num \in Nat
      BY <2>2, EmptyNumber DEF SpoolInv, Numbered, Shape
    <3>3. InOrder => InOrder'
      BY <2>2, <3>1, <3>2 DEF InOrder, Behind, SpoolInv, Numbered
    <3>4. ASSUME NEW n \in Nat, Upto(n) PROVE Upto(n)'
      BY <2>2, <3>1, <3>2, <3>4 DEF Upto
    <3> QED BY <2>2, <3>1, <3>3, <3>4 DEF Counted
  <2> QED BY <1>9, <2>1, <2>2 DEF OpenNext
<1>10. CASE Close
  <2>1. UNCHANGED Erasures /\ phase = "closing" /\ phase' = "off"
    BY <1>10 DEF Close, Erasures
  <2>2. CASE HasRecords /\ files' = Renamed
    BY <1>10, <2>1, <2>2, CountedRenames, HasRecordsNotEmpty
  <2>3. CASE UNCHANGED files
    <3>1. ASSUME NEW n \in Nat, Upto(n) PROVE Upto(n)'
      BY <2>1, <2>3, <3>1 DEF Upto
    <3> QED BY <2>1, <2>3, <3>1 DEF Counted, InOrder
  <2> QED BY <1>10, <2>2, <2>3 DEF Close
<1>11. CASE Abandon
    BY <1>1, <1>11 DEF Abandon
<1> QED BY <1>1, <1>2, <1>3, <1>4, <1>5, <1>6, <1>7, <1>8, <1>9, <1>10, <1>11
        DEF SpoolNext, vars

LEMMA InitCounted == SpoolInit => Counted
<1> SUFFICES ASSUME SpoolInit PROVE Counted
    OBVIOUS
<1>1. Upto(0)
    BY DEF SpoolInit, Upto, Empty
<1> QED BY <1>1 DEF SpoolInit, Counted, InOrder

LEMMA NumbersCount ==
    ASSUME SpoolInv, Counted, Erasures = {}, phase # "erasing"
    PROVE  {f.num : f \in files} = 0 .. Cardinality(files) - 1
<1>1. PICK n \in Nat : Upto(n)
    BY DEF Counted
<1>2. \A f, g \in files : f # g => f.num # g.num
    BY DEF Counted
<1> DEFINE F == [f \in files |-> f.num]
<1> DEFINE T == 0 .. n - 1
<1>3. {f.num : f \in files} = T
    BY <1>1 DEF Upto
<1>4. F \in Bijection(files, T)
  <2>1. F \in [files -> T]
    BY <1>3
  <2>2. \A t \in T : \E f \in files : F[f] = t
    BY <1>3
  <2>3. \A f, g \in files : F[f] = F[g] => f = g
    BY <1>2
  <2> HIDE DEF F, T
  <2> QED BY <2>1, <2>2, <2>3 DEF Bijection, Injection, Surjection, IsInjective
<1>5. ExistsBijection(T, files)
  <2>1. ExistsBijection(files, T)
    BY <1>4 DEF ExistsBijection
  <2> HIDE DEF T
  <2> QED BY <2>1, Fun_ExistsBijSymmetric
<1>7. IsFiniteSet(T) /\ Cardinality(T) = n
  <2>1. 0 \in Int /\ n - 1 \in Int /\ (0 > n - 1 <=> n = 0)
    BY <1>1
  <2> QED BY <1>1, <2>1, FS_Interval
<1>6. Cardinality(files) = n
  <2> HIDE DEF T
  <2> QED BY <1>5, <1>7, FS_Bijection
<1> QED BY <1>3, <1>6

\* What the readers rely on: unless an erase failed, no two finished files
\* have one number, and none is missing between the first and the last.
THEOREM NumbersWellFormed == SpoolSpec => []SpoolIsWellFormed
<1>1. SpoolInit => SpoolInv /\ Counted
    BY SpoolInitInv, InitCounted
<1>2. SpoolInv /\ Counted /\ [SpoolNext]_vars => SpoolInv' /\ Counted'
    BY SpoolStep, CountedStep
<1>3. SpoolInv /\ Counted => SpoolIsWellFormed
  <2> SUFFICES ASSUME SpoolInv, Counted PROVE SpoolIsWellFormed
    OBVIOUS
  <2>1. "not erased" \notin departures => ~Duplicate
    BY DEF Counted, Erasures, Duplicate
  <2> QED BY <2>1, NumbersCount DEF SpoolIsWellFormed, Erasures
<1> QED BY <1>1, <1>2, <1>3, PTL DEF SpoolSpec

-----------------------------------------------------------------------------
(* Finished files. *)

MayReplace == mode = "erase" /\ (phase = "erasing" \/ "not erased" \in departures)

\* No rename hits a file that was finished before.
LEMMA RenameKeeps ==
    ASSUME SpoolInv, Counted, ~MayReplace, phase \notin {"off", "erasing"},
           pending.records # <<>>, NEW f \in files
    PROVE  f \in Renamed
<1>1. Behind(f)
    BY DEF SpoolInv, Counted, InOrder, Erasures, MayReplace
<1>2. f.num # Finished.num
    BY <1>1 DEF SpoolInv, Behind, Finished, Numbered, Shape
<1> QED BY <1>2 DEF Renamed

LEMMA FinishedKept ==
    ASSUME SpoolInv, Counted, [SpoolNext]_vars, ~MayReplace, NEW f \in files
    PROVE  f \in files'
<1> USE DEF fileVars
<1>1. CASE UNCHANGED files
    BY <1>1
<1>2. CASE \E g \in files : EraseFile(g)
    BY <1>2 DEF EraseFile, SpoolInv, MayReplace
<1>3. CASE WriteMark
    BY <1>3, RenameKeeps DEF WriteMark, Finalize
<1>4. CASE WriteFinalMark
    BY <1>4, RenameKeeps DEF WriteFinalMark, Finalize
<1>5. CASE Close
    BY <1>5, RenameKeeps, HasRecordsNotEmpty DEF Close
<1>6. CASE \E m \in {"default", "erase", "append"}, b \in BOOLEAN : Open(m, b)
    BY <1>6 DEF Open
<1>7. CASE RefuseToOverwrite \/ GoToEnd \/ Rewind \/ EraseEnds
    BY <1>7 DEF RefuseToOverwrite, GoToEnd, Rewind, EraseEnds
<1>8. CASE InstallBundle \/ RemoveBundle \/ WriteRecord \/ WriteTorn \/ OpenNext
    BY <1>8 DEF InstallBundle, RemoveBundle, WriteRecord, WriteTorn, OpenNext
<1>9. CASE Stop \/ Kill \/ Abandon
    BY <1>9 DEF Stop, Kill, Abandon
<1> QED BY <1>1, <1>2, <1>3, <1>4, <1>5, <1>6, <1>7, <1>8, <1>9
        DEF SpoolNext, vars

\* No session but one started with --erase removes or overwrites a tape file
\* that was finished, and that one only while it erases or when it could not
\* erase everything, for every archive and any number of sessions that were
\* refused, failed, ran out of space or were killed.
THEOREM FinishedFilesSurvive == SpoolSpec => FinishedFilesStay
<1>1. SpoolInit => SpoolInv /\ Counted
    BY SpoolInitInv, InitCounted
<1>2. SpoolInv /\ Counted /\ [SpoolNext]_vars => SpoolInv' /\ Counted'
    BY SpoolStep, CountedStep
<1>3. SpoolInv /\ Counted /\ [SpoolNext]_vars =>
          [\A f \in files :
              \/ f \in files'
              \/ mode = "erase" /\ (phase = "erasing" \/ "not erased" \in departures)]_vars
    BY FinishedKept DEF MayReplace
<1> QED BY <1>1, <1>2, <1>3, PTL DEF SpoolSpec, FinishedFilesStay

-----------------------------------------------------------------------------
(* Where the acknowledged records are. *)

\* No record has been lost in one of the ways that have a name.
Intact == departures \subseteq {"half erased"}

Kept == UNION {Range(f.records) : f \in files}

Readable ==
    /\ \E S : pending.records \in Seq(S)
    /\ Torn \notin acked
    /\ phase \notin {"closing", "off"} => Torn \notin Range(pending.records)
    /\ Intact =>
           /\ \A f \in files : ~Torns(f)
           /\ phase \in {"writing", "final mark", "closing"} =>
                  acked \subseteq Kept \cup Range(pending.records)
           /\ phase \notin {"writing", "final mark", "closing"} =>
                  acked \subseteq Kept

\* The record a step has just written, or any, at the end of the file.
LEMMA RangeGrows ==
    ASSUME NEW S, NEW q \in Seq(S), NEW e
    PROVE  /\ Append(q, e) \in Seq(S \cup {e})
           /\ Range(Append(q, e)) = Range(q) \cup {e}
<1>1. q \in Seq(S \cup {e}) /\ e \in S \cup {e}
    OBVIOUS
<1> DEFINE r == Append(q, e)
<1>2. /\ r \in Seq(S \cup {e}) /\ Len(q) \in Nat /\ DOMAIN q = 1 .. Len(q)
      /\ DOMAIN r = 1 .. Len(q) + 1 /\ r[Len(q) + 1] = e
      /\ \A i \in 1 .. Len(q) : r[i] = q[i]
    BY <1>1
<1> HIDE DEF r
<1>3. 1 .. Len(q) + 1 = (1 .. Len(q)) \cup {Len(q) + 1}
    BY <1>2
<1> QED BY <1>2, <1>3 DEF r, Range

LEMMA RangeOfEmpty ==
    \A n : Range(Empty(n).records) = {} /\ Empty(n).records \in Seq({})
    BY DEF Range, Empty

LEMMA RecordIsWhole == Record # Torn
    BY DEF Record, Torn

\* A file without a whole record holds nothing that was acknowledged.
LEMMA OnlyTorn == ASSUME ~HasRecords PROVE Range(pending.records) \subseteq {Torn}
    BY DEF HasRecords, Range

\* No finished file is replaced while none has been left by an erase.
LEMMA RenameAdds ==
    ASSUME SpoolInv, Counted, Intact, phase \notin {"off", "erasing"},
           pending.records # <<>>
    PROVE  Renamed = files \cup {Finished}
<1>1. "not erased" \notin Erasures
    BY DEF Intact, Erasures
<1>2. \A f \in files : f.num < pending.num /\ f.num \in Nat
    BY <1>1 DEF Counted, InOrder, Behind, SpoolInv, Numbered
<1>3. Finished.num = pending.num /\ pending.num \in Nat
    BY DEF Finished, SpoolInv, Numbered, Shape
<1>4. ASSUME NEW f \in files PROVE f.num # Finished.num
    BY <1>2, <1>3, Less
<1> QED BY <1>4 DEF Renamed

\* What a rename keeps: the records of the pending file among the others.
LEMMA ReadableRenamed ==
    ASSUME SpoolInv, Counted, Readable, Intact, files' = Renamed,
           phase \in {"writing", "final mark", "closing"}, pending.records # <<>>,
           Torn \notin Range(pending.records)
    PROVE  /\ \A f \in files' : ~Torns(f)
           /\ acked \subseteq Kept'
<1>1. files' = files \cup {Finished}
    BY RenameAdds
<1>2. Finished.records = pending.records
    BY DEF Finished
<1>3. Kept' = Kept \cup Range(pending.records)
    BY <1>1, <1>2 DEF Kept
<1>4. acked \subseteq Kept \cup Range(pending.records)
    BY DEF Readable
<1>5. \A f \in files' : ~Torns(f)
    BY <1>1, <1>2 DEF Readable, Torns
<1> QED BY <1>3, <1>4, <1>5

LEMMA ReadableMoves ==
    ASSUME Readable, UNCHANGED <<files, acked, departures, pending>>,
           phase \in {"writing", "final mark", "closing"} =>
               phase' \in {"writing", "final mark", "closing"},
           phase \in {"closing", "off"} => phase' \in {"closing", "off"}
    PROVE  Readable'
<1>1. Kept' = Kept /\ Intact' = Intact /\ \A f : Torns(f)' = Torns(f)
    BY DEF Kept, Intact, Torns
<1> QED BY <1>1 DEF Readable

LEMMA ReadableEmpties ==
    ASSUME Readable, UNCHANGED <<files, acked, departures>>,
           NEW n, pending' = Empty(n),
           phase \notin {"writing", "final mark", "closing"}
    PROVE  Readable'
<1>1. Kept' = Kept /\ Intact' = Intact /\ \A f : Torns(f)' = Torns(f)
    BY DEF Kept, Intact, Torns
<1>2. Range(pending'.records) = {} /\ pending'.records \in Seq({})
    BY RangeOfEmpty
<1> QED BY <1>1, <1>2 DEF Readable

\* The destructor, in each way the file may go.
LEMMA ReadableClosed ==
    ASSUME SpoolInv, Counted, Readable, Close PROVE Readable'
<1> USE DEF fileVars, sessionVars, streamVars
<1>1. /\ phase = "closing" /\ phase' = "off" /\ UNCHANGED acked
      /\ pending' = Empty(0) /\ departures \subseteq departures'
    BY DEF Close
<1>2. Range(pending'.records) = {} /\ pending'.records \in Seq({})
    BY <1>1, RangeOfEmpty
<1>3. ASSUME Intact' PROVE (\A f \in files' : ~Torns(f)') /\ acked' \subseteq Kept'
  <2>1. Intact
    BY <1>1, <1>3 DEF Intact
  <2>2. CASE /\ HasRecords /\ files' = Renamed
             /\ departures' = departures \cup
                    (IF Torn \in Range(pending.records) THEN {"torn"} ELSE {})
    <3>1. Torn \notin Range(pending.records)
      <4>1. "torn" \notin departures'
        BY <1>3 DEF Intact
      <4> QED BY <2>2, <4>1
    <3>2. (\A f \in files' : ~Torns(f)) /\ acked \subseteq Kept'
      BY <1>1, <2>1, <2>2, <3>1, ReadableRenamed, HasRecordsNotEmpty
    <3> QED BY <1>1, <3>2 DEF Torns
  <2>3. CASE departures' = departures \cup {"removed"}
    BY <1>3, <2>3 DEF Intact
  <2>4. CASE ~HasRecords /\ UNCHANGED files
    <3>1. acked \subseteq Kept \cup Range(pending.records) /\ Torn \notin acked
      BY <1>1, <2>1 DEF Readable
    <3>2. acked \subseteq Kept
      BY <2>4, <3>1, OnlyTorn
    <3> QED BY <1>1, <2>1, <2>4, <3>2 DEF Readable, Kept, Torns
  <2> QED BY <2>2, <2>3, <2>4 DEF Close
<1> QED BY <1>1, <1>2, <1>3 DEF Readable

LEMMA ReadableKilled == ASSUME Readable, Kill PROVE Readable'
<1> USE DEF fileVars, sessionVars, streamVars
<1>1. /\ phase' = "off"
      /\ UNCHANGED <<files, pending, acked>>
      /\ departures \subseteq departures'
    BY DEF Kill
<1>2. ASSUME Intact' PROVE Intact /\ acked \subseteq Kept
  <2>1. Intact /\ ~HasRecords
    BY <1>1, <1>2 DEF Intact, Kill
  <2>2. acked \subseteq Kept \cup Range(pending.records) /\ Torn \notin acked
    BY <2>1 DEF Readable
  <2> QED BY <2>1, <2>2, OnlyTorn
<1>3. Kept' = Kept /\ \A f : Torns(f)' = Torns(f)
    BY <1>1 DEF Kept, Torns
<1> QED BY <1>1, <1>2, <1>3 DEF Readable

LEMMA ReadableMarked ==
    ASSUME SpoolInv, Counted, Readable, WriteMark \/ WriteFinalMark PROVE Readable'
<1> USE DEF fileVars, sessionVars, streamVars
<1>1. /\ phase \in {"writing", "final mark"} /\ UNCHANGED <<acked, departures>>
    BY DEF WriteMark, WriteFinalMark
<1>2. CASE phase' = "closing" /\ UNCHANGED <<files, pending>>
    BY <1>1, <1>2, ReadableMoves
<1>3. CASE /\ pending.records # <<>> /\ files' = Renamed
           /\ pending' = Empty(pending.num) /\ phase' \in {"marked", "closing"}
  <2>1. Range(pending'.records) = {} /\ pending'.records \in Seq({})
    BY <1>3, RangeOfEmpty
  <2>2. Torn \notin Range(pending.records)
    BY <1>1 DEF Readable
  <2>3. Intact => (\A f \in files' : ~Torns(f)) /\ acked \subseteq Kept'
    BY <1>1, <1>3, <2>2, ReadableRenamed
  <2>4. \A f : Torns(f)' = Torns(f)
    BY DEF Torns
  <2> QED BY <1>1, <1>3, <2>1, <2>3, <2>4 DEF Readable, Intact
<1> QED BY <1>2, <1>3 DEF WriteMark, WriteFinalMark, Finalize

LEMMA ReadableWritten ==
    ASSUME SpoolInv, Readable, WriteRecord \/ WriteTorn PROVE Readable'
<1> USE DEF fileVars, sessionVars, streamVars
<1>1. phase = "writing" /\ UNCHANGED <<files, departures>>
    BY DEF WriteRecord, WriteTorn
<1>2. PICK S : pending.records \in Seq(S)
    BY DEF Readable
<1>3. Kept' = Kept /\ Intact' = Intact /\ \A f : Torns(f)' = Torns(f)
    BY <1>1 DEF Kept, Intact, Torns
<1>4. ASSUME NEW e, pending' = [pending EXCEPT !.records = Append(@, e)]
      PROVE  /\ pending'.records \in Seq(S \cup {e})
             /\ Range(pending'.records) = Range(pending.records) \cup {e}
  <2>1. pending'.records = Append(pending.records, e)
    BY <1>4 DEF SpoolInv, Numbered, Shape
  <2>2. /\ Append(pending.records, e) \in Seq(S \cup {e})
        /\ Range(Append(pending.records, e)) = Range(pending.records) \cup {e}
    BY <1>2, RangeGrows
  <2> QED BY <2>1, <2>2
<1>5. CASE WriteRecord
  <2>1. /\ pending' = [pending EXCEPT !.records = Append(@, Record)]
        /\ acked' = acked \cup {Record} /\ phase' \in {"writing", "final mark"}
    BY <1>1, <1>5 DEF WriteRecord
  <2>2. PICK e : e = Record
    OBVIOUS
  <2>3. /\ \E T : pending'.records \in Seq(T)
        /\ Range(pending'.records) = Range(pending.records) \cup {e}
    BY <1>4, <2>1, <2>2
  <2> QED BY <1>1, <1>3, <2>1, <2>2, <2>3, RecordIsWhole DEF Readable
<1>6. CASE WriteTorn
  <2>1. /\ pending' = [pending EXCEPT !.records = Append(@, Torn)]
        /\ acked' = acked /\ phase' = "closing"
    BY <1>6 DEF WriteTorn
  <2>2. /\ \E T : pending'.records \in Seq(T)
        /\ Range(pending'.records) = Range(pending.records) \cup {Torn}
    BY <1>4, <2>1
  <2> QED BY <1>1, <1>3, <2>1, <2>2 DEF Readable
<1> QED BY <1>5, <1>6

LEMMA ReadableErased ==
    ASSUME SpoolInv, Readable, EraseEnds \/ \E f \in files : EraseFile(f)
    PROVE  Readable'
<1> USE DEF fileVars, sessionVars, streamVars
<1>1. CASE EraseEnds
  <2>1. pending' = Empty(0) /\ acked' = {} /\ UNCHANGED files
    BY <1>1 DEF EraseEnds
  <2>2. Range(pending'.records) = {} /\ pending'.records \in Seq({})
    BY <2>1, RangeOfEmpty
  <2>3. Intact' => files = {}
    BY <1>1 DEF EraseEnds, Intact
  <2> QED BY <2>1, <2>2, <2>3 DEF Readable
<1>2. CASE \E f \in files : EraseFile(f)
  <2>1. PICK f \in files : EraseFile(f)
    BY <1>2
  <2>2. /\ phase = "erasing" /\ UNCHANGED <<pending, phase, departures>>
        /\ files' = files \ {f} /\ acked' = acked \ Range(f.records)
    BY <2>1 DEF EraseFile
  <2>3. Kept \subseteq Kept' \cup Range(f.records)
    BY <2>2 DEF Kept
  <2>4. \A g : Torns(g)' = Torns(g)
    BY DEF Torns
  <2> QED BY <2>2, <2>3, <2>4 DEF Readable, Intact
<1> QED BY <1>1, <1>2

LEMMA ReadableStep ==
    ASSUME SpoolInv, Counted, Readable, [SpoolNext]_vars PROVE Readable'
<1> USE DEF fileVars, sessionVars, streamVars
<1>1. CASE UNCHANGED <<files, acked, departures, pending, phase>>
    BY <1>1, ReadableMoves
<1>2. CASE \E m \in {"default", "erase", "append"}, b \in BOOLEAN : Open(m, b)
    BY <1>2, ReadableEmpties DEF Open
<1>3. CASE Rewind
    BY <1>3, ReadableEmpties DEF Rewind
<1>4. CASE RefuseToOverwrite \/ GoToEnd \/ InstallBundle \/ RemoveBundle \/ Stop
    BY <1>4, ReadableMoves DEF RefuseToOverwrite, GoToEnd, InstallBundle,
       RemoveBundle, Stop
<1>5. CASE OpenNext
  <2>1. phase = "marked" /\ UNCHANGED <<files, acked, departures>>
    BY <1>5 DEF OpenNext
  <2>2. CASE phase' = "closing" /\ UNCHANGED pending
    BY <2>1, <2>2, ReadableMoves
  <2>3. CASE pending' = Empty(pending.num + 1)
    BY <2>1, <2>3, ReadableEmpties
  <2> QED BY <1>5, <2>2, <2>3 DEF OpenNext
<1> QED BY <1>1, <1>2, <1>3, <1>4, <1>5, ReadableClosed, ReadableKilled,
           ReadableMarked, ReadableWritten, ReadableErased
        DEF SpoolNext, vars, Abandon

\* Between sessions the reader gets back what was acknowledged and not
\* erased, for every archive and any number of sessions, unless the directory
\* lost a record in one of the ways "departures" names: in particular no
\* session overwrites or hides what an earlier one has stored.
THEOREM AcknowledgedIsReadable == SpoolSpec => []AckedAreReadable
<1>1. SpoolInit => SpoolInv /\ Counted /\ Readable
  <2> SUFFICES ASSUME SpoolInit PROVE SpoolInv /\ Counted /\ Readable
    OBVIOUS
  <2>1. Range(pending.records) = {} /\ pending.records \in Seq({})
    BY RangeOfEmpty DEF SpoolInit
  <2>2. Readable
    BY <2>1 DEF SpoolInit, Readable
  <2> QED BY <2>2, SpoolInitInv, InitCounted
<1>2. SpoolInv /\ Counted /\ Readable /\ [SpoolNext]_vars =>
          SpoolInv' /\ Counted' /\ Readable'
    BY SpoolStep, CountedStep, ReadableStep
<1>3. SpoolInv /\ Counted /\ Readable => AckedAreReadable
  <2> SUFFICES ASSUME Counted, Readable, phase = "off",
                      departures \subseteq {"half erased"}
               PROVE  acked \subseteq ReadBack
    BY DEF AckedAreReadable
  <2>1. ~Duplicate
    BY DEF Counted, Erasures, Duplicate
  <2>2. /\ \A f \in files : ~Torns(f)
        /\ acked \subseteq Kept /\ Torn \notin acked
    BY DEF Readable, Intact
  <2>3. ReadBack = UNION {Range(f.records) \ {Torn} : f \in files}
    BY <2>1, <2>2 DEF ReadBack
  <2>4. ASSUME NEW r \in acked PROVE r \in ReadBack
    <3>1. PICK f \in files : r \in Range(f.records)
      BY <2>2 DEF Kept
    <3>2. r # Torn
      BY <2>2
    <3> DEFINE part == Range(f.records) \ {Torn}
    <3>3. part \in {Range(g.records) \ {Torn} : g \in files} /\ r \in part
      BY <3>1, <3>2
    <3> HIDE DEF part
    <3> QED BY <2>3, <3>3
  <2> QED BY <2>4
<1> QED BY <1>1, <1>2, <1>3, PTL DEF SpoolSpec
=============================================================================
