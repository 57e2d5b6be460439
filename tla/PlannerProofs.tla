---------------------------- MODULE PlannerProofs ----------------------------
(***************************************************************************)
(* That neotape-plan with I/O threads plans as it does without, and that   *)
(* what it has written at any moment is in the order the archiver needs.   *)
(***************************************************************************)
EXTENDS Planner, FiniteSetTheorems, SequenceTheorems, TLAPS

-----------------------------------------------------------------------------
(* Types. *)

Devices == {Device[e] : e \in Entries}
Dirs == [path : Entries, device : Devices]
Frames == [left : Seq(Entries), device : Devices, waiting : Entries \cup {None}]

WalkTypes ==
    /\ scanned \in Nat /\ frontier \in Seq(Dirs) /\ stack \in Seq(Frames)

Outcomes == [index : Nat, error : BOOLEAN]

PoolTypes ==
    /\ jobs \in Seq(Nat) /\ results \in Seq(Outcomes)
    /\ held \in [Threads -> Outcomes \cup {None}]
    /\ submitted \in Nat /\ received \in Seq(Nat) /\ listing \in Seq(Entries)

LEMMA OneIsSeq ==
    ASSUME NEW S, NEW e \in S
    PROVE  <<e>> \in Seq(S)
OBVIOUS

\* The frame on top is replaced.
LEMMA TopReplaced ==
    ASSUME stack \in Seq(Frames), stack # <<>>, NEW frame \in Frames,
           NEW s, s = [stack EXCEPT ![1] = frame]
    PROVE  /\ s \in Seq(Frames) /\ Len(s) = Len(stack)
           /\ s[1] = frame
           /\ \A k \in 1 .. Len(stack) : k = 1 \/ s[k] = stack[k]
<1>1. 1 \in 1 .. Len(stack)
  OBVIOUS
<1> QED BY <1>1, ExceptSeq

LEMMA RootTypes ==
    ASSUME WalkTypes, ScanRoot
    PROVE  WalkTypes'
<1> DEFINE root == Sources[scanned + 1]
<1>1. root \in Entries
  BY ScanAssumption DEF WalkTypes, ScanRoot
<1>2. CASE root \in gone
  BY <1>2 DEF ScanRoot, WalkTypes
<1>3. CASE root \notin gone
  <2>1. /\ scanned' = scanned + 1 /\ UNCHANGED stack
        /\ \/ frontier' = <<[path |-> root, device |-> Device[root]]>>
           \/ frontier' = <<>>
    BY <1>3 DEF ScanRoot
  <2> DEFINE dir == [path |-> root, device |-> Device[root]]
  <2> HIDE DEF root
  <2>2. dir \in Dirs
    BY <1>1 DEF Dirs, Devices
  <2> HIDE DEF dir
  <2>3. frontier' \in Seq(Dirs)
    <3>1. CASE frontier' = <<dir>>
      BY <3>1, <2>2, OneIsSeq
    <3>2. CASE frontier' = <<>>
      BY <3>2
    <3> QED BY <2>1, <3>1, <3>2 DEF dir
  <2> QED BY <2>1, <2>3 DEF WalkTypes
<1> QED BY <1>2, <1>3

LEMMA DescendTypes ==
    ASSUME WalkTypes, NEW dir \in Dirs, NEW s \in Seq(Entries), frontier # <<>>,
           Descend(dir, s)
    PROVE  WalkTypes'
<1> DEFINE frame == [left |-> s, device |-> dir.device, waiting |-> None]
<1>1. frame \in Frames
  BY DEF Frames, Dirs
<1>2. /\ frontier' = Tail(frontier) /\ stack' = <<frame>> \o stack
      /\ UNCHANGED scanned
  BY DEF Descend
<1> HIDE DEF frame
<1>3. stack' \in Seq(Frames)
  BY <1>1, <1>2 DEF WalkTypes
<1> QED BY <1>2, <1>3 DEF WalkTypes

\* The frame on top with one name less.
Walked(next) ==
    [left |-> Tail(stack[1].left), device |-> stack[1].device, waiting |-> next]

LEMMA WalkedFrame ==
    ASSUME WalkTypes, stack # <<>>, stack[1].left # <<>>,
           NEW next \in Entries \cup {None}
    PROVE  /\ stack[1] \in Frames /\ 1 \in DOMAIN stack /\ Walked(next) \in Frames
           /\ stack[1].waiting = next
                  => [stack EXCEPT ![1].left = Tail(@)] =
                         [stack EXCEPT ![1] = Walked(next)]
           /\ [stack EXCEPT ![1].left = Tail(@), ![1].waiting = next] =
                  [stack EXCEPT ![1] = Walked(next)]
<1>1. stack[1] \in Frames /\ 1 \in DOMAIN stack
  BY DEF WalkTypes
<1>2. Walked(next) \in Frames
  BY <1>1 DEF Frames, Walked
<1> DEFINE half == [stack EXCEPT ![1].left = Tail(@)]
<1>3. half[1] = Walked(stack[1].waiting)
  <2>1. half[1] = [stack[1] EXCEPT !.left = Tail(stack[1].left)]
    BY <1>1
  <2> QED BY <1>1, <2>1 DEF Frames, Walked
<1>4. half = [stack EXCEPT ![1] = Walked(stack[1].waiting)]
  BY <1>1, <1>3
<1>5. [stack EXCEPT ![1].left = Tail(@), ![1].waiting = next] =
          [half EXCEPT ![1].waiting = next]
  OBVIOUS
<1>6. [half EXCEPT ![1].waiting = next] = [stack EXCEPT ![1] = Walked(next)]
  <2>1. 1 \in DOMAIN half /\ [half[1] EXCEPT !.waiting = next] = Walked(next)
    <3>1. 1 \in DOMAIN half
      BY <1>1
    <3>2. [Walked(stack[1].waiting) EXCEPT !.waiting = next] = Walked(next)
      BY DEF Walked
    <3> HIDE DEF half
    <3> QED BY <1>3, <3>1, <3>2
  <2>2. [half EXCEPT ![1].waiting = next] = [half EXCEPT ![1] = Walked(next)]
    BY <2>1
  <2>3. [half EXCEPT ![1] = Walked(next)] = [stack EXCEPT ![1] = Walked(next)]
    BY <1>4
  <2> QED BY <2>2, <2>3
<1> QED BY <1>1, <1>2, <1>4, <1>5, <1>6

LEMMA SkipTypes ==
    ASSUME WalkTypes, SkipChild
    PROVE  /\ WalkTypes' /\ Walked(None) \in Frames
           /\ stack' = [stack EXCEPT ![1] = Walked(None)]
<1>1. /\ stack # <<>> /\ stack[1].left # <<>> /\ stack[1].waiting = None
      /\ stack' = [stack EXCEPT ![1].left = Tail(@)]
      /\ UNCHANGED <<scanned, frontier>>
  BY DEF SkipChild, Walking
<1>2. Walked(None) \in Frames /\ stack' = [stack EXCEPT ![1] = Walked(None)]
  BY <1>1, WalkedFrame
<1>3. stack' \in Seq(Frames)
  BY <1>1, <1>2, TopReplaced DEF WalkTypes
<1> QED BY <1>1, <1>2, <1>3 DEF WalkTypes

\* The child at hand.
Child == Head(stack[1].left)

LEMMA ChildIsEntry ==
    ASSUME WalkTypes, Walking
    PROVE  /\ stack[1] \in Frames /\ Child \in Entries
           /\ Resolve(Child).path = Child
<1>1. stack # <<>> /\ stack[1].left # <<>>
  BY DEF Walking
<1>2. stack[1] \in Frames
  BY <1>1 DEF WalkTypes
<1>3. Child \in Entries
  BY <1>1, <1>2 DEF Frames, Child
<1> QED BY <1>2, <1>3 DEF Resolve

\* The directory that the child at hand is, or None.
NextDirectory == IF Resolve(Child).kind = "d" THEN Resolve(Child).path ELSE None

LEMMA AddTypes ==
    ASSUME WalkTypes, AddChild
    PROVE  /\ WalkTypes' /\ Walked(NextDirectory) \in Frames
           /\ stack' = [stack EXCEPT ![1] = Walked(NextDirectory)]
<1>1. /\ Walking /\ stack # <<>> /\ stack[1].left # <<>>
      /\ stack' = [stack EXCEPT ![1].left = Tail(@), ![1].waiting = NextDirectory]
      /\ UNCHANGED <<scanned, frontier>>
  BY DEF AddChild, Walking, Child, NextDirectory
<1>2. NextDirectory \in Entries \cup {None}
  BY <1>1, ChildIsEntry DEF NextDirectory
<1>3. /\ Walked(NextDirectory) \in Frames
      /\ stack' = [stack EXCEPT ![1] = Walked(NextDirectory)]
  BY <1>1, <1>2, WalkedFrame
<1>4. stack' \in Seq(Frames)
  BY <1>1, <1>3, TopReplaced DEF WalkTypes
<1> QED BY <1>1, <1>3, <1>4 DEF WalkTypes

\* The frame on top when its directory is in the frontier.
Enqueued == [left |-> stack[1].left, device |-> stack[1].device, waiting |-> None]

LEMMA EnqueueTypes ==
    ASSUME WalkTypes, EnqueueDirectory
    PROVE  /\ WalkTypes' /\ Enqueued \in Frames
           /\ stack' = [stack EXCEPT ![1] = Enqueued]
<1> DEFINE dir == [path |-> stack[1].waiting, device |-> stack[1].device]
<1>1. /\ stack # <<>> /\ stack[1].waiting # None
      /\ frontier' = Append(frontier, dir)
      /\ stack' = [stack EXCEPT ![1].waiting = None]
      /\ UNCHANGED scanned
  BY DEF EnqueueDirectory
<1>2. stack[1] \in Frames
  BY <1>1 DEF WalkTypes
<1>3. dir \in Dirs /\ Enqueued \in Frames
  BY <1>1, <1>2 DEF Frames, Dirs, Enqueued
<1>4. stack' = [stack EXCEPT ![1] = Enqueued]
  <2>1. [stack[1] EXCEPT !.waiting = None] = Enqueued /\ 1 \in DOMAIN stack
    <3>1. 1 \in DOMAIN stack
      BY <1>1 DEF WalkTypes
    <3>2. stack[1] = [left |-> stack[1].left, device |-> stack[1].device,
                      waiting |-> stack[1].waiting]
      BY <1>2 DEF Frames
    <3>3. [[left |-> stack[1].left, device |-> stack[1].device,
            waiting |-> stack[1].waiting] EXCEPT !.waiting = None] = Enqueued
      BY DEF Enqueued
    <3> QED BY <3>1, <3>2, <3>3
  <2> QED BY <1>1, <2>1
<1> HIDE DEF dir
<1>5. frontier' \in Seq(Dirs)
  BY <1>1, <1>3 DEF WalkTypes
<1>6. stack' \in Seq(Frames)
  BY <1>1, <1>3, <1>4, TopReplaced DEF WalkTypes
<1> QED BY <1>1, <1>3, <1>4, <1>5, <1>6 DEF WalkTypes

LEMMA DoneTypes ==
    ASSUME WalkTypes, DirectoryDone
    PROVE  WalkTypes'
  BY DEF WalkTypes, DirectoryDone

-----------------------------------------------------------------------------
(* What sorted_children returns. *)

\* The k-th number of a finite set is one of them.
LEMMA InOrderFacts ==
    ASSUME NEW n \in Nat, NEW I \in SUBSET (1 .. n)
    PROVE  /\ Cardinality(I) \in Nat
           /\ \A k \in 1 .. Cardinality(I) : InOrder(I)[k] \in I
<1> DEFINE below(m) == {i \in I : i < m}
           c == Cardinality(I)
           rank == [m \in I |-> Cardinality(below(m))]
<1>1. IsFiniteSet(I) /\ c \in Nat
  <2>1. IsFiniteSet(1 .. n)
    BY FS_Interval
  <2>2. IsFiniteSet(I)
    BY <2>1, FS_Subset
  <2> QED BY <2>2, FS_CardinalityType
<1>2. ASSUME NEW m \in I
      PROVE  Cardinality(below(m)) \in 0 .. c - 1
  <2>1. below(m) \in SUBSET I /\ below(m) # I
    <3>1. m \notin below(m)
      OBVIOUS
    <3> QED BY <3>1
  <2>2. /\ IsFiniteSet(below(m)) /\ Cardinality(below(m)) <= c
        /\ Cardinality(below(m)) # c
    BY <1>1, <2>1, FS_Subset
  <2>3. Cardinality(below(m)) \in Nat
    BY <2>2, FS_CardinalityType
  <2> HIDE DEF below, c
  <2> QED BY <1>1, <2>2, <2>3
<1>3. ASSUME NEW l \in I, NEW m \in I, l < m
      PROVE  Cardinality(below(l)) # Cardinality(below(m))
  <2>1. below(l) \in SUBSET below(m)
    <3>1. \A i \in I : i < l => i < m
      BY <1>3
    <3> QED BY <3>1
  <2>2. l \in below(m) /\ l \notin below(l)
    BY <1>3
  <2>3. IsFiniteSet(below(m))
    <3>1. below(m) \in SUBSET I
      OBVIOUS
    <3> QED BY <1>1, <3>1, FS_Subset
  <2> HIDE DEF below
  <2> QED BY <2>1, <2>2, <2>3, FS_Subset
<1>4. rank \in Injection(I, 0 .. c - 1)
  <2>1. rank \in [I -> 0 .. c - 1]
    BY <1>2
  <2>2. ASSUME NEW l \in I, NEW m \in I, rank[l] = rank[m] PROVE l = m
    <3>1. l \in Nat /\ m \in Nat
      OBVIOUS
    <3>2. Cardinality(below(l)) = Cardinality(below(m))
      BY <2>2
    <3> HIDE DEF below
    <3>3. ~(l < m) /\ ~(m < l)
      BY <1>3, <3>2
    <3> QED BY <3>1, <3>3
  <2> HIDE DEF rank
  <2> QED BY <2>1, <2>2 DEF Injection, IsInjective
<1>5. IsFiniteSet(0 .. c - 1) /\ Cardinality(0 .. c - 1) = c
  <2>1. 0 \in Int /\ c - 1 \in Int /\ (IF 0 > c - 1 THEN 0 ELSE c - 1 - 0 + 1) = c
    BY <1>1
  <2> QED BY <2>1, FS_Interval
<1>6. rank \in Surjection(I, 0 .. c - 1)
  BY <1>4, <1>5, FS_Injection
<1>7. ASSUME NEW k \in 1 .. c
      PROVE  (CHOOSE m \in I : Cardinality(below(m)) = k - 1) \in I
  <2>1. k - 1 \in 0 .. c - 1
    BY <1>1
  <2>2. PICK m \in I : rank[m] = k - 1
    <3> HIDE DEF rank, c
    <3> QED BY <1>6, <2>1 DEF Surjection
  <2>3. Cardinality(below(m)) = k - 1
    BY <2>2
  <2> QED BY <2>3
<1> QED BY <1>1, <1>7 DEF InOrder

\* What is read of a directory is made of names in it.
LEMMA ListingFacts ==
    ASSUME NEW d \in Entries, NEW s \in Listings(d)
    PROVE  /\ s \in Seq(Entries) /\ Children[d] \in Seq(Entries)
           /\ \A i \in 1 .. Len(s) : s[i] \in Range(Children[d])
<1> DEFINE names == Children[d]
<1>1. names \in Seq(Entries) /\ Len(names) \in Nat /\ DOMAIN names = 1 .. Len(names)
  BY ScanAssumption
<1>2. PICK I \in SUBSET DOMAIN names :
          s = [k \in DOMAIN InOrder(I) |-> names[InOrder(I)[k]]]
  BY DEF Listings
<1> HIDE DEF names
<1>3. /\ Cardinality(I) \in Nat
      /\ \A k \in 1 .. Cardinality(I) : InOrder(I)[k] \in DOMAIN names
  BY <1>1, InOrderFacts
<1>4. DOMAIN InOrder(I) = 1 .. Cardinality(I)
  BY DEF InOrder
<1>5. s = [k \in 1 .. Cardinality(I) |-> names[InOrder(I)[k]]]
  BY <1>2, <1>4
<1>6. \A k \in 1 .. Cardinality(I) : names[InOrder(I)[k]] \in Entries
  BY <1>1, <1>3
<1>7. s \in Seq(Entries) /\ Len(s) = Cardinality(I)
  BY <1>3, <1>5, <1>6
<1>8. \A k \in 1 .. Len(s) : s[k] \in Range(names)
  BY <1>3, <1>5, <1>7 DEF Range
<1> QED BY <1>1, <1>7, <1>8 DEF names

-----------------------------------------------------------------------------
(* Each submitted index is in one place, once. *)

InRange ==
    /\ \A i \in 1 .. Len(jobs) : jobs[i] \in 1 .. submitted
    /\ \A w \in Threads : held[w] # None => held[w].index \in 1 .. submitted
    /\ \A i \in 1 .. Len(results) : results[i].index \in 1 .. submitted
    /\ \A i \in 1 .. Len(received) : received[i] \in 1 .. submitted

OncePerPlace ==
    /\ \A i, j \in 1 .. Len(jobs) : jobs[i] = jobs[j] => i = j
    /\ \A v, w \in Threads :
           held[v] # None /\ held[w] # None /\ held[v].index = held[w].index
               => v = w
    /\ \A i, j \in 1 .. Len(results) :
           results[i].index = results[j].index => i = j
    /\ \A i, j \in 1 .. Len(received) : received[i] = received[j] => i = j

OnePlace ==
    /\ \A i \in 1 .. Len(jobs), w \in Threads :
           held[w] # None => jobs[i] # held[w].index
    /\ \A i \in 1 .. Len(jobs), j \in 1 .. Len(results) :
           jobs[i] # results[j].index
    /\ \A i \in 1 .. Len(jobs), j \in 1 .. Len(received) : jobs[i] # received[j]
    /\ \A w \in Threads, i \in 1 .. Len(results) :
           held[w] # None => held[w].index # results[i].index
    /\ \A w \in Threads, i \in 1 .. Len(received) :
           held[w] # None => held[w].index # received[i]
    /\ \A i \in 1 .. Len(results), j \in 1 .. Len(received) :
           results[i].index # received[j]

\* What is being collected is the directory that one thread would read next.
Collecting ==
    /\ collecting = None => submitted = 0 /\ received = <<>>
    /\ collecting # None =>
           /\ Calls /\ collecting = Head(frontier)
           /\ listing \in Listings(collecting.path) /\ submitted <= Count

PoolInv ==
    /\ WalkTypes /\ PoolTypes
    /\ outcome = None => InRange /\ OncePerPlace /\ OnePlace /\ Collecting

LEMMA InitPool == PlannerInit => PoolInv
<1> SUFFICES ASSUME PlannerInit PROVE PoolInv
  OBVIOUS
<1>1. WalkTypes
  BY DEF PlannerInit, ScanInit, WalkTypes
<1>2. PoolTypes
  BY DEF PlannerInit, PoolTypes
<1>3. InRange /\ OncePerPlace /\ OnePlace /\ Collecting
  BY DEF PlannerInit, InRange, OncePerPlace, OnePlace, Collecting
<1> QED BY <1>1, <1>2, <1>3 DEF PoolInv

LEMMA HeadFacts ==
    ASSUME NEW S, NEW q \in Seq(S), q # <<>>
    PROVE  /\ Head(q) \in S /\ Head(q) = q[1]
           /\ Len(q) \in Nat /\ 1 \in 1 .. Len(q)
           /\ Tail(q) \in Seq(S) /\ Len(Tail(q)) = Len(q) - 1
           /\ \A i \in 1 .. Len(Tail(q)) :
                  i + 1 \in 1 .. Len(q) /\ Tail(q)[i] = q[i + 1]
OBVIOUS

LEMMA AppendFacts ==
    ASSUME NEW S, NEW q \in Seq(S), NEW e \in S
    PROVE  /\ Append(q, e) \in Seq(S) /\ Len(Append(q, e)) = Len(q) + 1
           /\ Len(q) \in Nat
           /\ \A i \in 1 .. Len(Append(q, e)) :
                  \/ i \in 1 .. Len(q) /\ Append(q, e)[i] = q[i]
                  \/ i = Len(q) + 1 /\ Append(q, e)[i] = e
OBVIOUS

LEMMA TakeKeeps ==
    ASSUME PoolInv, NEW w \in Threads, Take(w)
    PROVE  PoolInv'
<1> DEFINE new == [index |-> Head(jobs), error |-> FALSE]
<1>1. /\ outcome = None /\ outcome' = None /\ held[w] = None /\ jobs # <<>>
      /\ held' = [held EXCEPT ![w] = new] /\ jobs' = Tail(jobs)
      /\ UNCHANGED <<scanVars, results, collecting, listing, submitted, received>>
  BY DEF Take
<1>2. PoolTypes /\ WalkTypes /\ InRange /\ OncePerPlace /\ OnePlace /\ Collecting
  BY <1>1 DEF PoolInv
<1>3. /\ jobs' \in Seq(Nat) /\ Head(jobs) \in Nat /\ Head(jobs) = jobs[1]
      /\ 1 \in 1 .. Len(jobs) /\ Len(jobs) \in Nat
      /\ \A i \in 1 .. Len(jobs') : i + 1 \in 1 .. Len(jobs) /\ jobs'[i] = jobs[i + 1]
  BY <1>1, <1>2, HeadFacts DEF PoolTypes
<1>4. new \in Outcomes /\ new.index = jobs[1]
  BY <1>3 DEF Outcomes
<1> HIDE DEF new
<1>5. /\ held' \in [Threads -> Outcomes \cup {None}]
      /\ \A v \in Threads : held'[v] = IF v = w THEN new ELSE held[v]
  BY <1>1, <1>2, <1>4 DEF PoolTypes
<1>6. PoolTypes' /\ WalkTypes'
  BY <1>1, <1>2, <1>3, <1>5 DEF PoolTypes, WalkTypes, scanVars
<1>7. InRange'
  BY <1>1, <1>2, <1>3, <1>4, <1>5 DEF InRange
<1>8. OncePerPlace'
  BY <1>1, <1>2, <1>3, <1>4, <1>5 DEF OncePerPlace, OnePlace
<1>9. OnePlace'
  BY <1>1, <1>2, <1>3, <1>4, <1>5 DEF OncePerPlace, OnePlace
<1>10. Collecting'
  BY <1>1, <1>2 DEF Collecting, scanVars, Calls, Count, Listings
<1> QED BY <1>6, <1>7, <1>8, <1>9, <1>10 DEF PoolInv

LEMMA ThrowKeeps ==
    ASSUME PoolInv, NEW w \in Threads, Throw(w)
    PROVE  PoolInv'
<1>1. /\ outcome = None /\ outcome' = None /\ held[w] # None
      /\ held' = [held EXCEPT ![w].error = TRUE]
      /\ UNCHANGED <<scanVars, jobs, results, collecting, listing, submitted, received>>
  BY DEF Throw
<1>2. PoolTypes /\ WalkTypes /\ InRange /\ OncePerPlace /\ OnePlace /\ Collecting
  BY <1>1 DEF PoolInv
<1>3. held[w] \in Outcomes
  BY <1>1, <1>2 DEF PoolTypes
<1>4. /\ held' \in [Threads -> Outcomes \cup {None}]
      /\ \A v \in Threads \ {w} : held'[v] = held[v]
      /\ held'[w].index = held[w].index
  BY <1>1, <1>2, <1>3 DEF PoolTypes, Outcomes
<1>5. PoolTypes' /\ WalkTypes'
  BY <1>1, <1>2, <1>4 DEF PoolTypes, WalkTypes, scanVars
<1>6. /\ \A v \in Threads : held'[v] # None => held[v] # None
      /\ \A v \in Threads : held'[v].index = held[v].index
  BY <1>1, <1>4
<1>7. InRange'
  BY <1>1, <1>2, <1>6 DEF InRange
<1>8. OncePerPlace'
  BY <1>1, <1>2, <1>6 DEF OncePerPlace
<1>9. OnePlace'
  BY <1>1, <1>2, <1>6 DEF OnePlace
<1>10. Collecting'
  BY <1>1, <1>2 DEF Collecting, scanVars, Calls, Count, Listings
<1> QED BY <1>5, <1>7, <1>8, <1>9, <1>10 DEF PoolInv

LEMMA PushKeeps ==
    ASSUME PoolInv, NEW w \in Threads, Push(w)
    PROVE  PoolInv'
<1>1. /\ outcome = None /\ outcome' = None /\ held[w] # None
      /\ held' = [held EXCEPT ![w] = None]
      /\ results' = Append(results, held[w])
      /\ UNCHANGED <<scanVars, jobs, collecting, listing, submitted, received>>
  BY DEF Push
<1>2. PoolTypes /\ WalkTypes /\ InRange /\ OncePerPlace /\ OnePlace /\ Collecting
  BY <1>1 DEF PoolInv
<1>3. held[w] \in Outcomes
  BY <1>1, <1>2 DEF PoolTypes
<1>4. /\ held' \in [Threads -> Outcomes \cup {None}]
      /\ \A v \in Threads : held'[v] = IF v = w THEN None ELSE held[v]
  BY <1>1, <1>2 DEF PoolTypes
<1>5. /\ results' \in Seq(Outcomes)
      /\ \A i \in 1 .. Len(results') :
             \/ i \in 1 .. Len(results) /\ results'[i] = results[i]
             \/ i = Len(results) + 1 /\ results'[i] = held[w]
  BY <1>1, <1>2, <1>3, AppendFacts DEF PoolTypes
<1>6. PoolTypes' /\ WalkTypes'
  BY <1>1, <1>2, <1>4, <1>5 DEF PoolTypes, WalkTypes, scanVars
<1>7. InRange'
  BY <1>1, <1>2, <1>4, <1>5 DEF InRange
<1>8. OncePerPlace'
  BY <1>1, <1>2, <1>4, <1>5 DEF OncePerPlace, OnePlace
<1>9. OnePlace'
  BY <1>1, <1>2, <1>4, <1>5 DEF OncePerPlace, OnePlace
<1>10. Collecting'
  BY <1>1, <1>2 DEF Collecting, scanVars, Calls, Count, Listings
<1> QED BY <1>6, <1>7, <1>8, <1>9, <1>10 DEF PoolInv

\* Whatever a step does when the queues are closed, only types remain.
LEMMA ReturnKeeps ==
    ASSUME PoolInv, NEW w \in Threads, Return(w)
    PROVE  PoolInv'
<1>1. /\ outcome # None /\ outcome' = outcome
      /\ held' = [held EXCEPT ![w] = None]
      /\ UNCHANGED <<scanVars, jobs, results, listing, submitted, received>>
  BY DEF Return
<1>2. PoolTypes' /\ WalkTypes'
  BY <1>1 DEF PoolInv, PoolTypes, WalkTypes, scanVars
<1> QED BY <1>1, <1>2 DEF PoolInv

LEMMA BeginKeeps ==
    ASSUME PoolInv, Begin
    PROVE  PoolInv'
<1>1. /\ Calls /\ collecting = None /\ outcome = None /\ outcome' = None
      /\ collecting' = Head(frontier) /\ listing' \in Listings(Head(frontier).path)
      /\ submitted' = 0 /\ received' = <<>>
      /\ UNCHANGED <<scanVars, jobs, results, held>>
  BY DEF Begin
<1>2. PoolTypes /\ WalkTypes /\ InRange /\ OncePerPlace /\ OnePlace /\ Collecting
  BY <1>1 DEF PoolInv
<1>3. submitted = 0 /\ received = <<>>
  BY <1>1, <1>2 DEF Collecting
<1>4. listing' \in Seq(Entries) /\ Count' \in Nat
  <2>1. Head(frontier) \in Dirs
    BY <1>1, <1>2 DEF Calls, WalkTypes
  <2>2. Head(frontier).path \in Entries
    BY <2>1 DEF Dirs
  <2>3. listing' \in Seq(Entries)
    BY <1>1, <2>2, ListingFacts
  <2> QED BY <2>3 DEF Count
<1>5. PoolTypes' /\ WalkTypes'
  BY <1>1, <1>2, <1>3, <1>4 DEF PoolTypes, WalkTypes, scanVars
<1>6. InRange' /\ OncePerPlace' /\ OnePlace'
  BY <1>1, <1>2, <1>3 DEF InRange, OncePerPlace, OnePlace
<1>7. Calls' /\ Head(frontier)' = Head(frontier)
  BY <1>1 DEF Calls, scanVars
<1>8. Collecting'
  <2>1. submitted' <= Count'
    BY <1>1, <1>4
  <2>2. Listings(collecting.path)' = Listings(Head(frontier).path)
    BY <1>1 DEF Listings
  <2> QED BY <1>1, <1>7, <2>1, <2>2 DEF Collecting
<1> QED BY <1>5, <1>6, <1>8 DEF PoolInv

LEMMA SubmitKeeps ==
    ASSUME PoolInv, Submit
    PROVE  PoolInv'
<1>1. /\ collecting # None /\ outcome = None /\ outcome' = None /\ Submits
      /\ jobs' = Append(jobs, submitted + 1) /\ submitted' = submitted + 1
      /\ UNCHANGED <<scanVars, results, held, collecting, listing, received>>
  BY DEF Submit
<1>2. PoolTypes /\ WalkTypes /\ InRange /\ OncePerPlace /\ OnePlace /\ Collecting
  BY <1>1 DEF PoolInv
<1>3. submitted \in Nat /\ submitted + 1 \in Nat
  BY <1>2 DEF PoolTypes
<1>4. /\ jobs' \in Seq(Nat)
      /\ \A i \in 1 .. Len(jobs') :
             \/ i \in 1 .. Len(jobs) /\ jobs'[i] = jobs[i]
             \/ i = Len(jobs) + 1 /\ jobs'[i] = submitted + 1
  BY <1>1, <1>2, <1>3, AppendFacts DEF PoolTypes
<1>5. PoolTypes' /\ WalkTypes'
  BY <1>1, <1>2, <1>3, <1>4 DEF PoolTypes, WalkTypes, scanVars
<1>6. submitted + 1 \notin 1 .. submitted /\ 1 .. submitted \subseteq 1 .. submitted'
  BY <1>1, <1>3
<1>7. InRange'
  <2>1. submitted + 1 \in 1 .. submitted'
    BY <1>1, <1>3
  <2> QED BY <1>1, <1>2, <1>4, <1>6, <2>1 DEF InRange
<1>8. OncePerPlace'
  BY <1>1, <1>2, <1>4, <1>6 DEF OncePerPlace, InRange
<1>9. OnePlace'
  BY <1>1, <1>2, <1>4, <1>6 DEF OnePlace, InRange
<1>10. Collecting'
  <2>1. /\ Calls' /\ Head(frontier)' = Head(frontier) /\ Count' = Count
        /\ Listings(collecting.path)' = Listings(collecting.path)
    BY <1>1, <1>2 DEF Collecting, Calls, scanVars, Count, Listings
  <2>2. Count \in Nat
    BY <1>2 DEF Count, PoolTypes
  <2>3. submitted + 1 <= Count
    BY <1>1, <1>3, <2>2 DEF Submits
  <2> QED BY <1>1, <1>2, <2>1, <2>3 DEF Collecting
<1> QED BY <1>5, <1>7, <1>8, <1>9, <1>10 DEF PoolInv

LEMMA ReceiveKeeps ==
    ASSUME PoolInv, Receive
    PROVE  PoolInv'
<1>1. /\ collecting # None /\ outcome = None /\ results # <<>>
      /\ results' = Tail(results)
      /\ UNCHANGED <<scanVars, jobs, held, collecting, listing, submitted>>
  BY DEF Receive
<1>2. PoolTypes /\ WalkTypes /\ InRange /\ OncePerPlace /\ OnePlace /\ Collecting
  BY <1>1 DEF PoolInv
<1>3. /\ Head(results) \in Outcomes /\ Head(results) = results[1]
      /\ 1 \in 1 .. Len(results) /\ Len(results) \in Nat /\ results' \in Seq(Outcomes)
      /\ \A i \in 1 .. Len(results') :
             i + 1 \in 1 .. Len(results) /\ results'[i] = results[i + 1]
  BY <1>1, <1>2, HeadFacts DEF PoolTypes
<1>4. CASE Head(results).error
  <2>1. outcome' = "failed" /\ UNCHANGED received
    BY <1>4 DEF Receive
  <2>2. PoolTypes' /\ WalkTypes'
    BY <1>1, <1>2, <1>3, <2>1 DEF PoolTypes, WalkTypes, scanVars
  <2>3. outcome' # None
    BY <2>1, PoolAssumption
  <2> QED BY <2>2, <2>3 DEF PoolInv
<1>5. CASE ~Head(results).error
  <2> DEFINE new == Head(results).index
  <2>1. received' = Append(received, new) /\ outcome' = None
    BY <1>1, <1>5 DEF Receive
  <2>2. new \in Nat /\ new = results[1].index
    BY <1>3 DEF Outcomes
  <2> HIDE DEF new
  <2>3. /\ received' \in Seq(Nat)
        /\ \A i \in 1 .. Len(received') :
               \/ i \in 1 .. Len(received) /\ received'[i] = received[i]
               \/ i = Len(received) + 1 /\ received'[i] = new
    BY <1>2, <2>1, <2>2, AppendFacts DEF PoolTypes
  <2>4. PoolTypes' /\ WalkTypes'
    BY <1>1, <1>2, <1>3, <2>3 DEF PoolTypes, WalkTypes, scanVars
  <2>5. InRange'
    BY <1>1, <1>2, <1>3, <2>2, <2>3 DEF InRange
  <2>6. OncePerPlace'
    <3>1. \A i, j \in 1 .. Len(results') :
              results'[i].index = results'[j].index => i = j
      <4> SUFFICES ASSUME NEW i \in 1 .. Len(results'), NEW j \in 1 .. Len(results'),
                          results'[i].index = results'[j].index
                   PROVE  i = j
        OBVIOUS
      <4>1. /\ i + 1 \in 1 .. Len(results) /\ j + 1 \in 1 .. Len(results)
            /\ results[i + 1].index = results[j + 1].index
        BY <1>3
      <4>2. i + 1 = j + 1
        BY <1>2, <4>1 DEF OncePerPlace
      <4> QED BY <4>2
    <3>2. \A i, j \in 1 .. Len(received') : received'[i] = received'[j] => i = j
      <4>1. \A i \in 1 .. Len(received) : received[i] # new
        BY <1>2, <1>3, <2>2 DEF OnePlace
      <4>2. \A i, j \in 1 .. Len(received) : received[i] = received[j] => i = j
        BY <1>2 DEF OncePerPlace
      <4> QED BY <2>3, <4>1, <4>2
    <3> QED BY <1>1, <1>2, <3>1, <3>2 DEF OncePerPlace
  <2>7. OnePlace'
    <3>1. \A i \in 1 .. Len(results') : results'[i].index # new
      BY <1>2, <1>3, <2>2 DEF OncePerPlace
    <3>2. /\ \A i \in 1 .. Len(jobs) : jobs[i] # new
          /\ \A w \in Threads : held[w] # None => held[w].index # new
      BY <1>2, <1>3, <2>2 DEF OnePlace
    <3>3. \A i \in 1 .. Len(results'), j \in 1 .. Len(received') :
              results'[i].index # received'[j]
      <4> SUFFICES ASSUME NEW i \in 1 .. Len(results'),
                          NEW j \in 1 .. Len(received')
                   PROVE  results'[i].index # received'[j]
        OBVIOUS
      <4>1. CASE j \in 1 .. Len(received) /\ received'[j] = received[j]
        BY <1>2, <1>3, <4>1 DEF OnePlace
      <4>2. CASE received'[j] = new
        BY <3>1, <4>2
      <4> QED BY <2>3, <4>1, <4>2
    <3>4. /\ \A i \in 1 .. Len(jobs), j \in 1 .. Len(received') :
                 jobs[i] # received'[j]
          /\ \A w \in Threads, j \in 1 .. Len(received') :
                 held[w] # None => held[w].index # received'[j]
      BY <1>2, <2>3, <3>2 DEF OnePlace
    <3>5. /\ \A i \in 1 .. Len(jobs), j \in 1 .. Len(results') :
                 jobs[i] # results'[j].index
          /\ \A w \in Threads, j \in 1 .. Len(results') :
                 held[w] # None => held[w].index # results'[j].index
      <4>1. \A j \in 1 .. Len(results') :
                j + 1 \in 1 .. Len(results) /\ results'[j] = results[j + 1]
        BY <1>3
      <4>2. /\ \A i \in 1 .. Len(jobs), j \in 1 .. Len(results) :
                   jobs[i] # results[j].index
            /\ \A w \in Threads, j \in 1 .. Len(results) :
                   held[w] # None => held[w].index # results[j].index
        BY <1>2 DEF OnePlace
      <4> QED BY <4>1, <4>2
    <3> QED BY <1>1, <1>2, <3>3, <3>4, <3>5 DEF OnePlace
  <2>8. Collecting'
    BY <1>1, <1>2, <2>1 DEF Collecting, scanVars, Calls, Count, Listings
  <2> QED BY <2>4, <2>5, <2>6, <2>7, <2>8 DEF PoolInv
<1> QED BY <1>4, <1>5

-----------------------------------------------------------------------------
(* The end of a directory: everything has come back, and is put in order. *)

LEMMA CountIsNat ==
    ASSUME PoolInv, outcome = None, collecting # None
    PROVE  /\ collecting \in Dirs /\ frontier # <<>>
           /\ listing \in Seq(Entries) /\ Count \in Nat
<1>1. Calls /\ collecting = Head(frontier) /\ WalkTypes /\ PoolTypes
  BY DEF PoolInv, Collecting
<1>2. frontier # <<>> /\ collecting \in Dirs
  BY <1>1 DEF Calls, WalkTypes
<1> QED BY <1>1, <1>2 DEF Count, PoolTypes

LEMMA AllBack ==
    ASSUME PoolInv, outcome = None, collecting # None, Len(received) = Count
    PROVE  Range(received) = 1 .. Count /\ submitted = Count
<1>1. Count \in Nat
  BY CountIsNat
<1>2. PoolTypes /\ InRange /\ OncePerPlace /\ submitted <= Count /\ submitted \in Nat
  BY DEF PoolInv, Collecting, PoolTypes
<1>3. received \in [1 .. Count -> 1 .. Count]
  BY <1>1, <1>2 DEF PoolTypes, InRange
<1>4. received \in Injection(1 .. Count, 1 .. Count)
  BY <1>2, <1>3 DEF OncePerPlace, Injection, IsInjective
<1>5. IsFiniteSet(1 .. Count)
  BY <1>1, FS_Interval
<1>6. received \in Surjection(1 .. Count, 1 .. Count)
  BY <1>4, <1>5, FS_Injection
<1>7. Range(received) = 1 .. Count
  BY <1>3, <1>6 DEF Surjection, Range
<1>8. Count \in 1 .. submitted \/ Count = 0
  <2> SUFFICES ASSUME Count # 0 PROVE Count \in 1 .. submitted
    OBVIOUS
  <2>1. Count \in Range(received)
    BY <1>1, <1>7
  <2> QED BY <1>2, <1>3, <2>1 DEF Range, InRange
<1> QED BY <1>1, <1>2, <1>7, <1>8

\* A map walked through by index gives the numbers in order.
LEMMA WalkedInOrder ==
    ASSUME NEW n \in Nat, NEW s, Range(s) = 1 .. n
    PROVE  ByIndex(s) = [k \in 1 .. n |-> k]
<1>1. Cardinality(Range(s)) = n
  BY FS_Interval
<1>2. ASSUME NEW m \in 1 .. n
      PROVE  Cardinality({i \in Range(s) : i < m}) = m - 1
  <2>1. {i \in Range(s) : i < m} = 1 .. m - 1
    OBVIOUS
  <2>2. Cardinality(1 .. m - 1) = m - 1
    BY FS_Interval
  <2> QED BY <2>1, <2>2
<1>3. ASSUME NEW k \in 1 .. n
      PROVE  (CHOOSE m \in Range(s) :
                  Cardinality({i \in Range(s) : i < m}) = k - 1) = k
  <2>1. \A m \in Range(s) :
            Cardinality({i \in Range(s) : i < m}) = k - 1 => m = k
    BY <1>2
  <2>2. k \in Range(s) /\ Cardinality({i \in Range(s) : i < k}) = k - 1
    BY <1>2
  <2> QED BY <2>1, <2>2
<1> QED BY <1>1, <1>3 DEF ByIndex, InOrder

LEMMA CollectedInOrder ==
    ASSUME PoolInv, CollectEnds
    PROVE  /\ StatChildren /\ outcome = None /\ outcome' = None
           /\ jobs = <<>> /\ results = <<>> /\ \A w \in Threads : held[w] = None
<1> DEFINE order == ByIndex(received)
<1>1. /\ collecting # None /\ outcome = None /\ outcome' = None
      /\ Len(received) = Count
      /\ Descend(collecting, [i \in DOMAIN order |-> listing[order[i]]])
  BY DEF CollectEnds
<1>2. listing \in Seq(Entries) /\ Count \in Nat /\ Count = Len(listing)
  BY <1>1, CountIsNat DEF Count
<1>3. Range(received) = 1 .. Count /\ submitted = Count
  BY <1>1, AllBack
<1>4. order = [i \in 1 .. Count |-> i]
  BY <1>2, <1>3, WalkedInOrder
<1> HIDE DEF order
<1>5. [i \in DOMAIN order |-> listing[order[i]]] = listing
  <2>1. DOMAIN order = 1 .. Len(listing) /\ \A i \in 1 .. Len(listing) : order[i] = i
    BY <1>2, <1>4
  <2>2. listing = [i \in 1 .. Len(listing) |-> listing[i]]
    BY <1>2
  <2> QED BY <2>1, <2>2
<1>6. StatChildren
  <2>1. /\ Calls /\ collecting = Head(frontier)
        /\ listing \in Listings(collecting.path) /\ Descend(collecting, listing)
    BY <1>1, <1>5 DEF PoolInv, Collecting
  <2> QED BY <2>1 DEF StatChildren
<1>7. PoolTypes /\ InRange /\ OnePlace
  BY <1>1 DEF PoolInv
<1>8. \A n \in 1 .. submitted : \E i \in 1 .. Len(received) : received[i] = n
  <2>1. DOMAIN received = 1 .. Len(received)
    BY <1>7 DEF PoolTypes
  <2> QED BY <1>3, <2>1 DEF Range
<1>9. Len(jobs) \in Nat /\ Len(results) \in Nat
  BY <1>7 DEF PoolTypes
<1>10. jobs = <<>>
  <2> SUFFICES ASSUME jobs # <<>> PROVE FALSE
    OBVIOUS
  <2>1. 1 \in 1 .. Len(jobs)
    BY <1>7 DEF PoolTypes
  <2> QED BY <1>7, <1>8, <2>1 DEF InRange, OnePlace
<1>11. results = <<>>
  <2> SUFFICES ASSUME results # <<>> PROVE FALSE
    OBVIOUS
  <2>1. 1 \in 1 .. Len(results)
    BY <1>7 DEF PoolTypes
  <2> QED BY <1>7, <1>8, <2>1 DEF InRange, OnePlace
<1>12. \A w \in Threads : held[w] = None
  BY <1>7, <1>8 DEF InRange, OnePlace
<1> QED BY <1>1, <1>6, <1>10, <1>11, <1>12

LEMMA CollectEndsKeeps ==
    ASSUME PoolInv, CollectEnds
    PROVE  PoolInv'
<1>1. /\ StatChildren /\ outcome' = None
      /\ jobs = <<>> /\ results = <<>> /\ \A w \in Threads : held[w] = None
  BY CollectedInOrder
<1>2. /\ collecting' = None /\ listing' = <<>> /\ submitted' = 0 /\ received' = <<>>
      /\ UNCHANGED <<jobs, results, held>>
  BY DEF CollectEnds
<1>3. WalkTypes'
  <2>1. frontier # <<>>
    BY <1>1 DEF StatChildren, Calls
  <2>2. Head(frontier) \in Dirs /\ Head(frontier).path \in Entries
    <3>1. Head(frontier) \in Dirs
      BY <2>1 DEF PoolInv, WalkTypes
    <3> QED BY <3>1 DEF Dirs
  <2>3. PICK s \in Seq(Entries) : Descend(Head(frontier), s)
    BY <1>1, <2>2, ListingFacts DEF StatChildren
  <2> QED BY <2>1, <2>2, <2>3, DescendTypes DEF PoolInv
<1>4. PoolTypes'
  BY <1>2 DEF PoolInv, PoolTypes
<1>5. InRange' /\ OncePerPlace' /\ OnePlace'
  BY <1>1, <1>2 DEF InRange, OncePerPlace, OnePlace
<1>6. Collecting'
  BY <1>2 DEF Collecting
<1> QED BY <1>3, <1>4, <1>5, <1>6 DEF PoolInv

LEMMA StepKeeps ==
    ASSUME PoolInv, Step
    PROVE  PoolInv'
<1>1. collecting = None /\ outcome = None /\ UNCHANGED poolVars
  BY DEF Step
<1>2. PoolTypes /\ WalkTypes /\ InRange /\ OncePerPlace /\ OnePlace /\ Collecting
  BY <1>1 DEF PoolInv
<1>3. WalkTypes'
  BY <1>2, RootTypes, SkipTypes, AddTypes, EnqueueTypes, DoneTypes DEF Step
<1>4. PoolTypes'
  BY <1>1, <1>2 DEF PoolTypes, poolVars
<1>5. InRange' /\ OncePerPlace' /\ OnePlace'
  BY <1>1, <1>2 DEF InRange, OncePerPlace, OnePlace, poolVars
<1>6. Collecting'
  BY <1>1, <1>2 DEF Collecting, poolVars
<1> QED BY <1>3, <1>4, <1>5, <1>6 DEF PoolInv

LEMMA StopKeeps ==
    ASSUME PoolInv, Close \/ Break \/ Joined
    PROVE  PoolInv'
<1>1. /\ outcome' # None
      /\ UNCHANGED <<jobs, results, held, listing, submitted, received>>
      /\ UNCHANGED <<scanned, stack, frontier>>
  BY PoolAssumption DEF Close, Break, Joined, Finish, CloseOutput, Fail, poolVars, scanVars
<1> QED BY <1>1 DEF PoolInv, PoolTypes, WalkTypes

LEMMA PoolStep == PoolInv /\ [PlannerNext]_vars => PoolInv'
<1>1. ASSUME PoolInv, PlannerNext PROVE PoolInv'
  <2>1. CASE \E w \in Threads : Worker(w) \/ Throw(w)
    BY <1>1, <2>1, TakeKeeps, ThrowKeeps, PushKeeps, ReturnKeeps DEF Worker
  <2>2. CASE Main \/ Break
    BY <1>1, <2>2, BeginKeeps, SubmitKeeps, ReceiveKeeps, CollectEndsKeeps,
       StepKeeps, StopKeeps DEF Main
  <2> QED BY <1>1, <2>1, <2>2 DEF PlannerNext
<1>2. ASSUME PoolInv, UNCHANGED vars PROVE PoolInv'
  <2>1. UNCHANGED scanVars /\ UNCHANGED poolVars
    BY <1>2 DEF vars
  <2>2. WalkTypes' /\ PoolTypes'
    BY <1>2, <2>1 DEF PoolInv, WalkTypes, PoolTypes, scanVars, poolVars
  <2>3. InRange' = InRange /\ OncePerPlace' = OncePerPlace /\ OnePlace' = OnePlace
    BY <2>1 DEF InRange, OncePerPlace, OnePlace, poolVars
  <2>4. Collecting' = Collecting
    BY <2>1 DEF Collecting, Calls, Count, Listings, scanVars, poolVars
  <2>5. outcome' = outcome
    BY <2>1 DEF poolVars
  <2> QED BY <1>2, <2>2, <2>3, <2>4, <2>5 DEF PoolInv
<1> QED BY <1>1, <1>2

\* The inductive invariant of the pool: every index that was submitted is in
\* one place, a queue, a worker's hands or among the results that have come
\* back, and the main thread collects the directory it would read itself.
THEOREM PoolInvariant == PlannerSpec => []PoolInv
  BY InitPool, PoolStep, PTL DEF PlannerSpec

LEMMA ScanStep ==
    ASSUME PoolInv, [PlannerNext]_vars
    PROVE  [StatChildren \/ Walk \/ Fail]_scanVars
<1>1. CASE CollectEnds
  BY <1>1, CollectedInOrder
<1>2. CASE Step
  BY <1>2 DEF Step, Walk
<1>3. CASE Joined
  BY <1>3 DEF Joined, Walk
<1>4. CASE Begin \/ Submit \/ Receive \/ Close \/ Break
  BY <1>4 DEF Begin, Submit, Receive, Close, Break
<1>5. CASE \E w \in Threads : Worker(w) \/ Throw(w)
  BY <1>5 DEF Worker, Throw, Take, Push, Return
<1>6. CASE UNCHANGED vars
  BY <1>6 DEF vars
<1> QED BY <1>1, <1>2, <1>3, <1>4, <1>5, <1>6 DEF PlannerNext, Main

\* neotape-plan with any number of I/O threads and queues of any capacity
\* implements neotape-plan with one: whatever the order in which the results
\* of a directory arrive (WorkerPool::collect), the walk goes on in the order
\* of sorted_children.
THEOREM ThreadsPlanAsOne == PlannerSpec => PlansAsWithOneThread
<1>1. PlannerInit => ScanInit
  BY DEF PlannerInit
<1>2. PoolInv /\ [PlannerNext]_vars => [StatChildren \/ Walk \/ Fail]_scanVars
  BY ScanStep
<1> QED BY <1>1, <1>2, PoolInvariant, PTL
        DEF PlannerSpec, PlansAsWithOneThread, ScanSpec

-----------------------------------------------------------------------------
(* What is in the plan and in the current slice, as one list. *)

Kinds == {"d", "f", "h"}
Items == [path : Entries, kind : Kinds, size : Nat]
PlanRecords == [path : Entries, kind : Kinds, size : Nat, slice : Nat, fileNum : Nat]

AsRecord(e, n, k) ==
    [path |-> e.path, kind |-> e.kind, size |-> e.size, slice |-> n, fileNum |-> k]

Listed == plan \o Records(slice, sliceNum)

SliceTypes ==
    /\ plan \in Seq(PlanRecords) /\ slice \in Seq(Items) /\ sliceNum \in Nat
    /\ plan = <<>> => sliceNum = 0
    /\ plan # <<>> => plan[Len(plan)].slice + 1 = sliceNum

\* What PlanReader::next accepts behind the records before it.
Continues(q, i) ==
    IF i = 1 THEN q[i].slice = 0 /\ q[i].fileNum = 0
    ELSE \/ /\ q[i].slice = q[i - 1].slice
            /\ q[i].fileNum = q[i - 1].fileNum + 1
         \/ q[i].slice = q[i - 1].slice + 1 /\ q[i].fileNum = 0

Before(q, i, x) == \E j \in 1 .. i - 1 : Inode[q[j].path] = x

\* A hard link is what names an inode again, and it has no data.
LinksBehind(q, i) ==
    /\ q[i].kind = "h" <=> Before(q, i, Inode[q[i].path])
    /\ q[i].kind = "h" => q[i].size = 0

BelowListed(q, n, x) ==
    \E i \in 1 .. n : x \in Range(Children[q[i].path])

BehindItsDirectory(q, i) ==
    q[i].path \in Range(Sources) \/ BelowListed(q, i - 1, q[i].path)

Good(q, i) == Continues(q, i) /\ LinksBehind(q, i) /\ BehindItsDirectory(q, i)

InList(q, x) == \E i \in 1 .. Len(q) : q[i].path = x

\* The directories still to be read are listed, and the names still to be
\* looked at are in listed directories.
PendingFrame(q, f) ==
    /\ f.waiting # None => InList(q, f.waiting)
    /\ \A i \in 1 .. Len(f.left) : BelowListed(q, Len(q), f.left[i])

Pending(q) ==
    /\ \A i \in 1 .. Len(frontier) : InList(q, frontier[i].path)
    /\ \A k \in 1 .. Len(stack) : PendingFrame(q, stack[k])

SeenIn(q) == {Inode[q[i].path] : i \in 1 .. Len(q)}

ListInv ==
    /\ SliceTypes
    /\ \A i \in 1 .. Len(Listed) : Good(Listed, i)
    /\ Pending(Listed)
    /\ seen = SeenIn(Listed)

LEMMA AsRecordType ==
    ASSUME NEW e \in Items, NEW n \in Nat, NEW k \in Nat
    PROVE  AsRecord(e, n, k) \in PlanRecords
  BY DEF AsRecord, PlanRecords, Items

LEMMA RecordsFacts ==
    ASSUME NEW s \in Seq(Items), NEW n \in Nat
    PROVE  /\ Records(s, n) \in Seq(PlanRecords) /\ Len(Records(s, n)) = Len(s)
           /\ \A i \in 1 .. Len(s) : Records(s, n)[i] = AsRecord(s[i], n, i - 1)
<1>1. \A i \in 1 .. Len(s) : AsRecord(s[i], n, i - 1) \in PlanRecords
  <2> SUFFICES ASSUME NEW i \in 1 .. Len(s)
               PROVE  AsRecord(s[i], n, i - 1) \in PlanRecords
    OBVIOUS
  <2>1. s[i] \in Items /\ i - 1 \in Nat
    OBVIOUS
  <2> QED BY <2>1, AsRecordType
<1>2. Records(s, n) = [i \in 1 .. Len(s) |-> AsRecord(s[i], n, i - 1)]
  BY DEF Records, AsRecord
<1> QED BY <1>1, <1>2

LEMMA RecordsEmpty ==
    ASSUME NEW n
    PROVE  Records(<<>>, n) = <<>>
  BY DEF Records

LEMMA RecordsAppend ==
    ASSUME NEW s \in Seq(Items), NEW e \in Items, NEW n \in Nat
    PROVE  Records(Append(s, e), n) =
               Append(Records(s, n), AsRecord(e, n, Len(s)))
<1> DEFINE new == AsRecord(e, n, Len(s))
           a == Records(Append(s, e), n)
           b == Append(Records(s, n), new)
<1>1. Append(s, e) \in Seq(Items) /\ Len(Append(s, e)) = Len(s) + 1 /\ Len(s) \in Nat
  OBVIOUS
<1>2. /\ a \in Seq(PlanRecords) /\ Len(a) = Len(s) + 1
      /\ \A i \in 1 .. Len(s) + 1 : a[i] = AsRecord(Append(s, e)[i], n, i - 1)
  BY <1>1, RecordsFacts
<1>3. /\ Records(s, n) \in Seq(PlanRecords) /\ Len(Records(s, n)) = Len(s)
      /\ \A i \in 1 .. Len(s) : Records(s, n)[i] = AsRecord(s[i], n, i - 1)
  BY RecordsFacts
<1>4. new \in PlanRecords
  BY <1>1 DEF AsRecord, PlanRecords, Items
<1> HIDE DEF a, new
<1>5. /\ b \in Seq(PlanRecords) /\ Len(b) = Len(s) + 1 /\ b[Len(s) + 1] = new
      /\ \A i \in 1 .. Len(s) : b[i] = Records(s, n)[i]
  BY <1>3, <1>4
<1>6. \A i \in 1 .. Len(s) : a[i] = b[i]
  BY <1>1, <1>2, <1>3, <1>5
<1>7. a[Len(s) + 1] = b[Len(s) + 1]
  BY <1>1, <1>2, <1>5 DEF new
<1> HIDE DEF b
<1>8. a = b
  BY <1>1, <1>2, <1>5, <1>6, <1>7
<1> QED BY <1>8 DEF a, b, new

LEMMA RecordsOne ==
    ASSUME NEW e \in Items, NEW n \in Nat
    PROVE  Records(<<e>>, n) = <<AsRecord(e, n, 0)>>
  BY DEF Records, AsRecord

LEMMA ConcatAppend ==
    ASSUME NEW S, NEW p \in Seq(S), NEW q \in Seq(S), NEW e \in S
    PROVE  p \o Append(q, e) = Append(p \o q, e)
OBVIOUS

LEMMA ConcatOne ==
    ASSUME NEW S, NEW p \in Seq(S), NEW e \in S
    PROVE  p \o <<e>> = Append(p, e)
OBVIOUS

LEMMA ConcatFacts ==
    ASSUME NEW S, NEW p \in Seq(S), NEW q \in Seq(S)
    PROVE  /\ p \o q \in Seq(S) /\ Len(p \o q) = Len(p) + Len(q)
           /\ Len(p) \in Nat /\ Len(q) \in Nat
           /\ \A i \in 1 .. Len(p) : (p \o q)[i] = p[i]
           /\ \A i \in 1 .. Len(q) : (p \o q)[Len(p) + i] = q[i]
           /\ p \o <<>> = p
OBVIOUS

\* The last record of the list.
LEMMA LastListed ==
    ASSUME SliceTypes
    PROVE  /\ Listed \in Seq(PlanRecords) /\ Len(Listed) = Len(plan) + Len(slice)
           /\ Len(plan) \in Nat /\ Len(slice) \in Nat
           /\ slice = <<>> => Listed = plan
           /\ slice # <<>> =>
                  /\ Len(Listed) > 0
                  /\ Listed[Len(Listed)].slice = sliceNum
                  /\ Listed[Len(Listed)].fileNum = Len(slice) - 1
<1>1. /\ plan \in Seq(PlanRecords) /\ slice \in Seq(Items) /\ sliceNum \in Nat
  BY DEF SliceTypes
<1> DEFINE rest == Records(slice, sliceNum)
<1>2. /\ rest \in Seq(PlanRecords) /\ Len(rest) = Len(slice)
      /\ \A i \in 1 .. Len(slice) : rest[i] = AsRecord(slice[i], sliceNum, i - 1)
  BY <1>1, RecordsFacts
<1>3. slice = <<>> => rest = <<>>
  BY RecordsEmpty
<1>6. Listed = plan \o rest
  BY DEF Listed
<1> HIDE DEF rest
<1>4. /\ Listed = plan \o rest /\ Listed \in Seq(PlanRecords)
      /\ Len(Listed) = Len(plan) + Len(slice)
      /\ Len(plan) \in Nat /\ Len(slice) \in Nat
      /\ \A i \in 1 .. Len(rest) : Listed[Len(plan) + i] = rest[i]
      /\ plan \o <<>> = plan
  <2>1. /\ plan \o rest \in Seq(PlanRecords)
        /\ Len(plan \o rest) = Len(plan) + Len(rest)
        /\ \A i \in 1 .. Len(rest) : (plan \o rest)[Len(plan) + i] = rest[i]
    <3>1. plan \in Seq(PlanRecords) /\ rest \in Seq(PlanRecords)
      BY <1>1, <1>2
    <3>2. plan \o rest \in Seq(PlanRecords)
      BY <3>1
    <3>3. Len(plan \o rest) = Len(plan) + Len(rest)
      BY <3>1
    <3>4. \A i \in 1 .. Len(rest) : (plan \o rest)[Len(plan) + i] = rest[i]
      BY <3>1, ConcatProperties
    <3> QED BY <3>2, <3>3, <3>4
  <2>2. Len(plan) \in Nat /\ Len(slice) \in Nat /\ plan \o <<>> = plan
    BY <1>1
  <2> QED BY <1>2, <1>6, <2>1, <2>2
<1>5. ASSUME slice # <<>>
      PROVE  /\ Len(Listed) > 0
             /\ Listed[Len(Listed)] =
                    AsRecord(slice[Len(slice)], sliceNum, Len(slice) - 1)
  <2>1. Len(slice) \in 1 .. Len(slice)
    BY <1>1, <1>5
  <2> QED BY <1>2, <1>4, <2>1
<1> QED BY <1>3, <1>4, <1>5 DEF AsRecord

\* One entry joins the list, whatever slices are written on the way.
Joins(e, n, k) ==
    /\ SliceTypes' /\ Listed' = Append(Listed, AsRecord(e, n, k))
    /\ AsRecord(e, n, k) \in PlanRecords
    /\ Continues(Append(Listed, AsRecord(e, n, k)), Len(Listed) + 1)

LEMMA JoinsSlice ==
    ASSUME SliceTypes, NEW e \in Items, AddToSlice(e),
           ~ShouldStartNextSlice(slice, e)
    PROVE  Joins(e, sliceNum, Len(slice))
<1> DEFINE after == Append(slice, e)
           new == AsRecord(e, sliceNum, Len(slice))
<1>1. /\ plan \in Seq(PlanRecords) /\ slice \in Seq(Items) /\ sliceNum \in Nat
      /\ Len(slice) \in Nat
  BY DEF SliceTypes
<1>2. \/ /\ plan' = (plan \o <<>>) \o Records(after, sliceNum)
         /\ slice' = <<>> /\ sliceNum' = sliceNum + 1
      \/ plan' = plan \o <<>> /\ slice' = after /\ sliceNum' = sliceNum
  BY DEF AddToSlice
<1>3. plan \o <<>> = plan
  BY <1>1
<1>4. /\ after \in Seq(Items) /\ Len(after) = Len(slice) + 1 /\ new \in PlanRecords
  BY <1>1 DEF AsRecord, Items, PlanRecords
<1>5. Records(after, sliceNum) = Append(Records(slice, sliceNum), new)
  BY <1>1, RecordsAppend
<1>6. Records(slice, sliceNum) \in Seq(PlanRecords)
  BY <1>1, RecordsFacts
<1> HIDE DEF after, new
<1>7. plan \o Records(after, sliceNum) = Append(Listed, new)
  BY <1>1, <1>4, <1>5, <1>6, ConcatAppend DEF Listed
<1>8. Listed \in Seq(PlanRecords)
  BY LastListed
<1>9. Append(Listed, new) \in Seq(PlanRecords)
      /\ Append(Listed, new)[Len(Listed) + 1] = new
      /\ Append(Listed, new) # <<>>
      /\ Len(Append(Listed, new)) = Len(Listed) + 1
      /\ \A i \in 1 .. Len(Listed) : Append(Listed, new)[i] = Listed[i]
      /\ Len(Listed) \in Nat
  BY <1>4, <1>8
<1>10. SliceTypes' /\ Listed' = Append(Listed, new)
  <2>1. CASE /\ plan' = (plan \o <<>>) \o Records(after, sliceNum)
             /\ slice' = <<>> /\ sliceNum' = sliceNum + 1
    <3>1. plan' = Append(Listed, new)
      BY <1>3, <1>7, <2>1
    <3>2. plan'[Len(plan')].slice + 1 = sliceNum'
      <4>1. plan'[Len(plan')] = new
        BY <1>9, <3>1
      <4>2. new.slice = sliceNum
        BY DEF new, AsRecord
      <4> QED BY <2>1, <4>1, <4>2
    <3>3. Listed' = plan'
      <4>1. plan' \in Seq(PlanRecords) /\ Records(slice', sliceNum') = <<>>
        BY <1>9, <2>1, <3>1, RecordsEmpty
      <4> QED BY <4>1, ConcatFacts DEF Listed
    <3>4. /\ plan' \in Seq(PlanRecords) /\ plan' # <<>>
          /\ slice' \in Seq(Items) /\ sliceNum' \in Nat
      <4>1. plan' \in Seq(PlanRecords) /\ plan' # <<>>
        BY <1>9, <3>1
      <4>2. slice' \in Seq(Items)
        BY <2>1
      <4>3. sliceNum' \in Nat
        BY <1>1, <2>1
      <4> QED BY <4>1, <4>2, <4>3
    <3>5. SliceTypes'
      BY <3>2, <3>4 DEF SliceTypes
    <3> QED BY <3>1, <3>3, <3>5
  <2>2. CASE plan' = plan \o <<>> /\ slice' = after /\ sliceNum' = sliceNum
    <3>1. Listed' = Append(Listed, new)
      BY <1>3, <1>7, <2>2 DEF Listed
    <3> QED BY <1>1, <1>3, <1>4, <2>2, <3>1 DEF SliceTypes
  <2> QED BY <1>2, <2>1, <2>2
<1>11. Continues(Append(Listed, new), Len(Listed) + 1)
  <2>1. new.slice = sliceNum /\ new.fileNum = Len(slice)
    BY DEF new, AsRecord
  <2>2. CASE slice = <<>> /\ plan = <<>>
    BY <1>9, <2>1, <2>2, LastListed DEF Continues, SliceTypes
  <2>3. CASE slice = <<>> /\ plan # <<>>
    <3>1. Listed = plan /\ Len(plan) > 0
      BY <1>1, <2>3, LastListed
    <3>2. plan[Len(plan)].slice + 1 = sliceNum
      BY <2>3 DEF SliceTypes
    <3> QED BY <1>9, <2>1, <2>3, <3>1, <3>2 DEF Continues
  <2>4. CASE slice # <<>>
    <3>1. /\ Len(Listed) > 0 /\ Listed[Len(Listed)].slice = sliceNum
          /\ Listed[Len(Listed)].fileNum = Len(slice) - 1
      BY <2>4, LastListed
    <3> QED BY <1>1, <1>9, <2>1, <3>1 DEF Continues
  <2> QED BY <2>2, <2>3, <2>4
<1> QED BY <1>4, <1>10, <1>11 DEF Joins, new

LEMMA JoinsNext ==
    ASSUME SliceTypes, NEW e \in Items, AddToSlice(e),
           ShouldStartNextSlice(slice, e)
    PROVE  Joins(e, sliceNum + 1, 0)
<1> DEFINE new == AsRecord(e, sliceNum + 1, 0)
<1>1. /\ plan \in Seq(PlanRecords) /\ slice \in Seq(Items) /\ sliceNum \in Nat
      /\ Len(slice) \in Nat
  BY DEF SliceTypes
<1>2. slice # <<>>
  BY DEF ShouldStartNextSlice
<1>3. \/ /\ plan' = Listed \o Records(<<e>>, sliceNum + 1)
         /\ slice' = <<>> /\ sliceNum' = sliceNum + 1 + 1
      \/ plan' = Listed /\ slice' = <<e>> /\ sliceNum' = sliceNum + 1
  BY <1>1 DEF AddToSlice, Listed
<1>4. new \in PlanRecords /\ Records(<<e>>, sliceNum + 1) = <<new>>
  <2>1. sliceNum + 1 \in Nat
    BY <1>1
  <2> QED BY <2>1, RecordsOne, AsRecordType
<1>5. /\ Listed \in Seq(PlanRecords) /\ Len(Listed) > 0
      /\ Listed[Len(Listed)].slice = sliceNum
  BY <1>2, LastListed
<1>6. <<e>> \in Seq(Items) /\ <<e>> # <<>>
  OBVIOUS
<1>7. new.slice = sliceNum + 1 /\ new.fileNum = 0
  BY DEF new, AsRecord
<1> HIDE DEF new
<1>8. /\ Append(Listed, new) \in Seq(PlanRecords)
      /\ Append(Listed, new)[Len(Listed) + 1] = new
      /\ Append(Listed, new) # <<>>
      /\ Len(Append(Listed, new)) = Len(Listed) + 1
      /\ \A i \in 1 .. Len(Listed) : Append(Listed, new)[i] = Listed[i]
      /\ Len(Listed) \in Nat /\ Listed # <<>>
  BY <1>4, <1>5
<1>9. Listed \o <<new>> = Append(Listed, new)
  BY <1>4, <1>5, ConcatOne
<1>10. SliceTypes' /\ Listed' = Append(Listed, new)
  <2>1. CASE /\ plan' = Listed \o Records(<<e>>, sliceNum + 1)
             /\ slice' = <<>> /\ sliceNum' = sliceNum + 1 + 1
    <3>1. plan' = Append(Listed, new)
      BY <1>4, <1>9, <2>1
    <3>2. plan'[Len(plan')].slice + 1 = sliceNum'
      BY <1>1, <1>7, <1>8, <2>1, <3>1
    <3>3. Listed' = plan'
      <4>1. plan' \in Seq(PlanRecords) /\ Records(slice', sliceNum') = <<>>
        BY <1>8, <2>1, <3>1, RecordsEmpty
      <4> QED BY <4>1, ConcatFacts DEF Listed
    <3>4. /\ plan' \in Seq(PlanRecords) /\ plan' # <<>>
          /\ slice' \in Seq(Items) /\ sliceNum' \in Nat
      <4>1. plan' \in Seq(PlanRecords) /\ plan' # <<>>
        BY <1>8, <3>1
      <4>2. slice' \in Seq(Items)
        BY <2>1
      <4>3. sliceNum' \in Nat
        BY <1>1, <2>1
      <4> QED BY <4>1, <4>2, <4>3
    <3>5. SliceTypes'
      BY <3>2, <3>4 DEF SliceTypes
    <3> QED BY <3>1, <3>3, <3>5
  <2>2. CASE plan' = Listed /\ slice' = <<e>> /\ sliceNum' = sliceNum + 1
    <3>1. Listed' = Append(Listed, new)
      BY <1>4, <1>9, <2>2 DEF Listed
    <3>2. SliceTypes'
      BY <1>1, <1>5, <1>6, <1>8, <2>2 DEF SliceTypes
    <3> QED BY <3>1, <3>2
  <2> QED BY <1>3, <2>1, <2>2
<1>11. Continues(Append(Listed, new), Len(Listed) + 1)
  BY <1>1, <1>5, <1>7, <1>8 DEF Continues
<1> QED BY <1>4, <1>10, <1>11 DEF Joins, new

LEMMA ListGrows ==
    ASSUME SliceTypes, NEW e \in Items, AddToSlice(e)
    PROVE  \E n, k \in Nat : Joins(e, n, k)
<1>1. sliceNum \in Nat /\ sliceNum + 1 \in Nat /\ Len(slice) \in Nat
  BY DEF SliceTypes
<1> QED BY <1>1, JoinsSlice, JoinsNext

-----------------------------------------------------------------------------
(* The list stays good as it grows. *)

LEMMA GoodStays ==
    ASSUME NEW q \in Seq(PlanRecords), NEW r \in PlanRecords, NEW i \in 1 .. Len(q),
           Good(q, i)
    PROVE  Good(Append(q, r), i)
<1> DEFINE p == Append(q, r)
<1>1. \A j \in 1 .. i : p[j] = q[j]
  OBVIOUS
<1> HIDE DEF p
<1>2. Continues(p, i)
  BY <1>1 DEF Good, Continues
<1>3. LinksBehind(p, i)
  BY <1>1 DEF Good, LinksBehind, Before
<1>4. BehindItsDirectory(p, i)
  BY <1>1 DEF Good, BehindItsDirectory, BelowListed
<1> QED BY <1>2, <1>3, <1>4 DEF Good, p

LEMMA PendingStays ==
    ASSUME NEW q \in Seq(PlanRecords), NEW r \in PlanRecords
    PROVE  /\ \A x : InList(q, x) => InList(Append(q, r), x)
           /\ InList(Append(q, r), r.path)
           /\ \A x : BelowListed(q, Len(q), x)
                         => BelowListed(Append(q, r), Len(Append(q, r)), x)
           /\ \A f : PendingFrame(q, f) => PendingFrame(Append(q, r), f)
           /\ Pending(q) => Pending(Append(q, r))
<1> DEFINE p == Append(q, r)
<1>1. /\ Len(p) = Len(q) + 1 /\ Len(q) \in Nat /\ p[Len(p)] = r
      /\ \A j \in 1 .. Len(q) : p[j] = q[j]
  OBVIOUS
<1> HIDE DEF p
<1>2. \A x : InList(q, x) => InList(p, x)
  BY <1>1 DEF InList
<1>3. InList(p, r.path)
  BY <1>1 DEF InList
<1>4. \A x : BelowListed(q, Len(q), x) => BelowListed(p, Len(p), x)
  BY <1>1 DEF BelowListed
<1>5. \A f : PendingFrame(q, f) => PendingFrame(p, f)
  BY <1>2, <1>4 DEF PendingFrame
<1>6. Pending(q) => Pending(p)
  BY <1>2, <1>5 DEF Pending
<1> QED BY <1>2, <1>3, <1>4, <1>5, <1>6 DEF p

LEMMA ResolveType ==
    ASSUME NEW e \in Entries
    PROVE  /\ Resolve(e) \in Items /\ Resolve(e).path = e
           /\ Resolve(e).kind = "h" <=> Inode[e] \in seen
           /\ Resolve(e).kind = "h" => Resolve(e).size = 0
<1>1. Kind[e] \in {"d", "f"} /\ Size[e] \in Nat
  BY ScanAssumption
<1> QED BY <1>1 DEF Resolve, Items, Kinds

LEMMA InitList == PlannerInit => ListInv
<1> SUFFICES ASSUME PlannerInit PROVE ListInv
  OBVIOUS
<1>1. plan = <<>> /\ slice = <<>> /\ sliceNum = 0 /\ frontier = <<>> /\ stack = <<>>
      /\ seen = {}
  BY DEF PlannerInit, ScanInit
<1>2. Listed = <<>>
  BY <1>1, RecordsEmpty DEF Listed
<1> QED BY <1>1, <1>2 DEF ListInv, SliceTypes, Pending, SeenIn

\* What a step that adds an entry does to the list.
LEMMA EntryJoins ==
    ASSUME ListInv, NEW e \in Entries, AddToSlice(Resolve(e)),
           seen' = seen \cup {Inode[e]},
           e \in Range(Sources) \/ BelowListed(Listed, Len(Listed), e)
    PROVE  /\ SliceTypes' /\ \A i \in 1 .. Len(Listed') : Good(Listed', i)
           /\ seen' = SeenIn(Listed')
           /\ \E r \in PlanRecords : Listed' = Append(Listed, r) /\ r.path = e
<1>1. /\ Resolve(e) \in Items /\ Resolve(e).path = e
      /\ Resolve(e).kind = "h" <=> Inode[e] \in seen
      /\ Resolve(e).kind = "h" => Resolve(e).size = 0
  BY ResolveType
<1>2. PICK n, k \in Nat : Joins(Resolve(e), n, k)
  BY <1>1, ListGrows DEF ListInv
<1> DEFINE r == AsRecord(Resolve(e), n, k)
<1>3. /\ r.path = e
      /\ r.kind = "h" <=> Inode[e] \in seen
      /\ r.kind = "h" => r.size = 0
  BY <1>1 DEF AsRecord
<1>4. /\ SliceTypes' /\ Listed' = Append(Listed, r) /\ r \in PlanRecords
      /\ Continues(Append(Listed, r), Len(Listed) + 1)
  BY <1>2 DEF Joins
<1> HIDE DEF r
<1> DEFINE p == Append(Listed, r)
<1>5. Listed \in Seq(PlanRecords) /\ Len(Listed) \in Nat
  BY LastListed DEF ListInv
<1>6. /\ Len(p) = Len(Listed) + 1 /\ p[Len(Listed) + 1] = r
      /\ \A i \in 1 .. Len(Listed) : p[i] = Listed[i]
  BY <1>4, <1>5
<1>7. \A i \in 1 .. Len(Listed) : Good(p, i)
  BY <1>4, <1>5, GoodStays DEF ListInv
<1>8. seen = SeenIn(Listed)
  BY DEF ListInv
<1> HIDE DEF p
<1>9. Good(p, Len(Listed) + 1)
  <2>1. Before(p, Len(Listed) + 1, Inode[e]) <=> Inode[e] \in seen
    <3>1. Before(p, Len(Listed) + 1, Inode[e])
              <=> \E j \in 1 .. Len(Listed) : Inode[Listed[j].path] = Inode[e]
      BY <1>5, <1>6 DEF Before
    <3> QED BY <1>8, <3>1 DEF SeenIn
  <2>2. LinksBehind(p, Len(Listed) + 1)
    BY <1>3, <1>6, <2>1 DEF LinksBehind
  <2>3. BehindItsDirectory(p, Len(Listed) + 1)
    BY <1>3, <1>5, <1>6 DEF BehindItsDirectory, BelowListed
  <2> QED BY <1>4, <2>2, <2>3 DEF Good, p
<1>10. \A i \in 1 .. Len(p) : Good(p, i)
  BY <1>5, <1>6, <1>7, <1>9
<1>11. seen' = SeenIn(p)
  <2>1. SeenIn(p) = SeenIn(Listed) \cup {Inode[e]}
    BY <1>3, <1>5, <1>6 DEF SeenIn
  <2> QED BY <1>8, <2>1
<1> QED BY <1>3, <1>4, <1>10, <1>11 DEF p

LEMMA RootLists ==
    ASSUME ListInv, WalkTypes, ScanRoot
    PROVE  ListInv'
<1> DEFINE root == Sources[scanned + 1]
<1>1. root \in Entries /\ root \in Range(Sources)
  <2>1. scanned + 1 \in DOMAIN Sources
    BY ScanAssumption DEF WalkTypes, ScanRoot
  <2> QED BY <2>1, ScanAssumption DEF Range
<1>2. CASE root \in gone
  <2>1. UNCHANGED <<scanned, stack, frontier, seen, slice, sliceNum, plan>>
    BY <1>2 DEF ScanRoot
  <2> QED BY <2>1 DEF ListInv, SliceTypes, Listed, Pending
<1>3. CASE root \notin gone
  <2>1. /\ AddToSlice(Resolve(root)) /\ seen' = seen \cup {Inode[root]}
        /\ stack' = <<>>
        /\ \/ frontier' = <<[path |-> root, device |-> Device[root]]>>
           \/ frontier' = <<>>
    BY <1>3 DEF ScanRoot, Idle
  <2> HIDE DEF root
  <2>2. /\ SliceTypes' /\ \A i \in 1 .. Len(Listed') : Good(Listed', i)
        /\ seen' = SeenIn(Listed')
        /\ \E r \in PlanRecords : Listed' = Append(Listed, r) /\ r.path = root
    BY <1>1, <2>1, EntryJoins
  <2>3. InList(Listed', root)
    BY <2>2, PendingStays, LastListed DEF ListInv
  <2>4. Pending(Listed)'
    BY <2>1, <2>3 DEF Pending
  <2> QED BY <2>2, <2>4 DEF ListInv
<1> QED BY <1>2, <1>3

\* A frame on top gives way to one that is no more demanding.
LEMMA TopPends ==
    ASSUME WalkTypes, stack # <<>>, NEW q, NEW frame \in Frames,
           \A k \in 1 .. Len(stack) : PendingFrame(q, stack[k]),
           PendingFrame(q, frame), stack' = [stack EXCEPT ![1] = frame]
    PROVE  \A k \in 1 .. Len(stack') : PendingFrame(q, stack'[k])
<1>1. /\ Len(stack') = Len(stack) /\ stack'[1] = frame
      /\ \A k \in 1 .. Len(stack) : k = 1 \/ stack'[k] = stack[k]
  BY TopReplaced DEF WalkTypes
<1> QED BY <1>1

LEMMA WalkedPends ==
    ASSUME WalkTypes, stack # <<>>, stack[1].left # <<>>, NEW q,
           PendingFrame(q, stack[1]), NEW next, next # None => InList(q, next)
    PROVE  PendingFrame(q, Walked(next)) /\ BelowListed(q, Len(q), Child)
<1>1. stack[1] \in Frames
  BY DEF WalkTypes
<1>2. stack[1].left \in Seq(Entries)
  BY <1>1 DEF Frames
<1>3. /\ \A i \in 1 .. Len(Tail(stack[1].left)) :
             /\ i + 1 \in 1 .. Len(stack[1].left)
             /\ Tail(stack[1].left)[i] = stack[1].left[i + 1]
      /\ Child = stack[1].left[1] /\ 1 \in 1 .. Len(stack[1].left)
  BY <1>2, HeadFacts DEF Child
<1> QED BY <1>3 DEF PendingFrame, Walked

LEMMA SkipLists ==
    ASSUME ListInv, WalkTypes, SkipChild
    PROVE  ListInv'
<1>1. /\ stack # <<>> /\ stack[1].left # <<>> /\ Len(stack) \in Nat
      /\ UNCHANGED <<frontier, seen, slice, sliceNum, plan>>
  BY DEF SkipChild, Walking, WalkTypes
<1>2. Walked(None) \in Frames /\ stack' = [stack EXCEPT ![1] = Walked(None)]
  BY SkipTypes
<1>3. Listed' = Listed
  BY <1>1 DEF Listed
<1>4. 1 \in 1 .. Len(stack)
  BY <1>1 DEF WalkTypes
<1>5. PendingFrame(Listed, Walked(None))
  BY <1>1, <1>4, WalkedPends DEF ListInv, Pending
<1>6. \A k \in 1 .. Len(stack') : PendingFrame(Listed, stack'[k])
  BY <1>1, <1>2, <1>5, TopPends DEF ListInv, Pending
<1>7. Pending(Listed)'
  BY <1>1, <1>3, <1>6 DEF ListInv, Pending
<1> QED BY <1>1, <1>3, <1>7 DEF ListInv, SliceTypes

LEMMA AddLists ==
    ASSUME ListInv, WalkTypes, AddChild
    PROVE  ListInv'
<1>1. /\ Walking /\ stack # <<>> /\ stack[1].left # <<>>
      /\ AddToSlice(Resolve(Child)) /\ UNCHANGED frontier
      /\ seen' = seen \cup {Inode[Resolve(Child).path]}
  BY DEF AddChild, Walking, Child
<1>2. Child \in Entries /\ Resolve(Child).path = Child
  BY <1>1, ChildIsEntry
<1>3. /\ Walked(NextDirectory) \in Frames
      /\ stack' = [stack EXCEPT ![1] = Walked(NextDirectory)]
  BY AddTypes
<1>4. 1 \in 1 .. Len(stack)
  BY <1>1 DEF WalkTypes
<1>5. PendingFrame(Listed, stack[1]) /\ Pending(Listed)
  BY <1>4 DEF ListInv, Pending
<1>6. BelowListed(Listed, Len(Listed), Child)
  BY <1>1, <1>5, WalkedPends
<1>7. /\ SliceTypes' /\ \A i \in 1 .. Len(Listed') : Good(Listed', i)
      /\ seen' = SeenIn(Listed')
      /\ \E r \in PlanRecords : Listed' = Append(Listed, r) /\ r.path = Child
  BY <1>1, <1>2, <1>6, EntryJoins
<1>8. /\ Pending(Listed') /\ InList(Listed', Child)
  BY <1>5, <1>7, PendingStays, LastListed DEF ListInv
<1>9. NextDirectory # None => InList(Listed', NextDirectory)
  BY <1>2, <1>8 DEF NextDirectory
<1>10. PendingFrame(Listed', stack[1])
  BY <1>4, <1>8 DEF Pending
<1>11. PendingFrame(Listed', Walked(NextDirectory))
  BY <1>1, <1>9, <1>10, WalkedPends
<1>12. \A k \in 1 .. Len(stack') : PendingFrame(Listed', stack'[k])
  BY <1>1, <1>3, <1>8, <1>11, TopPends DEF Pending
<1>13. Pending(Listed)'
  BY <1>1, <1>8, <1>12 DEF Pending
<1> QED BY <1>7, <1>13 DEF ListInv

LEMMA EnqueueLists ==
    ASSUME ListInv, WalkTypes, EnqueueDirectory
    PROVE  ListInv'
<1> DEFINE dir == [path |-> stack[1].waiting, device |-> stack[1].device]
<1>1. /\ stack # <<>> /\ stack[1].waiting # None
      /\ frontier' = Append(frontier, dir)
      /\ UNCHANGED <<seen, slice, sliceNum, plan>>
  BY DEF EnqueueDirectory
<1>2. Enqueued \in Frames /\ stack' = [stack EXCEPT ![1] = Enqueued]
  BY EnqueueTypes
<1>3. Listed' = Listed
  BY <1>1 DEF Listed
<1>4. stack[1] \in Frames /\ 1 \in 1 .. Len(stack)
  BY <1>1 DEF WalkTypes
<1>5. PendingFrame(Listed, stack[1])
  BY <1>4 DEF ListInv, Pending
<1>6. PendingFrame(Listed, Enqueued) /\ InList(Listed, dir.path)
  BY <1>1, <1>5 DEF PendingFrame, Enqueued
<1>7. \A k \in 1 .. Len(stack') : PendingFrame(Listed, stack'[k])
  BY <1>1, <1>2, <1>6, TopPends DEF ListInv, Pending
<1>8. dir \in Dirs
  BY <1>1, <1>4 DEF Frames, Dirs
<1> HIDE DEF dir
<1>9. \A i \in 1 .. Len(frontier') :
          \/ i \in 1 .. Len(frontier) /\ frontier'[i] = frontier[i]
          \/ frontier'[i] = dir
  BY <1>1, <1>8, AppendFacts DEF WalkTypes
<1>10. Pending(Listed)'
  BY <1>3, <1>6, <1>7, <1>9 DEF ListInv, Pending
<1> QED BY <1>1, <1>3, <1>10 DEF ListInv, SliceTypes

LEMMA DescendLists ==
    ASSUME ListInv, WalkTypes, StatChildren
    PROVE  ListInv'
<1> DEFINE dir == Head(frontier)
<1> PICK names \in Listings(dir.path) : Descend(dir, names)
  BY DEF StatChildren
<1> DEFINE frame == [left |-> names, device |-> dir.device, waiting |-> None]
<1>1. /\ frontier # <<>> /\ frontier' = Tail(frontier)
      /\ stack' = <<frame>> \o stack
      /\ UNCHANGED <<seen, slice, sliceNum, plan>>
  BY DEF StatChildren, Calls, Descend
<1>2. /\ dir \in Dirs /\ dir = frontier[1] /\ 1 \in 1 .. Len(frontier)
      /\ \A i \in 1 .. Len(frontier') :
             i + 1 \in 1 .. Len(frontier) /\ frontier'[i] = frontier[i + 1]
  BY <1>1, HeadFacts DEF WalkTypes
<1>3. Listed' = Listed
  BY <1>1 DEF Listed
<1>4. InList(Listed, dir.path)
  BY <1>2 DEF ListInv, Pending
<1>5. /\ names \in Seq(Entries) /\ dir.device \in Devices
      /\ \A i \in 1 .. Len(names) : names[i] \in Range(Children[dir.path])
  <2>1. dir.path \in Entries /\ dir.device \in Devices
    BY <1>2 DEF Dirs
  <2> QED BY <2>1, ListingFacts
<1>6. frame \in Frames
  BY <1>5 DEF Frames
<1>7. PendingFrame(Listed, frame)
  <2>1. \A i \in 1 .. Len(frame.left) : frame.left[i] \in Range(Children[dir.path])
    BY <1>5
  <2> QED BY <1>4, <2>1 DEF PendingFrame, InList, BelowListed
<1> HIDE DEF frame, dir
<1>8. \A k \in 1 .. Len(stack') :
          \/ stack'[k] = frame
          \/ k - 1 \in 1 .. Len(stack) /\ stack'[k] = stack[k - 1]
  <2>1. stack \in Seq(Frames) /\ <<frame>> \in Seq(Frames) /\ Len(<<frame>>) = 1
    BY <1>6, OneIsSeq DEF WalkTypes
  <2>2. /\ Len(stack') = 1 + Len(stack) /\ Len(stack) \in Nat
        /\ \A k \in 1 .. 1 + Len(stack) :
               stack'[k] = IF k <= 1 THEN <<frame>>[k] ELSE stack[k - 1]
    BY <1>1, <2>1, ConcatProperties
  <2> SUFFICES ASSUME NEW k \in 1 .. Len(stack')
               PROVE  \/ stack'[k] = frame
                      \/ k - 1 \in 1 .. Len(stack) /\ stack'[k] = stack[k - 1]
    OBVIOUS
  <2>3. CASE k = 1
    BY <2>2, <2>3
  <2>4. CASE k # 1
    BY <2>2, <2>4
  <2> QED BY <2>3, <2>4
<1>9. Pending(Listed)'
  BY <1>2, <1>3, <1>7, <1>8 DEF ListInv, Pending
<1> QED BY <1>1, <1>3, <1>9 DEF ListInv, SliceTypes

LEMMA DoneLists ==
    ASSUME ListInv, WalkTypes, DirectoryDone
    PROVE  ListInv'
<1>1. /\ stack # <<>> /\ stack' = Tail(stack)
      /\ UNCHANGED <<frontier, seen, slice, sliceNum, plan>>
  BY DEF DirectoryDone
<1>2. Listed' = Listed
  BY <1>1 DEF Listed
<1>3. \A k \in 1 .. Len(stack') :
          k + 1 \in 1 .. Len(stack) /\ stack'[k] = stack[k + 1]
  BY <1>1, HeadFacts DEF WalkTypes
<1>4. Pending(Listed)'
  BY <1>1, <1>2, <1>3 DEF ListInv, Pending
<1> QED BY <1>1, <1>2, <1>4 DEF ListInv, SliceTypes

LEMMA FinishLists ==
    ASSUME ListInv, Finish
    PROVE  ListInv'
<1>1. /\ plan' = Listed /\ slice' = <<>>
      /\ sliceNum' = IF slice = <<>> THEN sliceNum ELSE sliceNum + 1
      /\ UNCHANGED <<stack, frontier, seen>>
  BY DEF Finish, Listed
<1>2. /\ Listed \in Seq(PlanRecords) /\ sliceNum \in Nat
      /\ slice = <<>> => Listed = plan
      /\ slice # <<>> =>
             Len(Listed) > 0 /\ Listed[Len(Listed)].slice = sliceNum
  BY LastListed DEF ListInv, SliceTypes
<1>3. Listed' = Listed
  <2>1. Records(slice', sliceNum') = <<>> /\ plan' \in Seq(PlanRecords)
    BY <1>1, <1>2, RecordsEmpty
  <2> QED BY <1>1, <2>1, ConcatFacts DEF Listed
<1>4. SliceTypes'
  <2>1. slice' \in Seq(Items) /\ sliceNum' \in Nat /\ plan' \in Seq(PlanRecords)
    BY <1>1, <1>2
  <2>2. CASE slice = <<>>
    BY <1>1, <1>2, <2>1, <2>2 DEF ListInv, SliceTypes
  <2>3. CASE slice # <<>>
    BY <1>1, <1>2, <2>1, <2>3 DEF SliceTypes
  <2> QED BY <2>2, <2>3
<1>5. Pending(Listed)'
  BY <1>1, <1>3 DEF ListInv, Pending
<1> QED BY <1>1, <1>3, <1>4, <1>5 DEF ListInv

LEMMA ListStep ==
    PoolInv /\ ListInv /\ [PlannerNext]_vars => phase' = "cut" \/ ListInv'
<1> SUFFICES ASSUME PoolInv, ListInv, [PlannerNext]_vars, phase' # "cut"
             PROVE  ListInv'
  OBVIOUS
<1>1. [StatChildren \/ Walk \/ Fail]_scanVars /\ WalkTypes
  BY ScanStep DEF PoolInv
<1>2. CASE StatChildren
  BY <1>1, <1>2, DescendLists
<1>3. CASE Walk /\ ~CloseOutput
  BY <1>1, <1>3, RootLists, SkipLists, AddLists, EnqueueLists, DoneLists, FinishLists
  DEF Walk
<1>4. CASE CloseOutput \/ Fail \/ UNCHANGED scanVars
  <2>1. UNCHANGED <<stack, frontier, seen, slice, sliceNum, plan>>
    BY <1>4 DEF CloseOutput, Fail, scanVars
  <2>2. Listed' = Listed
    BY <2>1 DEF Listed
  <2> QED BY <2>1, <2>2 DEF ListInv, SliceTypes, Pending
<1> QED BY <1>1, <1>2, <1>3, <1>4

LEMMA PlanIsGood == ListInv => PlanInOrder
<1> SUFFICES ASSUME ListInv PROVE PlanInOrder
  OBVIOUS
<1>1. /\ plan \in Seq(PlanRecords) /\ slice \in Seq(Items) /\ sliceNum \in Nat
  BY DEF ListInv, SliceTypes
<1>2. /\ Len(plan) \in Nat /\ \A i \in 1 .. Len(plan) : Listed[i] = plan[i]
      /\ Len(plan) <= Len(Listed) /\ Len(Listed) \in Nat
  <2>1. Records(slice, sliceNum) \in Seq(PlanRecords)
    BY <1>1, RecordsFacts
  <2> QED BY <1>1, <2>1, ConcatFacts, LastListed DEF Listed, ListInv
<1> SUFFICES ASSUME NEW i \in 1 .. Len(plan)
             PROVE  /\ Accepts(i)
                    /\ plan[i].kind = "h" <=>
                           \E j \in 1 .. i - 1 :
                               Inode[plan[j].path] = Inode[plan[i].path]
                    /\ \/ plan[i].path \in Range(Sources)
                       \/ \E j \in 1 .. i - 1 : Planned(j, i)
  BY <1>1 DEF PlanInOrder
<1>3. Good(Listed, i) /\ \A j \in 1 .. i : Listed[j] = plan[j]
  BY <1>2 DEF ListInv
<1>4. Accepts(i)
  <2>1. Continues(plan, i) /\ LinksBehind(Listed, i)
    BY <1>3 DEF Good, Continues
  <2>2. plan[i].kind = "h" => plan[i].size = 0
    BY <1>3, <2>1 DEF LinksBehind
  <2>3. CASE i = 1
    BY <2>1, <2>2, <2>3 DEF Accepts, Continues
  <2>4. CASE i # 1
    <3>1. plan[i] \in PlanRecords /\ plan[i - 1] \in PlanRecords
      BY <1>1, <2>4
    <3>2. plan[i].slice \in Nat /\ plan[i - 1].slice \in Nat
      BY <3>1 DEF PlanRecords
    <3> QED BY <2>1, <2>2, <2>4, <3>2 DEF Accepts, Continues
  <2> QED BY <2>3, <2>4
<1>5. plan[i].kind = "h" <=>
          \E j \in 1 .. i - 1 : Inode[plan[j].path] = Inode[plan[i].path]
  BY <1>3 DEF Good, LinksBehind, Before
<1>6. plan[i].path \in Range(Sources) \/ \E j \in 1 .. i - 1 : Planned(j, i)
  BY <1>3 DEF Good, BehindItsDirectory, BelowListed, Planned
<1> QED BY <1>4, <1>5, <1>6

\* A plan that has lost its end is what CloseOutput leaves, and it is not touched.
LEMMA CutIsFinal ==
    ASSUME PoolInv, [PlannerNext]_vars, phase = "cut"
    PROVE  phase' = "cut" /\ UNCHANGED <<sliceNum, plan>>
<1>1. [StatChildren \/ Walk \/ Fail]_scanVars
  BY ScanStep
<1>2. ~StatChildren /\ ~Walk /\ ~Fail
  BY DEF StatChildren, Calls, Walk, ScanRoot, SkipChild, AddChild, Walking,
     EnqueueDirectory, DirectoryDone, Finish, CloseOutput, Fail
<1> QED BY <1>1, <1>2 DEF scanVars

LEMMA OnlyCloseCuts ==
    ASSUME PoolInv, [PlannerNext]_vars, phase # "cut", phase' = "cut"
    PROVE  /\ UNCHANGED <<slice, sliceNum>>
           /\ \E n \in 0 .. Len(plan) - 1 : plan' = SubSeq(plan, 1, n)
<1>1. [StatChildren \/ Walk \/ Fail]_scanVars
  BY ScanStep
<1>2. CloseOutput
  BY <1>1 DEF StatChildren, Calls, Descend, Walk, ScanRoot, SkipChild, AddChild, Walking,
     EnqueueDirectory, DirectoryDone, Finish, Fail, scanVars
<1> QED BY <1>2 DEF CloseOutput

LEMMA PrefixFacts ==
    ASSUME NEW S, NEW q \in Seq(S), NEW n \in 0 .. Len(q) - 1
    PROVE  /\ SubSeq(q, 1, n) \in Seq(S) /\ Len(SubSeq(q, 1, n)) = n
           /\ n \in Nat /\ n < Len(q) /\ Len(q) \in Nat
           /\ \A i \in 1 .. n : i \in 1 .. Len(q) /\ SubSeq(q, 1, n)[i] = q[i]
OBVIOUS

\* PlanReader looks at a record and at what is ahead of it.
LEMMA PrefixInOrder ==
    ASSUME PlanInOrder, plan \in Seq(PlanRecords), NEW n \in 0 .. Len(plan) - 1,
           plan' = SubSeq(plan, 1, n)
    PROVE  PlanInOrder'
<1>1. /\ plan' \in Seq(PlanRecords) /\ Len(plan') = n /\ n \in Nat
      /\ \A i \in 1 .. n : i \in 1 .. Len(plan) /\ plan'[i] = plan[i]
  BY PrefixFacts
<1>2. DOMAIN plan = 1 .. Len(plan) /\ DOMAIN plan' = 1 .. n
  BY <1>1
<1> SUFFICES ASSUME NEW i \in 1 .. n
             PROVE  /\ Accepts(i)'
                    /\ plan'[i].kind = "h" <=>
                           \E j \in 1 .. i - 1 :
                               Inode[plan'[j].path] = Inode[plan'[i].path]
                    /\ \/ plan'[i].path \in Range(Sources)
                       \/ \E j \in 1 .. i - 1 : Planned(j, i)'
  BY <1>2 DEF PlanInOrder
<1>3. i \in DOMAIN plan /\ plan'[i] = plan[i]
  BY <1>1, <1>2
<1>4. \A j \in 1 .. i - 1 : plan'[j] = plan[j]
  BY <1>1
<1>5. i # 1 => i - 1 \in 1 .. i - 1
  BY <1>1
<1>6. Accepts(i)'
  BY <1>3, <1>4, <1>5 DEF PlanInOrder, Accepts
<1>7. plan'[i].kind = "h" <=>
          \E j \in 1 .. i - 1 : Inode[plan'[j].path] = Inode[plan'[i].path]
  <2>1. plan[i].kind = "h" <=>
            \E j \in 1 .. i - 1 : Inode[plan[j].path] = Inode[plan[i].path]
    BY <1>3 DEF PlanInOrder
  <2>2. (\E j \in 1 .. i - 1 : Inode[plan'[j].path] = Inode[plan'[i].path]) <=>
            \E j \in 1 .. i - 1 : Inode[plan[j].path] = Inode[plan[i].path]
    BY <1>3, <1>4
  <2> QED BY <1>3, <2>1, <2>2
<1>8. \A j \in 1 .. i - 1 : Planned(j, i)' <=> Planned(j, i)
  BY <1>3, <1>4 DEF Planned
<1>9. plan'[i].path \in Range(Sources) \/ \E j \in 1 .. i - 1 : Planned(j, i)'
  BY <1>3, <1>8 DEF PlanInOrder
<1> QED BY <1>6, <1>7, <1>9

\* What holds of a plan also when its end is lost.
OrderInv == IF phase = "cut" THEN PlanInOrder ELSE ListInv

LEMMA OrderStep == PoolInv /\ OrderInv /\ [PlannerNext]_vars => OrderInv'
<1> SUFFICES ASSUME PoolInv, OrderInv, [PlannerNext]_vars PROVE OrderInv'
  OBVIOUS
<1>1. CASE phase = "cut"
  <2>1. phase' = "cut" /\ plan' = plan /\ PlanInOrder
    BY <1>1, CutIsFinal DEF OrderInv
  <2>2. PlanInOrder'
    BY <2>1 DEF PlanInOrder, Accepts, Planned
  <2> QED BY <2>1, <2>2 DEF OrderInv
<1>2. CASE phase # "cut" /\ phase' = "cut"
  <2>1. PICK n \in 0 .. Len(plan) - 1 : plan' = SubSeq(plan, 1, n)
    BY <1>2, OnlyCloseCuts
  <2>2. PlanInOrder /\ plan \in Seq(PlanRecords)
    BY <1>2, PlanIsGood DEF OrderInv, ListInv, SliceTypes
  <2>3. PlanInOrder'
    BY <2>1, <2>2, PrefixInOrder
  <2> QED BY <1>2, <2>3 DEF OrderInv
<1>3. CASE phase # "cut" /\ phase' # "cut"
  BY <1>3, ListStep DEF OrderInv
<1> QED BY <1>1, <1>2, <1>3

\* For every file system, every slice size and any number of threads, the
\* archiver's PlanReader accepts what neotape-plan has written, whenever it
\* stops and though the last fclose fails; the data of an inode is planned once and ahead of all its hard links
\* (InodeTracker); and no entry is ahead of its directory.
THEOREM PlanStaysInOrder == PlannerSpec => []PlanInOrder
<1>1. PlannerInit => OrderInv
  BY InitList DEF OrderInv, PlannerInit, ScanInit
<1>2. PoolInv /\ OrderInv /\ [PlannerNext]_vars => OrderInv'
  BY OrderStep
<1>3. OrderInv => PlanInOrder
  BY PlanIsGood DEF OrderInv
<1> QED BY <1>1, <1>2, <1>3, PoolInvariant, PTL DEF PlannerSpec

-----------------------------------------------------------------------------
(* The sizes of slices. *)

ByteSet(q, I) == {b \in I \X (1 .. Widest) : b[2] <= q[b[1]].size}

LEMMA ByteSetFinite ==
    ASSUME NEW q, NEW I, IsFiniteSet(I)
    PROVE  IsFiniteSet(ByteSet(q, I)) /\ Bytes(q, I) \in Nat
<1>1. IsFiniteSet(1 .. Widest)
  BY FS_Interval, ScanAssumption
<1>2. IsFiniteSet(I \X (1 .. Widest))
  BY <1>1, FS_Product
<1>3. IsFiniteSet(ByteSet(q, I))
  BY <1>2, FS_Subset DEF ByteSet
<1> QED BY <1>3, FS_CardinalityType DEF Bytes, ByteSet

LEMMA BytesOfOne ==
    ASSUME NEW q, NEW i, q[i].size \in 0 .. Widest
    PROVE  Bytes(q, {i}) = q[i].size
<1> DEFINE n == q[i].size
           f == [k \in 1 .. n |-> <<i, k>>]
<1>1. ByteSet(q, {i}) = {<<i, k>> : k \in 1 .. n}
  <2>1. \A b \in ByteSet(q, {i}) : b = <<i, b[2]>> /\ b[2] \in 1 .. n
    BY ScanAssumption DEF ByteSet
  <2>2. \A k \in 1 .. n : <<i, k>> \in ByteSet(q, {i})
    BY ScanAssumption DEF ByteSet
  <2> QED BY <2>1, <2>2
<1> HIDE DEF n
<1>2. f \in Bijection(1 .. n, ByteSet(q, {i}))
  <2>1. f \in [1 .. n -> ByteSet(q, {i})]
    BY <1>1
  <2>2. \A t \in ByteSet(q, {i}) : \E k \in 1 .. n : f[k] = t
    BY <1>1
  <2>3. \A j, k \in 1 .. n : f[j] = f[k] => j = k
    OBVIOUS
  <2> HIDE DEF f
  <2> QED BY <2>1, <2>2, <2>3 DEF Bijection, Injection, Surjection, IsInjective
<1>3. ExistsBijection(1 .. n, ByteSet(q, {i}))
  BY <1>2 DEF ExistsBijection
<1>4. n \in Nat
  BY ScanAssumption DEF n
<1>5. IsFiniteSet(1 .. n) /\ Cardinality(1 .. n) = n
  <2>1. 1 \in Int /\ n \in Int /\ (IF 1 > n THEN 0 ELSE n - 1 + 1) = n
    BY <1>4
  <2> QED BY <2>1, FS_Interval
<1>6. Cardinality(ByteSet(q, {i})) = n
  BY <1>3, <1>5, FS_Bijection
<1> QED BY <1>6 DEF Bytes, ByteSet, n

\* One more place adds its size.
LEMMA BytesAdd ==
    ASSUME NEW q, NEW p, NEW I, IsFiniteSet(I), NEW i, i \notin I,
           \A j \in I : p[j].size = q[j].size, p[i].size \in 0 .. Widest
    PROVE  Bytes(p, I \cup {i}) = Bytes(q, I) + p[i].size
<1> DEFINE A == ByteSet(q, I)
           B == ByteSet(p, {i})
<1>1. ByteSet(p, I \cup {i}) = A \cup B
  BY DEF ByteSet
<1>2. A \cap B = {}
  BY DEF ByteSet
<1>3. IsFiniteSet({i})
  BY FS_Singleton
<1>4. IsFiniteSet(A) /\ IsFiniteSet(B)
  BY <1>3, ByteSetFinite
<1>5. Cardinality(A) \in Nat /\ Cardinality(B) \in Nat
  BY <1>4, FS_CardinalityType
<1>6. Cardinality(B) = p[i].size
  BY BytesOfOne DEF Bytes, ByteSet
<1>7. Bytes(p, I \cup {i}) = Cardinality(A \cup B)
  BY <1>1 DEF Bytes, ByteSet
<1>8. Bytes(q, I) = Cardinality(A)
  BY DEF Bytes, ByteSet
<1> HIDE DEF A, B
<1>9. Cardinality(A \cup B) = Cardinality(A) + Cardinality(B) - Cardinality({})
  BY <1>2, <1>4, FS_Union
<1> QED BY <1>5, <1>6, <1>7, <1>8, <1>9, FS_EmptySet

LEMMA BytesOfNone ==
    ASSUME NEW q
    PROVE  Bytes(q, {}) = 0
<1>1. ByteSet(q, {}) = {}
  BY DEF ByteSet
<1> QED BY <1>1, FS_EmptySet DEF Bytes, ByteSet

LEMMA BytesSame ==
    ASSUME NEW q, NEW p, NEW I, \A j \in I : p[j].size = q[j].size
    PROVE  Bytes(p, I) = Bytes(q, I)
<1>1. ByteSet(p, I) = ByteSet(q, I)
  BY DEF ByteSet
<1> QED BY <1>1 DEF Bytes, ByteSet

\* The places of a slice in the list, and what the promise says of them.
Part(q, n) == {i \in 1 .. Len(q) : q[i].slice = n}
Fits(q, n) ==
    Cardinality(Part(q, n)) <= 1 \/ Bytes(q, Part(q, n)) <= SlicePreaddLimit

FitInv ==
    /\ \A i \in 1 .. Len(slice) : slice[i].size \in 0 .. Widest
    /\ \A i \in 1 .. Len(plan) : plan[i].slice < sliceNum
    /\ Bytes(Listed, Part(Listed, sliceNum)) = SizeOf(slice)
    /\ \A n \in Nat : Fits(Listed, n)

LEMMA PartFinite ==
    ASSUME NEW q, Len(q) \in Nat, NEW n
    PROVE  /\ IsFiniteSet(Part(q, n)) /\ Cardinality(Part(q, n)) \in Nat
           /\ Bytes(q, Part(q, n)) \in Nat
<1>1. IsFiniteSet(1 .. Len(q))
  BY FS_Interval
<1>2. IsFiniteSet(Part(q, n))
  BY <1>1, FS_Subset DEF Part
<1> QED BY <1>2, FS_CardinalityType, ByteSetFinite

LEMMA SizeOfAppend ==
    ASSUME NEW s \in Seq(Items), NEW e \in Items, e.size \in 0 .. Widest
    PROVE  /\ SizeOf(Append(s, e)) = SizeOf(s) + e.size /\ SizeOf(s) \in Nat
           /\ SizeOf(<<>>) = 0 /\ SizeOf(<<e>>) = e.size
<1>1. /\ Len(s) \in Nat /\ DOMAIN s = 1 .. Len(s)
      /\ DOMAIN Append(s, e) = (1 .. Len(s)) \cup {Len(s) + 1}
      /\ Append(s, e)[Len(s) + 1] = e
      /\ \A j \in 1 .. Len(s) : Append(s, e)[j].size = s[j].size
      /\ Len(s) + 1 \notin 1 .. Len(s)
  OBVIOUS
<1>2. IsFiniteSet(1 .. Len(s))
  BY <1>1, FS_Interval
<1> DEFINE p == Append(s, e)
           i == Len(s) + 1
           I == 1 .. Len(s)
<1>3. SizeOf(p) = SizeOf(s) + e.size
  <2>1. p[i].size = e.size /\ i \notin I /\ SizeOf(p) = Bytes(p, I \cup {i})
    BY <1>1 DEF SizeOf
  <2>2. IsFiniteSet(I) /\ \A j \in I : p[j].size = s[j].size
    BY <1>1, <1>2
  <2>3. p[i].size \in 0 .. Widest
    BY <2>1
  <2>4. SizeOf(s) = Bytes(s, I)
    BY <1>1 DEF SizeOf
  <2> HIDE DEF p, i, I
  <2>5. Bytes(p, I \cup {i}) = Bytes(s, I) + p[i].size
    BY <2>1, <2>2, <2>3, BytesAdd
  <2> QED BY <2>1, <2>4, <2>5
<1>4. SizeOf(s) \in Nat
  BY <1>1, <1>2, ByteSetFinite DEF SizeOf
<1>5. DOMAIN <<>> = {} /\ DOMAIN <<e>> = {1} /\ <<e>>[1] = e
  OBVIOUS
<1> QED BY <1>3, <1>4, <1>5, BytesOfNone, BytesOfOne DEF SizeOf

LEMMA SliceIsNat ==
    ASSUME NEW q \in Seq(PlanRecords)
    PROVE  \A i \in 1 .. Len(q) : q[i].slice \in Nat
<1>1. \A i \in 1 .. Len(q) : q[i] \in PlanRecords
  OBVIOUS
<1> QED BY <1>1 DEF PlanRecords

LEMMA LimitIsNat == SlicePreaddLimit \in Nat
<1>1. SliceSize \in Nat /\ Widest \in Nat
  BY ScanAssumption
<1>2. SliceSize \div 2 \in Nat
  BY <1>1
<1> QED BY <1>1, <1>2 DEF SlicePreaddLimit

\* A record that joins the list joins one part of it.
LEMMA PartGrows ==
    ASSUME NEW q \in Seq(PlanRecords), NEW r \in PlanRecords, r.size \in 0 .. Widest
    PROVE  /\ Cardinality(Part(Append(q, r), r.slice)) = Cardinality(Part(q, r.slice)) + 1
           /\ Bytes(Append(q, r), Part(Append(q, r), r.slice)) =
                  Bytes(q, Part(q, r.slice)) + r.size
           /\ \A n \in Nat \ {r.slice} :
                  /\ Part(Append(q, r), n) = Part(q, n)
                  /\ Bytes(Append(q, r), Part(q, n)) = Bytes(q, Part(q, n))
<1> DEFINE p == Append(q, r)
           i == Len(q) + 1
           I == Part(q, r.slice)
<1>1. /\ Len(p) = Len(q) + 1 /\ Len(q) \in Nat /\ p[i] = r
      /\ \A j \in 1 .. Len(q) : p[j] = q[j]
  OBVIOUS
<1>2. i \notin I /\ I \subseteq 1 .. Len(q) /\ IsFiniteSet(I)
  <2>1. IsFiniteSet(I)
    BY <1>1, PartFinite
  <2>2. I \subseteq 1 .. Len(q)
    BY DEF Part
  <2> QED BY <1>1, <2>1, <2>2
<1>3. Part(p, r.slice) = I \cup {i}
  BY <1>1 DEF Part
<1>4. \A n \in Nat \ {r.slice} : Part(p, n) = Part(q, n)
  BY <1>1 DEF Part
<1>5. \A n \in Nat : \A j \in Part(q, n) : p[j].size = q[j].size
  BY <1>1 DEF Part
<1>6. \A j \in I : p[j].size = q[j].size
  BY <1>1, <1>2
<1> HIDE DEF p, i, I
<1>7. Bytes(p, I \cup {i}) = Bytes(q, I) + p[i].size
  <2>1. i \notin I /\ IsFiniteSet(I) /\ p[i].size \in 0 .. Widest
    BY <1>1, <1>2
  <2> QED BY <1>6, <2>1, BytesAdd
<1>8. Cardinality(I \cup {i}) = Cardinality(I) + 1
  BY <1>2, FS_AddElement
<1>9. \A n \in Nat : Bytes(p, Part(q, n)) = Bytes(q, Part(q, n))
  BY <1>5, BytesSame
<1> QED BY <1>1, <1>3, <1>4, <1>7, <1>8, <1>9 DEF p, I

LEMMA ListedBelow ==
    ASSUME SliceTypes, FitInv
    PROVE  /\ \A i \in 1 .. Len(Listed) :
                  /\ Listed[i].slice <= sliceNum
                  /\ slice = <<>> => Listed[i].slice < sliceNum
           /\ Part(Listed, sliceNum + 1) = {}
           /\ slice = <<>> => Part(Listed, sliceNum) = {}
<1>1. /\ plan \in Seq(PlanRecords) /\ slice \in Seq(Items) /\ sliceNum \in Nat
  BY DEF SliceTypes
<1> DEFINE rest == Records(slice, sliceNum)
<1>2. /\ rest \in Seq(PlanRecords) /\ Len(rest) = Len(slice)
      /\ \A i \in 1 .. Len(slice) : rest[i] = AsRecord(slice[i], sliceNum, i - 1)
  BY <1>1, RecordsFacts
<1>3. Listed = plan \o rest
  BY DEF Listed
<1> HIDE DEF rest
<1>4. /\ Len(Listed) = Len(plan) + Len(slice) /\ Len(plan) \in Nat
      /\ Len(slice) \in Nat /\ (slice = <<>> => Listed = plan)
      /\ Listed \in Seq(PlanRecords)
  BY LastListed
<1>5. \A i \in 1 .. Len(Listed) :
          /\ Listed[i].slice <= sliceNum
          /\ slice = <<>> => Listed[i].slice < sliceNum
  <2> SUFFICES ASSUME NEW i \in 1 .. Len(Listed)
               PROVE  /\ Listed[i].slice <= sliceNum
                      /\ slice = <<>> => Listed[i].slice < sliceNum
    OBVIOUS
  <2>1. CASE i \in 1 .. Len(plan)
    <3>1. Listed[i] = plan[i]
      BY <1>1, <1>2, <1>3, <2>1, ConcatFacts
    <3>2. plan[i] \in PlanRecords
      BY <1>1, <2>1
    <3>3. plan[i].slice \in Nat /\ plan[i].slice < sliceNum
      BY <2>1, <3>2 DEF FitInv, PlanRecords
    <3> QED BY <1>1, <3>1, <3>3
  <2>2. CASE i \notin 1 .. Len(plan)
    <3>1. i - Len(plan) \in 1 .. Len(rest) /\ i = Len(plan) + (i - Len(plan))
      BY <1>2, <1>4, <2>2
    <3>2. Listed[i] = rest[i - Len(plan)]
      BY <1>1, <1>2, <1>3, <3>1, ConcatFacts
    <3>3. slice # <<>>
      BY <1>4, <2>2
    <3>4. \A j \in 1 .. Len(rest) : rest[j].slice = sliceNum
      <4>1. \A e, k : AsRecord(e, sliceNum, k).slice = sliceNum
        BY DEF AsRecord
      <4> QED BY <1>2, <4>1
    <3> QED BY <1>1, <3>1, <3>2, <3>3, <3>4
  <2> QED BY <2>1, <2>2
<1>6. \A i \in 1 .. Len(Listed) : Listed[i].slice \in Nat
  BY <1>4, SliceIsNat
<1> QED BY <1>1, <1>5, <1>6 DEF Part

\* An entry of a size the code can have joins the slice s, which the current
\* one is, or an empty one behind it.
LEMMA FitJoins ==
    ASSUME FitInv, SliceTypes, NEW e \in Items, e.size \in 0 .. Widest,
           NEW n \in Nat, NEW k \in Nat, Joins(e, n, k), NEW s \in Seq(Items),
           \/ n = sliceNum /\ s = slice
           \/ n = sliceNum + 1 /\ s = <<>>,
           s = slice => s = <<>> \/ SizeOf(s) + e.size <= SlicePreaddLimit,
           \/ /\ slice' = Append(s, e) /\ sliceNum' = n
              /\ plan' = IF n = sliceNum THEN plan ELSE Listed
           \/ slice' = <<>> /\ sliceNum' = n + 1 /\ plan' = Listed'
    PROVE  FitInv'
<1> DEFINE r == AsRecord(e, n, k)
<1>1. r.slice = n /\ r.size = e.size
  BY DEF AsRecord
<1>2. /\ Listed' = Append(Listed, r) /\ r \in PlanRecords /\ Listed \in Seq(PlanRecords)
      /\ sliceNum \in Nat /\ slice \in Seq(Items) /\ plan \in Seq(PlanRecords)
      /\ Len(Listed) \in Nat
  BY LastListed DEF Joins, SliceTypes
<1> HIDE DEF r
<1> DEFINE p == Append(Listed, r)
<1>3. /\ Cardinality(Part(p, n)) = Cardinality(Part(Listed, n)) + 1
      /\ Bytes(p, Part(p, n)) = Bytes(Listed, Part(Listed, n)) + e.size
      /\ \A m \in Nat \ {n} : /\ Part(p, m) = Part(Listed, m)
                              /\ Bytes(p, Part(Listed, m)) = Bytes(Listed, Part(Listed, m))
  BY <1>1, <1>2, PartGrows
<1>4. /\ \A i \in 1 .. Len(Listed) :
                  /\ Listed[i].slice <= sliceNum
                  /\ slice = <<>> => Listed[i].slice < sliceNum
      /\ Part(Listed, sliceNum + 1) = {}
      /\ slice = <<>> => Part(Listed, sliceNum) = {}
  BY ListedBelow
<1>5. /\ Len(p) = Len(Listed) + 1 /\ p[Len(Listed) + 1] = r
      /\ \A i \in 1 .. Len(Listed) : p[i] = Listed[i]
  BY <1>2
<1> HIDE DEF p
<1>6. SizeOf(s) \in Nat /\ SizeOf(<<>>) = 0 /\ SizeOf(Append(s, e)) = SizeOf(s) + e.size
  BY SizeOfAppend
<1>7. Bytes(Listed, Part(Listed, n)) = SizeOf(s)
  <2>1. CASE n = sliceNum /\ s = slice
    BY <2>1 DEF FitInv
  <2>2. CASE n = sliceNum + 1 /\ s = <<>>
    BY <1>4, <1>6, <2>2, BytesOfNone
  <2> QED BY <2>1, <2>2
<1>8. \A m \in Nat : Fits(p, m)
  <2>1. Fits(p, n)
    <3>1. CASE Part(Listed, n) = {}
      BY <1>3, <3>1, FS_EmptySet DEF Fits
    <3>2. CASE Part(Listed, n) # {}
      <4>1. s = slice /\ s # <<>>
        BY <1>2, <1>4, <3>2
      <4> QED BY <1>3, <1>7, <4>1 DEF Fits
    <3> QED BY <3>1, <3>2
  <2>2. \A m \in Nat \ {n} : Fits(p, m)
    BY <1>3 DEF Fits, FitInv
  <2> QED BY <2>1, <2>2
<1>9. \A i \in 1 .. Len(p) : p[i].slice \in Nat /\ p[i].slice <= n
  <2> SUFFICES ASSUME NEW i \in 1 .. Len(p)
               PROVE  p[i].slice \in Nat /\ p[i].slice <= n
    OBVIOUS
  <2>1. CASE i = Len(Listed) + 1
    BY <1>1, <1>5, <2>1
  <2>2. CASE i # Len(Listed) + 1
    <3>1. i \in 1 .. Len(Listed)
      <4>1. Len(p) = Len(Listed) + 1 /\ Len(Listed) \in Nat
        BY <1>2, <1>5
      <4> QED BY <2>2, <4>1
    <3>2. Listed[i] \in PlanRecords
      BY <1>2, <3>1
    <3>3. Listed[i].slice \in Nat /\ Listed[i].slice <= sliceNum
      BY <1>4, <3>1, <3>2 DEF PlanRecords
    <3> QED BY <1>2, <1>5, <3>1, <3>3
  <2> QED BY <2>1, <2>2
<1>10. CASE /\ slice' = Append(s, e) /\ sliceNum' = n
            /\ plan' = IF n = sliceNum THEN plan ELSE Listed
  <2>1. Bytes(Listed, Part(Listed, sliceNum))' = SizeOf(slice)'
    BY <1>2, <1>3, <1>7, <1>6, <1>10 DEF p
  <2>2. \A i \in 1 .. Len(slice') : slice'[i].size \in 0 .. Widest
    <3>1. \A i \in 1 .. Len(s) : s[i].size \in 0 .. Widest
      BY DEF FitInv
    <3> QED BY <1>10, <3>1
  <2>3. \A i \in 1 .. Len(plan') : plan'[i].slice < sliceNum'
    <3>1. CASE n = sliceNum /\ plan' = plan
      BY <1>10, <3>1 DEF FitInv
    <3>2. CASE n = sliceNum + 1 /\ plan' = Listed
      <4>1. \A i \in 1 .. Len(Listed) : Listed[i].slice \in Nat
        BY <1>2, SliceIsNat
      <4>2. \A i \in 1 .. Len(Listed) : Listed[i].slice <= sliceNum
        BY <1>4
      <4>3. sliceNum \in Nat /\ sliceNum' = sliceNum + 1
        BY <1>2, <1>10, <3>2
      <4> QED BY <3>2, <4>1, <4>2, <4>3
    <3> QED BY <1>2, <1>10, <3>1, <3>2
  <2>4. \A m \in Nat : Fits(Listed', m)
    BY <1>2, <1>8 DEF p
  <2> QED BY <2>1, <2>2, <2>3, <2>4 DEF FitInv, Fits
<1>11. CASE slice' = <<>> /\ sliceNum' = n + 1 /\ plan' = Listed'
  <2>1. Part(p, n + 1) = {}
    BY <1>9 DEF Part
  <2>2. Bytes(p, Part(p, n + 1)) = 0
    BY <2>1, BytesOfNone
  <2>3. Bytes(Listed, Part(Listed, sliceNum))' = SizeOf(slice)'
    BY <1>2, <1>6, <1>11, <2>2 DEF p
  <2>4. \A i \in 1 .. Len(plan') : plan'[i].slice < sliceNum'
    <3>1. plan' = p /\ sliceNum' = n + 1
      BY <1>2, <1>11 DEF p
    <3> QED BY <1>9, <3>1
  <2>5. \A m \in Nat : Fits(Listed', m)
    BY <1>2, <1>8 DEF p
  <2>6. \A i \in 1 .. Len(slice') : slice'[i].size \in 0 .. Widest
    BY <1>11
  <2> QED BY <2>3, <2>4, <2>5, <2>6 DEF FitInv, Fits
<1> QED BY <1>10, <1>11

LEMMA FitAdds ==
    ASSUME SliceTypes, FitInv, NEW e \in Items, e.size \in 0 .. Widest, AddToSlice(e)
    PROVE  FitInv'
<1>1. /\ plan \in Seq(PlanRecords) /\ slice \in Seq(Items) /\ sliceNum \in Nat
      /\ sliceNum + 1 \in Nat /\ Len(slice) \in Nat /\ plan \o <<>> = plan
  BY DEF SliceTypes
<1>2. SlicePreaddLimit \in Nat /\ SizeOf(slice) \in Nat /\ e.size \in Nat
  <2>1. SizeOf(slice) \in Nat
    BY <1>1, SizeOfAppend
  <2>2. e.size \in Nat
    BY DEF Items
  <2> QED BY <2>1, <2>2, LimitIsNat
<1>3. SliceTypes' /\ slice' = <<>> => plan' = Listed'
  <2> SUFFICES ASSUME SliceTypes', slice' = <<>> PROVE plan' = Listed'
    OBVIOUS
  <2>1. plan' \in Seq(PlanRecords) /\ Records(slice', sliceNum') = <<>>
    BY RecordsEmpty DEF SliceTypes
  <2> QED BY <2>1, ConcatFacts DEF Listed
<1>4. CASE ~ShouldStartNextSlice(slice, e)
  <2>1. Joins(e, sliceNum, Len(slice))
    BY <1>4, JoinsSlice
  <2>2. slice = <<>> \/ SizeOf(slice) + e.size <= SlicePreaddLimit
    BY <1>2, <1>4 DEF ShouldStartNextSlice
  <2>3. \/ slice' = Append(slice, e) /\ sliceNum' = sliceNum /\ plan' = plan
        \/ slice' = <<>> /\ sliceNum' = sliceNum + 1
    BY <1>1, <1>4 DEF AddToSlice
  <2>4. slice' = <<>> => plan' = Listed'
    BY <1>3, <2>1 DEF Joins
  <2> QED BY <1>1, <2>1, <2>2, <2>3, <2>4, FitJoins
<1>5. CASE ShouldStartNextSlice(slice, e)
  <2>1. Joins(e, sliceNum + 1, 0)
    BY <1>5, JoinsNext
  <2>2. \/ slice' = Append(<<>>, e) /\ sliceNum' = sliceNum + 1 /\ plan' = Listed
        \/ slice' = <<>> /\ sliceNum' = sliceNum + 1 + 1
    <3>1. Append(<<>>, e) = <<e>>
      OBVIOUS
    <3> QED BY <1>5, <3>1 DEF AddToSlice, Listed
  <2>3. slice' = <<>> => plan' = Listed'
    BY <1>3, <2>1 DEF Joins
  <2>4. <<>> \in Seq(Items) /\ sliceNum + 1 # sliceNum /\ 0 \in Nat
    BY <1>1
  <2>5. slice # <<>>
    BY <1>5 DEF ShouldStartNextSlice
  <2> QED BY <1>1, <2>1, <2>2, <2>3, <2>4, <2>5, FitJoins
<1> QED BY <1>4, <1>5

LEMMA ResolvedSize ==
    ASSUME NEW e \in Entries
    PROVE  Resolve(e) \in Items /\ Resolve(e).size \in 0 .. Widest
<1>1. Size[e] \in 0 .. Widest /\ 0 \in 0 .. Widest
  BY ScanAssumption
<1> QED BY <1>1, ResolveType DEF Resolve

LEMMA RootIsEntry ==
    ASSUME WalkTypes, ScanRoot
    PROVE  Sources[scanned + 1] \in Entries
  BY ScanAssumption DEF WalkTypes, ScanRoot

LEMMA FinishFits ==
    ASSUME SliceTypes, FitInv, Finish
    PROVE  FitInv'
<1>1. /\ plan' = Listed /\ slice' = <<>>
      /\ sliceNum' = IF slice = <<>> THEN sliceNum ELSE sliceNum + 1
  BY DEF Finish, Listed
<1>2. Listed \in Seq(PlanRecords) /\ sliceNum \in Nat
  BY LastListed DEF SliceTypes
<1>3. Listed' = Listed
  <2>1. Records(slice', sliceNum') = <<>> /\ plan' \in Seq(PlanRecords)
    BY <1>1, <1>2, RecordsEmpty
  <2> QED BY <1>1, <2>1, ConcatFacts DEF Listed
<1>4. \A i \in 1 .. Len(Listed) : Listed[i].slice \in Nat /\ Listed[i].slice < sliceNum'
  <2>1. \A i \in 1 .. Len(Listed) : Listed[i].slice \in Nat
    BY <1>2, SliceIsNat
  <2> QED BY <1>1, <1>2, <2>1, ListedBelow
<1>5. Part(Listed, sliceNum') = {}
  BY <1>1, <1>2, <1>4 DEF Part
<1>6. Bytes(Listed', Part(Listed', sliceNum')) = SizeOf(slice')
  <2>1. SizeOf(slice') = 0
    BY <1>1, BytesOfNone DEF SizeOf
  <2> QED BY <1>3, <1>5, <2>1, BytesOfNone
<1>7. \A n \in Nat : Fits(Listed', n)
  BY <1>3 DEF FitInv
<1>8. \A i \in 1 .. Len(slice') : slice'[i].size \in 0 .. Widest
  BY <1>1
<1>9. \A i \in 1 .. Len(plan') : plan'[i].slice < sliceNum'
  BY <1>1, <1>4
<1> QED BY <1>6, <1>7, <1>8, <1>9 DEF FitInv, Fits

LEMMA FitStep ==
    PoolInv /\ ListInv /\ FitInv /\ [PlannerNext]_vars => phase' = "cut" \/ FitInv'
<1> SUFFICES ASSUME PoolInv, ListInv, FitInv, [PlannerNext]_vars, phase' # "cut"
             PROVE  FitInv'
  OBVIOUS
<1>1. [StatChildren \/ Walk \/ Fail]_scanVars /\ WalkTypes
  BY ScanStep DEF PoolInv
<1>2. CASE UNCHANGED <<slice, sliceNum, plan>>
  <2>1. Listed' = Listed
    BY <1>2 DEF Listed
  <2> QED BY <1>2, <2>1 DEF FitInv, Fits
<1>3. CASE \E e \in Entries : AddToSlice(Resolve(e))
  BY <1>3, ResolvedSize, FitAdds DEF ListInv
<1>4. CASE Finish
  BY <1>4, FinishFits DEF ListInv
<1>5. ScanRoot => UNCHANGED <<slice, sliceNum, plan>> \/ \E e \in Entries : AddToSlice(Resolve(e))
  BY <1>1, RootIsEntry DEF ScanRoot
<1>6. AddChild => \E e \in Entries : AddToSlice(Resolve(e))
  <2> SUFFICES ASSUME AddChild PROVE \E e \in Entries : AddToSlice(Resolve(e))
    OBVIOUS
  <2>1. Walking /\ AddToSlice(Resolve(Child))
    BY DEF AddChild, Child
  <2> QED BY <1>1, <2>1, ChildIsEntry
<1>7. StatChildren \/ SkipChild \/ EnqueueDirectory \/ DirectoryDone \/ CloseOutput \/ Fail
          \/ UNCHANGED scanVars
          => UNCHANGED <<slice, sliceNum, plan>>
  BY DEF StatChildren, Descend, SkipChild, EnqueueDirectory, DirectoryDone, CloseOutput,
     Fail, scanVars
<1> QED BY <1>1, <1>2, <1>3, <1>4, <1>5, <1>6, <1>7 DEF Walk

LEMMA InitFits == PlannerInit => FitInv
<1> SUFFICES ASSUME PlannerInit PROVE FitInv
  OBVIOUS
<1>1. plan = <<>> /\ slice = <<>> /\ sliceNum = 0
  BY DEF PlannerInit, ScanInit
<1>2. Listed = <<>>
  BY <1>1, RecordsEmpty DEF Listed
<1>3. \A n : Part(<<>>, n) = {}
  BY DEF Part
<1>4. \A n : Fits(<<>>, n)
  BY <1>3, FS_EmptySet DEF Fits
<1>5. SizeOf(<<>>) = 0
  BY BytesOfNone DEF SizeOf
<1>6. Bytes(Listed, Part(Listed, sliceNum)) = SizeOf(slice)
  BY <1>1, <1>2, <1>3, <1>5, BytesOfNone
<1>7. \A n \in Nat : Fits(Listed, n)
  BY <1>2, <1>4
<1> QED BY <1>1, <1>6, <1>7 DEF FitInv

LEMMA ListedFits == SliceTypes /\ FitInv => SlicesFit
<1> SUFFICES ASSUME SliceTypes, FitInv, NEW n \in 0 .. sliceNum - 1
             PROVE  \/ Cardinality({i \in DOMAIN plan : plan[i].slice = n}) = 1
                    \/ Bytes(plan, {i \in DOMAIN plan : plan[i].slice = n}) <= SlicePreaddLimit
  BY DEF SlicesFit
<1>1. /\ plan \in Seq(PlanRecords) /\ sliceNum \in Nat /\ n \in Nat /\ n < sliceNum
      /\ slice \in Seq(Items) /\ Len(plan) \in Nat /\ DOMAIN plan = 1 .. Len(plan)
  BY DEF SliceTypes
<1> DEFINE rest == Records(slice, sliceNum)
<1>2. /\ rest \in Seq(PlanRecords) /\ Len(rest) = Len(slice)
      /\ \A i \in 1 .. Len(slice) : rest[i] = AsRecord(slice[i], sliceNum, i - 1)
  BY <1>1, RecordsFacts
<1>3. Listed = plan \o rest
  BY DEF Listed
<1> HIDE DEF rest
<1>4. /\ Len(Listed) = Len(plan) + Len(rest) /\ Len(rest) \in Nat
      /\ \A i \in 1 .. Len(plan) : Listed[i] = plan[i]
      /\ \A i \in 1 .. Len(rest) : Listed[Len(plan) + i] = rest[i]
  <2>1. Len(rest) \in Nat
    BY <1>1, <1>2
  <2>2. plan \in Seq(PlanRecords) /\ rest \in Seq(PlanRecords)
    BY <1>1, <1>2
  <2> QED BY <1>3, <2>1, <2>2, ConcatFacts
<1>5. \A j \in 1 .. Len(rest) : rest[j].slice = sliceNum
  <2>1. \A e, k : AsRecord(e, sliceNum, k).slice = sliceNum
    BY DEF AsRecord
  <2> QED BY <1>2, <2>1
<1> DEFINE part == {i \in DOMAIN plan : plan[i].slice = n}
<1>6. Part(Listed, n) = part
  <2>1. \A i \in 1 .. Len(Listed) : i \notin 1 .. Len(plan) => Listed[i].slice = sliceNum
    <3> SUFFICES ASSUME NEW i \in 1 .. Len(Listed), i \notin 1 .. Len(plan)
                 PROVE  Listed[i].slice = sliceNum
      OBVIOUS
    <3>1. i - Len(plan) \in 1 .. Len(rest) /\ i = Len(plan) + (i - Len(plan))
      BY <1>1, <1>4
    <3> QED BY <1>4, <1>5, <3>1
  <2>2. \A i \in 1 .. Len(plan) : i \in 1 .. Len(Listed)
    BY <1>1, <1>4
  <2> QED BY <1>1, <1>4, <2>1, <2>2 DEF Part
<1>7. \A i \in part : plan[i].size = Listed[i].size
  BY <1>1, <1>4
<1>8. IsFiniteSet(part)
  <2>1. Len(Listed) \in Nat
    BY <1>1, <1>4
  <2> QED BY <1>6, <2>1, PartFinite
<1> HIDE DEF part
<1>9. Bytes(plan, part) = Bytes(Listed, part)
  BY <1>7, BytesSame
<1>10. Cardinality(part) \in Nat /\ (Cardinality(part) = 0 => part = {})
  BY <1>8, FS_CardinalityType, FS_EmptySet
<1>11. Cardinality(part) <= 1 \/ Bytes(Listed, part) <= SlicePreaddLimit
  BY <1>1, <1>6 DEF FitInv, Fits
<1>12. Cardinality(part) = 1 \/ Bytes(plan, part) <= SlicePreaddLimit
  BY <1>9, <1>10, <1>11, BytesOfNone, LimitIsNat
<1> QED BY <1>12 DEF part

\* Without its end no slice is larger.
LEMMA PrefixFits ==
    ASSUME SlicesFit, plan \in Seq(PlanRecords), NEW n \in 0 .. Len(plan) - 1,
           plan' = SubSeq(plan, 1, n), sliceNum' = sliceNum
    PROVE  SlicesFit'
<1>1. /\ plan' \in Seq(PlanRecords) /\ Len(plan') = n /\ n \in Nat
      /\ \A i \in 1 .. n : i \in 1 .. Len(plan) /\ plan'[i] = plan[i]
      /\ Len(plan) \in Nat
  BY PrefixFacts
<1>2. DOMAIN plan = 1 .. Len(plan) /\ DOMAIN plan' = 1 .. n
  BY <1>1
<1> SUFFICES ASSUME NEW k \in 0 .. sliceNum - 1
             PROVE  \/ Cardinality({i \in DOMAIN plan' : plan'[i].slice = k}) = 1
                    \/ Bytes(plan', {i \in DOMAIN plan' : plan'[i].slice = k})
                           <= SlicePreaddLimit
  BY DEF SlicesFit, SlicePreaddLimit
<1> DEFINE whole == {i \in DOMAIN plan : plan[i].slice = k}
           part  == {i \in DOMAIN plan' : plan'[i].slice = k}
<1>3. part \in SUBSET whole /\ \A i \in part : plan'[i].size = plan[i].size
  BY <1>1, <1>2
<1>4. IsFiniteSet(whole)
  <2>1. whole = Part(plan, k)
    BY <1>2 DEF Part
  <2> QED BY <1>1, <2>1, PartFinite
<1>5. Cardinality(whole) = 1 \/ Bytes(plan, whole) <= SlicePreaddLimit
  BY DEF SlicesFit
<1> HIDE DEF part, whole
<1>6. IsFiniteSet(part) /\ Cardinality(part) <= Cardinality(whole)
  BY <1>3, <1>4, FS_Subset
<1>7. Cardinality(part) \in Nat /\ (Cardinality(part) = 0 => part = {})
  BY <1>6, FS_CardinalityType, FS_EmptySet
<1>8. /\ Bytes(plan', part) <= Bytes(plan, whole)
      /\ Bytes(plan', part) \in Nat /\ Bytes(plan, whole) \in Nat
  <2>1. ByteSet(plan', part) \in SUBSET ByteSet(plan, whole)
    BY <1>3 DEF ByteSet
  <2>2. IsFiniteSet(ByteSet(plan, whole))
    BY <1>4, ByteSetFinite
  <2>3. Cardinality(ByteSet(plan', part)) <= Cardinality(ByteSet(plan, whole))
    BY <2>1, <2>2, FS_Subset
  <2>4. Bytes(plan', part) \in Nat /\ Bytes(plan, whole) \in Nat
    BY <1>4, <1>6, ByteSetFinite
  <2> QED BY <2>3, <2>4 DEF Bytes, ByteSet
<1>9. Cardinality(part) = 1 \/ Bytes(plan', part) <= SlicePreaddLimit
  <2>1. CASE Cardinality(whole) = 1
    <3>1. Cardinality(part) = 1 \/ part = {}
      BY <1>6, <1>7, <2>1
    <3>2. ASSUME part = {} PROVE Bytes(plan', part) = 0
      <4>1. ByteSet(plan', part) = {}
        BY <3>2 DEF ByteSet
      <4> QED BY <4>1, FS_EmptySet DEF Bytes, ByteSet
    <3> QED BY <3>1, <3>2, LimitIsNat
  <2>2. CASE Bytes(plan, whole) <= SlicePreaddLimit
    BY <1>8, <2>2, LimitIsNat
  <2> QED BY <1>5, <2>1, <2>2
<1> QED BY <1>9 DEF part

SizeInv == IF phase = "cut" THEN SlicesFit ELSE FitInv

LEMMA SizeStep == PoolInv /\ OrderInv /\ SizeInv /\ [PlannerNext]_vars => SizeInv'
<1> SUFFICES ASSUME PoolInv, OrderInv, SizeInv, [PlannerNext]_vars PROVE SizeInv'
  OBVIOUS
<1>1. CASE phase = "cut"
  <2>1. phase' = "cut" /\ UNCHANGED <<sliceNum, plan>> /\ SlicesFit
    BY <1>1, CutIsFinal DEF SizeInv
  <2>2. SlicesFit'
    BY <2>1 DEF SlicesFit
  <2> QED BY <2>1, <2>2 DEF SizeInv
<1>2. CASE phase # "cut" /\ phase' = "cut"
  <2>1. UNCHANGED sliceNum /\ \E n \in 0 .. Len(plan) - 1 : plan' = SubSeq(plan, 1, n)
    BY <1>2, OnlyCloseCuts
  <2>2. SlicesFit /\ plan \in Seq(PlanRecords)
    BY <1>2, ListedFits DEF OrderInv, SizeInv, ListInv, SliceTypes
  <2>3. SlicesFit'
    BY <2>1, <2>2, PrefixFits
  <2> QED BY <1>2, <2>3 DEF SizeInv
<1>3. CASE phase # "cut" /\ phase' # "cut"
  BY <1>3, FitStep DEF OrderInv, SizeInv
<1> QED BY <1>1, <1>2, <1>3

-----------------------------------------------------------------------------
(* What a plan has, it has with everything in it. *)

SameDevice(device, d) == OneFileSystem => device = Device[d]

Queued(d) ==
    \E i \in 1 .. Len(frontier) :
        frontier[i].path = d /\ SameDevice(frontier[i].device, d)

HeldUp(d) ==
    \E k \in 1 .. Len(stack) :
        stack[k].waiting = d /\ SameDevice(stack[k].device, d)

Awaited(e, d) ==
    \E k \in 1 .. Len(stack) :
        /\ SameDevice(stack[k].device, d)
        /\ \E i \in 1 .. Len(stack[k].left) : stack[k].left[i] = e

\* What was read of an entry is all there, or it is still to come.
Whole(d) ==
    \A e \in Range(Children[d]) \ unread :
        Ok(e, Device[d]) => InList(Listed, e) \/ Awaited(e, d)

Handled(d) == Queued(d) \/ HeldUp(d) \/ Whole(d)

CoverInv ==
    /\ \A i \in 1 .. Len(Sources) : i <= scanned => InList(Listed, Sources[i])
    /\ \A d \in Entries : InList(Listed, d) => Handled(d)
    /\ phase \in {"closing", "done"} =>
           /\ frontier = <<>> /\ stack = <<>> /\ slice = <<>>
           /\ scanned = Len(Sources)

LEMMA InitCovers == PlannerInit => CoverInv
<1> SUFFICES ASSUME PlannerInit PROVE CoverInv
  OBVIOUS
<1>1. plan = <<>> /\ slice = <<>> /\ sliceNum = 0 /\ scanned = 0 /\ phase = "scan"
  BY DEF PlannerInit, ScanInit
<1>2. Listed = <<>>
  BY <1>1, RecordsEmpty DEF Listed
<1> QED BY <1>1, <1>2 DEF CoverInv, InList

\* stat_entry asks of the children of d what it asks for any source on d's device.
LEMMA OkSame ==
    ASSUME NEW d, NEW device, SameDevice(device, d), NEW e, Ok(e, Device[d])
    PROVE  Ok(e, device)
BY DEF Ok, SameDevice

\* A step keeps CoverInv's second part when it keeps each way to be handled.
LEMMA HandledStays ==
    ASSUME CoverInv, UNCHANGED gone, unread \subseteq unread',
           \A x : InList(Listed, x) => InList(Listed', x),
           \A d \in Entries : Queued(d) \/ HeldUp(d) => Handled(d)',
           \A d, e \in Entries :
               Awaited(e, d) /\ Ok(e, Device[d]) => InList(Listed', e) \/ Awaited(e, d)',
           \A d \in Entries : InList(Listed', d) => InList(Listed, d) \/ Handled(d)'
    PROVE  \A d \in Entries : InList(Listed', d) => Handled(d)'
<1> SUFFICES ASSUME NEW d \in Entries, InList(Listed, d) PROVE Handled(d)'
  OBVIOUS
<1>1. CASE Queued(d) \/ HeldUp(d)
  BY <1>1
<1>2. CASE Whole(d)
  <2>1. \A e \in Range(Children[d]) : e \in Entries
    <3>1. Children[d] \in Seq(Entries)
      BY ScanAssumption
    <3> QED BY <3>1 DEF Range
  <2>2. \A e : Ok(e, Device[d])' <=> Ok(e, Device[d])
    BY DEF Ok
  <2>3. Whole(d)'
    BY <1>2, <2>1, <2>2 DEF Whole
  <2> QED BY <2>3 DEF Handled
<1> QED BY <1>1, <1>2 DEF CoverInv, Handled

LEMMA FilesAreWhole ==
    ASSUME NEW d \in Entries, Kind[d] # "d"
    PROVE  Whole(d)
<1>1. Children[d] = <<>>
  BY ScanAssumption
<1> QED BY <1>1 DEF Whole, Range

\* A second name of what is in the plan adds nothing to be walked.
LEMMA LinksAreHandled ==
    ASSUME ListInv, CoverInv, DirectoriesLinkedOnce, NEW e \in Entries,
           Resolve(e).kind # "d"
    PROVE  InList(Listed, e) \/ Kind[e] # "d"
<1> SUFFICES ASSUME Kind[e] = "d" PROVE InList(Listed, e)
  OBVIOUS
<1>1. Inode[e] \in seen /\ seen = SeenIn(Listed) /\ Listed \in Seq(PlanRecords)
  BY LastListed DEF Resolve, ListInv
<1>2. PICK i \in 1 .. Len(Listed) : Inode[Listed[i].path] = Inode[e]
  BY <1>1 DEF SeenIn
<1>3. Listed[i] \in PlanRecords
  BY <1>1
<1>4. Listed[i].path \in Entries
  BY <1>3 DEF PlanRecords
<1> QED BY <1>2, <1>4 DEF DirectoriesLinkedOnce, InList

LEMMA DescendCovers ==
    ASSUME ListInv, WalkTypes, CoverInv, StatChildren
    PROVE  CoverInv'
<1> DEFINE dir == Head(frontier)
<1> PICK names \in Listings(dir.path) : Descend(dir, names)
  BY DEF StatChildren
<1> DEFINE frame == [left |-> names, device |-> dir.device, waiting |-> None]
<1>1. /\ frontier # <<>> /\ frontier' = Tail(frontier) /\ phase = "scan"
      /\ stack' = <<frame>> \o stack
      /\ unread' = unread \cup (Range(Children[dir.path]) \ Range(names))
      /\ UNCHANGED <<gone, scanned, slice, sliceNum, plan, phase>>
  BY DEF StatChildren, Calls, Descend
<1>2. /\ dir \in Dirs /\ dir = frontier[1] /\ Len(frontier) \in Nat
      /\ Len(frontier') = Len(frontier) - 1
      /\ \A i \in 1 .. Len(frontier') :
             i + 1 \in 1 .. Len(frontier) /\ frontier'[i] = frontier[i + 1]
  BY <1>1, HeadFacts DEF WalkTypes
<1>3. Listed' = Listed
  BY <1>1 DEF Listed
<1>4. names \in Seq(Entries) /\ dir.device \in Devices
  <2>1. dir.path \in Entries /\ dir.device \in Devices
    BY <1>2 DEF Dirs
  <2> QED BY <2>1, ListingFacts
<1>5. frame \in Frames
  BY <1>4 DEF Frames
<1>6. /\ Len(stack') = 1 + Len(stack) /\ Len(stack) \in Nat /\ stack'[1] = frame
      /\ \A k \in 1 .. Len(stack) : stack'[k + 1] = stack[k]
  <2>1. stack \in Seq(Frames) /\ <<frame>> \in Seq(Frames) /\ Len(<<frame>>) = 1
    BY <1>5, OneIsSeq DEF WalkTypes
  <2>2. /\ Len(stack') = 1 + Len(stack) /\ Len(stack) \in Nat
        /\ \A k \in 1 .. 1 + Len(stack) :
               stack'[k] = IF k <= 1 THEN <<frame>>[k] ELSE stack[k - 1]
    BY <1>1, <2>1, ConcatProperties
  <2>3. \A k \in 1 .. Len(stack) : k + 1 \in 1 .. 1 + Len(stack) /\ ~(k + 1 <= 1) /\ k + 1 - 1 = k
    BY <2>2
  <2> HIDE DEF frame
  <2>4. stack'[1] = frame
    BY <2>2
  <2>5. \A k \in 1 .. Len(stack) : stack'[k + 1] = stack[k]
    BY <2>2, <2>3
  <2> QED BY <2>2, <2>4, <2>5
<1>7. \A k \in 1 .. Len(stack) : k + 1 \in 1 .. Len(stack')
  BY <1>6
<1>8. \A d, e : Awaited(e, d) => Awaited(e, d)'
  BY <1>6, <1>7 DEF Awaited, SameDevice
<1>9. \A d : HeldUp(d) => HeldUp(d)'
  BY <1>6, <1>7 DEF HeldUp, SameDevice
<1>10. ASSUME NEW d \in Entries, Queued(d) PROVE Handled(d)'
  <2>1. PICK i \in 1 .. Len(frontier) :
            frontier[i].path = d /\ SameDevice(frontier[i].device, d)
    BY <1>10 DEF Queued
  <2>2. CASE i = 1
    <3>1. /\ frame.left = names /\ frame.device = dir.device /\ dir.path = d
          /\ SameDevice(dir.device, d)
      BY <1>2, <2>1, <2>2
    <3>2. unread' = unread \cup (Range(Children[d]) \ Range(names))
      BY <1>1, <3>1
    <3>3. 1 \in 1 .. Len(stack')
      BY <1>6
    <3> HIDE DEF frame, dir
    <3>4. \A e \in Range(Children[d]) \ unread' : \E j \in 1 .. Len(names) : names[j] = e
      <4>1. \A e \in Range(names) : \E j \in 1 .. Len(names) : names[j] = e
        BY <1>4 DEF Range
      <4> QED BY <3>2, <4>1
    <3>5. \A e \in Range(Children[d]) \ unread' : Awaited(e, d)'
      BY <1>6, <3>1, <3>3, <3>4 DEF Awaited, SameDevice
    <3> QED BY <3>5 DEF Handled, Whole
  <2>3. CASE i # 1
    <3>1. i - 1 \in 1 .. Len(frontier') /\ frontier'[i - 1] = frontier[i]
      BY <1>2, <2>3
    <3> QED BY <2>1, <3>1 DEF Handled, Queued, SameDevice
  <2> QED BY <2>2, <2>3
<1>11. \A d \in Entries : Queued(d) \/ HeldUp(d) => Handled(d)'
  BY <1>9, <1>10 DEF Handled
<1>12. \A d \in Entries : InList(Listed', d) => Handled(d)'
  BY <1>1, <1>3, <1>8, <1>11, HandledStays
<1> QED BY <1>1, <1>3, <1>12 DEF CoverInv

\* The frame on top is replaced, and the others stay.
LEMMA TopStays ==
    ASSUME WalkTypes, stack # <<>>, NEW frame \in Frames,
           stack' = [stack EXCEPT ![1] = frame], frame.device = stack[1].device
    PROVE  /\ \A d : HeldUp(d) => HeldUp(d)' \/ stack[1].waiting = d
           /\ \A d : frame.waiting = d /\ SameDevice(stack[1].device, d) => HeldUp(d)'
           /\ \A d, e : Awaited(e, d) =>
                  \/ Awaited(e, d)'
                  \/ /\ SameDevice(stack[1].device, d)
                     /\ \E i \in 1 .. Len(stack[1].left) : stack[1].left[i] = e
                     /\ \A i \in 1 .. Len(frame.left) : frame.left[i] # e
<1>1. /\ Len(stack') = Len(stack) /\ stack'[1] = frame /\ 1 \in 1 .. Len(stack)
      /\ \A k \in 1 .. Len(stack) : k = 1 \/ stack'[k] = stack[k]
  <2>1. 1 \in 1 .. Len(stack)
    BY DEF WalkTypes
  <2> QED BY <2>1, TopReplaced DEF WalkTypes
<1>2. \A d : HeldUp(d) => HeldUp(d)' \/ stack[1].waiting = d
  BY <1>1 DEF HeldUp, SameDevice
<1>3. \A d : frame.waiting = d /\ SameDevice(stack[1].device, d) => HeldUp(d)'
  BY <1>1 DEF HeldUp, SameDevice
<1>4. ASSUME NEW d, NEW e, Awaited(e, d), ~Awaited(e, d)'
      PROVE  /\ SameDevice(stack[1].device, d)
             /\ \E i \in 1 .. Len(stack[1].left) : stack[1].left[i] = e
             /\ \A i \in 1 .. Len(frame.left) : frame.left[i] # e
  <2>1. PICK k \in 1 .. Len(stack) :
            /\ SameDevice(stack[k].device, d)
            /\ \E i \in 1 .. Len(stack[k].left) : stack[k].left[i] = e
    BY <1>4 DEF Awaited
  <2>2. k = 1
    BY <1>1, <1>4, <2>1 DEF Awaited, SameDevice
  <2>3. \A i \in 1 .. Len(frame.left) : frame.left[i] # e
    BY <1>1, <1>4, <2>1, <2>2 DEF Awaited, SameDevice
  <2> QED BY <2>1, <2>2, <2>3
<1> QED BY <1>2, <1>3, <1>4

\* What is not behind the child at hand is the child.
LEMMA WalkedStays ==
    ASSUME WalkTypes, stack # <<>>, stack[1].left # <<>>, NEW next, NEW e,
           \E i \in 1 .. Len(stack[1].left) : stack[1].left[i] = e,
           \A i \in 1 .. Len(Walked(next).left) : Walked(next).left[i] # e
    PROVE  e = Child
<1>1. stack[1] \in Frames
  BY DEF WalkTypes
<1>2. stack[1].left \in Seq(Entries)
  BY <1>1 DEF Frames
<1>3. /\ Child = stack[1].left[1] /\ Len(stack[1].left) \in Nat
      /\ Len(Tail(stack[1].left)) = Len(stack[1].left) - 1
      /\ \A i \in 1 .. Len(Tail(stack[1].left)) :
             Tail(stack[1].left)[i] = stack[1].left[i + 1]
  BY <1>2, HeadFacts DEF Child
<1>4. PICK i \in 1 .. Len(stack[1].left) : stack[1].left[i] = e
  OBVIOUS
<1>5. i = 1
  <2> SUFFICES ASSUME i # 1 PROVE FALSE
    OBVIOUS
  <2>1. i - 1 \in 1 .. Len(Tail(stack[1].left)) /\ i - 1 + 1 = i
    BY <1>3
  <2>2. Tail(stack[1].left)[i - 1] = e
    BY <1>3, <1>4, <2>1
  <2> QED BY <2>1, <2>2 DEF Walked
<1> QED BY <1>3, <1>4, <1>5

LEMMA SkipCovers ==
    ASSUME ListInv, WalkTypes, CoverInv, SkipChild
    PROVE  CoverInv'
<1>1. /\ stack # <<>> /\ stack[1].left # <<>> /\ stack[1].waiting = None
      /\ phase = "scan" /\ ~Ok(Child, stack[1].device)
      /\ UNCHANGED <<gone, unread, scanned, frontier, slice, sliceNum, plan, phase>>
  BY DEF SkipChild, Walking, Child
<1>2. /\ Walked(None) \in Frames /\ stack' = [stack EXCEPT ![1] = Walked(None)]
      /\ Walked(None).device = stack[1].device
  BY SkipTypes DEF Walked
<1>3. Listed' = Listed
  BY <1>1 DEF Listed
<1>4. \A d : HeldUp(d) => HeldUp(d)' \/ d = None
  BY <1>1, <1>2, TopStays
<1>5. \A d : Queued(d) => Queued(d)'
  BY <1>1 DEF Queued, SameDevice
<1>6. \A d \in Entries : Queued(d) \/ HeldUp(d) => Handled(d)'
  BY <1>4, <1>5, ScanAssumption DEF Handled
<1>7. ASSUME NEW d \in Entries, NEW e \in Entries, Awaited(e, d), Ok(e, Device[d])
      PROVE  Awaited(e, d)'
  <2> SUFFICES ASSUME ~Awaited(e, d)' PROVE FALSE
    OBVIOUS
  <2> DEFINE frame == Walked(None)
  <2>1. /\ frame \in Frames /\ stack' = [stack EXCEPT ![1] = frame]
        /\ frame.device = stack[1].device
    BY <1>2
  <2> HIDE DEF frame
  <2>2. /\ SameDevice(stack[1].device, d)
        /\ \E i \in 1 .. Len(stack[1].left) : stack[1].left[i] = e
        /\ \A i \in 1 .. Len(frame.left) : frame.left[i] # e
    BY <1>1, <1>7, <2>1, TopStays
  <2>3. e = Child
    BY <1>1, <2>2, WalkedStays DEF frame
  <2> QED BY <1>1, <1>7, <2>2, <2>3, OkSame
<1>8. \A d \in Entries : InList(Listed', d) => Handled(d)'
  BY <1>1, <1>3, <1>6, <1>7, HandledStays
<1> QED BY <1>1, <1>3, <1>8 DEF CoverInv

LEMMA AddCovers ==
    ASSUME ListInv, WalkTypes, CoverInv, DirectoriesLinkedOnce, AddChild
    PROVE  CoverInv'
<1>1. /\ Walking /\ stack # <<>> /\ stack[1].left # <<>> /\ stack[1].waiting = None
      /\ phase = "scan" /\ Ok(Child, stack[1].device)
      /\ AddToSlice(Resolve(Child)) /\ UNCHANGED <<gone, unread, scanned, frontier, phase>>
      /\ seen' = seen \cup {Inode[Resolve(Child).path]}
  BY DEF AddChild, Walking, Child
<1>2. Child \in Entries /\ Resolve(Child).path = Child
  BY <1>1, ChildIsEntry
<1> PICK child \in Entries : child = Child
  BY <1>2
<1> PICK next \in Entries \cup {None} : next = NextDirectory
  BY <1>2 DEF NextDirectory
<1>3. /\ Walked(NextDirectory) \in Frames
      /\ stack' = [stack EXCEPT ![1] = Walked(NextDirectory)]
      /\ Walked(NextDirectory).device = stack[1].device
      /\ Walked(NextDirectory).waiting = NextDirectory
  BY AddTypes DEF Walked
<1>4. 1 \in 1 .. Len(stack)
  BY <1>1 DEF WalkTypes
<1>5. BelowListed(Listed, Len(Listed), Child)
  BY <1>1, <1>4, WalkedPends DEF ListInv, Pending
<1>6. PICK r \in PlanRecords : Listed' = Append(Listed, r) /\ r.path = Child
  BY <1>1, <1>2, <1>5, EntryJoins
<1>7. Listed \in Seq(PlanRecords)
  BY LastListed DEF ListInv
<1>8. /\ \A x : InList(Listed, x) => InList(Listed', x)
      /\ InList(Listed', Child)
  BY <1>6, <1>7, PendingStays
<1>9. \A x : InList(Listed', x) => InList(Listed, x) \/ x = child
  BY <1>6, <1>7, AppendFacts DEF InList
<1>10. /\ \A d : HeldUp(d) => HeldUp(d)' \/ d = None
       /\ SameDevice(stack[1].device, next) => HeldUp(next)'
  <2> DEFINE frame == Walked(NextDirectory)
  <2>1. /\ frame \in Frames /\ stack' = [stack EXCEPT ![1] = frame]
        /\ frame.device = stack[1].device /\ frame.waiting = next
    BY <1>3
  <2> HIDE DEF frame
  <2> QED BY <1>1, <2>1, TopStays
<1>11. \A d : Queued(d) => Queued(d)'
  BY <1>1 DEF Queued, SameDevice
<1>12. \A d \in Entries : Queued(d) \/ HeldUp(d) => Handled(d)'
  BY <1>10, <1>11, ScanAssumption DEF Handled
<1>13. ASSUME NEW d \in Entries, NEW e \in Entries, Awaited(e, d), ~Awaited(e, d)'
       PROVE  InList(Listed', e)
  <2> DEFINE frame == Walked(NextDirectory)
  <2>1. /\ frame \in Frames /\ stack' = [stack EXCEPT ![1] = frame]
        /\ frame.device = stack[1].device
    BY <1>3
  <2> HIDE DEF frame
  <2>2. /\ \E i \in 1 .. Len(stack[1].left) : stack[1].left[i] = e
        /\ \A i \in 1 .. Len(frame.left) : frame.left[i] # e
    BY <1>1, <1>13, <2>1, TopStays
  <2>3. e = Child
    BY <1>1, <2>2, WalkedStays DEF frame
  <2> QED BY <1>8, <2>3
<1>14. InList(Listed, child) \/ Handled(child)'
  <2>1. CASE Resolve(Child).kind = "d"
    <3>1. next = child
      BY <1>2, <2>1 DEF NextDirectory
    <3>2. Kind[Child] = "d"
      BY <2>1 DEF Resolve
    <3>3. SameDevice(stack[1].device, child)
      BY <1>1, <3>2 DEF Ok, SameDevice
    <3> QED BY <1>10, <3>1, <3>3 DEF Handled
  <2>2. CASE Resolve(Child).kind # "d"
    <3>1. InList(Listed, child) \/ Kind[child] # "d"
      BY <1>2, <2>2, LinksAreHandled
    <3>2. Children[child] = <<>> => Handled(child)'
      BY DEF Handled, Whole, Range
    <3> QED BY <3>1, <3>2, ScanAssumption
  <2> QED BY <2>1, <2>2
<1>15. \A d \in Entries : InList(Listed', d) => Handled(d)'
  BY <1>1, <1>8, <1>9, <1>12, <1>13, <1>14, HandledStays
<1>16. \A i \in 1 .. Len(Sources) : i <= scanned' => InList(Listed', Sources[i])
  BY <1>1, <1>8 DEF CoverInv
<1> QED BY <1>1, <1>15, <1>16 DEF CoverInv

LEMMA EnqueueCovers ==
    ASSUME ListInv, WalkTypes, CoverInv, EnqueueDirectory
    PROVE  CoverInv'
<1> DEFINE dir == [path |-> stack[1].waiting, device |-> stack[1].device]
<1>1. /\ stack # <<>> /\ stack[1].waiting # None /\ phase = "scan"
      /\ frontier' = Append(frontier, dir)
      /\ UNCHANGED <<gone, unread, scanned, slice, sliceNum, plan, phase>>
  BY DEF EnqueueDirectory
<1>2. /\ Enqueued \in Frames /\ stack' = [stack EXCEPT ![1] = Enqueued]
      /\ Enqueued.device = stack[1].device /\ Enqueued.left = stack[1].left
  BY EnqueueTypes DEF Enqueued
<1>3. Listed' = Listed
  BY <1>1 DEF Listed
<1>4. stack[1] \in Frames /\ 1 \in 1 .. Len(stack)
  BY <1>1 DEF WalkTypes
<1>5. dir \in Dirs
  BY <1>1, <1>4 DEF Frames, Dirs
<1>6. dir.path = stack[1].waiting /\ dir.device = stack[1].device
  OBVIOUS
<1> HIDE DEF dir
<1>7. /\ Len(frontier') = Len(frontier) + 1 /\ Len(frontier) \in Nat
      /\ frontier'[Len(frontier) + 1] = dir
      /\ \A i \in 1 .. Len(frontier) : frontier'[i] = frontier[i]
  BY <1>1, <1>5 DEF WalkTypes
<1>8. \A d : Queued(d) => Queued(d)'
  BY <1>7 DEF Queued, SameDevice
<1>9. ASSUME NEW d, HeldUp(d) PROVE HeldUp(d)' \/ Queued(d)'
  <2> SUFFICES ASSUME ~HeldUp(d)' PROVE Queued(d)'
    OBVIOUS
  <2>1. PICK k \in 1 .. Len(stack) :
            stack[k].waiting = d /\ SameDevice(stack[k].device, d)
    BY <1>9 DEF HeldUp
  <2>2. /\ Len(stack') = Len(stack)
        /\ \A j \in 1 .. Len(stack) : j = 1 \/ stack'[j] = stack[j]
    BY <1>1, <1>2, TopReplaced DEF WalkTypes
  <2>3. k = 1
    BY <2>1, <2>2 DEF HeldUp, SameDevice
  <2>4. dir.path = d /\ SameDevice(dir.device, d) /\ Len(frontier) + 1 \in 1 .. Len(frontier')
    BY <1>6, <1>7, <2>1, <2>3
  <2> QED BY <1>7, <2>4 DEF Queued, SameDevice
<1>10. \A d \in Entries : Queued(d) \/ HeldUp(d) => Handled(d)'
  BY <1>8, <1>9 DEF Handled
<1>11. ASSUME NEW d, NEW e, Awaited(e, d) PROVE Awaited(e, d)'
  <2>1. \/ Awaited(e, d)'
        \/ /\ \E i \in 1 .. Len(stack[1].left) : stack[1].left[i] = e
           /\ \A i \in 1 .. Len(Enqueued.left) : Enqueued.left[i] # e
    <3>1. /\ stack # <<>> /\ Enqueued \in Frames /\ Enqueued.device = stack[1].device
          /\ stack' = [stack EXCEPT ![1] = Enqueued]
      BY <1>1, <1>2
    <3> QED BY <1>11, <3>1, TopStays
  <2> QED BY <1>2, <2>1
<1>12. \A d \in Entries : InList(Listed', d) => Handled(d)'
  BY <1>1, <1>3, <1>10, <1>11, HandledStays
<1> QED BY <1>1, <1>3, <1>12 DEF CoverInv

LEMMA DoneCovers ==
    ASSUME ListInv, WalkTypes, CoverInv, DirectoryDone
    PROVE  CoverInv'
<1>1. /\ stack # <<>> /\ stack' = Tail(stack) /\ phase = "scan"
      /\ stack[1].waiting = None /\ stack[1].left = <<>>
      /\ UNCHANGED <<gone, unread, scanned, frontier, slice, sliceNum, plan, phase>>
  BY DEF DirectoryDone
<1>2. Listed' = Listed
  BY <1>1 DEF Listed
<1>3. \A k \in 1 .. Len(stack) :
          k = 1 \/ (k - 1 \in 1 .. Len(stack') /\ stack'[k - 1] = stack[k])
  BY <1>1, HeadFacts DEF WalkTypes
<1>4. \A d : Queued(d) => Queued(d)'
  BY <1>1 DEF Queued, SameDevice
<1>5. ASSUME NEW d \in Entries, HeldUp(d) PROVE HeldUp(d)'
  <2>1. PICK k \in 1 .. Len(stack) :
            stack[k].waiting = d /\ SameDevice(stack[k].device, d)
    BY <1>5 DEF HeldUp
  <2>2. k # 1
    BY <1>1, <2>1, ScanAssumption
  <2>3. k - 1 \in 1 .. Len(stack') /\ stack'[k - 1] = stack[k]
    BY <1>3, <2>2
  <2> QED BY <2>1, <2>3 DEF HeldUp, SameDevice
<1>6. ASSUME NEW d, NEW e, Awaited(e, d) PROVE Awaited(e, d)'
  <2>1. PICK k \in 1 .. Len(stack) :
            /\ SameDevice(stack[k].device, d)
            /\ \E i \in 1 .. Len(stack[k].left) : stack[k].left[i] = e
    BY <1>6 DEF Awaited
  <2>2. k # 1
    BY <1>1, <2>1
  <2>3. k - 1 \in 1 .. Len(stack') /\ stack'[k - 1] = stack[k]
    BY <1>3, <2>2
  <2> QED BY <2>1, <2>3 DEF Awaited, SameDevice
<1>7. \A d \in Entries : Queued(d) \/ HeldUp(d) => Handled(d)'
  BY <1>4, <1>5 DEF Handled
<1>8. \A d \in Entries : InList(Listed', d) => Handled(d)'
  BY <1>1, <1>2, <1>6, <1>7, HandledStays
<1> QED BY <1>1, <1>2, <1>8 DEF CoverInv

LEMMA RootCovers ==
    ASSUME ListInv, WalkTypes, CoverInv, DirectoriesLinkedOnce, ScanRoot
    PROVE  CoverInv'
<1>1. /\ scanned + 1 \in 1 .. Len(Sources) /\ scanned \in Nat
      /\ Sources[scanned + 1] \in Entries
  <2>1. scanned + 1 \in 1 .. Len(Sources) /\ scanned \in Nat
    BY ScanAssumption DEF WalkTypes, ScanRoot
  <2> QED BY <2>1, ScanAssumption
<1> PICK root \in Entries : root = Sources[scanned + 1]
  BY <1>1
<1> DEFINE dir == [path |-> root, device |-> Device[root]]
<1>5. root \in Range(Sources)
  BY <1>1, ScanAssumption DEF Range
<1>2. phase = "scan" /\ stack = <<>> /\ frontier = <<>> /\ gone' = gone /\ unread' = unread
  BY DEF ScanRoot, Idle
<1>3. CASE root \in gone
  <2>1. /\ UNCHANGED <<scanned, stack, frontier, seen, slice, sliceNum, plan>>
        /\ phase' = "failed"
    BY <1>3 DEF ScanRoot
  <2>2. Listed' = Listed
    BY <2>1 DEF Listed
  <2>3. \A d : Handled(d) => Handled(d)'
    BY <1>2, <2>1, <2>2 DEF Handled, Queued, HeldUp, Whole, Awaited, SameDevice, Ok
  <2> QED BY <2>1, <2>2, <2>3 DEF CoverInv
<1>4. CASE root \notin gone
  <2>1. /\ AddToSlice(Resolve(root)) /\ seen' = seen \cup {Inode[root]}
        /\ stack' = <<>> /\ phase' = "scan" /\ scanned' = scanned + 1
        /\ frontier' = IF Resolve(root).kind = "d" THEN <<dir>> ELSE <<>>
    BY <1>2, <1>4 DEF ScanRoot
  <2>2. dir.path = root /\ dir.device = Device[root]
    OBVIOUS
  <2> HIDE DEF dir
  <2>3. PICK r \in PlanRecords : Listed' = Append(Listed, r) /\ r.path = root
    BY <1>5, <2>1, EntryJoins
  <2>4. Listed \in Seq(PlanRecords)
    BY LastListed DEF ListInv
  <2>5. /\ \A x : InList(Listed, x) => InList(Listed', x)
        /\ InList(Listed', root)
    BY <2>3, <2>4, PendingStays
  <2>6. \A x : InList(Listed', x) => InList(Listed, x) \/ x = root
    BY <2>3, <2>4, AppendFacts DEF InList
  <2>7. \A d, e : ~Queued(d) /\ ~HeldUp(d) /\ ~Awaited(e, d)
    BY <1>2 DEF Queued, HeldUp, Awaited
  <2>8. InList(Listed, root) \/ Handled(root)'
    <3>1. CASE Resolve(root).kind = "d"
      <4>1. frontier' = <<dir>>
        BY <2>1, <3>1
      <4>2. Len(frontier') = 1 /\ frontier'[1] = dir /\ 1 \in 1 .. 1
        BY <4>1
      <4> QED BY <2>2, <4>2 DEF Handled, Queued, SameDevice
    <3>2. CASE Resolve(root).kind # "d"
      <4>1. InList(Listed, root) \/ Kind[root] # "d"
        BY <1>1, <3>2, LinksAreHandled
      <4>2. Children[root] = <<>> => Handled(root)'
        BY DEF Handled, Whole, Range
      <4> QED BY <1>1, <4>1, <4>2, ScanAssumption
    <3> QED BY <3>1, <3>2
  <2>9. \A d \in Entries : InList(Listed', d) => Handled(d)'
    BY <1>2, <2>5, <2>6, <2>7, <2>8, HandledStays
  <2>10. \A i \in 1 .. Len(Sources) : i <= scanned' => InList(Listed', Sources[i])
    <3>1. \A i \in 1 .. Len(Sources) : i <= scanned' => i <= scanned \/ i = scanned + 1
      BY <1>1, <2>1
    <3> QED BY <2>5, <3>1 DEF CoverInv
  <2> QED BY <2>1, <2>9, <2>10 DEF CoverInv
<1> QED BY <1>3, <1>4

LEMMA FinishCovers ==
    ASSUME ListInv, CoverInv, Finish
    PROVE  CoverInv'
<1>1. /\ plan' = Listed /\ slice' = <<>> /\ phase' = "closing"
      /\ stack = <<>> /\ frontier = <<>> /\ scanned = Len(Sources)
      /\ UNCHANGED <<gone, unread, scanned, stack, frontier>>
  BY DEF Finish, Listed, Idle
<1>2. Listed \in Seq(PlanRecords)
  BY LastListed DEF ListInv
<1>3. Listed' = Listed
  <2>1. Records(slice', sliceNum') = <<>> /\ plan' \in Seq(PlanRecords)
    BY <1>1, <1>2, RecordsEmpty
  <2> QED BY <1>1, <2>1, ConcatFacts DEF Listed
<1>4. \A d : Handled(d) => Handled(d)'
  BY <1>1, <1>3 DEF Handled, Queued, HeldUp, Whole, Awaited, SameDevice, Ok
<1> QED BY <1>1, <1>3, <1>4 DEF CoverInv

LEMMA CoverStep ==
    ASSUME DirectoriesLinkedOnce
    PROVE  PoolInv /\ ListInv /\ CoverInv /\ [PlannerNext]_vars
               => phase' = "cut" \/ CoverInv'
<1> SUFFICES ASSUME PoolInv, ListInv, CoverInv, [PlannerNext]_vars, phase' # "cut"
             PROVE  CoverInv'
  OBVIOUS
<1>1. [StatChildren \/ Walk \/ Fail]_scanVars /\ WalkTypes
  BY ScanStep DEF PoolInv
<1>2. CASE StatChildren
  BY <1>1, <1>2, DescendCovers
<1>3. CASE Walk /\ ~CloseOutput
  BY <1>1, <1>3, RootCovers, SkipCovers, AddCovers, EnqueueCovers, DoneCovers, FinishCovers
  DEF Walk
<1>4. CASE CloseOutput \/ Fail \/ UNCHANGED scanVars
  <2>1. /\ UNCHANGED <<gone, unread, scanned, stack, frontier, slice, sliceNum, plan>>
        /\ phase' = phase \/ phase' = "failed" \/ phase = "closing"
    BY <1>4 DEF CloseOutput, Fail, scanVars
  <2>2. Listed' = Listed
    BY <2>1 DEF Listed
  <2>3. \A d : Handled(d) => Handled(d)'
    BY <2>1, <2>2 DEF Handled, Queued, HeldUp, Whole, Awaited, SameDevice, Ok
  <2> QED BY <2>1, <2>2, <2>3 DEF CoverInv
<1> QED BY <1>1, <1>2, <1>3, <1>4

LEMMA PlanCovers ==
    ASSUME ListInv, CoverInv, phase = "done"
    PROVE  Covers
<1>1. /\ frontier = <<>> /\ stack = <<>> /\ slice = <<>> /\ scanned = Len(Sources)
      /\ plan \in Seq(PlanRecords)
  BY DEF CoverInv, ListInv, SliceTypes
<1>2. Listed = plan
  <2>1. Records(slice, sliceNum) = <<>>
    BY <1>1, RecordsEmpty
  <2> QED BY <1>1, <2>1, ConcatFacts DEF Listed
<1> DEFINE planned == {plan[i].path : i \in DOMAIN plan}
<1>3. \A x : InList(Listed, x) <=> x \in planned
  BY <1>1, <1>2 DEF InList
<1>4. planned \subseteq Entries
  <2>1. \A i \in DOMAIN plan : plan[i] \in PlanRecords
    BY <1>1
  <2> QED BY <2>1 DEF PlanRecords
<1>5. \A d, e : ~Queued(d) /\ ~HeldUp(d) /\ ~Awaited(e, d)
  BY <1>1 DEF Queued, HeldUp, Awaited
<1>6. Range(Sources) \subseteq planned
  <2>1. Sources \in Seq(Entries) /\ Len(Sources) \in Nat /\ DOMAIN Sources = 1 .. Len(Sources)
    BY ScanAssumption
  <2>2. \A i \in DOMAIN Sources : i <= scanned
    BY <1>1, <2>1
  <2>3. \A i \in DOMAIN Sources : Sources[i] \in planned
    BY <1>3, <2>1, <2>2 DEF CoverInv
  <2> QED BY <2>3 DEF Range
<1>7. \A d \in planned : \A e \in Range(Children[d]) \ unread : Ok(e, Device[d]) => e \in planned
  BY <1>3, <1>4, <1>5 DEF CoverInv, Handled, Whole
<1> QED BY <1>6, <1>7 DEF Covers

CompleteInv == phase # "cut" => CoverInv

\* For every file system in which no directory has two paths, every slice size
\* and any number of threads: the archiver's PlanReader accepts what is written
\* whenever the program stops, no slice outgrows its limit (and so no sum of
\* sizes its 64 bits) unless it is one entry, both also when the last fclose
\* fails; and a run that ends well, with that fclose, has planned every source
\* and, with each directory, all that was read of it and could be looked at,
\* whatever was held up when the frontier was full.
THEOREM PlanStaysSound ==
    ASSUME DirectoriesLinkedOnce
    PROVE  PlannerSpec => []PlanIsSound
<1>1. PlannerInit => OrderInv /\ SizeInv /\ CompleteInv
  BY InitList, InitFits, InitCovers
     DEF OrderInv, SizeInv, CompleteInv, PlannerInit, ScanInit
<1>2. PoolInv /\ OrderInv /\ [PlannerNext]_vars => OrderInv'
  BY OrderStep
<1>3. PoolInv /\ OrderInv /\ SizeInv /\ [PlannerNext]_vars => SizeInv'
  BY SizeStep
<1>4. PoolInv /\ OrderInv /\ CompleteInv /\ [PlannerNext]_vars => CompleteInv'
  BY CoverStep, CutIsFinal DEF OrderInv, CompleteInv
<1>5. OrderInv /\ SizeInv /\ CompleteInv => PlanIsSound
  BY PlanIsGood, ListedFits, PlanCovers
     DEF PlanIsSound, OrderInv, SizeInv, CompleteInv, ListInv
<1> QED BY <1>1, <1>2, <1>3, <1>4, <1>5, PoolInvariant, PTL DEF PlannerSpec
=============================================================================
