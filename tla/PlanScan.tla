------------------------------ MODULE PlanScan ------------------------------
(***************************************************************************)
(* neotape-plan with one I/O thread: it walks the sources breadth first    *)
(* over a bounded frontier of directories, packs what it finds into slices *)
(* and writes every full slice to the plan.  PlanReader, the other end of  *)
(* the plan, is here too: the plan has to pass it.                         *)
(***************************************************************************)
EXTENDS Naturals, Sequences, FiniteSets, SequencesExt

CONSTANTS
    Entries,            \* the paths of the file system
    Kind,               \* of a path: "d" a directory, "f" a file ...
    Size, Inode, Device,
    Children,           \* of a directory: the names in it, sorted
    Sources,            \* the command line
    MayVanish,          \* entries that may be gone between readdir and lstat
    MayGoUnread,        \* entries that a failing opendir or readdir may hide
    OneFileSystem,
    FrontierCapacity,
    SliceSize,
    MetadataSize,       \* metadata_buffer_size, in entries
    Widest,             \* the largest uint64_t
    None

ASSUME ScanAssumption ==
    /\ Kind \in [Entries -> {"d", "f"}] /\ Size \in [Entries -> 0 .. Widest]
    /\ DOMAIN Inode = Entries /\ DOMAIN Device = Entries
    /\ Children \in [Entries -> Seq(Entries)] /\ Sources \in Seq(Entries)
    /\ \A e \in Entries : Children[e] # <<>> => Kind[e] = "d"
    /\ MayVanish \subseteq Entries /\ MayGoUnread \subseteq Entries /\ OneFileSystem \in BOOLEAN
    /\ FrontierCapacity \in Nat \ {0} /\ Widest \in Nat
    /\ SliceSize \in 1 .. Widest /\ MetadataSize \in Nat \ {0}
    /\ None \notin Entries

VARIABLES
    gone,               \* entries on which lstat fails, with a warning
    unread,             \* entries missing from a list, with a warning
    scanned,            \* sources whose root is in the plan
    stack,              \* process_one_directory: results left, directory held up
    frontier,           \* directories to be read, with their source's device
    seen,               \* InodeTracker
    slice,              \* current_slice: its entries
    sliceNum,
    plan,               \* the records written
    phase               \* "scan", "closing", "done", "failed" or "cut": ended
                        \* like "done", but the end of the plan was lost

scanVars == <<gone, unread, scanned, stack, frontier, seen, slice, sliceNum, plan, phase>>

ScanInit ==
    /\ gone \in SUBSET MayVanish /\ unread = {}
    /\ scanned = 0 /\ stack = <<>> /\ frontier = <<>> /\ seen = {}
    /\ slice = <<>> /\ sliceNum = 0 /\ plan = <<>> /\ phase = "scan"

-----------------------------------------------------------------------------
(* Slices. *)

\* resolve_names: an inode met before is a hard link, of a directory too.
Resolve(e) ==
    IF Inode[e] \in seen THEN [path |-> e, kind |-> "h", size |-> 0]
                         ELSE [path |-> e, kind |-> Kind[e], size |-> Size[e]]

\* The sum of the sizes at the places I of q, counted byte by byte.
Bytes(q, I) == Cardinality({b \in I \X (1 .. Widest) : b[2] <= q[b[1]].size})
SizeOf(s) == Bytes(s, DOMAIN s)

SlicePreaddLimit ==
    LET half == SliceSize \div 2
    IN  IF SliceSize > Widest - half THEN Widest ELSE SliceSize + half

ShouldStartNextSlice(s, e) ==
    /\ s # <<>>
    /\ \/ SizeOf(s) > SlicePreaddLimit
       \/ e.size > SlicePreaddLimit - SizeOf(s)

Full(s) == Len(s) >= MetadataSize \/ SizeOf(s) >= SliceSize

Records(s, n) ==
    [i \in DOMAIN s |-> [path |-> s[i].path, kind |-> s[i].kind,
                         size |-> s[i].size, slice |-> n, fileNum |-> i - 1]]

\* Mutant: no slice is begun for an entry that does not fit.
AddToSliceOverfull(e) ==
    LET after == Append(slice, e) IN
    IF Full(after)
    THEN /\ plan' = plan \o Records(after, sliceNum)
         /\ slice' = <<>> /\ sliceNum' = sliceNum + 1
    ELSE slice' = after /\ UNCHANGED <<plan, sliceNum>>

AddToSlice(e) ==
    LET starts == ShouldStartNextSlice(slice, e)
        before == IF starts THEN Records(slice, sliceNum) ELSE <<>>
        num    == IF starts THEN sliceNum + 1 ELSE sliceNum
        after  == IF starts THEN <<e>> ELSE Append(slice, e)
    IN  IF Full(after)
        THEN /\ plan' = plan \o before \o Records(after, num)
             /\ slice' = <<>> /\ sliceNum' = num + 1
        ELSE /\ plan' = plan \o before
             /\ slice' = after /\ sliceNum' = num

-----------------------------------------------------------------------------
(* The walk. *)

Idle == stack = <<>> /\ frontier = <<>>

\* scan_source, up to its loop: a root that cannot be read ends the program.
ScanRoot ==
    /\ phase = "scan" /\ Idle /\ scanned < Len(Sources)
    /\ LET root == Sources[scanned + 1] IN
       IF root \in gone
       THEN phase' = "failed" /\ UNCHANGED <<scanned, stack, frontier, seen, slice, sliceNum, plan>>
       ELSE /\ AddToSlice(Resolve(root))
            /\ seen' = seen \cup {Inode[root]}
            /\ scanned' = scanned + 1
            /\ frontier' = IF Resolve(root).kind = "d"
                           THEN <<[path |-> root, device |-> Device[root]]>>
                           ELSE <<>>
            /\ UNCHANGED <<stack, phase>>
    /\ UNCHANGED <<gone, unread>>

\* stat_entry: false for what is gone and for a directory of another device.
Ok(e, device) ==
    /\ e \notin gone
    /\ OneFileSystem /\ Kind[e] = "d" => Device[e] = device

\* process_one_directory runs when the loop of scan_source or one that found
\* the frontier full calls it.
Calls ==
    /\ phase = "scan" /\ frontier # <<>>
    /\ stack # <<>> => /\ stack[1].waiting # None
                       /\ Len(frontier) >= FrontierCapacity

\* The numbers of a finite set, in order.
InOrder(I) ==
    [k \in 1 .. Cardinality(I) |->
        CHOOSE n \in I : Cardinality({m \in I : m < n}) = k - 1]

\* sorted_children: all names of a directory or, when opendir or readdir fails,
\* those that were read until then, which are any, since readdir has an order
\* of its own.  A failure is a warning and nothing else.
Listings(d) ==
    LET read == {I \in SUBSET DOMAIN Children[d] :
                    \A i \in DOMAIN Children[d] \ I : Children[d][i] \in MayGoUnread}
    IN  {[k \in DOMAIN InOrder(I) |-> Children[d][InOrder(I)[k]]] : I \in read}

\* What stat_children returns is walked through.
Descend(dir, results) ==
    /\ unread' = unread \cup (Range(Children[dir.path]) \ Range(results))
    /\ frontier' = Tail(frontier)
    /\ stack' = <<[left |-> results, device |-> dir.device,
                   waiting |-> None]>> \o stack
    /\ UNCHANGED <<gone, scanned, seen, slice, sliceNum, plan, phase>>

StatChildren ==
    /\ Calls
    /\ \E listing \in Listings(Head(frontier).path) : Descend(Head(frontier), listing)

Walking ==
    /\ phase = "scan" /\ stack # <<>>
    /\ stack[1].waiting = None /\ stack[1].left # <<>>

SkipChild ==
    /\ Walking /\ ~Ok(Head(stack[1].left), stack[1].device)
    /\ stack' = [stack EXCEPT ![1].left = Tail(@)]
    /\ UNCHANGED <<gone, unread, scanned, frontier, seen, slice, sliceNum, plan, phase>>

AddChild ==
    /\ Walking /\ Ok(Head(stack[1].left), stack[1].device)
    /\ LET child == Resolve(Head(stack[1].left)) IN
       /\ AddToSlice(child)
       /\ seen' = seen \cup {Inode[child.path]}
       /\ stack' = [stack EXCEPT ![1].left = Tail(@),
                        ![1].waiting = IF child.kind = "d" THEN child.path ELSE None]
    /\ UNCHANGED <<gone, unread, scanned, frontier, phase>>

EnqueueDirectory ==
    /\ phase = "scan" /\ stack # <<>>
    /\ stack[1].waiting # None /\ Len(frontier) < FrontierCapacity
    /\ frontier' = Append(frontier, [path |-> stack[1].waiting,
                                     device |-> stack[1].device])
    /\ stack' = [stack EXCEPT ![1].waiting = None]
    /\ UNCHANGED <<gone, unread, scanned, seen, slice, sliceNum, plan, phase>>

DirectoryDone ==
    /\ phase = "scan" /\ stack # <<>>
    /\ stack[1].waiting = None /\ stack[1].left = <<>>
    /\ stack' = Tail(stack)
    /\ UNCHANGED <<gone, unread, scanned, frontier, seen, slice, sliceNum, plan, phase>>

\* The last slice is written when the pool has stopped.
Finish ==
    /\ phase = "scan" /\ Idle /\ scanned = Len(Sources)
    /\ plan' = plan \o Records(slice, sliceNum)
    /\ slice' = <<>>
    /\ sliceNum' = IF slice = <<>> THEN sliceNum ELSE sliceNum + 1
    /\ phase' = "closing"
    /\ UNCHANGED <<gone, unread, scanned, stack, frontier, seen>>

\* The last fclose (of stdout, the exit) writes what stdio still holds.  Nobody
\* looks at its result: when it fails the file lacks its last records.  (One that
\* is there in part is another matter, as PlanReader refuses an unterminated one.)
CloseOutput ==
    /\ phase = "closing"
    /\ \/ phase' = "done" /\ UNCHANGED plan
       \/ /\ phase' = "cut"
          /\ \E n \in 0 .. Len(plan) - 1 : plan' = SubSeq(plan, 1, n)
    /\ UNCHANGED <<gone, unread, scanned, stack, frontier, seen, slice, sliceNum>>

\* A plan that cannot be written, memory that cannot be had.
Fail ==
    /\ phase = "scan" /\ phase' = "failed"
    /\ UNCHANGED <<gone, unread, scanned, stack, frontier, seen, slice, sliceNum, plan>>

Walk ==
    \/ ScanRoot \/ SkipChild \/ AddChild \/ EnqueueDirectory \/ DirectoryDone
    \/ Finish \/ CloseOutput

ScanSpec == ScanInit /\ [][StatChildren \/ Walk \/ Fail]_scanVars

-----------------------------------------------------------------------------
(* PlanReader. *)

\* next(): whether the i-th record is accepted after the one before it.
Accepts(i) ==
    LET e == plan[i] IN
    /\ e.kind = "h" => e.size = 0
    /\ IF i = 1 THEN e.slice = 0 /\ e.fileNum = 0
       ELSE LET previous == plan[i - 1] IN
            IF e.slice = previous.slice THEN e.fileNum = previous.fileNum + 1
            ELSE e.slice = previous.slice + 1 /\ e.fileNum = 0

-----------------------------------------------------------------------------

\* A slice holds one and a half times the slice size at most, or one entry;
\* this is also what keeps the sum within its type.
SlicesFit ==
    \A n \in 0 .. sliceNum - 1 :
        LET part == {i \in DOMAIN plan : plan[i].slice = n}
        IN  Cardinality(part) = 1 \/ Bytes(plan, part) <= SlicePreaddLimit

Planned(i, j) == i < j /\ plan[j].path \in Range(Children[plan[i].path])

\* PlanReader accepts what is written; an entry is a hard link exactly when
\* its inode is named ahead of it; and what is no source of the command line
\* comes behind the directory it is in.
PlanInOrder ==
    /\ \A i \in DOMAIN plan : Accepts(i)
    /\ \A i \in DOMAIN plan :
           plan[i].kind = "h" <=>
               \E j \in 1 .. i - 1 : Inode[plan[j].path] = Inode[plan[i].path]
    /\ \A i \in DOMAIN plan :
           \/ plan[i].path \in Range(Sources)
           \/ \E j \in 1 .. i - 1 : Planned(j, i)

\* No directory has two paths, as it has where one is mounted on another: the
\* code takes the second for a hard link and does not go into it.
DirectoriesLinkedOnce ==
    \A d, e \in Entries : Kind[d] = "d" /\ Inode[e] = Inode[d] => e = d

\* The plan is closed: it has the sources and, with a directory, every name
\* in it that readdir returned, that a walk can lstat and, if so asked, that is
\* on its device.
Covers ==
    LET planned == {plan[i].path : i \in DOMAIN plan}
    IN  /\ Range(Sources) \subseteq planned
        /\ \A d \in planned : \A e \in Range(Children[d]) \ unread :
               Ok(e, Device[d]) => e \in planned

\* What neotape-plan has written, the archiver can work with: its PlanReader
\* accepts it at every moment, the data of an inode is in it once and ahead of
\* its hard links, and no slice is larger than promised; a file that has lost its
\* end included.  A run that ended well, its last fclose too, leaves nothing out
\* but what warnings were about, whatever the depth at which the frontier
\* overflowed and whatever was linked, named twice, gone or unreadable.  When that
\* fclose fails the run ends as well ("cut"), and nothing is said of what is missing.
PlanIsSound ==
    /\ PlanInOrder
    /\ SlicesFit
    /\ phase = "done" => Covers
=============================================================================
