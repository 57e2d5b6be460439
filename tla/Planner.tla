------------------------------- MODULE Planner ------------------------------
(***************************************************************************)
(* neotape-plan with I/O threads.  A WorkerPool calls lstat on the children *)
(* of a directory; collect keeps a window of jobs in its two queues and    *)
(* puts the results, which arrive in any order, in order again.            *)
(***************************************************************************)
EXTENDS PlanScan

CONSTANTS
    Threads,            \* the workers, one less than --io-threads
    QueueCapacity       \* of either queue; four for each worker in the code

ASSUME PoolAssumption ==
    /\ QueueCapacity \in Nat \ {0}
    /\ None \notin {"done", "failed"}

VARIABLES
    jobs,               \* indices of paths
    results,
    held,               \* of a worker: the result it has yet to push
    alive,              \* workers that have not returned
    collecting,         \* the directory in collect, or None
    listing,            \* what sorted_children returned for it
    submitted,
    received,           \* indices, as they arrived
    outcome             \* of the scan, once the pool is being stopped

poolVars == <<jobs, results, held, alive, collecting, listing, submitted,
              received, outcome>>
vars == <<scanVars, poolVars>>

PlannerInit ==
    /\ ScanInit
    /\ jobs = <<>> /\ results = <<>> /\ held = [w \in Threads |-> None]
    /\ alive = Threads /\ collecting = None /\ listing = <<>> /\ submitted = 0
    /\ received = <<>> /\ outcome = None

-----------------------------------------------------------------------------
(* worker_loop. *)

Take(w) ==
    /\ w \in alive /\ outcome = None /\ held[w] = None /\ jobs # <<>>
    /\ held' = [held EXCEPT ![w] = [index |-> Head(jobs), error |-> FALSE]]
    /\ jobs' = Tail(jobs)
    /\ UNCHANGED <<scanVars, results, alive, collecting, listing, submitted, received, outcome>>

\* Anything thrown is carried to the main thread.
Throw(w) ==
    /\ held[w] # None /\ ~held[w].error /\ outcome = None
    /\ held' = [held EXCEPT ![w].error = TRUE]
    /\ UNCHANGED <<scanVars, jobs, results, alive, collecting, listing,
                   submitted, received, outcome>>

Push(w) ==
    /\ held[w] # None /\ outcome = None /\ Len(results) < QueueCapacity
    /\ results' = Append(results, held[w])
    /\ held' = [held EXCEPT ![w] = None]
    /\ UNCHANGED <<scanVars, jobs, alive, collecting, listing, submitted, received, outcome>>

\* The queues are closed.
Return(w) ==
    /\ w \in alive /\ outcome # None
    /\ alive' = alive \ {w} /\ held' = [held EXCEPT ![w] = None]
    /\ UNCHANGED <<scanVars, jobs, results, collecting, listing, submitted, received, outcome>>

-----------------------------------------------------------------------------
(* collect. *)

Count == Len(listing)

\* Mutant: as many jobs as there are paths.
WindowOfAll == Count
Window == QueueCapacity

Begin ==
    /\ Calls /\ collecting = None /\ outcome = None
    /\ collecting' = Head(frontier)
    /\ listing' \in Listings(Head(frontier).path)
    /\ submitted' = 0 /\ received' = <<>>
    /\ UNCHANGED <<scanVars, jobs, results, held, alive, outcome>>

\* submit_more runs to its end before the next result is taken.
Submits == submitted < Count /\ submitted - Len(received) < Window

Submit ==
    /\ collecting # None /\ outcome = None /\ Submits
    /\ Len(jobs) < QueueCapacity
    /\ jobs' = Append(jobs, submitted + 1)
    /\ submitted' = submitted + 1
    /\ UNCHANGED <<scanVars, results, held, alive, collecting, listing, received, outcome>>

Receive ==
    /\ collecting # None /\ outcome = None /\ ~Submits /\ Len(received) < Count
    /\ results # <<>>
    /\ results' = Tail(results)
    /\ IF Head(results).error
       THEN outcome' = "failed" /\ UNCHANGED received
       ELSE received' = Append(received, Head(results).index) /\ UNCHANGED outcome
    /\ UNCHANGED <<scanVars, jobs, held, alive, collecting, listing, submitted>>

\* Mutant: the results are used as they arrive.
Arrived(s) == s
\* The map of pending results is walked through by index.
ByIndex(s) == InOrder(Range(s))

CollectEnds ==
    /\ collecting # None /\ outcome = None /\ Len(received) = Count
    /\ LET order == ByIndex(received)
       IN  Descend(collecting, [i \in DOMAIN order |-> listing[order[i]]])
    /\ collecting' = None /\ listing' = <<>> /\ submitted' = 0 /\ received' = <<>>
    /\ UNCHANGED <<jobs, results, held, alive, outcome>>

-----------------------------------------------------------------------------

\* A source that cannot be read exits at once, threads and all.
Step ==
    /\ collecting = None /\ outcome = None
    /\ ScanRoot \/ SkipChild \/ AddChild \/ EnqueueDirectory \/ DirectoryDone
    /\ UNCHANGED poolVars

\* stop() at the end of the scan.
Close ==
    /\ collecting = None /\ outcome = None
    /\ phase = "scan" /\ Idle /\ scanned = Len(Sources)
    /\ outcome' = "done"
    /\ UNCHANGED <<scanVars, jobs, results, held, alive, collecting, listing, submitted, received>>

\* An exception outside of the workers; the destructor stops the pool.
Break ==
    /\ phase = "scan" /\ outcome = None
    /\ outcome' = "failed"
    /\ UNCHANGED <<scanVars, jobs, results, held, alive, collecting, listing, submitted, received>>

\* The workers are joined; the rest is the main thread's.
Joined ==
    /\ outcome # None /\ alive = {}
    /\ IF outcome = "done" THEN Finish \/ CloseOutput ELSE Fail
    /\ UNCHANGED poolVars

Main == Begin \/ Submit \/ Receive \/ CollectEnds \/ Step \/ Close \/ Joined
Worker(w) == Take(w) \/ Push(w) \/ Return(w)

PlannerNext == Main \/ Break \/ \E w \in Threads : Worker(w) \/ Throw(w)

PlannerSpec ==
    /\ PlannerInit /\ [][PlannerNext]_vars
    /\ WF_vars(Main) /\ \A w \in Threads : WF_vars(Worker(w))

-----------------------------------------------------------------------------

\* However the threads run and the results arrive, the plan is the one that
\* neotape-plan writes without them.
PlansAsWithOneThread == ScanSpec

\* The main thread, which fills one bounded queue and empties the other, and
\* the workers, which do the reverse, never wait for each other: every scan
\* comes to an end, and after an error too.
ScanEnds == <>(phase \notin {"scan", "closing"})
=============================================================================
