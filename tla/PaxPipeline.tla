----------------------------- MODULE PaxPipeline -----------------------------
(***************************************************************************)
(* The pax writer: for every slice of the plan a pipeline of threads.  The *)
(* main thread hands entries out in order: an entry without data is        *)
(* serialized in place, a small file is given to a worker through the work *)
(* queue, a large one is streamed by the serializer.  The order queue      *)
(* tells the serializer what comes next; a worker's bytes wait for their   *)
(* turn in the result store.  The serializer fills the output buffer, from *)
(* which the output thread calls write_chunk.                              *)
(*                                                                         *)
(* Entries are reduced to their kind and the buffer to the chunks in it: a *)
(* streamed chunk counts 2, any other 1.  Entry n of the current slice has *)
(* the code's sequence number n - 1.                                       *)
(***************************************************************************)
EXTENDS Naturals, Sequences, FiniteSets, SequencesExt

CONSTANTS
    Workers,            \* the worker threads, io_thread - 1 of them
    OrderCapacity,      \* capacity of the order queue
    WorkCapacity,       \* capacity of the work queue
    BufferCapacity,     \* output_buf_size
    Waterline,          \* output_restart_bytes; 0 when it is not used
    LargeChunks,        \* chunks of a streamed entry
    Plans,              \* the plans to archive
    Faults              \* the threads that may throw, "start" and "skip"

ASSUME PipelineAssumption ==
    /\ IsFiniteSet(Workers)
    /\ {"main", "serializer", "output"} \cap Workers = {}
    /\ OrderCapacity \in Nat \ {0} /\ WorkCapacity \in Nat \ {0}
    /\ BufferCapacity \in Nat \ {0} /\ LargeChunks \in Nat \ {0}
    /\ Waterline \in 0 .. BufferCapacity
    /\ Plans \subseteq Seq(Seq({"bare", "small", "large"}))

Threads == Workers \cup {"serializer", "output"}
Queues == {"work", "order", "results", "buffer"}
\* Mutant: no result slot kept for the entries the workers hold.
ResultCapacityBare == OrderCapacity
ResultCapacity == OrderCapacity + Cardinality(Workers)

VARIABLES
    plan,           \* the slices, each a sequence of entry kinds
    slice,          \* the current slice
    main,           \* where the main thread stands
    published,      \* entries of the slice the order queue has been given
    ordered,        \* and those the serializer has taken from it
    workQueue,      \* entries no worker has taken yet
    holding,        \* the entry each worker works on, 0 for none
    results,        \* entries whose bytes are in the result store
    serializer,     \* "idle", "fetch" or "push"
    part,           \* the chunk the serializer will push next
    buffer,         \* the output buffer: chunks
    refill,         \* wait_for_waterline
    writing,        \* the chunk in the hands of the output thread
    alive,          \* threads that run
    cancelling,     \* threads that are closing the queues after an exception
    closed,         \* queues that have been closed
    error,          \* an exception has been recorded
    skipped,        \* <<slice, entry>> given up with a warning
    calls           \* the callbacks invoked so far

mainVars == <<plan, slice, main, published>>
workerVars == <<workQueue, holding, results>>
serialVars == <<ordered, serializer, part>>
outputVars == <<buffer, refill, writing, calls>>
stopVars == <<alive, cancelling, closed, error>>
vars == <<mainVars, workerVars, serialVars, outputVars, stopVars, skipped>>

Route(kind) == CASE kind \in {"bare", "eoa"} -> "inline"
                 [] kind = "small" /\ Workers # {} -> "worker"
                 [] OTHER -> "stream"
Parts(kind) == IF Route(kind) = "stream" THEN LargeChunks ELSE 1

Entries == plan[slice] \o (IF slice = Len(plan) THEN <<"eoa">> ELSE <<>>)
RouteOf(n) == Route(Entries[n])
Bytes == FoldSeq(LAMBDA c, sum : sum + IF RouteOf(c.entry) = "stream"
                                       THEN 2 ELSE 1, 0, buffer)

Stream == INSTANCE SliceStream WITH
    outcome <- IF main \in {"done", "failed"} THEN main ELSE "running"

Init ==
    /\ plan \in Plans
    /\ slice = 0 /\ main = "begin" /\ published = 0 /\ ordered = 0
    /\ workQueue = <<>> /\ holding = [w \in Workers |-> 0] /\ results = {}
    /\ serializer = "idle" /\ part = 1
    /\ buffer = <<>> /\ refill = FALSE /\ writing = <<>>
    /\ alive = {} /\ cancelling = {} /\ closed = {} /\ error = FALSE
    /\ skipped = {} /\ calls = <<>>

(***************************************************************************)
(* An exception: the first one is kept, then the thread closes the queues  *)
(* one after the other and ends; the main thread goes on to join.          *)
(***************************************************************************)
Active(t) == t \in alive \ cancelling

Throws(t) == error' = TRUE /\ cancelling' = cancelling \cup {t}

Ends(t) == alive' = alive \ {t} /\ UNCHANGED <<cancelling, closed, error>>

CloseNext(t) ==
    LET order == <<"work", "order", "results", "buffer">> IN
    /\ t \in cancelling
    /\ \E i \in 1 .. 4 :
          /\ order[i] \notin closed
          /\ \A j \in 1 .. i - 1 : order[j] \in closed
          /\ closed' = closed \cup {order[i]}
    /\ UNCHANGED <<mainVars, workerVars, serialVars, outputVars, alive,
                   cancelling, error, skipped>>

Cancelled(t) ==
    /\ t \in cancelling
    /\ closed = Queues
    /\ cancelling' = cancelling \ {t}
    /\ alive' = alive \ {t}
    /\ main' = IF t = "main" THEN "joinWorkers" ELSE main
    /\ UNCHANGED <<plan, slice, published, workerVars, serialVars, outputVars,
                   closed, error, skipped>>

(***************************************************************************)
(* The main thread.  begin_slice builds a pipeline of its own for every    *)
(* slice; a thread that cannot be started cancels those that run.          *)
(***************************************************************************)
NewPipeline ==
    /\ main = "begin" /\ slice < Len(plan)
    /\ slice' = slice + 1
    /\ calls' = Append(calls, Stream!BeginCall(slice + 1))
    /\ published' = 0 /\ ordered' = 0
    /\ workQueue' = <<>> /\ holding' = [w \in Workers |-> 0] /\ results' = {}
    /\ serializer' = "idle" /\ part' = 1
    /\ buffer' = <<>> /\ refill' = (Waterline > 0) /\ writing' = <<>>
    /\ closed' = {}
    /\ UNCHANGED <<plan, skipped>>

BeginSlice ==
    /\ NewPipeline
    /\ main' = "emit"
    /\ alive' = Threads
    /\ UNCHANGED <<cancelling, error>>

\* Mutant: the threads that run are joined without having been cancelled.
StartFailsUncancelled ==
    /\ "start" \in Faults
    /\ NewPipeline
    /\ main' = "joinWorkers"
    /\ \E started \in SUBSET Workers : alive' = started \cup {"output"}
    /\ error' = TRUE /\ UNCHANGED cancelling

StartFails ==
    /\ "start" \in Faults
    /\ NewPipeline
    /\ main' = "cancel"
    /\ \/ alive' = {}
       \/ \E started \in SUBSET Workers : alive' = started \cup {"output"}
    /\ Throws("main")

OrderRoom == published - ordered < OrderCapacity
HasNext == main = "emit" /\ published < Len(Entries)
NextRoute == RouteOf(published + 1)

Publish(stage) ==
    /\ "order" \notin closed /\ OrderRoom
    /\ published' = published + 1
    /\ main' = stage
    /\ UNCHANGED <<plan, slice, workerVars, serialVars, outputVars, stopVars>>

\* An entry without data is serialized here, one libarchive rejects with a
\* warning to nothing; a streamed one is opened by the serializer.
Enqueue ==
    /\ HasNext /\ NextRoute # "worker"
    /\ Publish("emit")
    /\ \/ UNCHANGED skipped
       \/ /\ NextRoute = "inline" /\ Entries[published + 1] # "eoa"
          /\ "skip" \in Faults
          /\ skipped' = skipped \cup {<<slice, published + 1>>}

\* Mutant: the work queue is not bounded.
EnqueueSmallUnbounded ==
    /\ HasNext /\ NextRoute = "worker" /\ "work" \notin closed
    /\ workQueue' = Append(workQueue, published + 1)
    /\ main' = "publish"
    /\ UNCHANGED <<plan, slice, published, holding, results, serialVars,
                   outputVars, stopVars, skipped>>

\* A small file goes to the workers first, then to the order queue.
EnqueueSmall ==
    /\ HasNext /\ NextRoute = "worker"
    /\ "work" \notin closed /\ Len(workQueue) < WorkCapacity
    /\ workQueue' = Append(workQueue, published + 1)
    /\ main' = "publish"
    /\ UNCHANGED <<plan, slice, published, holding, results, serialVars,
                   outputVars, stopVars, skipped>>

PublishSmall == main = "publish" /\ Publish("emit") /\ UNCHANGED skipped

EnqueueRefused ==
    /\ \/ HasNext /\ NextRoute = "worker" /\ "work" \in closed
       \/ HasNext /\ NextRoute # "worker" /\ "order" \in closed
       \/ main = "publish" /\ "order" \in closed
    /\ main' = "cancel"
    /\ Throws("main")
    /\ UNCHANGED <<plan, slice, published, workerVars, serialVars, outputVars,
                   alive, closed, skipped>>

MainThrows ==
    /\ "main" \in Faults
    /\ \/ /\ main = "emit" /\ main' = "cancel" /\ Throws("main")
       \/ /\ main = "begin" /\ main' = "failed"
          /\ UNCHANGED <<error, cancelling>>
    /\ UNCHANGED <<plan, slice, published, workerVars, serialVars, outputVars,
                   alive, closed, skipped>>

FinishInput ==
    /\ main = "emit" /\ published = Len(Entries)
    /\ closed' = closed \cup {"work", "order"}
    /\ main' = "joinWorkers"
    /\ UNCHANGED <<plan, slice, published, workerVars, serialVars, outputVars,
                   alive, cancelling, error, skipped>>

Join(stage, threads, next, queue) ==
    /\ main = stage
    /\ alive \cap threads = {}
    /\ closed' = closed \cup {queue}
    /\ main' = next
    /\ UNCHANGED <<plan, slice, published, workerVars, serialVars, outputVars,
                   alive, cancelling, error, skipped>>

\* Mutant: the result store is closed before the workers have ended.
JoinWorkersEarly == Join("joinWorkers", {}, "joinSerializer", "results")

JoinWorkers == Join("joinWorkers", Workers, "joinSerializer", "results")
JoinSerializer == Join("joinSerializer", {"serializer"}, "joinOutput", "buffer")

\* Mutant: the recorded exception is not rethrown after the join.
JoinOutputBlind ==
    /\ main = "joinOutput"
    /\ "output" \notin alive
    /\ main' = "begin" /\ calls' = Append(calls, Stream!EndCall(slice))
    /\ UNCHANGED <<plan, slice, published, workerVars, serialVars, buffer,
                   refill, writing, stopVars, skipped>>

JoinOutput ==
    /\ main = "joinOutput"
    /\ "output" \notin alive
    /\ \/ /\ ~error
          /\ main' = "begin" /\ calls' = Append(calls, Stream!EndCall(slice))
       \/ /\ error \/ "main" \in Faults
          /\ main' = "failed" /\ UNCHANGED calls
    /\ UNCHANGED <<plan, slice, published, workerVars, serialVars, buffer,
                   refill, writing, stopVars, skipped>>

Finish ==
    /\ main = "begin" /\ slice = Len(plan)
    /\ main' = "done"
    /\ UNCHANGED <<plan, slice, published, workerVars, serialVars, outputVars,
                   stopVars, skipped>>

MainNext ==
    \/ BeginSlice \/ StartFails \/ Enqueue \/ EnqueueSmall \/ PublishSmall
    \/ EnqueueRefused \/ MainThrows \/ FinishInput \/ JoinWorkers
    \/ JoinSerializer \/ JoinOutput \/ Finish
    \/ CloseNext("main") \/ Cancelled("main")

(***************************************************************************)
(* A worker serializes one small file at a time.  A file it cannot open    *)
(* leaves an empty result in the store.                                    *)
(***************************************************************************)
WorkerTakes(w) ==
    /\ Active(w) /\ holding[w] = 0 /\ workQueue # <<>>
    /\ holding' = [holding EXCEPT ![w] = Head(workQueue)]
    /\ workQueue' = Tail(workQueue)
    /\ UNCHANGED <<mainVars, results, serialVars, outputVars, stopVars, skipped>>

WorkerPuts(w) ==
    /\ Active(w) /\ holding[w] # 0
    /\ "results" \notin closed /\ Cardinality(results) < ResultCapacity
    /\ results' = results \cup {holding[w]}
    /\ holding' = [holding EXCEPT ![w] = 0]
    /\ \/ UNCHANGED skipped
       \/ /\ "skip" \in Faults
          /\ skipped' = skipped \cup {<<slice, holding[w]>>}
    /\ UNCHANGED <<mainVars, workQueue, serialVars, outputVars, stopVars>>

WorkerThrows(w) ==
    /\ "worker" \in Faults
    /\ Active(w) /\ holding[w] # 0
    /\ Throws(w)
    /\ UNCHANGED <<mainVars, workerVars, serialVars, outputVars, alive, closed,
                   skipped>>

WorkerEnds(w) ==
    /\ Active(w)
    /\ \/ holding[w] = 0 /\ workQueue = <<>> /\ "work" \in closed
       \/ holding[w] # 0 /\ "results" \in closed
    /\ Ends(w)
    /\ UNCHANGED <<mainVars, workerVars, serialVars, outputVars, skipped>>

WorkerNext(w) ==
    \/ WorkerTakes(w) \/ WorkerPuts(w) \/ WorkerThrows(w) \/ WorkerEnds(w)
    \/ CloseNext(w) \/ Cancelled(w)

(***************************************************************************)
(* The serializer takes the entries in order.  While it pushes, part is    *)
(* the chunk that comes next; past the last one the entry is finished.  A  *)
(* streamed entry whose source fails is padded by the archive writer as    *)
(* the exception unwinds, so it may throw after any chunk.                 *)
(***************************************************************************)
SerializerTakes ==
    LET n == ordered + 1
        Turn(stage, gone) ==
            /\ serializer' = stage
            /\ skipped' = skipped \cup gone
    IN /\ Active("serializer") /\ serializer = "idle"
       /\ ordered < published
       /\ ordered' = n
       /\ part' = 1
       /\ \/ RouteOf(n) = "worker" /\ Turn("fetch", {})
          \/ RouteOf(n) = "inline"
             /\ Turn(IF <<slice, n>> \in skipped THEN "idle" ELSE "push", {})
          \/ RouteOf(n) = "stream" /\ Turn("push", {})
          \/ RouteOf(n) = "stream" /\ "skip" \in Faults
             /\ Turn("idle", {<<slice, n>>})
       /\ UNCHANGED <<mainVars, workerVars, outputVars, stopVars>>

SerializerFetches ==
    /\ Active("serializer") /\ serializer = "fetch"
    /\ ordered \in results
    /\ results' = results \ {ordered}
    /\ serializer' = IF <<slice, ordered>> \in skipped THEN "idle" ELSE "push"
    /\ UNCHANGED <<mainVars, workQueue, holding, ordered, part, outputVars,
                   stopVars, skipped>>

Pushing == Active("serializer") /\ serializer = "push"

SerializerPushes ==
    /\ Pushing /\ part <= Parts(Entries[ordered])
    /\ "buffer" \notin closed /\ Bytes < BufferCapacity
    /\ buffer' = Append(buffer, Stream!ChunkCall(slice, ordered, part))
    /\ part' = part + 1
    /\ UNCHANGED <<mainVars, workerVars, ordered, serializer, refill, writing,
                   calls, stopVars, skipped>>

SerializerFinishesEntry ==
    /\ Pushing /\ part > Parts(Entries[ordered])
    /\ serializer' = "idle"
    /\ UNCHANGED <<mainVars, workerVars, ordered, part, outputVars, stopVars,
                   skipped>>

SerializerThrows ==
    /\ Pushing /\ RouteOf(ordered) = "stream"
    /\ \/ "serializer" \in Faults
       \/ "buffer" \in closed /\ part <= Parts(Entries[ordered])
    /\ Throws("serializer")
    /\ UNCHANGED <<mainVars, workerVars, serialVars, outputVars, alive, closed,
                   skipped>>

SerializerEnds ==
    /\ Active("serializer")
    /\ \/ serializer = "idle" /\ ordered = published /\ "order" \in closed
       \/ serializer = "fetch" /\ ordered \notin results /\ "results" \in closed
       \/ /\ serializer = "push" /\ RouteOf(ordered) # "stream"
          /\ part <= Parts(Entries[ordered]) /\ "buffer" \in closed
    /\ Ends("serializer")
    /\ UNCHANGED <<mainVars, workerVars, serialVars, outputVars, skipped>>

SerializerNext ==
    \/ SerializerTakes \/ SerializerFetches \/ SerializerPushes
    \/ SerializerFinishesEntry \/ SerializerThrows \/ SerializerEnds
    \/ CloseNext("serializer") \/ Cancelled("serializer")

(***************************************************************************)
(* The output thread.  After it has found the buffer empty it waits until  *)
(* the buffer holds Waterline again.                                       *)
(***************************************************************************)
OutputPops ==
    /\ Active("output") /\ writing = <<>> /\ buffer # <<>>
    /\ refill => Bytes >= Waterline \/ "buffer" \in closed
    /\ writing' = <<Head(buffer)>>
    /\ buffer' = Tail(buffer)
    /\ UNCHANGED <<mainVars, workerVars, serialVars, refill, calls, stopVars,
                   skipped>>

OutputWrites ==
    /\ Active("output") /\ writing # <<>>
    /\ calls' = calls \o writing
    /\ writing' = <<>>
    /\ refill' = (Waterline > 0 /\ buffer = <<>>)
    /\ UNCHANGED <<mainVars, workerVars, serialVars, buffer, stopVars, skipped>>

OutputThrows ==
    /\ "output" \in Faults
    /\ Active("output") /\ writing # <<>>
    /\ Throws("output")
    /\ UNCHANGED <<mainVars, workerVars, serialVars, outputVars, alive, closed,
                   skipped>>

OutputEnds ==
    /\ Active("output") /\ writing = <<>>
    /\ buffer = <<>> /\ "buffer" \in closed
    /\ Ends("output")
    /\ UNCHANGED <<mainVars, workerVars, serialVars, outputVars, skipped>>

OutputNext ==
    \/ OutputPops \/ OutputWrites \/ OutputThrows \/ OutputEnds
    \/ CloseNext("output") \/ Cancelled("output")

Next ==
    \/ MainNext \/ (\E w \in Workers : WorkerNext(w)) \/ SerializerNext
    \/ OutputNext

Spec == Init /\ [][Next]_vars

\* Every thread runs: file reads and the callbacks return.
FairSpec ==
    /\ Spec
    /\ WF_vars(MainNext) /\ WF_vars(SerializerNext) /\ WF_vars(OutputNext)
    /\ \A w \in Workers : WF_vars(WorkerNext(w))
-----------------------------------------------------------------------------
Chunks == {Stream!ChunkCall(s, n, i) :
               s \in 1 .. slice, n \in 1 .. Len(Entries), i \in 1 .. LargeChunks}

PipelineTypeOK ==
    /\ main \in {"begin", "emit", "publish", "cancel", "joinWorkers",
                 "joinSerializer", "joinOutput", "done", "failed"}
    /\ slice \in 0 .. Len(plan)
    /\ published \in Nat /\ ordered \in 0 .. published
    /\ Len(workQueue) <= WorkCapacity
    /\ holding \in [Workers -> Nat]
    /\ results \subseteq Nat \ {0} /\ Cardinality(results) <= ResultCapacity
    /\ serializer \in {"idle", "fetch", "push"} /\ part \in Nat \ {0}
    /\ refill \in BOOLEAN /\ error \in BOOLEAN
    /\ alive \subseteq Threads /\ cancelling \subseteq Threads \cup {"main"}
    /\ closed \subseteq Queues

\* A worker never waits for room in the result store while the serializer
\* waits for an entry that is not in it: the store holds the results that
\* have overtaken the awaited entry, at most as many as the order queue and
\* the workers can be ahead (ResultStore::put, pipeline_result_capacity).
StoreHasRoom ==
    serializer = "fetch" /\ ordered \notin results
        => Cardinality(results) < ResultCapacity

\* Once any thread has recorded an exception the slice in progress is never
\* closed: end_slice, which marks the tape file complete, follows only the
\* join of threads none of which failed (SlicePipeline::finish_slice).
NoEndAfterError ==
    error => ~Stream!Done(Stream!EndCall(slice))

\* The threads deliver what one thread would: the slices in order, in each
\* the chunks in plan order, and "done" only for the whole plan.
StreamsInOrder == Stream!StreamSpec

\* Whatever fails, the writer returns: no thread waits for ever on a queue
\* whose other side has gone, and the joins end (PaxPipeline::join_threads).
PaxWriterEnds == <>(main \in {"done", "failed"})
=============================================================================
