--------------------------- MODULE ArchiverProofs ---------------------------
(***************************************************************************)
(* The archiver's producer for every plan, number of workers and capacity  *)
(* of queues and frames.  The pax writer: its types and bounds, that its   *)
(* result store always has room for the entry the serializer waits for,    *)
(* that a slice in which anything failed is never closed, and that the     *)
(* threads make the calls that one thread would make, SliceStream.  The    *)
(* frames: that a validator accepts them and that those of a closed slice  *)
(* are its bytes.                                                          *)
(***************************************************************************)
EXTENDS Archiver, FiniteSetTheorems, SequenceTheorems, TLAPS

TypeInv ==
    /\ PipelineTypeOK
    /\ plan \in Plans
    /\ IsFiniteSet(results)
    /\ workQueue \in Seq(Nat \ {0})

-----------------------------------------------------------------------------
(* Entries that have been given to the workers. *)

\* The entry main is about to publish is already in the work queue.
Announced == IF main = "emit" THEN published ELSE published + 1

Awaited(n) ==
    /\ ordered < n \/ (n = ordered /\ serializer = "fetch")
    /\ n <= Announced /\ RouteOf(n) = "worker"

InFlight(n) ==
    \/ \E i \in 1 .. Len(workQueue) : workQueue[i] = n
    \/ \E w \in Workers : holding[w] = n
    \/ n \in results

\* Each is in one place, and the work queue holds the last of them in order.
Places ==
    /\ \A i \in 1 .. Len(workQueue) : Awaited(workQueue[i])
    /\ \A w \in Workers : holding[w] # 0 => Awaited(holding[w])
    /\ \A n \in results : Awaited(n)
    /\ \A i, j \in 1 .. Len(workQueue) : i < j => workQueue[i] < workQueue[j]
    /\ \A i \in 1 .. Len(workQueue) :
           /\ \A w \in Workers : holding[w] < workQueue[i]
           /\ \A n \in results : n < workQueue[i]
    /\ \A w \in Workers : holding[w] \notin results
    /\ \A v, w \in Workers : v # w /\ holding[v] # 0 => holding[v] # holding[w]

\* What the serializer will wait for is on its way.
NoneLost ==
    /\ \A n \in Nat : ordered < n /\ n <= published /\ RouteOf(n) = "worker"
                          => InFlight(n)
    /\ main = "publish" => InFlight(published + 1)
    /\ serializer = "fetch" =>
           InFlight(ordered) /\ ordered # 0 /\ Workers # {}

\* One worker alone works in order.
OneInOrder ==
    (\A v, w \in Workers : v = w) =>
        \A w \in Workers, n \in results : holding[w] # 0 => n < holding[w]

FlightInv ==
    /\ published - ordered <= OrderCapacity
    /\ Places /\ NoneLost /\ OneInOrder

-----------------------------------------------------------------------------
(* Threads and callbacks. *)

ChunkCalls == [call : {"write_chunk"}, slice : Nat, entry : Nat, part : Nat]
SliceCalls == [call : {"begin_slice", "end_slice"}, slice : Nat]

CallsInv ==
    /\ calls \in Seq(ChunkCalls \cup SliceCalls)
    /\ buffer \in Seq(ChunkCalls) /\ writing \in Seq(ChunkCalls)

\* Who still runs, by where the main thread stands.
StopInv ==
    /\ cancelling \subseteq alive \cup {"main"}
    /\ "main" \in cancelling <=> main = "cancel"
    /\ main \in {"joinSerializer", "joinOutput"} => alive \cap Workers = {}
    /\ main = "joinOutput" => "serializer" \notin alive
    /\ main \in {"begin", "done", "failed"} => alive = {}
    /\ main \in {"begin", "done"} => ~error

\* A closed slice is an earlier one, or the last and nothing has failed.
ClosedInv ==
    \A i \in 1 .. Len(calls) : calls[i].call = "end_slice" =>
        /\ calls[i].slice <= slice
        /\ calls[i].slice = slice =>
               main \in {"begin", "done", "failed"} /\ ~error

PaxInv == TypeInv /\ FlightInv /\ CallsInv /\ StopInv /\ ClosedInv

-----------------------------------------------------------------------------
LEMMA Capacities ==
    /\ OrderCapacity \in Nat \ {0} /\ Cardinality(Workers) \in Nat
    /\ ResultCapacity \in Nat \ {0}
    /\ "main" \notin Threads
    /\ \A p \in Plans : Len(p) \in Nat
<1>1. Cardinality(Workers) \in Nat
    BY PipelineAssumption, FS_CardinalityType
<1>2. \A p \in Plans : Len(p) \in Nat
    BY PipelineAssumption
<1> QED BY <1>1, <1>2, PipelineAssumption DEF ResultCapacity, Threads

LEMMA OnlyWithWorkers ==
    ASSUME NEW n, RouteOf(n) = "worker" PROVE Workers # {}
    BY DEF RouteOf, Route

LEMMA InitPax == Init => PaxInv
<1> SUFFICES ASSUME Init PROVE PaxInv
    OBVIOUS
<1> USE Capacities, PipelineAssumption DEF Init
<1>1. TypeInv
  <2>1. IsFiniteSet({}) /\ Cardinality({}) = 0
    BY FS_EmptySet
  <2>2. slice \in 0 .. Len(plan) /\ plan \in Plans
    OBVIOUS
  <2>3. holding \in [Workers -> Nat] /\ results = {} /\ alive = {}
    OBVIOUS
  <2>4. workQueue \in Seq(Nat \ {0}) /\ Len(workQueue) = 0
    OBVIOUS
  <2>5. refill \in BOOLEAN /\ error \in BOOLEAN
    BY Zenon
  <2>6. /\ Len(workQueue) <= WorkCapacity
        /\ Cardinality(results) <= ResultCapacity
    BY <2>1, <2>4
  <2> QED BY <2>1, <2>2, <2>3, <2>4, <2>5, <2>6 DEF TypeInv, PipelineTypeOK
<1>2. FlightInv
    BY DEF FlightInv, Places, NoneLost, OneInOrder
<1>3. CallsInv /\ StopInv /\ ClosedInv
    BY DEF CallsInv, StopInv, ClosedInv
<1> QED BY <1>1, <1>2, <1>3 DEF PaxInv

-----------------------------------------------------------------------------
(* Types. *)

LEMMA CancelTypes ==
    ASSUME TypeInv, NEW t \in Threads \cup {"main"}, CloseNext(t) \/ Cancelled(t)
    PROVE  TypeInv'
<1> USE Capacities
        DEF TypeInv, PipelineTypeOK, mainVars, workerVars, serialVars,
            outputVars, stopVars
<1>1. CASE CloseNext(t)
  <2> DEFINE order == <<"work", "order", "results", "buffer">>
  <2>1. \A i \in 1 .. 4 : order[i] \in Queues
    BY DEF Queues
  <2> HIDE DEF order
  <2>2. closed' \subseteq Queues
    BY <1>1, <2>1 DEF CloseNext, order
  <2> QED BY <1>1, <2>2 DEF CloseNext
<1>2. CASE Cancelled(t)
    BY <1>2 DEF Cancelled
<1> QED BY <1>1, <1>2

LEMMA MainTypes == ASSUME TypeInv, MainNext PROVE TypeInv'
<1> USE Capacities, PipelineAssumption
        DEF TypeInv, PipelineTypeOK, mainVars, workerVars, serialVars,
            outputVars, stopVars
<1>1. CASE BeginSlice
    BY <1>1, FS_EmptySet DEF BeginSlice, NewPipeline
<1>2. CASE StartFails
    BY <1>2, FS_EmptySet DEF StartFails, NewPipeline, Throws, Threads
<1>3. CASE Enqueue
    BY <1>3 DEF Enqueue, Publish
<1>4. CASE EnqueueSmall
    BY <1>4 DEF EnqueueSmall
<1>5. CASE PublishSmall
    BY <1>5 DEF PublishSmall, Publish
<1>6. CASE EnqueueRefused
    BY <1>6 DEF EnqueueRefused, Throws
<1>7. CASE MainThrows
    BY <1>7 DEF MainThrows, Throws
<1>8. CASE FinishInput
    BY <1>8 DEF FinishInput, Queues
<1>9. CASE JoinWorkers \/ JoinSerializer
    BY <1>9 DEF JoinWorkers, JoinSerializer, Join, Queues
<1>10. CASE JoinOutput
    BY <1>10 DEF JoinOutput
<1>11. CASE Finish
    BY <1>11 DEF Finish
<1>12. CASE CloseNext("main") \/ Cancelled("main")
    BY <1>12, CancelTypes
<1> QED BY <1>1, <1>2, <1>3, <1>4, <1>5, <1>6, <1>7, <1>8, <1>9, <1>10,
           <1>11, <1>12 DEF MainNext

LEMMA WorkerTypes ==
    ASSUME TypeInv, NEW w \in Workers, WorkerNext(w) PROVE TypeInv'
<1> USE Capacities, PipelineAssumption
        DEF TypeInv, PipelineTypeOK, mainVars, workerVars, serialVars,
            outputVars, stopVars
<1>1. CASE WorkerTakes(w)
    BY <1>1 DEF WorkerTakes
<1>2. CASE WorkerPuts(w)
  <2>1. /\ IsFiniteSet(results') /\ Cardinality(results) \in Nat
        /\ Cardinality(results') \in {Cardinality(results), Cardinality(results) + 1}
    BY <1>2, FS_AddElement, FS_CardinalityType DEF WorkerPuts
  <2>2. Cardinality(results') <= ResultCapacity
    BY <1>2, <2>1 DEF WorkerPuts
  <2>3. results' \subseteq Nat \ {0} /\ holding' \in [Workers -> Nat]
    BY <1>2 DEF WorkerPuts
  <2> QED BY <1>2, <2>1, <2>2, <2>3 DEF WorkerPuts
<1>3. CASE WorkerThrows(w)
    BY <1>3 DEF WorkerThrows, Throws, Active, Threads
<1>4. CASE WorkerEnds(w)
    BY <1>4 DEF WorkerEnds, Ends
<1>5. CASE CloseNext(w) \/ Cancelled(w)
    BY <1>5, CancelTypes DEF Threads
<1> QED BY <1>1, <1>2, <1>3, <1>4, <1>5 DEF WorkerNext

LEMMA SerializerTypes == ASSUME TypeInv, SerializerNext PROVE TypeInv'
<1> USE Capacities, PipelineAssumption
        DEF TypeInv, PipelineTypeOK, mainVars, workerVars, serialVars,
            outputVars, stopVars
<1>1. CASE SerializerTakes
    BY <1>1 DEF SerializerTakes
<1>2. CASE SerializerFetches
  <2>1. /\ IsFiniteSet(results') /\ Cardinality(results) \in Nat
        /\ Cardinality(results') = Cardinality(results) - 1
    BY <1>2, FS_RemoveElement, FS_CardinalityType DEF SerializerFetches
  <2> QED BY <1>2, <2>1 DEF SerializerFetches
<1>3. CASE SerializerPushes
    BY <1>3 DEF SerializerPushes
<1>4. CASE SerializerFinishesEntry
    BY <1>4 DEF SerializerFinishesEntry
<1>5. CASE SerializerThrows
    BY <1>5 DEF SerializerThrows, Throws, Threads
<1>6. CASE SerializerEnds
    BY <1>6 DEF SerializerEnds, Ends
<1>7. CASE CloseNext("serializer") \/ Cancelled("serializer")
    BY <1>7, CancelTypes DEF Threads
<1> QED BY <1>1, <1>2, <1>3, <1>4, <1>5, <1>6, <1>7 DEF SerializerNext

LEMMA OutputTypes == ASSUME TypeInv, OutputNext PROVE TypeInv'
<1> USE Capacities, PipelineAssumption
        DEF TypeInv, PipelineTypeOK, mainVars, workerVars, serialVars,
            outputVars, stopVars
<1>1. CASE OutputPops
    BY <1>1 DEF OutputPops
<1>2. CASE OutputWrites
    BY <1>2 DEF OutputWrites
<1>3. CASE OutputThrows
    BY <1>3 DEF OutputThrows, Throws, Threads
<1>4. CASE OutputEnds
    BY <1>4 DEF OutputEnds, Ends
<1>5. CASE CloseNext("output") \/ Cancelled("output")
    BY <1>5, CancelTypes DEF Threads
<1> QED BY <1>1, <1>2, <1>3, <1>4, <1>5 DEF OutputNext

-----------------------------------------------------------------------------
(* Entries in flight: first what leaves them alone, then the seven steps    *)
(* that move one.                                                          *)

LEMMA FlightStays ==
    ASSUME TypeInv, FlightInv,
           UNCHANGED <<plan, slice, published, workerVars, ordered>>,
           main' = main \/ main' \notin {"emit", "publish"},
           serializer' = serializer \/ "fetch" \notin {serializer, serializer'}
    PROVE  FlightInv'
<1> USE DEF workerVars
<1>1. \A n : RouteOf(n)' = RouteOf(n)
    BY DEF RouteOf, Entries
<1>2. \A n : InFlight(n)' <=> InFlight(n)
    BY DEF InFlight
<1>3. published \in Nat /\ results \subseteq Nat /\ holding \in [Workers -> Nat]
      /\ workQueue \in Seq(Nat)
    BY DEF TypeInv, PipelineTypeOK
<1>4. \A n \in Nat : Awaited(n) => Awaited(n)'
    BY <1>1, <1>3 DEF Awaited, Announced
<1>5. Places'
  <2>1. /\ workQueue' = workQueue /\ holding' = holding /\ results' = results
        /\ Places
    BY DEF FlightInv
  <2> QED BY <1>3, <1>4, <2>1 DEF Places
<1>6. NoneLost'
    BY <1>1, <1>2 DEF NoneLost, FlightInv
<1> QED BY <1>5, <1>6 DEF FlightInv, OneInOrder

\* A fresh pipeline has nothing in flight.
LEMMA FlightBegins ==
    ASSUME TypeInv, NewPipeline, main' # "publish" PROVE FlightInv'
<1>1. /\ published' = 0 /\ ordered' = 0 /\ serializer' = "idle"
      /\ workQueue' = <<>> /\ results' = {} /\ \A w \in Workers : holding'[w] = 0
    BY DEF NewPipeline
<1> QED BY <1>1, Capacities DEF FlightInv, Places, NoneLost, OneInOrder

LEMMA FlightPublish ==
    ASSUME TypeInv, FlightInv, Publish("emit"),
           \/ main = "emit" /\ RouteOf(published + 1) # "worker"
           \/ main = "publish"
    PROVE  FlightInv'
<1> USE DEF Publish, workerVars, serialVars
<1>1. \A n : RouteOf(n)' = RouteOf(n)
    BY DEF RouteOf, Entries
<1>2. \A n : InFlight(n)' <=> InFlight(n)
    BY DEF InFlight
<1>3. published \in Nat /\ results \subseteq Nat /\ holding \in [Workers -> Nat]
      /\ workQueue \in Seq(Nat) /\ ordered \in Nat
    BY DEF TypeInv, PipelineTypeOK
<1>4. \A n \in Nat : Awaited(n) => Awaited(n)'
    BY <1>1, <1>3 DEF Awaited, Announced
<1>5. Places'
  <2>1. /\ workQueue' = workQueue /\ holding' = holding /\ results' = results
        /\ Places
    BY DEF FlightInv
  <2> QED BY <1>3, <1>4, <2>1 DEF Places
<1>6. NoneLost'
    BY <1>1, <1>2, <1>3 DEF NoneLost, FlightInv
<1>7. published' - ordered' <= OrderCapacity
    BY <1>3, Capacities DEF OrderRoom
<1> QED BY <1>5, <1>6, <1>7 DEF FlightInv, OneInOrder

LEMMA FlightGivesWork ==
    ASSUME TypeInv, FlightInv, EnqueueSmall PROVE FlightInv'
<1> USE DEF EnqueueSmall, serialVars, HasNext
<1>1. \A n : RouteOf(n)' = RouteOf(n)
    BY DEF RouteOf, Entries
<1>2. published \in Nat /\ results \subseteq Nat /\ holding \in [Workers -> Nat]
      /\ workQueue \in Seq(Nat) /\ ordered \in 0 .. published
    BY DEF TypeInv, PipelineTypeOK
<1>3. /\ Len(workQueue') = Len(workQueue) + 1 /\ workQueue' \in Seq(Nat)
      /\ workQueue'[Len(workQueue) + 1] = published + 1
      /\ \A i \in 1 .. Len(workQueue) : workQueue'[i] = workQueue[i]
    BY <1>2
<1>4. \A n : InFlight(n)' <=> InFlight(n) \/ n = published + 1
    BY <1>2, <1>3 DEF InFlight
<1>5. \A n \in Nat : Awaited(n) => Awaited(n)' /\ n <= published
    BY <1>1, <1>2 DEF Awaited, Announced
<1>6. Awaited(published + 1)'
  <2>1. /\ ordered' = ordered /\ published' = published /\ main' = "publish"
        /\ ordered \in Nat /\ ordered < published + 1
    BY <1>2
  <2>2. Announced' = published + 1
    BY <2>1 DEF Announced
  <2>3. RouteOf(published + 1)' = "worker"
    BY <1>1, <2>1 DEF NextRoute
  <2> QED BY <2>1, <2>2, <2>3, <1>2 DEF Awaited
<1>7. Places'
  <2>1. \A i \in 1 .. Len(workQueue)' : Awaited(workQueue[i])'
    BY <1>2, <1>3, <1>5, <1>6 DEF Places, FlightInv
  <2>2. /\ \A w \in Workers : holding[w] <= published
        /\ \A n \in results : n <= published
        /\ \A i \in 1 .. Len(workQueue) : workQueue[i] <= published
    BY <1>2, <1>5 DEF Places, FlightInv
  <2>3. \A i, j \in 1 .. Len(workQueue)' : i < j => workQueue'[i] < workQueue'[j]
    <3> SUFFICES ASSUME NEW i \in 1 .. Len(workQueue)',
                        NEW j \in 1 .. Len(workQueue)', i < j
                 PROVE  workQueue'[i] < workQueue'[j]
      OBVIOUS
    <3>1. i \in 1 .. Len(workQueue) /\ workQueue'[i] = workQueue[i]
      BY <1>2, <1>3
    <3>2. CASE j \in 1 .. Len(workQueue)
      BY <1>3, <3>1, <3>2 DEF Places, FlightInv
    <3>3. CASE j = Len(workQueue) + 1
      BY <1>2, <1>3, <2>2, <3>1, <3>3
    <3> QED BY <1>2, <1>3, <3>2, <3>3
  <2>4. \A i \in 1 .. Len(workQueue)' :
            /\ \A w \in Workers : holding[w] < workQueue'[i]
            /\ \A n \in results : n < workQueue'[i]
    BY <1>2, <1>3, <2>2 DEF Places, FlightInv
  <2> QED BY <1>2, <1>5, <2>1, <2>3, <2>4 DEF Places, FlightInv
<1>8. NoneLost'
    BY <1>1, <1>2, <1>4 DEF NoneLost, FlightInv
<1> QED BY <1>7, <1>8 DEF FlightInv, OneInOrder

LEMMA FlightTakes ==
    ASSUME TypeInv, FlightInv, NEW w \in Workers, WorkerTakes(w)
    PROVE  FlightInv'
<1> USE DEF WorkerTakes, serialVars, mainVars
<1> DEFINE n == Head(workQueue)
<1>1. \A m : RouteOf(m)' = RouteOf(m)
    BY DEF RouteOf, Entries
<1>2. published \in Nat /\ results \subseteq Nat /\ holding \in [Workers -> Nat]
      /\ workQueue \in Seq(Nat \ {0}) /\ ordered \in 0 .. published
      /\ holding[w] = 0
    BY DEF TypeInv, PipelineTypeOK
<1>3. /\ Len(workQueue') = Len(workQueue) - 1 /\ workQueue' \in Seq(Nat)
      /\ n = workQueue[1] /\ n \in Nat \ {0} /\ 1 \in 1 .. Len(workQueue)
      /\ \A i \in 1 .. Len(workQueue') :
             i + 1 \in 1 .. Len(workQueue) /\ workQueue'[i] = workQueue[i + 1]
    BY <1>2
<1>4. /\ holding'[w] = n
      /\ \A v \in Workers : v # w => holding'[v] = holding[v]
    BY <1>2
<1> HIDE DEF n
<1>5. \A m \in Nat : Awaited(m)' <=> Awaited(m)
    BY <1>1 DEF Awaited, Announced
<1>6. Places'
  <2>1. \A i \in 1 .. Len(workQueue)' : Awaited(workQueue[i])'
    BY <1>2, <1>3, <1>5 DEF Places, FlightInv
  <2>2. \A v \in Workers : holding'[v] # 0 => Awaited(holding[v])'
    BY <1>2, <1>3, <1>4, <1>5 DEF Places, FlightInv
  <2>3. \A i, j \in 1 .. Len(workQueue)' : i < j => workQueue'[i] < workQueue'[j]
    BY <1>2, <1>3 DEF Places, FlightInv
  <2>4. \A i \in 1 .. Len(workQueue)' : n < workQueue'[i]
    BY <1>2, <1>3 DEF Places, FlightInv
  <2>5. \A i \in 1 .. Len(workQueue)' :
            /\ \A v \in Workers : holding'[v] < workQueue'[i]
            /\ \A m \in results : m < workQueue'[i]
    BY <1>2, <1>3, <1>4, <2>4 DEF Places, FlightInv
  <2>6. n \notin results /\ \A v \in Workers : holding[v] # n
    BY <1>2, <1>3 DEF Places, FlightInv
  <2>7. \A v \in Workers : holding'[v] \notin results
    BY <1>4, <2>6 DEF Places, FlightInv
  <2>8. \A u, v \in Workers : u # v /\ holding'[u] # 0 => holding'[u] # holding'[v]
    BY <1>4, <2>6 DEF Places, FlightInv
  <2>9. \A m \in results : Awaited(m)'
    BY <1>2, <1>5 DEF Places, FlightInv
  <2> QED BY <2>1, <2>2, <2>3, <2>5, <2>7, <2>8, <2>9 DEF Places
<1>7. NoneLost'
  <2>1. \A m \in Nat \ {0} : InFlight(m) => InFlight(m)'
    <3> SUFFICES ASSUME NEW m \in Nat \ {0}, InFlight(m) PROVE InFlight(m)'
      OBVIOUS
    <3>1. CASE \E v \in Workers : holding[v] = m
      BY <1>2, <1>4, <3>1 DEF InFlight
    <3>2. CASE m \in results
      BY <3>2 DEF InFlight
    <3>3. CASE \E i \in 1 .. Len(workQueue) : workQueue[i] = m
      <4>1. PICK i \in 1 .. Len(workQueue) : workQueue[i] = m
        BY <3>3
      <4>2. CASE i = 1
        BY <1>3, <1>4, <4>1, <4>2 DEF InFlight
      <4>3. CASE i # 1
        <5>1. i - 1 \in 1 .. Len(workQueue') /\ workQueue'[i - 1] = m
          BY <1>2, <1>3, <4>1, <4>3
        <5> QED BY <5>1 DEF InFlight
      <4> QED BY <4>2, <4>3
    <3> QED BY <3>1, <3>2, <3>3 DEF InFlight
  <2>2. serializer = "fetch" => InFlight(ordered)'
    BY <1>2, <2>1 DEF NoneLost, FlightInv
  <2> QED BY <1>1, <1>2, <2>1, <2>2 DEF NoneLost, FlightInv
<1>8. OneInOrder'
    BY <1>2, <1>3, <1>4 DEF OneInOrder, FlightInv, Places
<1> QED BY <1>6, <1>7, <1>8 DEF FlightInv

LEMMA FlightPuts ==
    ASSUME TypeInv, FlightInv, NEW w \in Workers, WorkerPuts(w)
    PROVE  FlightInv'
<1> USE DEF WorkerPuts, serialVars, mainVars
<1>1. \A m : RouteOf(m)' = RouteOf(m)
    BY DEF RouteOf, Entries
<1>2. published \in Nat /\ results \subseteq Nat /\ holding \in [Workers -> Nat]
      /\ workQueue \in Seq(Nat \ {0}) /\ ordered \in 0 .. published
    BY DEF TypeInv, PipelineTypeOK
<1>0. PICK n \in Nat \ {0} : n = holding[w]
    BY <1>2
<1>3. /\ results' = results \cup {n}
      /\ holding'[w] = 0 /\ \A v \in Workers : v # w => holding'[v] = holding[v]
    BY <1>0, <1>2
<1>4. \A m \in Nat : Awaited(m)' <=> Awaited(m)
    BY <1>1 DEF Awaited, Announced
<1>5. Awaited(n) /\ Awaited(n)'
    BY <1>0, <1>4 DEF Places, FlightInv
<1>6. \A v \in Workers : v # w => holding[v] # n
    BY <1>0 DEF Places, FlightInv
<1>7. \A i \in 1 .. Len(workQueue) : n < workQueue[i] /\ 0 < workQueue[i]
    BY <1>0, <1>2 DEF Places, FlightInv
<1>8. Places'
  <2>1. \A v \in Workers : holding'[v] \notin results'
    <3> SUFFICES ASSUME NEW v \in Workers PROVE holding'[v] \notin results'
      OBVIOUS
    <3>1. CASE v = w
      BY <1>3, <3>1, 0 \notin results DEF TypeInv, PipelineTypeOK
    <3>2. CASE v # w
      BY <1>3, <1>6, <3>2 DEF Places, FlightInv
    <3> QED BY <3>1, <3>2
  <2>2. \A m \in results' : Awaited(m)'
    BY <1>2, <1>3, <1>4, <1>5 DEF Places, FlightInv
  <2>3. \A v \in Workers : holding'[v] # 0 => Awaited(holding[v])'
    BY <1>2, <1>3, <1>4 DEF Places, FlightInv
  <2>4. \A i \in 1 .. Len(workQueue)' :
            /\ \A v \in Workers : holding'[v] < workQueue[i]
            /\ \A m \in results' : m < workQueue[i]
    BY <1>2, <1>3, <1>7 DEF Places, FlightInv
  <2>5. \A u, v \in Workers : u # v /\ holding'[u] # 0 => holding'[u] # holding'[v]
    BY <1>2, <1>3 DEF Places, FlightInv
  <2>6. /\ \A i \in 1 .. Len(workQueue)' : Awaited(workQueue[i])'
        /\ \A i, j \in 1 .. Len(workQueue)' : i < j => workQueue'[i] < workQueue'[j]
    BY <1>2, <1>4 DEF Places, FlightInv
  <2> QED BY <2>1, <2>2, <2>3, <2>4, <2>5, <2>6 DEF Places
<1>9. NoneLost'
  <2>1. \A m \in Nat \ {0} : InFlight(m) => InFlight(m)'
    BY <1>0, <1>3 DEF InFlight
  <2> QED BY <1>1, <1>2, <2>1 DEF NoneLost, FlightInv
<1>10. OneInOrder'
    BY <1>3 DEF OneInOrder
<1> QED BY <1>8, <1>9, <1>10 DEF FlightInv

LEMMA FlightTurns ==
    ASSUME TypeInv, FlightInv, SerializerTakes PROVE FlightInv'
<1> USE DEF SerializerTakes, workerVars, mainVars
<1>1. \A m : RouteOf(m)' = RouteOf(m)
    BY DEF RouteOf, Entries
<1>2. published \in Nat /\ results \subseteq Nat /\ holding \in [Workers -> Nat]
      /\ workQueue \in Seq(Nat \ {0}) /\ ordered \in 0 .. published
    BY DEF TypeInv, PipelineTypeOK
<1>3. /\ ordered' = ordered + 1 /\ ordered < published /\ serializer = "idle"
      /\ RouteOf(ordered + 1) = "worker" <=> serializer' = "fetch"
    <2>1. RouteOf(ordered + 1) \in {"worker", "inline", "stream"}
      BY DEF RouteOf, Route
    <2> QED BY <2>1
<1>4. \A m \in Nat : Awaited(m) => Awaited(m)'
    BY <1>1, <1>2, <1>3 DEF Awaited, Announced
<1>5. Places'
    BY <1>2, <1>4 DEF Places, FlightInv
<1>6. \A m \in Nat : InFlight(m)' <=> InFlight(m)
    BY DEF InFlight
<1>7. NoneLost'
  <2>1. serializer' = "fetch" => InFlight(ordered)' /\ ordered' # 0
    <3>1. serializer' = "fetch" => InFlight(ordered + 1)
      BY <1>2, <1>3 DEF NoneLost, FlightInv
    <3> QED BY <1>2, <1>3, <3>1 DEF InFlight
  <2>2. serializer' = "fetch" => Workers # {}
    BY <1>3, OnlyWithWorkers
  <2>3. \A m \in Nat : ordered' < m => ordered < m
    BY <1>2, <1>3
  <2> QED BY <1>1, <1>2, <1>3, <1>6, <2>1, <2>2, <2>3 DEF NoneLost, FlightInv
<1>8. published' - ordered' <= OrderCapacity
    BY <1>2, <1>3, Capacities DEF FlightInv
<1> QED BY <1>5, <1>7, <1>8 DEF FlightInv, OneInOrder

LEMMA FlightFetches ==
    ASSUME TypeInv, FlightInv, SerializerFetches PROVE FlightInv'
<1> USE DEF SerializerFetches, mainVars
<1>1. \A m : RouteOf(m)' = RouteOf(m)
    BY DEF RouteOf, Entries
<1>2. published \in Nat /\ results \subseteq Nat /\ holding \in [Workers -> Nat]
      /\ workQueue \in Seq(Nat \ {0}) /\ ordered \in 0 .. published
    BY DEF TypeInv, PipelineTypeOK
<1>3. /\ results' = results \ {ordered} /\ ordered \in results
      /\ serializer' # "fetch"
    OBVIOUS
<1>4. \A m \in Nat : m # ordered /\ Awaited(m) => Awaited(m)'
    BY <1>1, <1>2, <1>3 DEF Awaited, Announced
<1>5. /\ \A i \in 1 .. Len(workQueue) : workQueue[i] # ordered
      /\ \A w \in Workers : holding[w] # ordered
    BY <1>2, <1>3 DEF Places, FlightInv
<1>6. Places'
    BY <1>2, <1>3, <1>4, <1>5 DEF Places, FlightInv
<1>7. \A m \in Nat : m # ordered /\ InFlight(m) => InFlight(m)'
    BY <1>3 DEF InFlight
<1>8. NoneLost'
    BY <1>1, <1>2, <1>3, <1>7 DEF NoneLost, FlightInv
<1> QED BY <1>3, <1>6, <1>8 DEF FlightInv, OneInOrder

LEMMA CancelFlight ==
    ASSUME TypeInv, FlightInv, NEW t, CloseNext(t) \/ Cancelled(t)
    PROVE  FlightInv'
    BY FlightStays DEF CloseNext, Cancelled, mainVars, serialVars

LEMMA FlightStep == ASSUME TypeInv, FlightInv, Next PROVE FlightInv'
<1> USE DEF mainVars, serialVars
<1>1. CASE BeginSlice \/ StartFails
    BY <1>1, FlightBegins DEF BeginSlice, StartFails
<1>2. CASE Enqueue
    BY <1>2, FlightPublish DEF Enqueue, HasNext, NextRoute
<1>3. CASE PublishSmall
    BY <1>3, FlightPublish DEF PublishSmall
<1>4. CASE EnqueueSmall
    BY <1>4, FlightGivesWork
<1>5. CASE EnqueueRefused \/ MainThrows \/ FinishInput \/ Finish
    BY <1>5, FlightStays DEF EnqueueRefused, MainThrows, FinishInput, Finish
<1>6. CASE JoinWorkers \/ JoinSerializer \/ JoinOutput
    BY <1>6, FlightStays DEF JoinWorkers, JoinSerializer, Join, JoinOutput
<1>7. CASE \E w \in Workers : WorkerNext(w)
  <2> SUFFICES ASSUME NEW w \in Workers, WorkerNext(w) PROVE FlightInv'
    BY <1>7
  <2>1. CASE WorkerTakes(w) \/ WorkerPuts(w)
    BY <2>1, FlightTakes, FlightPuts
  <2>2. CASE WorkerThrows(w) \/ WorkerEnds(w)
    BY <2>2, FlightStays DEF WorkerThrows, WorkerEnds
  <2> QED BY <2>1, <2>2, CancelFlight DEF WorkerNext
<1>8. CASE SerializerTakes \/ SerializerFetches
    BY <1>8, FlightTurns, FlightFetches
<1>9. CASE \/ SerializerPushes \/ SerializerFinishesEntry
           \/ SerializerThrows \/ SerializerEnds
    BY <1>9, FlightStays DEF SerializerPushes, SerializerFinishesEntry,
                             SerializerThrows, SerializerEnds, Pushing
<1>10. CASE OutputPops \/ OutputWrites \/ OutputThrows \/ OutputEnds
    BY <1>10, FlightStays DEF OutputPops, OutputWrites, OutputThrows, OutputEnds
<1> QED BY <1>1, <1>2, <1>3, <1>4, <1>5, <1>6, <1>7, <1>8, <1>9, <1>10,
           CancelFlight DEF Next, MainNext, SerializerNext, OutputNext

-----------------------------------------------------------------------------
(* Calls. *)

LEMMA CallKinds ==
    /\ \A s, n, i \in Nat : Stream!ChunkCall(s, n, i) \in ChunkCalls
    /\ \A s \in Nat :
           /\ Stream!BeginCall(s) \in SliceCalls /\ Stream!EndCall(s) \in SliceCalls
           /\ Stream!BeginCall(s).call = "begin_slice"
           /\ Stream!EndCall(s).call = "end_slice" /\ Stream!EndCall(s).slice = s
    /\ \A c \in ChunkCalls : c.call = "write_chunk"
    /\ \A c \in ChunkCalls \cup SliceCalls : c.slice \in Nat
    BY DEF Stream!ChunkCall, Stream!BeginCall, Stream!EndCall, ChunkCalls, SliceCalls

LEMMA Appended ==
    ASSUME NEW S, NEW q \in Seq(S), NEW e \in S
    PROVE  /\ Append(q, e) \in Seq(S) /\ Len(q) \in Nat
           /\ Len(Append(q, e)) = Len(q) + 1
           /\ Append(q, e)[Len(q) + 1] = e
           /\ \A j \in 1 .. Len(q) : Append(q, e)[j] = q[j] /\ q[j] \in S
    OBVIOUS

LEMMA CallsStep == ASSUME TypeInv, CallsInv, Next PROVE CallsInv'
<1> USE DEF CallsInv, mainVars, serialVars, outputVars
<1>1. slice \in Nat /\ ordered \in Nat /\ part \in Nat
    BY Capacities DEF TypeInv, PipelineTypeOK
<1>2. CASE NewPipeline
    BY <1>1, <1>2, CallKinds DEF NewPipeline
<1>3. CASE JoinOutput
  <2>1. calls' = Append(calls, Stream!EndCall(slice)) \/ UNCHANGED calls
    BY <1>3 DEF JoinOutput
  <2>2. Stream!EndCall(slice) \in ChunkCalls \cup SliceCalls
    BY <1>1, CallKinds
  <2>3. calls \in Seq(ChunkCalls \cup SliceCalls)
    OBVIOUS
  <2>4. calls' \in Seq(ChunkCalls \cup SliceCalls)
    <3>1. CASE UNCHANGED calls
      BY <2>3, <3>1
    <3>2. CASE calls' = Append(calls, Stream!EndCall(slice))
      <4> HIDE DEF CallsInv
      <4> QED BY <2>2, <2>3, <3>2, Appended
    <3> QED BY <2>1, <3>1, <3>2
  <2> QED BY <1>3, <2>4 DEF JoinOutput
<1>4. CASE SerializerPushes
    BY <1>1, <1>4, CallKinds DEF SerializerPushes
<1>5. CASE OutputPops
    BY <1>5 DEF OutputPops
<1>6. CASE OutputWrites
    BY <1>6 DEF OutputWrites
<1>7. CASE UNCHANGED <<calls, buffer, writing>>
    BY <1>7
<1>8. ASSUME NEW t, CloseNext(t) \/ Cancelled(t) PROVE CallsInv'
    BY <1>8 DEF CloseNext, Cancelled
<1>9. CASE \E w \in Workers : WorkerNext(w)
    BY <1>7, <1>8, <1>9 DEF WorkerNext, WorkerTakes, WorkerPuts, WorkerThrows, WorkerEnds
<1>10. CASE MainNext
    BY <1>2, <1>3, <1>7, <1>8, <1>10 DEF MainNext, BeginSlice, StartFails,
       Enqueue, EnqueueSmall, PublishSmall, Publish, EnqueueRefused, MainThrows,
       FinishInput, JoinWorkers, JoinSerializer, Join, Finish
<1>11. CASE SerializerNext
    BY <1>4, <1>7, <1>8, <1>11 DEF SerializerNext, SerializerTakes,
       SerializerFetches, SerializerFinishesEntry, SerializerThrows, SerializerEnds
<1>12. CASE OutputNext
    BY <1>5, <1>6, <1>7, <1>8, <1>12 DEF OutputNext, OutputThrows, OutputEnds
<1> QED BY <1>9, <1>10, <1>11, <1>12 DEF Next

-----------------------------------------------------------------------------
(* Threads. *)

LEMMA StopStep == ASSUME TypeInv, StopInv, Next PROVE StopInv'
<1> USE DEF StopInv, mainVars, stopVars
<1>1. alive \subseteq Threads /\ "main" \notin Threads /\ "main" \notin Workers
      /\ "serializer" \notin Workers
    BY Capacities, PipelineAssumption DEF TypeInv, PipelineTypeOK
<1>2. ASSUME NEW t \in Threads, Throws(t), t \in alive, UNCHANGED <<alive, main>>
      PROVE  StopInv'
    BY <1>1, <1>2 DEF Throws
<1>3. ASSUME NEW t \in Threads, Active(t), Ends(t), UNCHANGED main
      PROVE  StopInv'
    BY <1>1, <1>3 DEF Ends, Active
<1>4. ASSUME NEW t \in Threads \cup {"main"}, CloseNext(t) PROVE StopInv'
    BY <1>4 DEF CloseNext
<1>5. ASSUME NEW t \in Threads, Cancelled(t) PROVE StopInv'
    BY <1>1, <1>5 DEF Cancelled
<1>6. CASE UNCHANGED <<stopVars, main>>
    BY <1>6
<1>7. CASE \E w \in Workers : WorkerNext(w)
    BY <1>2, <1>3, <1>4, <1>5, <1>6, <1>7 DEF WorkerNext, WorkerTakes,
       WorkerPuts, WorkerThrows, WorkerEnds, Active, Threads
<1>8. CASE SerializerNext
    BY <1>2, <1>3, <1>4, <1>5, <1>6, <1>8 DEF SerializerNext, SerializerTakes,
       SerializerFetches, SerializerPushes, SerializerFinishesEntry,
       SerializerThrows, SerializerEnds, Pushing, Active, Threads
<1>9. CASE OutputNext
    BY <1>2, <1>3, <1>4, <1>5, <1>6, <1>9 DEF OutputNext, OutputPops,
       OutputWrites, OutputThrows, OutputEnds, Active, Threads
<1>10. CASE MainNext
  <2>1. CASE BeginSlice
    BY <1>1, <2>1 DEF BeginSlice, NewPipeline
  <2>2. CASE StartFails
    BY <1>1, <2>2 DEF StartFails, NewPipeline, Throws
  <2>3. CASE Enqueue \/ EnqueueSmall \/ PublishSmall
    BY <2>3 DEF Enqueue, EnqueueSmall, PublishSmall, Publish, HasNext
  <2>4. CASE EnqueueRefused \/ MainThrows
    BY <2>4 DEF EnqueueRefused, MainThrows, Throws, HasNext
  <2>5. CASE FinishInput \/ JoinWorkers \/ JoinSerializer
    BY <2>5 DEF FinishInput, JoinWorkers, JoinSerializer, Join
  <2>6. CASE JoinOutput
    BY <1>1, <2>6 DEF JoinOutput, Threads
  <2>7. CASE Finish
    BY <2>7 DEF Finish
  <2>8. CASE Cancelled("main")
    BY <1>1, <2>8 DEF Cancelled
  <2> QED BY <1>4, <1>10, <2>1, <2>2, <2>3, <2>4, <2>5, <2>6, <2>7, <2>8 DEF MainNext
<1> QED BY <1>7, <1>8, <1>9, <1>10 DEF Next

-----------------------------------------------------------------------------
(* Closed slices. *)

LEMMA ClosedStays ==
    ASSUME ClosedInv, UNCHANGED <<calls, slice>>,
           \/ main' \in {"begin", "done", "failed"} /\ UNCHANGED error
           \/ main \notin {"begin", "done", "failed"}
    PROVE  ClosedInv'
    BY DEF ClosedInv

LEMMA ClosedBegins ==
    ASSUME TypeInv, CallsInv, ClosedInv, NewPipeline PROVE ClosedInv'
<1>1. slice \in Nat /\ slice' = slice + 1
    BY Capacities DEF NewPipeline, TypeInv, PipelineTypeOK
<1>2. /\ calls' = Append(calls, Stream!BeginCall(slice + 1))
      /\ Stream!BeginCall(slice + 1).call = "begin_slice"
    BY <1>1, CallKinds DEF NewPipeline
<1> SUFFICES ASSUME NEW i \in 1 .. Len(calls'), calls'[i].call = "end_slice"
             PROVE  calls'[i].slice \in Nat /\ calls'[i].slice < slice'
    BY <1>1 DEF ClosedInv
<1>3. /\ Len(calls') = Len(calls) + 1 /\ Len(calls) \in Nat
      /\ calls'[Len(calls) + 1] = Stream!BeginCall(slice + 1)
      /\ \A j \in 1 .. Len(calls) :
             calls'[j] = calls[j] /\ calls[j] \in ChunkCalls \cup SliceCalls
  <2>1. calls \in Seq(ChunkCalls \cup SliceCalls)
    BY DEF CallsInv
  <2>2. Stream!BeginCall(slice + 1) \in ChunkCalls \cup SliceCalls
    BY <1>1, CallKinds
  <2> QED BY <1>2, <2>1, <2>2, Appended
<1>4. i \in 1 .. Len(calls)
    BY <1>2, <1>3
<1>5. calls'[i] = calls[i] /\ calls[i] \in ChunkCalls \cup SliceCalls
    BY <1>3, <1>4
<1>6. calls[i].slice <= slice
    BY <1>4, <1>5 DEF ClosedInv
<1>7. calls[i].slice \in Nat
    BY <1>5, CallKinds
<1> QED BY <1>1, <1>5, <1>6, <1>7

LEMMA ClosedStep ==
    ASSUME TypeInv, CallsInv, StopInv, ClosedInv, Next PROVE ClosedInv'
<1> USE DEF mainVars, serialVars, outputVars, stopVars
<1>1. alive \subseteq Threads /\ "main" \notin Threads
    BY Capacities DEF TypeInv, PipelineTypeOK
<1>2. CASE BeginSlice \/ StartFails
    BY <1>2, ClosedBegins DEF BeginSlice, StartFails
<1>3. CASE Enqueue \/ EnqueueSmall \/ PublishSmall \/ EnqueueRefused \/ FinishInput
    BY <1>3, ClosedStays DEF Enqueue, EnqueueSmall, PublishSmall, Publish,
       EnqueueRefused, FinishInput, HasNext
<1>4. CASE MainThrows \/ Finish
    BY <1>4, ClosedStays DEF MainThrows, Finish
<1>5. CASE JoinWorkers \/ JoinSerializer
    BY <1>5, ClosedStays DEF JoinWorkers, JoinSerializer, Join
<1>6. CASE JoinOutput
  <2>1. CASE UNCHANGED calls
    BY <1>6, <2>1, ClosedStays DEF JoinOutput
  <2>2. CASE ~error /\ main' = "begin" /\ calls' = Append(calls, Stream!EndCall(slice))
    <3>1. /\ Stream!EndCall(slice).slice = slice /\ slice \in Nat
          /\ slice' = slice /\ error' = FALSE
      BY <1>6, <2>2, CallKinds, Capacities DEF JoinOutput, TypeInv, PipelineTypeOK
    <3> SUFFICES ASSUME NEW i \in 1 .. Len(calls'), calls'[i].call = "end_slice"
                 PROVE  calls'[i].slice <= slice
      BY <2>2, <3>1 DEF ClosedInv
    <3>2. CASE i \in 1 .. Len(calls)
      BY <2>2, <3>2 DEF CallsInv, ClosedInv
    <3>3. CASE i = Len(calls) + 1
      BY <2>2, <3>1, <3>3 DEF CallsInv
    <3> QED BY <2>2, <3>2, <3>3 DEF CallsInv
  <2> QED BY <1>6, <2>1, <2>2 DEF JoinOutput
<1>7. ASSUME NEW t, t \in alive \/ t \in cancelling, UNCHANGED <<calls, slice, main>>
      PROVE  ClosedInv'
    BY <1>1, <1>7, ClosedStays DEF StopInv
<1>8. ASSUME NEW t, CloseNext(t) \/ Cancelled(t) PROVE ClosedInv'
    BY <1>1, <1>8, ClosedStays DEF CloseNext, Cancelled, StopInv
<1>9. CASE \E w \in Workers : WorkerNext(w)
    BY <1>7, <1>8, <1>9 DEF WorkerNext, WorkerTakes, WorkerPuts, WorkerThrows,
       WorkerEnds, Active
<1>10. CASE SerializerNext
    BY <1>7, <1>8, <1>10 DEF SerializerNext, SerializerTakes, SerializerFetches,
       SerializerPushes, SerializerFinishesEntry, SerializerThrows,
       SerializerEnds, Pushing, Active
<1>11. CASE OutputPops \/ OutputThrows \/ OutputEnds
    BY <1>7, <1>11 DEF OutputPops, OutputThrows, OutputEnds, Active
<1>12. CASE OutputWrites
  <2>1. /\ calls' = calls \o writing /\ UNCHANGED <<slice, main, error>>
        /\ main \notin {"begin", "done", "failed"}
    BY <1>1, <1>12 DEF OutputWrites, Active, StopInv
  <2> SUFFICES ASSUME NEW i \in 1 .. Len(calls'), calls'[i].call = "end_slice"
               PROVE  i \in 1 .. Len(calls) /\ calls'[i] = calls[i]
    BY <2>1 DEF ClosedInv
  <2>0. /\ Len(calls) \in Nat /\ Len(writing) \in Nat
        /\ Len(calls') = Len(calls) + Len(writing)
        /\ \A j \in 1 .. Len(calls) + Len(writing) :
               calls'[j] = IF j <= Len(calls) THEN calls[j] ELSE writing[j - Len(calls)]
    BY <2>1 DEF CallsInv
  <2>2. CASE i > Len(calls)
    <3>1. calls'[i] = writing[i - Len(calls)] /\ i - Len(calls) \in 1 .. Len(writing)
      BY <2>0, <2>2
    <3>2. writing[i - Len(calls)] \in ChunkCalls
      BY <3>1 DEF CallsInv
    <3>3. calls'[i].call = "write_chunk"
      BY <3>1, <3>2, CallKinds
    <3> QED BY <3>3
  <2> QED BY <2>0, <2>2
<1> QED BY <1>2, <1>3, <1>4, <1>5, <1>6, <1>8, <1>9, <1>10, <1>11, <1>12
        DEF Next, MainNext, OutputNext

-----------------------------------------------------------------------------

LEMMA PaxStep == PaxInv /\ [Next]_vars => PaxInv'
<1>1. ASSUME PaxInv, Next PROVE PaxInv'
  <2>1. TypeInv'
    BY <1>1, MainTypes, WorkerTypes, SerializerTypes, OutputTypes DEF PaxInv, Next
  <2> QED BY <1>1, <2>1, FlightStep, CallsStep, StopStep, ClosedStep DEF PaxInv
<1>2. ASSUME PaxInv, UNCHANGED vars PROVE PaxInv'
  <2> USE <1>2 DEF PaxInv, vars, mainVars, workerVars, serialVars, outputVars, stopVars
  <2>1. TypeInv'
    BY DEF TypeInv, PipelineTypeOK
  <2>2. FlightInv'
    BY FlightStays
  <2>3. CallsInv' /\ StopInv' /\ ClosedInv'
    BY DEF CallsInv, StopInv, ClosedInv
  <2> QED BY <2>1, <2>2, <2>3
<1> QED BY <1>1, <1>2

\* The inductive invariant of the pax writer's threads.
THEOREM PaxInvariant == Spec => []PaxInv
    BY InitPax, PaxStep, PTL DEF Spec

\* The threads' state keeps its types, and no queue exceeds its capacity.
THEOREM PaxTypes == Spec => []PipelineTypeOK
<1>1. PaxInv => PipelineTypeOK
    BY DEF PaxInv, TypeInv
<1> QED BY <1>1, PaxInvariant, PTL

LEMMA PairCardinality ==
    ASSUME NEW v, NEW w, v # w
    PROVE  IsFiniteSet({v, w}) /\ Cardinality({v, w}) = 2
<1>1. IsFiniteSet({v}) /\ Cardinality({v}) = 1
    BY FS_Singleton
<1>2. {v, w} = {v} \cup {w} /\ w \notin {v}
    OBVIOUS
<1> QED BY <1>1, <1>2, FS_AddElement

LEMMA IntervalSize ==
    ASSUME NEW a \in Nat, NEW b \in Nat, a <= b
    PROVE  /\ IsFiniteSet(a + 1 .. b + 1)
           /\ Cardinality(a + 1 .. b + 1) = b - a + 1
<1>1. a + 1 \in Int /\ b + 1 \in Int /\ ~(a + 1 > b + 1)
    OBVIOUS
<1>2. /\ IsFiniteSet(a + 1 .. b + 1)
      /\ Cardinality(a + 1 .. b + 1) = (b + 1) - (a + 1) + 1
    BY <1>1, FS_Interval
<1> QED BY <1>2

LEMMA RoomFromOrder == ASSUME PaxInv PROVE StoreHasRoom
<1> USE DEF PaxInv, TypeInv, PipelineTypeOK
<1> SUFFICES ASSUME serializer = "fetch", ordered \notin results
             PROVE  Cardinality(results) < ResultCapacity
    BY DEF StoreHasRoom
<1> USE Capacities
<1>1. Cardinality(results) \in Nat
    BY FS_CardinalityType
<1>2. Workers # {} /\ InFlight(ordered) /\ ordered # 0 /\ published \in Nat
      /\ ordered \in 0 .. published /\ published - ordered <= OrderCapacity
    BY DEF FlightInv, NoneLost
<1>3. results \subseteq ordered + 1 .. published + 1
  <2> SUFFICES ASSUME NEW n \in results PROVE n \in ordered + 1 .. published + 1
    OBVIOUS
  <2>1. n \in Nat /\ Awaited(n) /\ n # ordered
    BY DEF FlightInv, Places
  <2> QED BY <1>2, <2>1 DEF Awaited, Announced
<1>4. Cardinality(results) <= OrderCapacity + 1
  <2>1. /\ IsFiniteSet(ordered + 1 .. published + 1)
        /\ Cardinality(ordered + 1 .. published + 1) = published - ordered + 1
    BY <1>2, IntervalSize
  <2>2. Cardinality(results) <= Cardinality(ordered + 1 .. published + 1)
    BY <1>3, <2>1, FS_Subset
  <2> QED BY <1>1, <1>2, <2>1, <2>2
<1>5. CASE \E v, w \in Workers : v # w
  <2>1. PICK v \in Workers, w \in Workers : v # w
    BY <1>5
  <2>2. /\ IsFiniteSet({v, w}) /\ Cardinality({v, w}) = 2
    BY <2>1, PairCardinality
  <2>3. 2 <= Cardinality(Workers)
    BY <2>1, <2>2, FS_Subset, PipelineAssumption
  <2> QED BY <1>1, <1>4, <2>3 DEF ResultCapacity
<1>6. CASE \A v, w \in Workers : v = w
  <2>1. results = {}
    <3> SUFFICES ASSUME NEW n \in results PROVE FALSE
      OBVIOUS
    <3>1. n > ordered
      BY <1>2, <1>3
    <3>2. CASE \E i \in 1 .. Len(workQueue) : workQueue[i] = ordered
      BY <3>1, <3>2, <1>2 DEF FlightInv, Places
    <3>3. CASE \E w \in Workers : holding[w] = ordered
      BY <3>1, <3>3, <1>2, <1>6 DEF FlightInv, OneInOrder
    <3> QED BY <1>2, <3>2, <3>3 DEF InFlight
  <2> QED BY <2>1, FS_EmptySet
<1> QED BY <1>5, <1>6

\* The result store has room for the entry the serializer waits for: for
\* every number of workers and every capacity of the order queue, a full
\* store cannot keep out the one result that would empty it.
THEOREM RoomForTheAwaited == Spec => []StoreHasRoom
    BY PaxInvariant, RoomFromOrder, PTL

LEMMA OpenFromClosed == ASSUME PaxInv PROVE NoEndAfterError
<1> SUFFICES ASSUME error, Stream!Done(Stream!EndCall(slice)) PROVE FALSE
    BY DEF NoEndAfterError
<1>1. slice \in Nat
    BY Capacities DEF PaxInv, TypeInv, PipelineTypeOK
<1>2. PICK i \in 1 .. Len(calls) : calls[i] = Stream!EndCall(slice)
    BY DEF Stream!Done, Stream!Range, PaxInv, CallsInv
<1>3. /\ Stream!EndCall(slice).call = "end_slice"
      /\ Stream!EndCall(slice).slice = slice
    BY ONLY <1>1, CallKinds
<1> QED BY <1>1, <1>2, <1>3 DEF PaxInv, ClosedInv

\* Once an exception has been recorded, by whichever thread and at whatever
\* moment, the slice in progress is never closed.
THEOREM FailedSlicesStayOpen == Spec => []NoEndAfterError
    BY PaxInvariant, OpenFromClosed, PTL

-----------------------------------------------------------------------------
(* The chunks of the current slice: pushed, waiting for the output thread,  *)
(* or written.                                                             *)

Working == main \notin {"begin", "done", "failed"}
Chunk(n, i) == Stream!ChunkCall(slice, n, i)

\* The serializer has put the chunk into the output buffer.
Pushed(n, i) ==
    /\ n \in 1 .. ordered /\ <<slice, n>> \notin skipped
    /\ i \in 1 .. (IF n = ordered THEN part - 1 ELSE Parts(Entries[n]))

Waiting(c) ==
    \/ \E i \in 1 .. Len(writing) : writing[i] = c
    \/ \E i \in 1 .. Len(buffer) : buffer[i] = c

Before(c, d) ==
    c.entry < d.entry \/ (c.entry = d.entry /\ c.part < d.part)

\* What has been pushed is written or waits, in order.
LineInv ==
    /\ \A n, i \in Nat :
           Pushed(n, i) <=> Stream!Done(Chunk(n, i)) \/ Waiting(Chunk(n, i))
    /\ \A c \in ChunkCalls : Waiting(c) => c.slice = slice /\ ~Stream!Done(c)
    /\ \A i, j \in 1 .. Len(buffer) : i < j => Before(buffer[i], buffer[j])
    /\ Len(writing) <= 1
    /\ \A i \in 1 .. Len(writing), j \in 1 .. Len(buffer) :
           Before(writing[i], buffer[j])

\* The entry in the serializer's hands; an idle one has finished its last.
TurnInv ==
    /\ serializer = "fetch" => ordered # 0 /\ part = 1
    /\ serializer = "push" =>
           /\ ordered # 0 /\ <<slice, ordered>> \notin skipped
           /\ part <= Parts(Entries[ordered]) + 1
    /\ serializer = "idle" /\ ordered # 0 /\ <<slice, ordered>> \notin skipped
           => part = Parts(Entries[ordered]) + 1
    /\ \A n \in Nat : n > ordered /\ RouteOf(n) = "stream"
                        => <<slice, n>> \notin skipped
    /\ \A s, n \in Nat : s > slice => <<s, n>> \notin skipped

\* Only entries of the slice are handed out.
RangeInv ==
    /\ Working => slice # 0 /\ published <= Len(Entries)
    /\ main = "publish" => published < Len(Entries)
    /\ Working => \A i \in 1 .. Len(workQueue) : workQueue[i] <= Len(Entries)
    /\ Working => \A w \in Workers : holding[w] <= Len(Entries)

\* Slices are opened and closed one after the other.
HistoryInv ==
    /\ \A i \in 1 .. Len(calls) : calls[i].slice <= slice
    /\ \A s \in 1 .. slice - 1 : Stream!Done(Stream!EndCall(s))
    /\ main \in {"begin", "done"} /\ slice # 0
           => Stream!Done(Stream!EndCall(slice))
    /\ Working => Stream!Done(Stream!BeginCall(slice))

\* A thread of a pipeline without error ends when its input has ended.
EndInv ==
    /\ cancelling # {} => error
    /\ Working /\ ~error =>
           /\ main \in {"joinWorkers", "joinSerializer", "joinOutput"}
                  => published = Len(Entries)
           /\ {"work", "order"} \cap closed # {} => main \notin {"emit", "publish"}
           /\ "results" \in closed => main \in {"joinSerializer", "joinOutput"}
           /\ "buffer" \in closed => main = "joinOutput"
           /\ \A w \in Workers \ alive :
                  holding[w] = 0 /\ workQueue = <<>> /\ "work" \in closed
           /\ "serializer" \notin alive =>
                  /\ serializer = "idle" /\ ordered = published
                  /\ "order" \in closed
           /\ "output" \notin alive =>
                  /\ buffer = <<>> /\ writing = <<>> /\ "buffer" \in closed

StreamInv ==
    PaxInv /\ LineInv /\ TurnInv /\ RangeInv /\ HistoryInv /\ EndInv

LEMMA PartsCounted == \A kind : Parts(kind) \in Nat \ {0}
    BY PipelineAssumption DEF Parts

LEMMA EntriesListed ==
    ASSUME NEW p \in Plans, NEW s \in 1 .. Len(p)
    PROVE  /\ Stream!Contents(p, s) \in Seq({"bare", "small", "large", "eoa"})
           /\ Len(Stream!Contents(p, s)) \in Nat
<1>1. p[s] \in Seq({"bare", "small", "large", "eoa"})
  <2>1. p[s] \in Seq({"bare", "small", "large"})
    BY PipelineAssumption
  <2> QED BY <2>1
<1>2. CASE s = Len(p)
  <2>1. Stream!Contents(p, s) = Append(p[s], "eoa")
    BY <1>1, <1>2 DEF Stream!Contents
  <2> QED BY <1>1, <2>1
<1>3. CASE s # Len(p)
  <2>1. Stream!Contents(p, s) = p[s] \o <<>>
    BY <1>3 DEF Stream!Contents
  <2> QED BY <1>1, <2>1
<1> QED BY <1>2, <1>3

LEMMA EntriesAre == Entries = Stream!Contents(plan, slice)
    BY DEF Entries, Stream!Contents

LEMMA LengthKnown == ASSUME TypeInv, slice # 0 PROVE Len(Entries) \in Nat
<1>1. plan \in Plans /\ slice \in 1 .. Len(plan)
    BY Capacities DEF TypeInv, PipelineTypeOK
<1> QED BY <1>1, EntriesListed, EntriesAre

LEMMA SamePlan ==
    ASSUME UNCHANGED <<plan, slice>>
    PROVE  Entries' = Entries /\ \A n, i : Chunk(n, i)' = Chunk(n, i)
    BY DEF Entries, Chunk, Stream!ChunkCall

\* A thread that runs works on a slice.
LEMMA RunningWorks ==
    ASSUME StopInv, NEW t, t \in alive \/ t \in cancelling PROVE Working
    BY DEF StopInv, Working

-----------------------------------------------------------------------------
(* Only entries of the slice are handed out. *)

LEMMA RangeStays ==
    ASSUME RangeInv, UNCHANGED <<plan, slice, published, workerVars>>,
           main' = main \/ (Working /\ main' # "publish") \/ ~Working'
    PROVE  RangeInv'
<1>1. Entries' = Entries
    BY SamePlan
<1>2. main' \in {"publish"} => Working'
    BY DEF Working
<1>3. CASE main' = main
    BY <1>1, <1>3 DEF RangeInv, Working, workerVars
<1>4. CASE main' # main
    BY <1>1, <1>2, <1>4 DEF RangeInv, Working, workerVars
<1> QED BY <1>3, <1>4

LEMMA RangeBegins == ASSUME TypeInv, NewPipeline, main' # "publish" PROVE RangeInv'
<1>1. /\ plan' \in Plans /\ slice' \in 1 .. Len(plan')
      /\ published' = 0 /\ workQueue' = <<>>
      /\ \A w \in Workers : holding'[w] = 0
    BY Capacities DEF NewPipeline, TypeInv, PipelineTypeOK
<1>2. Len(Entries') \in Nat
  <2>1. Entries' = Stream!Contents(plan', slice')
    BY DEF Entries, Stream!Contents
  <2> QED BY <1>1, <2>1, EntriesListed
<1> QED BY <1>1, <1>2 DEF RangeInv

LEMMA RangeStep == ASSUME TypeInv, StopInv, RangeInv, Next PROVE RangeInv'
<1> USE DEF mainVars, serialVars
<1>1. CASE BeginSlice \/ StartFails
    BY <1>1, RangeBegins DEF BeginSlice, StartFails
<1>0. ASSUME NEW stage, Publish(stage), stage = "emit", Working,
             published < Len(Entries)
      PROVE  RangeInv'
  <2>1. published \in Nat /\ Len(Entries) \in Nat
    BY <1>0, LengthKnown DEF TypeInv, PipelineTypeOK, RangeInv
  <2> QED BY <1>0, <2>1, SamePlan DEF Publish, RangeInv, workerVars
<1>2. CASE Enqueue \/ PublishSmall
    BY <1>0, <1>2 DEF Enqueue, PublishSmall, HasNext, RangeInv, Working
<1>3. CASE EnqueueSmall
  <2>1. /\ published \in Nat /\ Len(Entries) \in Nat /\ published < Len(Entries)
        /\ workQueue \in Seq(Nat \ {0}) /\ Working /\ Entries' = Entries
    BY <1>3, LengthKnown, SamePlan
       DEF EnqueueSmall, HasNext, TypeInv, PipelineTypeOK, RangeInv, Working
  <2>2. \A i \in 1 .. Len(workQueue') : workQueue'[i] <= Len(Entries)
    <3>1. /\ Len(workQueue') = Len(workQueue) + 1
          /\ workQueue'[Len(workQueue) + 1] = published + 1
          /\ \A i \in 1 .. Len(workQueue) : workQueue'[i] = workQueue[i]
      BY <1>3, <2>1 DEF EnqueueSmall
    <3> QED BY <2>1, <3>1 DEF RangeInv
  <2> QED BY <1>3, <2>1, <2>2 DEF EnqueueSmall, RangeInv
<1>4. CASE EnqueueRefused \/ MainThrows \/ FinishInput \/ Finish
    BY <1>4, RangeStays DEF EnqueueRefused, MainThrows, FinishInput, Finish,
       HasNext, Working
<1>5. CASE JoinWorkers \/ JoinSerializer \/ JoinOutput
    BY <1>5, RangeStays DEF JoinWorkers, JoinSerializer, Join, JoinOutput, Working
<1>6. ASSUME NEW t, CloseNext(t) \/ Cancelled(t) PROVE RangeInv'
  <2>1. Working
    BY <1>6, RunningWorks DEF CloseNext, Cancelled
  <2> QED BY <1>6, <2>1, RangeStays DEF CloseNext, Cancelled
<1>7. CASE \E w \in Workers : WorkerNext(w)
  <2> SUFFICES ASSUME NEW w \in Workers, WorkerNext(w) PROVE RangeInv'
    BY <1>7
  <2>1. CASE WorkerThrows(w) \/ WorkerEnds(w)
    BY <2>1, RangeStays DEF WorkerThrows, WorkerEnds
  <2>2. CASE WorkerTakes(w)
    <3>1. /\ Working /\ Entries' = Entries /\ holding \in [Workers -> Nat]
          /\ workQueue \in Seq(Nat \ {0}) /\ workQueue # <<>>
      BY <2>2, RunningWorks, SamePlan
         DEF WorkerTakes, Active, TypeInv, PipelineTypeOK
    <3>2. /\ Head(workQueue) = workQueue[1] /\ 1 \in 1 .. Len(workQueue)
          /\ \A i \in 1 .. Len(Tail(workQueue)) :
                 /\ i + 1 \in 1 .. Len(workQueue)
                 /\ Tail(workQueue)[i] = workQueue[i + 1]
      BY <3>1
    <3>3. /\ workQueue' = Tail(workQueue)
          /\ \A v \in Workers : holding'[v] \in {holding[v], Head(workQueue)}
      BY <2>2, <3>1 DEF WorkerTakes
    <3>4. \A v \in Workers : holding'[v] <= Len(Entries)
      BY <3>1, <3>2, <3>3 DEF RangeInv
    <3>5. \A i \in 1 .. Len(workQueue') : workQueue'[i] <= Len(Entries)
      BY <3>1, <3>2, <3>3 DEF RangeInv
    <3> QED BY <2>2, <3>1, <3>4, <3>5 DEF WorkerTakes, RangeInv, Working
  <2>3. CASE WorkerPuts(w)
    <3>1. /\ Working /\ Entries' = Entries /\ holding \in [Workers -> Nat]
          /\ Len(Entries) \in Nat
      BY <2>3, RunningWorks, SamePlan, LengthKnown
         DEF WorkerPuts, Active, TypeInv, PipelineTypeOK, RangeInv
    <3>2. \A v \in Workers : holding'[v] \in {holding[v], 0}
      BY <2>3, <3>1 DEF WorkerPuts
    <3>3. \A v \in Workers : holding'[v] <= Len(Entries)
      BY <3>1, <3>2 DEF RangeInv
    <3> QED BY <2>3, <3>1, <3>3 DEF WorkerPuts, RangeInv, Working
  <2> QED BY <1>6, <2>1, <2>2, <2>3 DEF WorkerNext
<1>8. CASE SerializerNext
  <2>1. CASE SerializerFetches
    <3>1. Entries' = Entries
      BY <2>1, SamePlan DEF SerializerFetches
    <3> QED BY <2>1, <3>1 DEF SerializerFetches, RangeInv, Working
  <2> QED BY <1>6, <1>8, <2>1, RangeStays DEF SerializerNext, SerializerTakes,
       SerializerPushes, SerializerFinishesEntry, SerializerThrows, SerializerEnds
<1>9. CASE OutputNext
    BY <1>6, <1>9, RangeStays DEF OutputNext, OutputPops, OutputWrites,
       OutputThrows, OutputEnds
<1> QED BY <1>1, <1>2, <1>3, <1>4, <1>5, <1>6, <1>7, <1>8, <1>9 DEF Next, MainNext

-----------------------------------------------------------------------------
(* The entry in the serializer's hands. *)

\* What may be given up: an entry the serializer does not push.
LEMMA TurnStays ==
    ASSUME TurnInv, UNCHANGED <<plan, slice, ordered, part, serializer, skipped>>
    PROVE  TurnInv'
    BY SamePlan DEF TurnInv, RouteOf

LEMMA TurnSkips ==
    ASSUME TurnInv, UNCHANGED <<plan, slice, ordered, part, serializer>>,
           slice \in Nat, NEW n \in Nat, skipped' = skipped \cup {<<slice, n>>},
           n # ordered \/ serializer = "fetch", RouteOf(n) # "stream"
    PROVE  TurnInv'
<1>1. Entries' = Entries /\ \A m : RouteOf(m)' = RouteOf(m)
    BY SamePlan DEF RouteOf
<1>2. \A s, m : <<s, m>> \in skipped' <=> <<s, m>> \in skipped \/ (s = slice /\ m = n)
    OBVIOUS
<1> QED BY <1>1, <1>2 DEF TurnInv

\* A worker gives up only what the serializer still waits for.
LEMMA HeldIsAhead ==
    ASSUME TypeInv, FlightInv, NEW w \in Workers, holding[w] # 0
    PROVE  /\ holding[w] \in Nat \ {0}
           /\ ordered < holding[w] \/ (holding[w] = ordered /\ serializer = "fetch")
           /\ RouteOf(holding[w]) = "worker"
    BY DEF TypeInv, PipelineTypeOK, FlightInv, Places, Awaited

LEMMA TurnStep ==
    ASSUME TypeInv, FlightInv, TurnInv, Next PROVE TurnInv'
<1> USE DEF mainVars, workerVars, outputVars, stopVars
<1>1. /\ published \in Nat /\ ordered \in 0 .. published /\ part \in Nat \ {0}
      /\ slice \in Nat
    BY Capacities DEF TypeInv, PipelineTypeOK
<1>2. CASE UNCHANGED <<plan, slice, ordered, part, serializer, skipped>>
    BY <1>2, TurnStays
<1>3. CASE NewPipeline
  <2>1. /\ slice' = slice + 1 /\ ordered' = 0 /\ serializer' = "idle"
        /\ skipped' = skipped
    BY <1>3 DEF NewPipeline
  <2>2. \A n \in Nat : <<slice', n>> \notin skipped'
    BY <1>1, <2>1 DEF TurnInv
  <2>3. \A s, n \in Nat : s > slice' => <<s, n>> \notin skipped'
    BY <1>1, <2>1 DEF TurnInv
  <2> QED BY <2>1, <2>2, <2>3 DEF TurnInv
<1>4. CASE Enqueue
  <2>1. /\ UNCHANGED <<plan, slice, ordered, part, serializer>>
        /\ \/ UNCHANGED skipped
           \/ /\ skipped' = skipped \cup {<<slice, published + 1>>}
              /\ RouteOf(published + 1) = "inline"
    BY <1>4 DEF Enqueue, Publish, NextRoute, serialVars
  <2> QED BY <1>1, <2>1, TurnStays, TurnSkips
<1>5. ASSUME NEW w \in Workers, WorkerPuts(w) PROVE TurnInv'
  <2>1. /\ UNCHANGED <<plan, slice, ordered, part, serializer>>
        /\ skipped' = skipped \/ skipped' = skipped \cup {<<slice, holding[w]>>}
        /\ holding[w] # 0
    BY <1>5 DEF WorkerPuts, serialVars
  <2>2. /\ holding[w] \in Nat /\ RouteOf(holding[w]) # "stream"
        /\ holding[w] # ordered \/ serializer = "fetch"
    BY <1>1, <2>1, HeldIsAhead
  <2> QED BY <1>1, <2>1, <2>2, TurnStays, TurnSkips
<1>6. CASE SerializerTakes
  <2>1. Entries' = Entries /\ UNCHANGED slice /\ \A m : RouteOf(m)' = RouteOf(m)
    BY <1>6, SamePlan DEF SerializerTakes, RouteOf
  <2>2. /\ ordered' = ordered + 1 /\ part' = 1
        /\ skipped' = skipped \/ skipped' = skipped \cup {<<slice, ordered + 1>>}
        /\ serializer' \in {"fetch", "push", "idle"}
        /\ serializer' = "idle" => <<slice, ordered + 1>> \in skipped'
        /\ serializer' = "push" =>
               \/ <<slice, ordered + 1>> \notin skipped'
               \/ RouteOf(ordered + 1) = "stream" /\ skipped' = skipped
    BY <1>6 DEF SerializerTakes
  <2>3. Parts(Entries[ordered + 1]) \in Nat \ {0}
    BY PartsCounted
  <2>4. serializer' = "push" => <<slice, ordered + 1>> \notin skipped'
    BY <1>1, <2>2 DEF TurnInv
  <2>5. \A n \in Nat : n > ordered' /\ RouteOf(n)' = "stream"
                         => <<slice, n>> \notin skipped'
    BY <1>1, <2>1, <2>2 DEF TurnInv
  <2>6. \A s, n \in Nat : s > slice => <<s, n>> \notin skipped'
    BY <1>1, <2>2 DEF TurnInv
  <2> QED BY <1>1, <2>1, <2>2, <2>3, <2>4, <2>5, <2>6 DEF TurnInv
<1>7. CASE SerializerFetches
  <2>1. Entries' = Entries /\ UNCHANGED slice /\ \A m : RouteOf(m)' = RouteOf(m)
    BY <1>7, SamePlan DEF SerializerFetches, RouteOf
  <2>2. Parts(Entries[ordered]) \in Nat \ {0}
    BY PartsCounted
  <2> QED BY <1>7, <2>1, <2>2 DEF SerializerFetches, TurnInv
<1>8. CASE SerializerPushes
  <2>1. Entries' = Entries /\ UNCHANGED slice /\ \A m : RouteOf(m)' = RouteOf(m)
    BY <1>8, SamePlan DEF SerializerPushes, RouteOf
  <2>2. Parts(Entries[ordered]) \in Nat \ {0}
    BY PartsCounted
  <2> QED BY <1>1, <1>8, <2>1, <2>2 DEF SerializerPushes, Pushing, TurnInv
<1>9. CASE SerializerFinishesEntry
  <2>1. Entries' = Entries /\ UNCHANGED slice /\ \A m : RouteOf(m)' = RouteOf(m)
    BY <1>9, SamePlan DEF SerializerFinishesEntry, RouteOf
  <2>2. Parts(Entries[ordered]) \in Nat \ {0}
    BY PartsCounted
  <2>3. part = Parts(Entries[ordered]) + 1
    BY <1>1, <1>9, <2>2 DEF SerializerFinishesEntry, Pushing, TurnInv
  <2> QED BY <1>9, <2>1, <2>3 DEF SerializerFinishesEntry, TurnInv
<1>10. ASSUME NEW t, CloseNext(t) \/ Cancelled(t) PROVE TurnInv'
    BY <1>2, <1>10 DEF CloseNext, Cancelled, serialVars
<1>11. CASE MainNext
    BY <1>2, <1>3, <1>4, <1>10, <1>11 DEF MainNext, BeginSlice, StartFails,
       EnqueueSmall, PublishSmall, Publish, EnqueueRefused, MainThrows,
       FinishInput, JoinWorkers, JoinSerializer, Join, JoinOutput, Finish, serialVars
<1>12. CASE \E w \in Workers : WorkerNext(w)
    BY <1>2, <1>5, <1>10, <1>12 DEF WorkerNext, WorkerTakes, WorkerThrows,
       WorkerEnds, serialVars
<1>13. CASE SerializerNext
    BY <1>2, <1>6, <1>7, <1>8, <1>9, <1>10, <1>13 DEF SerializerNext,
       SerializerThrows, SerializerEnds, serialVars
<1>14. CASE OutputNext
    BY <1>2, <1>10, <1>14 DEF OutputNext, OutputPops, OutputWrites,
       OutputThrows, OutputEnds, serialVars
<1> QED BY <1>11, <1>12, <1>13, <1>14 DEF Next

-----------------------------------------------------------------------------
(* How the threads end. *)

\* Nothing more is claimed once there is an error.
LEMMA EndFails == ASSUME error' PROVE EndInv'
    BY DEF EndInv

\* What a thread's step may change while the thread runs.
LEMMA EndRuns ==
    ASSUME EndInv, Working, UNCHANGED <<plan, slice, main, published, stopVars>>,
           \/ /\ UNCHANGED <<workQueue, holding, ordered, serializer>>
              /\ "output" \in alive
           \/ /\ UNCHANGED <<buffer, writing, workQueue, holding>>
              /\ "serializer" \in alive
           \/ /\ UNCHANGED <<buffer, writing, ordered, serializer>>
              /\ workQueue' = workQueue \/ workQueue # <<>>
              /\ \A w \in Workers : holding'[w] = holding[w] \/ w \in alive
           \/ /\ UNCHANGED <<workQueue, holding, writing>>
              /\ "serializer" \in alive /\ "buffer" \notin closed
    PROVE  EndInv'
<1>1. Entries' = Entries /\ Working' = Working
    BY SamePlan DEF Working
<1> QED BY <1>1 DEF EndInv, stopVars

LEMMA EndStep ==
    ASSUME TypeInv, FlightInv, StopInv, LineInv, RangeInv, EndInv, Next PROVE EndInv'
<1> USE DEF mainVars, workerVars, serialVars, outputVars
<1>0. alive \subseteq Threads /\ "main" \notin Threads
    BY Capacities DEF TypeInv, PipelineTypeOK
<1>1. CASE BeginSlice
    BY <1>1 DEF BeginSlice, NewPipeline, EndInv, Threads
<1>2. CASE StartFails
    BY <1>2, EndFails DEF StartFails, Throws
<1>3. CASE Enqueue \/ PublishSmall
  <2>1. Publish("emit") /\ main \in {"emit", "publish"} /\ Entries' = Entries
    BY <1>3, SamePlan DEF Enqueue, PublishSmall, HasNext, Publish
  <2> QED BY <2>1 DEF Publish, EndInv, Working, stopVars
<1>4. CASE EnqueueSmall
    BY <1>4, SamePlan DEF EnqueueSmall, HasNext, EndInv, Working, stopVars
<1>5. CASE EnqueueRefused
    BY <1>5, EndFails DEF EnqueueRefused, Throws
<1>6. CASE MainThrows
    BY <1>6, EndFails DEF MainThrows, Throws, EndInv, Working
<1>7. CASE FinishInput
    BY <1>7, SamePlan DEF FinishInput, EndInv, Working
<1>8. CASE JoinWorkers \/ JoinSerializer
    BY <1>8, SamePlan DEF JoinWorkers, JoinSerializer, Join, EndInv, Working
<1>9. CASE JoinOutput
    BY <1>9 DEF JoinOutput, EndInv, Working, stopVars
<1>10. CASE Finish
    BY <1>10 DEF Finish, EndInv, Working, stopVars
<1>11. ASSUME NEW t, CloseNext(t) \/ Cancelled(t) PROVE EndInv'
    BY <1>11, EndFails DEF CloseNext, Cancelled, EndInv
<1>12. ASSUME NEW t, Throws(t) PROVE EndInv'
    BY <1>12, EndFails DEF Throws
<1>13. CASE \E w \in Workers : WorkerNext(w)
  <2> SUFFICES ASSUME NEW w \in Workers, WorkerNext(w) PROVE EndInv'
    BY <1>13
  <2>1. CASE WorkerTakes(w) \/ WorkerPuts(w)
    <3>1. Working /\ holding \in [Workers -> Nat] /\ w \in alive
      BY <2>1, RunningWorks DEF WorkerTakes, WorkerPuts, Active, TypeInv,
         PipelineTypeOK
    <3>2. \A v \in Workers : holding'[v] = holding[v] \/ v \in alive
      BY <2>1, <3>1 DEF WorkerTakes, WorkerPuts
    <3> QED BY <2>1, <3>1, <3>2, EndRuns DEF WorkerTakes, WorkerPuts
  <2>2. CASE WorkerEnds(w)
    <3>1. /\ Working /\ Working' = Working /\ Entries' = Entries
          /\ w \in alive /\ alive' = alive \ {w}
          /\ w \notin {"serializer", "output"}
      BY <2>2, RunningWorks, SamePlan, PipelineAssumption
         DEF WorkerEnds, Active, Ends, Working
    <3>2. CASE error
      BY <2>2, <3>2, EndFails DEF WorkerEnds, Ends
    <3>3. CASE ~error
      <4>1. ~(holding[w] # 0 /\ "results" \in closed)
        BY <3>1, <3>3 DEF EndInv, StopInv
      <4>2. holding[w] = 0 /\ workQueue = <<>> /\ "work" \in closed
        BY <2>2, <4>1 DEF WorkerEnds
      <4> QED BY <2>2, <3>1, <3>3, <4>2 DEF WorkerEnds, Ends, EndInv
    <3> QED BY <3>2, <3>3
  <2> QED BY <1>11, <1>12, <2>1, <2>2 DEF WorkerNext, WorkerThrows
<1>14. CASE SerializerNext
  <2>1. CASE SerializerTakes \/ SerializerFetches \/ SerializerFinishesEntry
    <3>1. Working /\ "serializer" \in alive
      BY <2>1, RunningWorks DEF SerializerTakes, SerializerFetches,
         SerializerFinishesEntry, Pushing, Active
    <3> QED BY <2>1, <3>1, EndRuns DEF SerializerTakes, SerializerFetches,
            SerializerFinishesEntry
  <2>2. CASE SerializerPushes
    <3>1. Working /\ "serializer" \in alive
      BY <2>2, RunningWorks DEF SerializerPushes, Pushing, Active
    <3> QED BY <2>2, <3>1, EndRuns DEF SerializerPushes
  <2>3. CASE SerializerEnds
    <3>1. /\ Working /\ Working' = Working /\ Entries' = Entries
          /\ "serializer" \in alive /\ alive' = alive \ {"serializer"}
          /\ "serializer" \notin Workers
      BY <2>3, RunningWorks, SamePlan, PipelineAssumption
         DEF SerializerEnds, Active, Ends, Working
    <3>2. CASE error
      BY <2>3, <3>2, EndFails DEF SerializerEnds, Ends
    <3>3. CASE ~error
      <4>1. "buffer" \notin closed
        BY <3>1, <3>3 DEF EndInv, StopInv
      <4>2. ~(serializer = "fetch" /\ ordered \notin results /\ "results" \in closed)
        <5> SUFFICES ASSUME serializer = "fetch", ordered \notin results,
                            "results" \in closed
                     PROVE  FALSE
          OBVIOUS
        <5>1. alive \cap Workers = {}
          BY <3>1, <3>3 DEF EndInv, StopInv
        <5>2. Workers # {} /\ InFlight(ordered) /\ ordered # 0
          BY DEF FlightInv, NoneLost
        <5>3. workQueue = <<>> /\ \A w \in Workers : holding[w] = 0
          BY <3>1, <3>3, <5>1, <5>2 DEF EndInv
        <5> QED BY <5>2, <5>3 DEF InFlight
      <4>3. serializer = "idle" /\ ordered = published /\ "order" \in closed
        BY <2>3, <4>1, <4>2 DEF SerializerEnds
      <4> QED BY <2>3, <3>1, <3>3, <4>3 DEF SerializerEnds, Ends, EndInv
    <3> QED BY <3>2, <3>3
  <2> QED BY <1>11, <1>12, <1>14, <2>1, <2>2, <2>3 DEF SerializerNext, SerializerThrows
<1>15. CASE OutputNext
  <2>1. CASE OutputPops \/ OutputWrites
    <3>1. Working /\ "output" \in alive
      BY <2>1, RunningWorks DEF OutputPops, OutputWrites, Active
    <3> QED BY <2>1, <3>1, EndRuns DEF OutputPops, OutputWrites
  <2>2. CASE OutputEnds
    <3>1. /\ Working /\ Working' = Working /\ Entries' = Entries
          /\ alive' = alive \ {"output"} /\ "output" \notin Workers
      BY <2>2, RunningWorks, SamePlan, PipelineAssumption
         DEF OutputEnds, Active, Ends, Working
    <3> QED BY <2>2, <3>1 DEF OutputEnds, Ends, EndInv
  <2> QED BY <1>11, <1>12, <1>15, <2>1, <2>2 DEF OutputNext, OutputThrows
<1> QED BY <1>1, <1>2, <1>3, <1>4, <1>5, <1>6, <1>7, <1>8, <1>9, <1>10, <1>11,
           <1>13, <1>14, <1>15 DEF Next, MainNext

-----------------------------------------------------------------------------
(* What has been called. *)

LEMMA DoneStays ==
    ASSUME UNCHANGED calls PROVE \A c : Stream!Done(c)' <=> Stream!Done(c)
    BY DEF Stream!Done, Stream!Range

LEMMA DoneAt ==
    ASSUME CallsInv
    PROVE  \A c : Stream!Done(c) <=> \E i \in 1 .. Len(calls) : calls[i] = c
    BY DEF CallsInv, Stream!Done, Stream!Range

LEMMA DoneAppends ==
    ASSUME CallsInv, NEW e \in ChunkCalls \cup SliceCalls, calls' = Append(calls, e)
    PROVE  \A c : Stream!Done(c)' <=> Stream!Done(c) \/ c = e
<1>1. calls \in Seq(ChunkCalls \cup SliceCalls)
    BY DEF CallsInv
<1>2. /\ calls' \in Seq(ChunkCalls \cup SliceCalls) /\ Len(calls) \in Nat
      /\ Len(calls') = Len(calls) + 1 /\ calls'[Len(calls) + 1] = e
      /\ \A j \in 1 .. Len(calls) : calls'[j] = calls[j]
    BY <1>1, Appended
<1>3. \A c : Stream!Done(c)' <=> \E i \in 1 .. Len(calls') : calls'[i] = c
    BY <1>2 DEF Stream!Done, Stream!Range
<1>4. \A i \in 1 .. Len(calls') : i \in 1 .. Len(calls) \/ i = Len(calls) + 1
    BY <1>2
<1>5. /\ Len(calls) + 1 \in 1 .. Len(calls')
      /\ \A i \in 1 .. Len(calls) : i \in 1 .. Len(calls')
    BY <1>2
<1> QED BY <1>2, <1>3, <1>4, <1>5, DoneAt

LEMMA OnlyElement ==
    ASSUME NEW S, NEW q \in Seq(S), Len(q) <= 1, q # <<>>
    PROVE  Len(q) = 1 /\ 1 \in 1 .. Len(q) /\ q[1] \in S /\ q = <<q[1]>>
<1>1. Len(q) \in Nat /\ Len(q) # 0
    OBVIOUS
<1>2. Len(q) = 1
    BY <1>1
<1>3. q[1] \in S
    BY <1>2
<1>4. <<q[1]>> \in Seq(S) /\ Len(<<q[1]>>) = 1 /\ <<q[1]>>[1] = q[1]
    BY <1>3
<1> QED BY <1>2, <1>3, <1>4

LEMMA ConcatOne ==
    ASSUME NEW S, NEW q \in Seq(S), NEW e \in S PROVE q \o <<e>> = Append(q, e)
    OBVIOUS

\* write_chunk is called with the one chunk in the output thread's hands.
LEMMA WrittenOne ==
    ASSUME CallsInv, LineInv, OutputWrites
    PROVE  /\ calls' = Append(calls, writing[1]) /\ writing[1] \in ChunkCalls
           /\ writing = <<writing[1]>> /\ Waiting(writing[1])
<1>1. writing \in Seq(ChunkCalls) /\ calls \in Seq(ChunkCalls \cup SliceCalls)
    BY DEF CallsInv
<1>2. Len(writing) <= 1 /\ writing # <<>> /\ calls' = calls \o writing
    BY DEF LineInv, OutputWrites
<1>3. /\ writing = <<writing[1]>> /\ writing[1] \in ChunkCalls
      /\ 1 \in 1 .. Len(writing)
    BY <1>1, <1>2, OnlyElement
<1>4. calls' = calls \o <<writing[1]>> /\ writing[1] \in ChunkCalls \cup SliceCalls
    BY <1>2, <1>3
<1>5. calls \o <<writing[1]>> = Append(calls, writing[1])
    BY <1>1, <1>4, ConcatOne
<1> QED BY <1>3, <1>4, <1>5 DEF Waiting

LEMMA HistoryGrows ==
    ASSUME CallsInv, HistoryInv, slice \in Nat, UNCHANGED slice,
           NEW e \in ChunkCalls \cup SliceCalls, calls' = Append(calls, e),
           e.slice <= slice, Working' => Working,
           main' \in {"begin", "done"} =>
               main \in {"begin", "done"} \/ e = Stream!EndCall(slice)
    PROVE  HistoryInv'
<1>1. \A c : Stream!Done(c)' <=> Stream!Done(c) \/ c = e
    BY DoneAppends
<1>2. /\ Len(calls) \in Nat /\ Len(calls') = Len(calls) + 1
      /\ calls'[Len(calls) + 1] = e
      /\ \A j \in 1 .. Len(calls) : calls'[j] = calls[j]
  <2>1. calls \in Seq(ChunkCalls \cup SliceCalls)
    BY DEF CallsInv
  <2> QED BY <2>1, Appended
<1>3. \A i \in 1 .. Len(calls') : calls'[i].slice <= slice
    BY <1>2 DEF HistoryInv
<1>4. \A s : /\ Stream!EndCall(s)' = Stream!EndCall(s)
             /\ Stream!BeginCall(s)' = Stream!BeginCall(s)
    BY DEF Stream!EndCall, Stream!BeginCall
<1> QED BY <1>1, <1>3, <1>4 DEF HistoryInv

LEMMA HistoryStays ==
    ASSUME HistoryInv, UNCHANGED <<slice, calls>>, Working' => Working,
           main' \in {"begin", "done"} => main \in {"begin", "done"}
    PROVE  HistoryInv'
    BY DoneStays DEF HistoryInv, Stream!EndCall, Stream!BeginCall

LEMMA HistoryBegins ==
    ASSUME TypeInv, CallsInv, HistoryInv, NewPipeline, main' \notin {"begin", "done"}
    PROVE  HistoryInv'
<1>1. slice \in Nat /\ slice' = slice + 1 /\ main = "begin"
    BY Capacities DEF NewPipeline, TypeInv, PipelineTypeOK
<1> DEFINE e == Stream!BeginCall(slice + 1)
<1>2. /\ calls' = Append(calls, e) /\ e \in ChunkCalls \cup SliceCalls
      /\ e.slice = slice + 1
    BY <1>1, CallKinds DEF NewPipeline, Stream!BeginCall
<1> HIDE DEF e
<1>3. \A c : Stream!Done(c)' <=> Stream!Done(c) \/ c = e
    BY <1>2, DoneAppends
<1>4. /\ Len(calls) \in Nat /\ Len(calls') = Len(calls) + 1
      /\ calls'[Len(calls) + 1] = e
      /\ \A j \in 1 .. Len(calls) :
             calls'[j] = calls[j] /\ calls[j] \in ChunkCalls \cup SliceCalls
  <2>1. calls \in Seq(ChunkCalls \cup SliceCalls)
    BY DEF CallsInv
  <2> QED BY <1>2, <2>1, Appended
<1>5. \A i \in 1 .. Len(calls') : calls'[i].slice <= slice'
  <2>1. \A i \in 1 .. Len(calls) : calls[i].slice \in Nat /\ calls[i].slice <= slice
    BY <1>4, CallKinds DEF HistoryInv
  <2>2. \A i \in 1 .. Len(calls') : i \in 1 .. Len(calls) \/ i = Len(calls) + 1
    BY <1>4
  <2>3. \A i \in 1 .. Len(calls) : calls'[i].slice <= slice'
    BY <1>1, <1>4, <2>1
  <2>4. calls'[Len(calls) + 1].slice <= slice'
    BY <1>1, <1>2, <1>4
  <2> QED BY <2>2, <2>3, <2>4
<1>6. \A s \in 1 .. slice : Stream!Done(Stream!EndCall(s))
    BY <1>1 DEF HistoryInv
<1>7. \A s \in 1 .. slice' - 1 : Stream!Done(Stream!EndCall(s))'
  <2>1. \A s \in 1 .. slice' - 1 : s \in 1 .. slice
    BY <1>1
  <2> QED BY <1>3, <1>6, <2>1
<1>8. Stream!Done(Stream!BeginCall(slice))'
  <2>1. Stream!BeginCall(slice)' = e
    BY <1>1 DEF e, Stream!BeginCall
  <2>2. Stream!Done(Stream!BeginCall(slice))'
            <=> Stream!BeginCall(slice)' \in Stream!Range(calls)'
    BY DEF Stream!Done
  <2> QED BY <1>3, <2>1, <2>2 DEF Stream!Done
<1> QED BY <1>5, <1>7, <1>8 DEF HistoryInv, Working

LEMMA HistoryStep ==
    ASSUME TypeInv, CallsInv, StopInv, LineInv, HistoryInv, Next PROVE HistoryInv'
<1> USE DEF mainVars, outputVars
<1>0. slice \in Nat /\ alive \subseteq Threads
    BY Capacities DEF TypeInv, PipelineTypeOK
<1>1. CASE BeginSlice \/ StartFails
    BY <1>1, HistoryBegins DEF BeginSlice, StartFails
<1>2. CASE Enqueue \/ EnqueueSmall \/ PublishSmall \/ EnqueueRefused \/ FinishInput
    BY <1>2, HistoryStays DEF Enqueue, EnqueueSmall, PublishSmall, Publish,
       EnqueueRefused, FinishInput, HasNext, Working
<1>3. CASE MainThrows \/ Finish
    BY <1>3, HistoryStays DEF MainThrows, Finish, Working
<1>4. CASE JoinWorkers \/ JoinSerializer
    BY <1>4, HistoryStays DEF JoinWorkers, JoinSerializer, Join, Working
<1>5. CASE JoinOutput
  <2>1. CASE main' = "failed" /\ UNCHANGED calls
    BY <1>5, <2>1, HistoryStays DEF JoinOutput, Working
  <2>2. CASE main' = "begin" /\ calls' = Append(calls, Stream!EndCall(slice))
    <3>1. /\ Stream!EndCall(slice) \in ChunkCalls \cup SliceCalls
          /\ Stream!EndCall(slice).slice <= slice /\ UNCHANGED slice
      BY <1>0, <1>5, CallKinds DEF JoinOutput
    <3>2. ~Working'
      BY <2>2 DEF Working
    <3> QED BY <1>0, <2>2, <3>1, <3>2, HistoryGrows
  <2> QED BY <1>5, <2>1, <2>2 DEF JoinOutput
<1>6. ASSUME NEW t, CloseNext(t) \/ Cancelled(t) PROVE HistoryInv'
  <2>1. Working
    BY <1>6, RunningWorks DEF CloseNext, Cancelled
  <2>2. UNCHANGED <<slice, calls>> /\ (main' = main \/ main' = "joinWorkers")
    BY <1>6 DEF CloseNext, Cancelled
  <2> QED BY <2>1, <2>2, HistoryStays DEF Working
<1>7. CASE UNCHANGED <<slice, calls, main>>
    BY <1>7, HistoryStays DEF Working
<1>8. CASE \E w \in Workers : WorkerNext(w)
    BY <1>6, <1>7, <1>8 DEF WorkerNext, WorkerTakes, WorkerPuts, WorkerThrows,
       WorkerEnds
<1>9. CASE SerializerNext
    BY <1>6, <1>7, <1>9 DEF SerializerNext, SerializerTakes, SerializerFetches,
       SerializerPushes, SerializerFinishesEntry, SerializerThrows, SerializerEnds
<1>10. CASE OutputWrites
  <2>1. Working /\ UNCHANGED <<slice, main>>
    BY <1>10, RunningWorks DEF OutputWrites, Active
  <2>2. /\ calls' = Append(calls, writing[1]) /\ writing[1] \in ChunkCalls
        /\ Waiting(writing[1])
    BY <1>10, WrittenOne
  <2>3. writing[1].slice = slice
    BY <2>2 DEF LineInv
  <2> QED BY <1>0, <2>1, <2>2, <2>3, HistoryGrows DEF Working
<1>11. CASE OutputNext
    BY <1>6, <1>7, <1>10, <1>11 DEF OutputNext, OutputPops, OutputThrows, OutputEnds
<1> QED BY <1>1, <1>2, <1>3, <1>4, <1>5, <1>6, <1>8, <1>9, <1>11 DEF Next, MainNext

-----------------------------------------------------------------------------
(* The chunks between the serializer and the consumer. *)

LEMMA ChunkFields ==
    /\ \A s, n, i : /\ Stream!ChunkCall(s, n, i).slice = s
                    /\ Stream!ChunkCall(s, n, i).entry = n
                    /\ Stream!ChunkCall(s, n, i).part = i
                    /\ Stream!ChunkCall(s, n, i).call = "write_chunk"
    /\ \A c \in ChunkCalls :
           /\ c.entry \in Nat /\ c.part \in Nat
           /\ c = Stream!ChunkCall(c.slice, c.entry, c.part)
    BY DEF Stream!ChunkCall, ChunkCalls

LEMMA LineStays ==
    ASSUME LineInv, UNCHANGED <<plan, slice, ordered, part, buffer, writing>>,
           \A c \in ChunkCalls : Stream!Done(c)' <=> Stream!Done(c),
           slice \in Nat,
           \A n \in 1 .. ordered :
               \/ <<slice, n>> \in skipped' <=> <<slice, n>> \in skipped
               \/ n = ordered /\ part = 1
    PROVE  LineInv'
<1>1. Entries' = Entries /\ \A n, i : Chunk(n, i)' = Chunk(n, i)
    BY SamePlan
<1>2. \A c : Waiting(c)' <=> Waiting(c)
    BY DEF Waiting
<1>3. \A n, i \in Nat : Pushed(n, i)' <=> Pushed(n, i)
  <2> SUFFICES ASSUME NEW n \in Nat, NEW i \in Nat
               PROVE  Pushed(n, i)' <=> Pushed(n, i)
    OBVIOUS
  <2>1. CASE n = ordered /\ part = 1
    <3>1. i \notin 1 .. part - 1
      BY <2>1
    <3> QED BY <1>1, <2>1, <3>1 DEF Pushed
  <2>2. CASE <<slice, n>> \in skipped' <=> <<slice, n>> \in skipped
    BY <1>1, <2>2 DEF Pushed
  <2>3. CASE n \notin 1 .. ordered
    BY <1>1, <2>3 DEF Pushed
  <2> QED BY <2>1, <2>2, <2>3
<1>4. \A n, i \in Nat : Chunk(n, i) \in ChunkCalls
    BY CallKinds DEF Chunk
<1>5. \A n, i \in Nat : Stream!Done(Chunk(n, i))' <=> Stream!Done(Chunk(n, i))
    BY <1>1, <1>4 DEF Stream!Done
<1>6. \A n, i \in Nat : Waiting(Chunk(n, i))' <=> Waiting(Chunk(n, i))
    BY <1>1, <1>2 DEF Waiting
<1>7. \A n, i \in Nat :
          Pushed(n, i)' <=> Stream!Done(Chunk(n, i))' \/ Waiting(Chunk(n, i))'
    BY <1>3, <1>5, <1>6 DEF LineInv
<1>8. \A c \in ChunkCalls : Waiting(c)' => c.slice = slice' /\ ~Stream!Done(c)'
    BY <1>2 DEF LineInv
<1> QED BY <1>7, <1>8 DEF LineInv

LEMMA LineBegins ==
    ASSUME TypeInv, CallsInv, HistoryInv, NewPipeline PROVE LineInv'
<1>1. /\ slice \in Nat /\ slice' = slice + 1 /\ ordered' = 0
      /\ buffer' = <<>> /\ writing' = <<>>
    BY Capacities DEF NewPipeline, TypeInv, PipelineTypeOK
<1>2. \A c : ~Waiting(c)'
    BY <1>1 DEF Waiting
<1>3. \A n, i \in Nat : ~Pushed(n, i)'
    BY <1>1 DEF Pushed
<1>4. /\ calls' = Append(calls, Stream!BeginCall(slice + 1))
      /\ Stream!BeginCall(slice + 1) \in ChunkCalls \cup SliceCalls
      /\ Stream!BeginCall(slice + 1).call = "begin_slice"
    BY <1>1, CallKinds DEF NewPipeline
<1>5. \A c : Stream!Done(c)' <=> Stream!Done(c) \/ c = Stream!BeginCall(slice + 1)
    BY <1>4, DoneAppends
<1>6. \A c : Stream!Done(c) => c \in ChunkCalls \cup SliceCalls /\ c.slice <= slice
    BY DoneAt DEF CallsInv, HistoryInv
<1>7. \A n, i \in Nat : ~Stream!Done(Chunk(n, i))'
  <2> SUFFICES ASSUME NEW n \in Nat, NEW i \in Nat PROVE ~Stream!Done(Chunk(n, i))'
    OBVIOUS
  <2>1. PICK c : c = Stream!ChunkCall(slice + 1, n, i)
    OBVIOUS
  <2>2. c.slice = slice + 1 /\ c.call = "write_chunk"
    BY <2>1, ChunkFields
  <2>3. c # Stream!BeginCall(slice + 1)
    BY <1>4, <2>2
  <2>4. ~Stream!Done(c)
    BY <1>1, <1>6, <2>2
  <2>5. ~Stream!Done(c)'
    BY <1>5, <2>3, <2>4
  <2>6. Chunk(n, i)' = c
    BY <1>1, <2>1 DEF Chunk, Stream!ChunkCall
  <2> QED BY <2>5, <2>6 DEF Stream!Done
<1>9. \A n, i \in Nat : ~Waiting(Chunk(n, i))'
    BY <1>1 DEF Waiting
<1> QED BY <1>1, <1>2, <1>3, <1>7, <1>9 DEF LineInv

\* The serializer turns to the next entry: nothing of it has been pushed.
LEMMA LineTurns ==
    ASSUME TypeInv, TurnInv, LineInv, SerializerTakes PROVE LineInv'
<1> USE DEF outputVars, mainVars
<1>1. Entries' = Entries /\ \A n, i : Chunk(n, i)' = Chunk(n, i)
    BY SamePlan DEF SerializerTakes
<1>2. /\ ordered' = ordered + 1 /\ part' = 1 /\ ordered \in Nat /\ part \in Nat \ {0}
      /\ UNCHANGED <<calls, slice, buffer, writing>> /\ serializer = "idle"
      /\ skipped' = skipped \/ skipped' = skipped \cup {<<slice, ordered + 1>>}
    BY DEF SerializerTakes, TypeInv, PipelineTypeOK
<1>3. \A n \in 1 .. ordered : <<slice, n>> \in skipped' <=> <<slice, n>> \in skipped
    BY <1>2
<1>4. \A n, i \in Nat : Pushed(n, i)' <=> Pushed(n, i)
  <2> SUFFICES ASSUME NEW n \in Nat, NEW i \in Nat
               PROVE  Pushed(n, i)' <=> Pushed(n, i)
    OBVIOUS
  <2>1. Parts(Entries[n]) \in Nat \ {0}
    BY PartsCounted
  <2>2. CASE n \in 1 .. ordered
    <3>1. /\ n # ordered + 1 /\ n \in 1 .. ordered + 1
          /\ n = ordered => ordered # 0
      BY <1>2, <2>2
    <3>2. Pushed(n, i)' <=> <<slice, n>> \notin skipped /\ i \in 1 .. Parts(Entries[n])
      BY <1>1, <1>2, <1>3, <2>2, <3>1 DEF Pushed
    <3>3. n = ordered /\ <<slice, n>> \notin skipped => part - 1 = Parts(Entries[n])
      BY <1>2, <2>1, <3>1 DEF TurnInv
    <3> QED BY <2>2, <3>2, <3>3 DEF Pushed
  <2>3. CASE n \notin 1 .. ordered
    <3>1. ~Pushed(n, i)
      BY <2>3 DEF Pushed
    <3>2. n \in 1 .. ordered + 1 => n = ordered + 1
      BY <1>2, <2>3
    <3>3. ~(i \in 1 .. 0)
      OBVIOUS
    <3> QED BY <1>2, <3>1, <3>2, <3>3 DEF Pushed
  <2> QED BY <2>2, <2>3
<1>5. \A n, i \in Nat : Stream!Done(Chunk(n, i))' <=> Stream!Done(Chunk(n, i))
    BY <1>1, <1>2 DEF Stream!Done
<1>6. \A n, i \in Nat : Waiting(Chunk(n, i))' <=> Waiting(Chunk(n, i))
    BY <1>1, <1>2 DEF Waiting
<1>7. \A c : (Stream!Done(c)' <=> Stream!Done(c)) /\ (Waiting(c)' <=> Waiting(c))
    BY <1>2, DoneStays DEF Waiting
<1>8. \A n, i \in Nat :
          Pushed(n, i)' <=> Stream!Done(Chunk(n, i))' \/ Waiting(Chunk(n, i))'
    BY <1>4, <1>5, <1>6 DEF LineInv
<1>9. \A c \in ChunkCalls : Waiting(c)' => c.slice = slice' /\ ~Stream!Done(c)'
    BY <1>2, <1>7 DEF LineInv
<1> QED BY <1>2, <1>8, <1>9 DEF LineInv

\* What waits is a chunk the serializer has pushed.
LEMMA WaitingPushed ==
    ASSUME CallsInv, LineInv, NEW c, Waiting(c)
    PROVE  /\ c \in ChunkCalls /\ c = Chunk(c.entry, c.part)
           /\ c.entry \in Nat /\ c.part \in Nat /\ Pushed(c.entry, c.part)
<1>1. c \in ChunkCalls
    BY DEF Waiting, CallsInv
<1>2. c.slice = slice /\ c = Chunk(c.entry, c.part)
    BY <1>1, ChunkFields DEF LineInv, Chunk
<1>3. c.entry \in Nat /\ c.part \in Nat
    BY <1>1, ChunkFields
<1> QED BY <1>1, <1>2, <1>3 DEF LineInv

LEMMA LinePushes ==
    ASSUME TypeInv, CallsInv, TurnInv, LineInv, SerializerPushes PROVE LineInv'
<1> DEFINE c == Chunk(ordered, part)
<1>1. Entries' = Entries /\ \A n, i : Chunk(n, i)' = Chunk(n, i)
    BY SamePlan DEF SerializerPushes, mainVars
<1>2. /\ buffer' = Append(buffer, c) /\ part' = part + 1
      /\ UNCHANGED <<slice, ordered, writing, calls, skipped>>
      /\ ordered \in Nat \ {0} /\ part \in Nat \ {0}
      /\ <<slice, ordered>> \notin skipped
    BY DEF SerializerPushes, Pushing, mainVars, TypeInv, PipelineTypeOK, TurnInv, Chunk
<1>3. c \in ChunkCalls /\ c.slice = slice /\ c.entry = ordered /\ c.part = part
  <2>1. slice \in Nat
    BY Capacities DEF TypeInv, PipelineTypeOK
  <2>2. c \in ChunkCalls
    BY <1>2, <2>1, CallKinds DEF Chunk
  <2> QED BY <2>2, ChunkFields DEF Chunk
<1>4. ~Pushed(ordered, part)
    BY <1>2 DEF Pushed
<1>5. ~Stream!Done(c) /\ ~Waiting(c)
    BY <1>2, <1>4 DEF LineInv
<1>6. \A n, i \in Nat :
          Pushed(n, i)' <=> Pushed(n, i) \/ (n = ordered /\ i = part)
  <2>1. \A i \in Nat : i \in 1 .. part <=> i \in 1 .. part - 1 \/ i = part
    BY <1>2
  <2>2. part' - 1 = part /\ ordered \in 1 .. ordered
    BY <1>2
  <2> QED BY <1>1, <1>2, <2>1, <2>2 DEF Pushed
<1>7. \A n, i : Chunk(n, i) = c <=> n = ordered /\ i = part
    BY <1>3, ChunkFields DEF Chunk
<1> HIDE DEF c
<1>8. /\ Len(buffer') = Len(buffer) + 1 /\ Len(buffer) \in Nat
      /\ buffer'[Len(buffer) + 1] = c
      /\ \A j \in 1 .. Len(buffer) : buffer'[j] = buffer[j]
  <2>1. buffer \in Seq(ChunkCalls)
    BY DEF CallsInv
  <2> QED BY <1>2, <1>3, <2>1, Appended
<1>9. \A d : Waiting(d)' <=> Waiting(d) \/ d = c
  <2>1. \A i \in 1 .. Len(buffer') : i \in 1 .. Len(buffer) \/ i = Len(buffer) + 1
    BY <1>8
  <2>2. /\ Len(buffer) + 1 \in 1 .. Len(buffer')
        /\ \A i \in 1 .. Len(buffer) : i \in 1 .. Len(buffer')
    BY <1>8
  <2> QED BY <1>2, <1>8, <2>1, <2>2 DEF Waiting
<1>10. \A d : Stream!Done(d)' <=> Stream!Done(d)
    BY <1>2, DoneStays
<1>11. \A n, i \in Nat :
           Pushed(n, i)' <=> Stream!Done(Chunk(n, i))' \/ Waiting(Chunk(n, i))'
  <2> SUFFICES ASSUME NEW n \in Nat, NEW i \in Nat
               PROVE  Pushed(n, i)' <=> Stream!Done(Chunk(n, i))' \/ Waiting(Chunk(n, i))'
    OBVIOUS
  <2>1. PICK d : d = Chunk(n, i)
    OBVIOUS
  <2>2. Stream!Done(Chunk(n, i))' <=> Stream!Done(d)
    BY <1>1, <1>2, <2>1 DEF Stream!Done
  <2>3. Waiting(Chunk(n, i))' <=> Waiting(d)'
    BY <1>1, <2>1 DEF Waiting
  <2>4. Pushed(n, i) <=> Stream!Done(d) \/ Waiting(d)
    BY <2>1 DEF LineInv
  <2> QED BY <1>6, <1>7, <1>9, <2>1, <2>2, <2>3, <2>4
<1>12. \A d \in ChunkCalls : Waiting(d)' => d.slice = slice' /\ ~Stream!Done(d)'
    BY <1>2, <1>3, <1>5, <1>9, <1>10 DEF LineInv
<1>13. \A d : Waiting(d) => Before(d, c)
  <2> SUFFICES ASSUME NEW d, Waiting(d) PROVE Before(d, c)
    OBVIOUS
  <2>1. d.entry \in Nat /\ d.part \in Nat /\ Pushed(d.entry, d.part)
    BY WaitingPushed
  <2>2. d.entry \in 1 .. ordered /\ (d.entry = ordered => d.part \in 1 .. part - 1)
    BY <2>1 DEF Pushed
  <2>3. d.entry < ordered \/ (d.entry = ordered /\ d.part < part)
    BY <1>2, <2>1, <2>2
  <2> QED BY <1>3, <2>3 DEF Before
<1>14. \A j \in 1 .. Len(buffer) : Before(buffer[j], c)
    BY <1>13 DEF Waiting
<1>15. \A i \in 1 .. Len(writing) : Before(writing[i], c)
    BY <1>13 DEF Waiting
<1>16. \A i, j \in 1 .. Len(buffer') : i < j => Before(buffer'[i], buffer'[j])
  <2> SUFFICES ASSUME NEW i \in 1 .. Len(buffer'), NEW j \in 1 .. Len(buffer'), i < j
               PROVE  Before(buffer'[i], buffer'[j])
    OBVIOUS
  <2>1. i \in 1 .. Len(buffer) /\ (j \in 1 .. Len(buffer) \/ j = Len(buffer) + 1)
    BY <1>8
  <2>2. CASE j \in 1 .. Len(buffer)
    BY <1>8, <2>1, <2>2 DEF LineInv
  <2>3. CASE j = Len(buffer) + 1
    BY <1>8, <1>14, <2>1, <2>3
  <2> QED BY <2>1, <2>2, <2>3
<1>17. \A i \in 1 .. Len(writing'), j \in 1 .. Len(buffer') :
           Before(writing'[i], buffer'[j])
  <2> SUFFICES ASSUME NEW i \in 1 .. Len(writing), NEW j \in 1 .. Len(buffer')
               PROVE  Before(writing[i], buffer'[j])
    BY <1>2
  <2>1. j \in 1 .. Len(buffer) \/ j = Len(buffer) + 1
    BY <1>8
  <2>2. CASE j \in 1 .. Len(buffer)
    BY <1>8, <2>2 DEF LineInv
  <2>3. CASE j = Len(buffer) + 1
    BY <1>8, <1>15, <2>3
  <2> QED BY <2>1, <2>2, <2>3
<1>18. Len(writing') <= 1
    BY <1>2 DEF LineInv
<1> QED BY <1>11, <1>12, <1>16, <1>17, <1>18 DEF LineInv

LEMMA HeadAndTail ==
    ASSUME NEW S, NEW q \in Seq(S), q # <<>>
    PROVE  /\ 1 \in 1 .. Len(q) /\ Head(q) = q[1] /\ Head(q) \in S
           /\ Len(<<Head(q)>>) = 1 /\ <<Head(q)>>[1] = Head(q)
           /\ Len(Tail(q)) = Len(q) - 1 /\ Len(q) \in Nat
           /\ \A i \in 1 .. Len(Tail(q)) :
                  i + 1 \in 1 .. Len(q) /\ Tail(q)[i] = q[i + 1]
           /\ \A i \in 1 .. Len(q) :
                  i = 1 \/ (i - 1 \in 1 .. Len(Tail(q)) /\ Tail(q)[i - 1] = q[i])
    OBVIOUS

LEMMA LinePops == ASSUME CallsInv, LineInv, OutputPops PROVE LineInv'
<1>1. /\ UNCHANGED <<plan, slice, ordered, part, calls, skipped>>
      /\ writing = <<>> /\ buffer # <<>> /\ buffer \in Seq(ChunkCalls)
      /\ writing' = <<Head(buffer)>> /\ buffer' = Tail(buffer)
    BY DEF OutputPops, mainVars, serialVars, CallsInv
<1>2. Entries' = Entries /\ \A n, i : Chunk(n, i)' = Chunk(n, i)
    BY <1>1, SamePlan
<1> DEFINE head == Head(buffer)  tail == Tail(buffer)
<1>3. /\ 1 \in 1 .. Len(buffer) /\ head = buffer[1] /\ Len(buffer) \in Nat
      /\ Len(writing') = 1 /\ writing'[1] = head /\ Len(writing) = 0
      /\ Len(tail) = Len(buffer) - 1
      /\ \A i \in 1 .. Len(tail) :
             i + 1 \in 1 .. Len(buffer) /\ tail[i] = buffer[i + 1]
      /\ \A i \in 1 .. Len(buffer) :
             i = 1 \/ (i - 1 \in 1 .. Len(tail) /\ tail[i - 1] = buffer[i])
    BY <1>1, HeadAndTail
<1> HIDE DEF head, tail
<1>4. buffer' = tail
    BY <1>1 DEF tail
<1>5. \A c : Waiting(c)' <=> Waiting(c)
  <2> SUFFICES ASSUME NEW c PROVE Waiting(c)' <=> Waiting(c)
    OBVIOUS
  <2>1. Waiting(c) <=> \E i \in 1 .. Len(buffer) : buffer[i] = c
    BY <1>1, <1>3 DEF Waiting
  <2>2. Waiting(c)' <=> head = c \/ \E i \in 1 .. Len(tail) : tail[i] = c
    BY <1>3, <1>4 DEF Waiting
  <2> QED BY <1>3, <2>1, <2>2
<1>6. \A n, i \in Nat : Waiting(Chunk(n, i))' <=> Waiting(Chunk(n, i))
  <2> SUFFICES ASSUME NEW n \in Nat, NEW i \in Nat
               PROVE  Waiting(Chunk(n, i))' <=> Waiting(Chunk(n, i))
    OBVIOUS
  <2>1. PICK c : c = Chunk(n, i)
    OBVIOUS
  <2>2. Waiting(Chunk(n, i))' <=> Waiting(c)'
    BY <1>2, <2>1 DEF Waiting
  <2> QED BY <1>5, <2>1, <2>2
<1>7. \A n, i \in Nat :
          /\ Stream!Done(Chunk(n, i))' <=> Stream!Done(Chunk(n, i))
          /\ Pushed(n, i)' <=> Pushed(n, i)
    BY <1>1, <1>2 DEF Pushed, Stream!Done
<1>8. \A c : Stream!Done(c)' <=> Stream!Done(c)
    BY <1>1, DoneStays
<1>9. \A i, j \in 1 .. Len(tail) : i < j => Before(tail[i], tail[j])
    BY <1>3 DEF LineInv
<1>10. \A j \in 1 .. Len(tail) : Before(head, tail[j])
  <2> SUFFICES ASSUME NEW j \in 1 .. Len(tail) PROVE Before(head, tail[j])
    OBVIOUS
  <2>1. j + 1 \in 1 .. Len(buffer) /\ tail[j] = buffer[j + 1] /\ 1 < j + 1
    BY <1>3
  <2> QED BY <1>3, <2>1 DEF LineInv
<1>11. \A i \in 1 .. Len(writing') : i = 1
    BY <1>3
<1>12. \A i \in 1 .. Len(writing'), j \in 1 .. Len(buffer') :
           Before(writing'[i], buffer'[j])
    BY <1>3, <1>4, <1>10, <1>11
<1>13. \A n, i \in Nat :
           Pushed(n, i)' <=> Stream!Done(Chunk(n, i))' \/ Waiting(Chunk(n, i))'
    BY <1>6, <1>7 DEF LineInv
<1>14. \A c \in ChunkCalls : Waiting(c)' => c.slice = slice' /\ ~Stream!Done(c)'
    BY <1>1, <1>5, <1>8 DEF LineInv
<1>15. \A i, j \in 1 .. Len(buffer') : i < j => Before(buffer'[i], buffer'[j])
    BY <1>4, <1>9
<1>16. Len(writing') <= 1
    BY <1>3
<1> QED BY <1>12, <1>13, <1>14, <1>15, <1>16 DEF LineInv

LEMMA LineWrites == ASSUME CallsInv, LineInv, OutputWrites PROVE LineInv'
<1>1. /\ UNCHANGED <<plan, slice, ordered, part, buffer, skipped>>
      /\ writing' = <<>>
    BY DEF OutputWrites, mainVars, serialVars
<1>2. Entries' = Entries /\ \A n, i : Chunk(n, i)' = Chunk(n, i)
    BY <1>1, SamePlan
<1>3. PICK c \in ChunkCalls : c = writing[1]
    BY WrittenOne
<1>4. calls' = Append(calls, c) /\ writing = <<c>> /\ Waiting(c)
    BY <1>3, WrittenOne
<1>5. \A d : Stream!Done(d)' <=> Stream!Done(d) \/ d = c
    BY <1>4, DoneAppends
<1>6. \A j \in 1 .. Len(buffer) : buffer[j] # c
  <2>1. c.entry \in Nat /\ c.part \in Nat /\ 1 \in 1 .. Len(writing)
    BY <1>4, ChunkFields
  <2>2. ~Before(c, c)
    BY <2>1 DEF Before
  <2> QED BY <1>3, <2>1, <2>2 DEF LineInv
<1>7. \A d : Waiting(d)' <=> Waiting(d) /\ d # c
  <2>1. \A d : (\E i \in 1 .. Len(writing) : writing[i] = d) <=> d = c
    BY <1>4
  <2>2. \A d : Waiting(d)' <=> \E i \in 1 .. Len(buffer) : buffer[i] = d
    BY <1>1 DEF Waiting
  <2> QED BY <1>6, <2>1, <2>2 DEF Waiting
<1>8. \A n, i \in Nat :
          Pushed(n, i)' <=> Stream!Done(Chunk(n, i))' \/ Waiting(Chunk(n, i))'
  <2> SUFFICES ASSUME NEW n \in Nat, NEW i \in Nat
               PROVE  Pushed(n, i)' <=> Stream!Done(Chunk(n, i))' \/ Waiting(Chunk(n, i))'
    OBVIOUS
  <2>1. PICK d : d = Chunk(n, i)
    OBVIOUS
  <2>2. Stream!Done(Chunk(n, i))' <=> Stream!Done(d)'
    BY <1>2, <2>1 DEF Stream!Done
  <2>3. Waiting(Chunk(n, i))' <=> Waiting(d)'
    BY <1>2, <2>1 DEF Waiting
  <2>4. Pushed(n, i) <=> Stream!Done(d) \/ Waiting(d)
    BY <2>1 DEF LineInv
  <2>5. Pushed(n, i)' <=> Pushed(n, i)
    BY <1>1, <1>2 DEF Pushed
  <2> QED BY <1>4, <1>5, <1>7, <2>2, <2>3, <2>4, <2>5
<1>9. \A d \in ChunkCalls : Waiting(d)' => d.slice = slice' /\ ~Stream!Done(d)'
    BY <1>1, <1>5, <1>7 DEF LineInv
<1>10. /\ Len(writing') <= 1
       /\ \A i \in 1 .. Len(writing'), j \in 1 .. Len(buffer') :
              Before(writing'[i], buffer'[j])
    BY <1>1
<1>11. \A i, j \in 1 .. Len(buffer') : i < j => Before(buffer'[i], buffer'[j])
    BY <1>1 DEF LineInv
<1> QED BY <1>8, <1>9, <1>10, <1>11 DEF LineInv

LEMMA LineStep ==
    ASSUME TypeInv, FlightInv, CallsInv, TurnInv, LineInv, HistoryInv, Next
    PROVE  LineInv'
<1> USE DEF mainVars, workerVars, outputVars, stopVars
<1>1. /\ published \in Nat /\ ordered \in 0 .. published /\ slice \in Nat
    BY Capacities DEF TypeInv, PipelineTypeOK
<1>2. CASE UNCHANGED <<plan, slice, ordered, part, buffer, writing, calls, skipped>>
    BY <1>1, <1>2, DoneStays, LineStays
<1>3. CASE BeginSlice \/ StartFails
    BY <1>3, LineBegins DEF BeginSlice, StartFails
<1>4. CASE Enqueue
  <2>1. /\ UNCHANGED <<plan, slice, ordered, part, buffer, writing, calls>>
        /\ skipped' \in {skipped, skipped \cup {<<slice, published + 1>>}}
    BY <1>4 DEF Enqueue, Publish, serialVars
  <2>2. \A n \in 1 .. ordered : <<slice, n>> \in skipped' <=> <<slice, n>> \in skipped
    BY <1>1, <2>1
  <2> QED BY <1>1, <2>1, <2>2, DoneStays, LineStays
<1>5. ASSUME NEW w \in Workers, WorkerPuts(w) PROVE LineInv'
  <2>1. /\ UNCHANGED <<plan, slice, ordered, part, buffer, writing, calls>>
        /\ skipped' \in {skipped, skipped \cup {<<slice, holding[w]>>}}
        /\ holding[w] # 0
    BY <1>5 DEF WorkerPuts, serialVars
  <2>2. /\ holding[w] \in Nat
        /\ ordered < holding[w] \/ (holding[w] = ordered /\ part = 1)
    BY <2>1, HeldIsAhead DEF TurnInv
  <2>3. \A n \in 1 .. ordered :
            \/ <<slice, n>> \in skipped' <=> <<slice, n>> \in skipped
            \/ n = ordered /\ part = 1
    BY <1>1, <2>1, <2>2
  <2> QED BY <1>1, <2>1, <2>3, DoneStays, LineStays
<1>6. CASE JoinOutput
  <2>1. /\ UNCHANGED <<plan, slice, ordered, part, buffer, writing, skipped>>
        /\ calls' = calls \/ calls' = Append(calls, Stream!EndCall(slice))
    BY <1>6 DEF JoinOutput, serialVars
  <2>2. /\ Stream!EndCall(slice) \in ChunkCalls \cup SliceCalls
        /\ \A c \in ChunkCalls : c # Stream!EndCall(slice)
    BY <1>1, CallKinds
  <2>3. \A c \in ChunkCalls : Stream!Done(c)' <=> Stream!Done(c)
    BY <2>1, <2>2, DoneAppends, DoneStays
  <2> QED BY <1>1, <2>1, <2>3, LineStays
<1>7. ASSUME NEW t, CloseNext(t) \/ Cancelled(t) PROVE LineInv'
    BY <1>2, <1>7 DEF CloseNext, Cancelled, serialVars
<1>8. CASE MainNext
    BY <1>2, <1>3, <1>4, <1>6, <1>7, <1>8 DEF MainNext, EnqueueSmall,
       PublishSmall, Publish, EnqueueRefused, MainThrows, FinishInput,
       JoinWorkers, JoinSerializer, Join, Finish, serialVars
<1>9. CASE \E w \in Workers : WorkerNext(w)
    BY <1>2, <1>5, <1>7, <1>9 DEF WorkerNext, WorkerTakes, WorkerThrows,
       WorkerEnds, serialVars
<1>10. CASE SerializerNext
    BY <1>2, <1>7, <1>10, LineTurns, LinePushes DEF SerializerNext,
       SerializerFetches, SerializerFinishesEntry, SerializerThrows,
       SerializerEnds, serialVars
<1>11. CASE OutputNext
    BY <1>2, <1>7, <1>11, LinePops, LineWrites DEF OutputNext, OutputThrows,
       OutputEnds, serialVars
<1> QED BY <1>8, <1>9, <1>10, <1>11 DEF Next

-----------------------------------------------------------------------------
(* The steps of the threads are steps of one. *)

LEMMA InitStream == Init => StreamInv /\ Stream!StreamInit
<1> SUFFICES ASSUME Init PROVE StreamInv /\ Stream!StreamInit
    OBVIOUS
<1> USE DEF Init
<1>1. \A c : ~Stream!Done(c) /\ ~Waiting(c)
    BY DEF Stream!Done, Stream!Range, Waiting
<1>2. LineInv
    BY <1>1 DEF LineInv, Pushed
<1>3. TurnInv /\ RangeInv /\ HistoryInv /\ EndInv
    BY DEF TurnInv, RangeInv, HistoryInv, EndInv, Working
<1> QED BY <1>2, <1>3, InitPax DEF StreamInv, Stream!StreamInit

LEMMA StreamInvStep == StreamInv /\ [Next]_vars => StreamInv'
<1>1. ASSUME StreamInv, Next PROVE StreamInv'
  <2> USE <1>1 DEF StreamInv
  <2>1. TypeInv /\ FlightInv /\ CallsInv /\ StopInv
    BY DEF PaxInv
  <2>2. PaxInv'
    BY PaxStep
  <2> QED BY <2>1, <2>2, LineStep, TurnStep, RangeStep, HistoryStep, EndStep
<1>2. ASSUME StreamInv, UNCHANGED vars PROVE StreamInv'
  <2> USE <1>2 DEF StreamInv, vars, mainVars, workerVars, serialVars, outputVars, stopVars
  <2>1. PaxInv'
    BY PaxStep
  <2>2. slice \in Nat
    BY Capacities DEF PaxInv, TypeInv, PipelineTypeOK
  <2>3. LineInv'
    BY <2>2, LineStays, DoneStays
  <2>6. TurnInv'
    BY TurnStays
  <2>4. RangeInv' /\ HistoryInv'
    BY RangeStays, HistoryStays DEF Working
  <2>5. EndInv'
    BY SamePlan DEF EndInv, Working
  <2> QED BY <2>1, <2>3, <2>4, <2>5, <2>6
<1> QED BY <1>1, <1>2

\* The state a step of the threads takes place in.
LEMMA InSlice ==
    ASSUME StreamInv, Working
    PROVE  /\ slice \in DOMAIN plan /\ slice \in Nat
           /\ Entries = Stream!Contents(plan, slice)
           /\ DOMAIN Entries = 1 .. Len(Entries) /\ Len(Entries) \in Nat
           /\ published \in Nat /\ published <= Len(Entries)
           /\ ordered \in 0 .. published /\ part \in Nat \ {0}
           /\ Stream!IsOpen(slice)
<1> USE DEF StreamInv, PaxInv
<1>1. /\ slice \in 1 .. Len(plan) /\ plan \in Plans
      /\ plan \in Seq(Seq({"bare", "small", "large"}))
      /\ published \in Nat /\ ordered \in 0 .. published /\ part \in Nat \ {0}
    BY Capacities, PipelineAssumption DEF TypeInv, PipelineTypeOK, RangeInv
<1>2. Entries \in Seq({"bare", "small", "large", "eoa"}) /\ Len(Entries) \in Nat
    BY <1>1, EntriesAre, EntriesListed
<1>3. published <= Len(Entries)
    BY DEF RangeInv
<1>4. Stream!Done(Stream!BeginCall(slice))
    BY DEF HistoryInv
<1>5. ~Stream!Done(Stream!EndCall(slice))
  <2> SUFFICES ASSUME Stream!Done(Stream!EndCall(slice)) PROVE FALSE
    OBVIOUS
  <2>1. PICK i \in 1 .. Len(calls) : calls[i] = Stream!EndCall(slice)
    BY DoneAt
  <2>2. calls[i].call = "end_slice" /\ calls[i].slice = slice
    <3>1. slice \in Nat
      BY <1>1
    <3>2. /\ Stream!EndCall(slice).call = "end_slice"
          /\ Stream!EndCall(slice).slice = slice
      BY ONLY <3>1, CallKinds
    <3> QED BY ONLY <2>1, <3>2
  <2> QED BY <2>1, <2>2 DEF ClosedInv, Working
<1> QED BY <1>1, <1>2, <1>3, <1>4, <1>5, EntriesAre DEF Stream!IsOpen

\* An entry that has been pushed as a whole is complete once nothing waits.
LEMMA WrittenComplete ==
    ASSUME StreamInv, Working, NEW n \in 1 .. ordered,
           <<slice, n>> \in skipped \/ Pushed(n, Parts(Entries[n])),
           ~Waiting(Chunk(n, Parts(Entries[n])))
    PROVE  Stream!Complete(slice, n)
<1>1. Parts(Entries[n]) \in Nat /\ n \in Nat
    BY PartsCounted, InSlice
<1>2. <<slice, n>> \in skipped \/ Stream!Done(Chunk(n, Parts(Entries[n])))
    BY <1>1 DEF StreamInv, LineInv
<1> QED BY <1>2, EntriesAre DEF Stream!Complete, Chunk

\* All chunks of the entries before the one in the serializer's hands.
LEMMA PushedWhole ==
    ASSUME StreamInv, Working, NEW n \in 1 .. ordered,
           n < ordered \/ serializer = "idle"
    PROVE  <<slice, n>> \in skipped \/ Pushed(n, Parts(Entries[n]))
<1>1. Parts(Entries[n]) \in Nat \ {0} /\ n \in Nat /\ ordered \in Nat
    BY PartsCounted, InSlice
<1>2. CASE n < ordered
    BY <1>1, <1>2 DEF Pushed
<1>3. CASE n = ordered /\ serializer = "idle"
    BY <1>1, <1>3 DEF Pushed, StreamInv, TurnInv
<1> QED BY <1>1, <1>2, <1>3

LEMMA Nothing ==
    ASSUME UNCHANGED <<plan, calls, skipped>>,
           main' = main \/ {main, main'} \cap {"done", "failed"} = {}
    PROVE  UNCHANGED Stream!streamVars
    BY DEF Stream!streamVars

LEMMA Opens == ASSUME StreamInv, NewPipeline, Working' PROVE Stream!StreamNext
<1> USE DEF StreamInv, PaxInv
<1>1. /\ slice \in Nat /\ main = "begin" /\ main' \notin {"done", "failed"}
      /\ calls' = Append(calls, Stream!BeginCall(slice + 1))
      /\ UNCHANGED <<plan, skipped>>
    BY Capacities DEF NewPipeline, TypeInv, PipelineTypeOK, Working
<1>2. slice + 1 \in DOMAIN plan
  <2>1. plan \in Seq(Seq({"bare", "small", "large"})) /\ slice + 1 \in 1 .. Len(plan)
    BY Capacities, PipelineAssumption DEF NewPipeline, TypeInv, PipelineTypeOK
  <2> QED BY <2>1
<1>3. ~Stream!Done(Stream!BeginCall(slice + 1))
  <2> SUFFICES ASSUME Stream!Done(Stream!BeginCall(slice + 1)) PROVE FALSE
    OBVIOUS
  <2>1. PICK i \in 1 .. Len(calls) : calls[i] = Stream!BeginCall(slice + 1)
    BY DoneAt
  <2>2. calls[i].slice = slice + 1
    BY <2>1 DEF Stream!BeginCall
  <2> QED BY <1>1, <2>1, <2>2 DEF HistoryInv
<1>4. \A r \in 1 .. slice : Stream!Done(Stream!EndCall(r))
    BY <1>1 DEF HistoryInv
<1>5. Stream!BeginSlice(slice + 1)
    BY <1>1, <1>3, <1>4 DEF Stream!BeginSlice
<1> QED BY <1>1, <1>2, <1>5 DEF Stream!StreamNext

LEMMA Skips ==
    ASSUME StreamInv, Working, UNCHANGED <<plan, calls, main>>,
           NEW n \in 1 .. Len(Entries), skipped' = skipped \cup {<<slice, n>>},
           Entries[n] # "eoa", \A i \in Nat : ~Pushed(n, i)
    PROVE  Stream!StreamNext
<1>1. /\ slice \in DOMAIN plan /\ Entries = Stream!Contents(plan, slice)
      /\ n \in DOMAIN Entries /\ n \in Nat
    BY InSlice
<1>2. \A i \in 1 .. Parts(Entries[n]) : ~Stream!Done(Stream!ChunkCall(slice, n, i))
  <2>1. \A i \in Nat : ~Stream!Done(Chunk(n, i))
    BY <1>1 DEF StreamInv, LineInv
  <2>2. Parts(Entries[n]) \in Nat
    BY PartsCounted
  <2>3. \A i \in 1 .. Parts(Entries[n]) : i \in Nat
    BY <2>2
  <2> QED BY <2>1, <2>3 DEF Chunk
<1>3. Stream!Skip(slice, n)
    BY <1>1, <1>2 DEF Stream!Skip
<1>4. main \notin {"done", "failed"}
    BY DEF Working
<1> QED BY <1>1, <1>3, <1>4 DEF Stream!StreamNext

LEMMA Writes == ASSUME StreamInv, Working, OutputWrites PROVE Stream!StreamNext
<1> USE DEF StreamInv, PaxInv
<1>1. PICK c \in ChunkCalls : c = writing[1]
    BY WrittenOne
<1>2. /\ calls' = Append(calls, c) /\ Waiting(c) /\ writing = <<c>>
      /\ UNCHANGED <<plan, skipped, main>>
    BY <1>1, WrittenOne DEF OutputWrites, mainVars
<1> DEFINE n == c.entry  i == c.part
<1>3. c = Chunk(n, i) /\ n \in Nat /\ i \in Nat /\ Pushed(n, i) /\ ~Stream!Done(c)
    BY <1>2, WaitingPushed DEF LineInv
<1> HIDE DEF n, i
<1>4. /\ slice \in DOMAIN plan /\ Entries = Stream!Contents(plan, slice)
      /\ Stream!IsOpen(slice) /\ DOMAIN Entries = 1 .. Len(Entries)
      /\ Len(Entries) \in Nat /\ ordered \in Nat /\ ordered <= Len(Entries)
      /\ part \in Nat \ {0}
    BY InSlice
<1>5. /\ n \in 1 .. ordered /\ n \in DOMAIN Entries /\ <<slice, n>> \notin skipped
      /\ i \in 1 .. Parts(Entries[n])
  <2>1. n \in 1 .. ordered /\ <<slice, n>> \notin skipped
    BY <1>3 DEF Pushed
  <2>2. Parts(Entries[n]) \in Nat
    BY PartsCounted
  <2>3. i \in 1 .. (IF n = ordered THEN part - 1 ELSE Parts(Entries[n]))
    BY <1>3 DEF Pushed
  <2>4. n = ordered => part - 1 <= Parts(Entries[n])
    <3>1. serializer \in {"idle", "fetch", "push"}
      BY DEF TypeInv, PipelineTypeOK
    <3> QED BY <1>4, <2>1, <2>2, <3>1 DEF TurnInv
  <2>5. i \in 1 .. Parts(Entries[n])
    BY <1>4, <2>2, <2>3, <2>4
  <2> QED BY <1>4, <2>1, <2>5
\* Nothing that comes before the chunk still waits.
<1>6. \A d : Waiting(d) => d = c \/ Before(c, d)
  <2>1. \A k \in 1 .. Len(writing) : writing[k] = c
    BY <1>2
  <2>2. 1 \in 1 .. Len(writing)
    BY <1>2
  <2>3. \A j \in 1 .. Len(buffer) : Before(c, buffer[j])
    BY <1>1, <2>2 DEF LineInv
  <2> QED BY <2>1, <2>3 DEF Waiting
<1>7. \A m, j \in Nat : m < n \/ (m = n /\ j < i) => ~Waiting(Chunk(m, j))
  <2> SUFFICES ASSUME NEW m \in Nat, NEW j \in Nat, m < n \/ (m = n /\ j < i),
                      Waiting(Chunk(m, j))
               PROVE  FALSE
    OBVIOUS
  <2>1. Chunk(m, j).entry = m /\ Chunk(m, j).part = j
    BY ChunkFields DEF Chunk
  <2>2. c.entry = n /\ c.part = i
    BY DEF n, i
  <2>3. Chunk(m, j) = c \/ n < m \/ (n = m /\ i < j)
    BY <1>6, <2>1, <2>2 DEF Before
  <2> QED BY <1>3, <2>1, <2>2, <2>3
<1>8. \A m \in 1 .. n - 1 : Stream!Complete(slice, m)
  <2> SUFFICES ASSUME NEW m \in 1 .. n - 1 PROVE Stream!Complete(slice, m)
    OBVIOUS
  <2>1. m \in 1 .. ordered /\ m < ordered /\ m \in Nat /\ m < n
    BY <1>3, <1>4, <1>5
  <2>2. <<slice, m>> \in skipped \/ Pushed(m, Parts(Entries[m]))
    BY <2>1, PushedWhole
  <2>3. ~Waiting(Chunk(m, Parts(Entries[m])))
    BY <1>7, <2>1, PartsCounted
  <2> QED BY <2>1, <2>2, <2>3, WrittenComplete
<1>9. \A j \in 1 .. i - 1 : Stream!Done(Stream!ChunkCall(slice, n, j))
  <2> SUFFICES ASSUME NEW j \in 1 .. i - 1
               PROVE  Stream!Done(Stream!ChunkCall(slice, n, j))
    OBVIOUS
  <2>1. j \in Nat /\ j < i
    BY <1>3
  <2>2. Pushed(n, j)
    <3>1. \A k \in Nat : i \in 1 .. k => j \in 1 .. k
      BY <1>3
    <3>2. part - 1 \in Nat /\ Parts(Entries[n]) \in Nat
      BY <1>4, PartsCounted
    <3> QED BY <1>3, <3>1, <3>2 DEF Pushed
  <2>3. ~Waiting(Chunk(n, j))
    BY <1>3, <1>7, <2>1
  <2> QED BY <1>3, <2>1, <2>2, <2>3 DEF LineInv, Chunk
<1>10. Stream!WriteChunk(slice, n, i)
    BY <1>2, <1>3, <1>4, <1>5, <1>8, <1>9 DEF Stream!WriteChunk, Chunk
<1>11. main \notin {"done", "failed"}
    BY DEF Working
<1> QED BY <1>4, <1>5, <1>10, <1>11 DEF Stream!StreamNext

LEMMA Closes ==
    ASSUME StreamInv, JoinOutput, main' = "begin" PROVE Stream!StreamNext
<1> USE DEF StreamInv, PaxInv
<1>1. /\ main = "joinOutput" /\ Working /\ "output" \notin alive /\ ~error
      /\ calls' = Append(calls, Stream!EndCall(slice))
      /\ UNCHANGED <<plan, skipped>>
    BY DEF JoinOutput, Working
<1>2. /\ published = Len(Entries) /\ "serializer" \notin alive
      /\ serializer = "idle" /\ ordered = published
      /\ buffer = <<>> /\ writing = <<>>
    BY <1>1 DEF EndInv, StopInv
<1>3. \A c : ~Waiting(c)
    BY <1>2 DEF Waiting
<1>4. /\ slice \in DOMAIN plan /\ Entries = Stream!Contents(plan, slice)
      /\ Stream!IsOpen(slice) /\ DOMAIN Entries = 1 .. Len(Entries)
    BY <1>1, InSlice
<1>5. \A n \in DOMAIN Entries : Stream!Complete(slice, n)
    BY <1>1, <1>2, <1>3, <1>4, PushedWhole, WrittenComplete
<1>6. Stream!EndSlice(slice)
    BY <1>1, <1>4, <1>5 DEF Stream!EndSlice
<1> QED BY <1>1, <1>4, <1>6 DEF Stream!StreamNext

LEMMA Finishes == ASSUME StreamInv, Finish PROVE Stream!StreamNext
<1> USE DEF StreamInv, PaxInv
<1>1. /\ main = "begin" /\ main' = "done" /\ slice = Len(plan)
      /\ UNCHANGED <<plan, calls, skipped>>
    BY DEF Finish, outputVars
<1>2. plan \in Seq(Seq({"bare", "small", "large"})) /\ slice \in Nat
    BY Capacities, PipelineAssumption DEF TypeInv, PipelineTypeOK
<1>3. \A s \in DOMAIN plan : Stream!Done(Stream!EndCall(s))
  <2> SUFFICES ASSUME NEW s \in 1 .. slice PROVE Stream!Done(Stream!EndCall(s))
    BY <1>1, <1>2
  <2>1. s \in 1 .. slice - 1 \/ (s = slice /\ slice # 0)
    BY <1>2
  <2> QED BY <1>1, <2>1 DEF HistoryInv
<1>4. Stream!Finish
    BY <1>1, <1>3 DEF Stream!Finish
<1> QED BY <1>1, <1>4 DEF Stream!StreamNext

LEMMA Fails ==
    ASSUME main \notin {"done", "failed"}, main' = "failed",
           UNCHANGED <<plan, calls, skipped>>
    PROVE  Stream!StreamNext
    BY DEF Stream!StreamNext, Stream!Fail

LEMMA OneThread == StreamInv /\ Next => Stream!StreamNext \/ UNCHANGED Stream!streamVars
<1> SUFFICES ASSUME StreamInv, Next
             PROVE  Stream!StreamNext \/ UNCHANGED Stream!streamVars
    OBVIOUS
<1> USE DEF mainVars, workerVars, serialVars, outputVars, stopVars
<1>0. TypeInv /\ FlightInv /\ StopInv /\ RangeInv /\ TurnInv
    BY DEF StreamInv, PaxInv
<1>1. CASE BeginSlice \/ StartFails
    BY <1>1, Opens DEF BeginSlice, StartFails, Working
<1>2. CASE Enqueue
  <2>1. /\ Working /\ UNCHANGED <<plan, calls, main>> /\ published < Len(Entries)
        /\ \/ UNCHANGED skipped
           \/ /\ skipped' = skipped \cup {<<slice, published + 1>>}
              /\ Entries[published + 1] # "eoa"
    BY <1>2 DEF Enqueue, Publish, HasNext, Working
  <2>2. published + 1 \in 1 .. Len(Entries) /\ published + 1 \notin 1 .. ordered
    BY <2>1, InSlice
  <2>3. \A i \in Nat : ~Pushed(published + 1, i)
    BY <2>2 DEF Pushed
  <2> QED BY <2>1, <2>2, <2>3, Skips, Nothing
<1>3. CASE EnqueueSmall \/ PublishSmall \/ EnqueueRefused \/ FinishInput
    BY <1>3, Nothing DEF EnqueueSmall, PublishSmall, Publish, EnqueueRefused,
       FinishInput, HasNext
<1>4. CASE MainThrows
  <2>1. UNCHANGED <<plan, calls, skipped>>
    BY <1>4 DEF MainThrows
  <2>2. \/ main = "emit" /\ main' = "cancel"
        \/ main = "begin" /\ main' = "failed"
    BY <1>4 DEF MainThrows
  <2> QED BY <2>1, <2>2, Nothing, Fails
<1>5. CASE JoinWorkers \/ JoinSerializer
    BY <1>5, Nothing DEF JoinWorkers, JoinSerializer, Join
<1>6. CASE JoinOutput
    BY <1>6, Closes, Fails DEF JoinOutput
<1>7. CASE Finish
    BY <1>7, Finishes
<1>8. ASSUME NEW t, CloseNext(t) \/ Cancelled(t) PROVE UNCHANGED Stream!streamVars
  <2>1. Working
    BY <1>0, <1>8, RunningWorks DEF CloseNext, Cancelled
  <2> QED BY <1>8, <2>1, Nothing DEF CloseNext, Cancelled, Working
<1>9. CASE \E w \in Workers : WorkerNext(w)
  <2> SUFFICES ASSUME NEW w \in Workers, WorkerNext(w)
               PROVE  Stream!StreamNext \/ UNCHANGED Stream!streamVars
    BY <1>9
  <2>1. CASE WorkerPuts(w)
    <3>1. /\ Working /\ UNCHANGED <<plan, calls, main>> /\ holding[w] # 0
          /\ \/ UNCHANGED skipped
             \/ skipped' = skipped \cup {<<slice, holding[w]>>}
      BY <1>0, <2>1, RunningWorks DEF WorkerPuts, Active
    <3>2. /\ holding[w] \in Nat \ {0} /\ RouteOf(holding[w]) = "worker"
          /\ ordered < holding[w] \/ (holding[w] = ordered /\ serializer = "fetch")
          /\ holding[w] <= Len(Entries)
      BY <1>0, <3>1, HeldIsAhead DEF RangeInv
    <3>3. holding[w] \in 1 .. Len(Entries) /\ Entries[holding[w]] # "eoa"
      <4>1. Entries[holding[w]] # "eoa"
        BY <3>2 DEF RouteOf, Route
      <4> QED BY <3>1, <3>2, <4>1, InSlice
    <3>4. \A i \in Nat : ~Pushed(holding[w], i)
      <4>1. CASE ordered < holding[w]
        <5>1. holding[w] \notin 1 .. ordered
          BY <3>1, <3>2, <4>1, InSlice
        <5> QED BY <5>1 DEF Pushed
      <4>2. CASE holding[w] = ordered /\ serializer = "fetch"
        <5>1. part = 1
          BY <1>0, <4>2 DEF TurnInv
        <5>2. \A i \in Nat : i \notin 1 .. part - 1
          BY <5>1
        <5> QED BY <4>2, <5>2 DEF Pushed
      <4> QED BY <3>2, <4>1, <4>2
    <3> QED BY <3>1, <3>3, <3>4, Skips, Nothing
  <2>2. CASE WorkerTakes(w) \/ WorkerThrows(w) \/ WorkerEnds(w)
    BY <2>2, Nothing DEF WorkerTakes, WorkerThrows, WorkerEnds
  <2> QED BY <1>8, <2>1, <2>2 DEF WorkerNext
<1>10. CASE SerializerNext
  <2>1. CASE SerializerTakes
    <3>1. /\ Working /\ UNCHANGED <<plan, calls, main>> /\ ordered < published
          /\ \/ UNCHANGED skipped
             \/ /\ skipped' = skipped \cup {<<slice, ordered + 1>>}
                /\ RouteOf(ordered + 1) = "stream"
      BY <1>0, <2>1, RunningWorks DEF SerializerTakes, Active
    <3>2. ordered + 1 \in 1 .. Len(Entries) /\ ordered + 1 \notin 1 .. ordered
      BY <3>1, InSlice
    <3>3. \A i \in Nat : ~Pushed(ordered + 1, i)
      BY <3>2 DEF Pushed
    <3>4. RouteOf(ordered + 1) = "stream" => Entries[ordered + 1] # "eoa"
      BY DEF RouteOf, Route
    <3> QED BY <3>1, <3>2, <3>3, <3>4, Skips, Nothing
  <2>2. CASE \/ SerializerFetches \/ SerializerPushes \/ SerializerFinishesEntry
             \/ SerializerThrows \/ SerializerEnds
    BY <2>2, Nothing DEF SerializerFetches, SerializerPushes,
       SerializerFinishesEntry, SerializerThrows, SerializerEnds
  <2> QED BY <1>8, <1>10, <2>1, <2>2 DEF SerializerNext
<1>11. CASE OutputNext
  <2>1. CASE OutputWrites
    BY <1>0, <2>1, RunningWorks, Writes DEF OutputWrites, Active
  <2>2. CASE OutputPops \/ OutputThrows \/ OutputEnds
    BY <2>2, Nothing DEF OutputPops, OutputThrows, OutputEnds
  <2> QED BY <1>8, <1>11, <2>1, <2>2 DEF OutputNext
<1> QED BY <1>1, <1>2, <1>3, <1>4, <1>5, <1>6, <1>7, <1>8, <1>9, <1>10, <1>11
        DEF Next, MainNext

LEMMA OneThreadStep ==
    StreamInv /\ [Next]_vars => [Stream!StreamNext]_(Stream!streamVars)
<1>1. UNCHANGED vars => UNCHANGED Stream!streamVars
    BY DEF vars, mainVars, outputVars, Stream!streamVars
<1> QED BY <1>1, OneThread

\* However many threads there are and whichever of them fail, the callbacks
\* come as one thread would make them: slice after slice, the chunks of a
\* slice in plan order, an entry left out only as a whole, a slice closed
\* only when every entry is complete and "done" only for the whole plan.
THEOREM ThreadsStreamAsOne == Spec => StreamsInOrder
<1>1. Init => StreamInv /\ Stream!StreamInit
    BY InitStream
<1>2. StreamInv /\ [Next]_vars => StreamInv'
    BY StreamInvStep
<1>3. StreamInv /\ [Next]_vars => [Stream!StreamNext]_(Stream!streamVars)
    BY OneThreadStep
<1> QED BY <1>1, <1>2, <1>3, PTL DEF Spec, StreamsInOrder, Stream!StreamSpec

-----------------------------------------------------------------------------
(* What the frame builder has put into the queue. *)

Payload == ({"plan"} \X Nat) \cup (Nat \X Nat \X Nat \X Nat)

FrameRecords ==
    [archive : {"archive"}, seq : Nat, slice : Nat,
     channel : {"content", "metadata", "archive_end"}, chSeq : Nat,
     end : BOOLEAN, body : Seq(Payload), check : {"ok"}]

QueueRecords == FrameRecords \cup {TapeEof}

Builders ==
    [global : Nat, slice : Nat, channel : {"content", "metadata"},
     chSeq : Nat, pending : Seq(Payload), out : Seq(QueueRecords)]

FramesIn(q) == {i \in DOMAIN q : q[i].channel # "tape_eof"}

\* The frames in q have the numbers below n, in order.
Numbered(q, n) ==
    /\ \A i \in FramesIn(q) : q[i].seq < n
    /\ \A i, j \in FramesIn(q) : i < j => q[i].seq < q[j].seq
    /\ \A k \in 0 .. n - 1 : \E i \in FramesIn(q) : q[i].seq = k

\* Frame f may follow frame l; it may be the first.
Follows(l, f) ==
    /\ l.channel # "archive_end"
    /\ IF f.channel = "archive_end" THEN l.end
       ELSE \/ /\ f.slice = l.slice /\ f.channel = l.channel
               /\ f.chSeq = l.chSeq + 1 /\ ~l.end
            \/ /\ f.slice = l.slice
               /\ l.channel = "metadata" /\ f.channel = "content"
               /\ f.chSeq = 0 /\ l.end
            \/ f.slice = l.slice + 1 /\ f.chSeq = 0 /\ l.end

Begins(f) == f.channel = "archive_end" \/ (f.slice = 0 /\ f.chSeq = 0)

Linked(q) ==
    /\ \A i \in FramesIn(q) : q[i].seq = 0 => Begins(q[i])
    /\ \A i, j \in FramesIn(q) : q[j].seq = q[i].seq + 1 => Follows(q[i], q[j])

\* How the builder stands to the last frame it built.
StandsBehind(b, l) ==
    /\ l.channel # "archive_end"
    /\ b.chSeq > 0 => /\ l.slice = b.slice /\ l.channel = b.channel
                      /\ l.chSeq = b.chSeq - 1 /\ (l.end <=> b.pending = <<>>)
    /\ b.chSeq = 0 => /\ l.end
                      /\ \/ /\ l.slice = b.slice
                            /\ l.channel = "metadata" /\ b.channel = "content"
                         \/ b.slice = l.slice + 1

Tip(b) ==
    /\ b.global = 0 => b.slice = 0 /\ b.chSeq = 0
    /\ \A i \in FramesIn(b.out) :
           b.out[i].seq = b.global - 1 => StandsBehind(b, b.out[i])

Closed(s) == Stream!Done(Stream!EndCall(s))

NoneEmpty == \A s \in 1 .. slice : ~SliceIsEmpty(s)

Chained == NoneEmpty => Linked(builder.out) /\ (main # "done" => Tip(builder))

\* Bytes in k full frames.
Upto(k) == k * Capacity

\* The bytes of the slice: those in frames and those that wait.
Held(b, all) ==
    /\ Upto(b.chSeq) + Len(b.pending) = Len(all)
    /\ b.pending = SubSeq(all, Upto(b.chSeq) + 1, Len(all))

\* How many frames the queue has been given.
Count == IF main = "done" THEN builder.global + 1 ELSE builder.global

BuilderInv ==
    /\ builder \in Builders
    /\ delivered \in [1 .. Len(plan) -> Seq(Payload)]
    /\ \A s \in 1 .. Len(plan) : s > slice => delivered[s] = <<>>
    /\ Numbered(builder.out, Count)
    /\ CatalogUnits > 0 => builder.global > 0
    /\ builder.channel = "content"
    /\ builder.slice = IF slice = 0 THEN 0 ELSE slice - 1
    /\ slice = 0 => builder.chSeq = 0 /\ builder.pending = <<>>
    /\ Working => Held(builder, delivered[slice])
    /\ slice # 0 /\ builder.chSeq = 0 /\ builder.pending = <<>>
           => delivered[slice] = <<>>
    /\ Len(builder.pending) <= Capacity
    /\ Working /\ builder.pending = <<>> => builder.chSeq = 0
    /\ slice # 0 /\ Closed(slice) => builder.pending = <<>>

\* The content frames in q of slice s.
RunOf(q, s) == {i \in DOMAIN q : q[i].channel = "content" /\ q[i].slice = s - 1}

\* A frame holds its share of these bytes.
Shares(f, all) ==
    /\ Upto(f.chSeq) < Len(all)
    /\ f.body = Share(all, f.chSeq)
    /\ f.end <=> Len(all) <= Upto(f.chSeq + 1)

Cut(q, s, all) ==
    /\ \A i \in RunOf(q, s) : Shares(q[i], all)
    /\ \A i, j \in RunOf(q, s) : i < j => q[i].chSeq < q[j].chSeq

\* All of these bytes are in frames.
Whole(q, s, all) ==
    /\ Cut(q, s, all)
    /\ \A k \in 0 .. Len(all) : Upto(k) < Len(all) =>
           \E i \in RunOf(q, s) : q[i].chSeq = k

\* The builder's run is cut from all of its bytes, as far as they are in frames.
RunInv(b, all) ==
    /\ Cut(b.out, b.slice + 1, all)
    /\ \A i \in RunOf(b.out, b.slice + 1) : b.out[i].chSeq < b.chSeq
    /\ \A k \in 0 .. Len(all) : Upto(k) < Len(all) =>
           \/ \E i \in RunOf(b.out, b.slice + 1) : b.out[i].chSeq = k
           \/ k >= b.chSeq /\ b.pending # <<>>

PieceInv ==
    /\ \A i \in DOMAIN builder.out :
           builder.out[i].channel = "content" => builder.out[i].slice < slice
    /\ slice # 0 => RunInv(builder, delivered[slice])
    /\ \A s \in 1 .. slice - 1 : Whole(builder.out, s, delivered[s])

ValidatorStates ==
    [archive : {V!NoArchive, "archive", "refused"}, expected : Nat, slice : Nat,
     anyFrame : BOOLEAN, endSeen : BOOLEAN, seeded : {FALSE},
     nextSeq : [V!SliceChannels -> Nat],
     seen : [V!SliceChannels -> BOOLEAN],
     ended : [V!SliceChannels -> BOOLEAN],
     unknown : [V!SliceChannels -> {FALSE}],
     history : Seq(FrameRecords), replayNext : {V!NoReplay}]

\* What a validator knows whose last frame was l.
Knows(v, l) ==
    /\ v.archive = "archive"
    /\ IF l.channel = "archive_end" THEN v.endSeen
       ELSE /\ ~v.endSeen /\ v.anyFrame /\ v.slice = l.slice
            /\ v.nextSeq[l.channel] = l.chSeq + 1
            /\ v.seen[l.channel] /\ v.ended[l.channel] = l.end
            /\ \A c \in V!SliceChannels \ {l.channel} :
                   IF v.seen[c] THEN v.ended[c] /\ l.channel = "content"
                   ELSE v.nextSeq[c] = 0 /\ ~v.ended[c]

Summary(v, q, t) ==
    /\ v.expected = 0 => v = V!Unused
    /\ \A i \in FramesIn(q) :
           /\ i <= t <=> q[i].seq < v.expected
           /\ v.expected = q[i].seq + 1 => Knows(v, q[i])

CheckInv ==
    /\ taken \in 0 .. Len(builder.out)
    /\ NoneEmpty => /\ checked \in ValidatorStates /\ checked # Refused
                    /\ checked.expected <= Count
                    /\ Summary(checked, builder.out, taken)

LEMMA UptoFacts ==
    /\ Capacity \in Nat \ {0}
    /\ \A k \in Nat : Upto(k) \in Nat /\ Upto(k + 1) = Upto(k) + Capacity
    /\ \A j, k \in Nat : Upto(j + k) = Upto(j) + Upto(k)
    /\ \A j, k \in Nat : j < k => Upto(j + 1) <= Upto(k)
    /\ Upto(0) = 0
<1> USE CapacityAssumption DEF Upto
<1>1. \A k \in Nat : Upto(k) \in Nat /\ Upto(k + 1) = Upto(k) + Capacity
  OBVIOUS
<1>2. \A j, k \in Nat : Upto(j + k) = Upto(j) + Upto(k)
  OBVIOUS
<1>3. ASSUME NEW j \in Nat, NEW k \in Nat, j < k PROVE Upto(j + 1) <= Upto(k)
  <2>1. PICK d \in Nat : k = (j + 1) + d
    <3>1. k - (j + 1) \in Nat
      BY <1>3
    <3> QED BY <3>1
  <2>2. Upto(k) = Upto(j + 1) + Upto(d) /\ Upto(d) \in Nat /\ Upto(j + 1) \in Nat
    BY <1>1, <1>2, <2>1
  <2> HIDE DEF Upto
  <2> QED BY <2>2
<1> QED BY <1>1, <1>2, <1>3

LEMMA FullFrames ==
    ASSUME NEW n \in Nat \ {0}
    PROVE  /\ (n - 1) \div Capacity \in Nat
           /\ Upto((n - 1) \div Capacity) < n
           /\ n <= Upto((n - 1) \div Capacity + 1)
<1>1. n - 1 \in Nat
  OBVIOUS
<1>2. /\ (n - 1) \div Capacity \in Nat
      /\ ((n - 1) \div Capacity) * Capacity <= n - 1
      /\ n - 1 < ((n - 1) \div Capacity + 1) * Capacity
  BY <1>1, CapacityAssumption
<1>3. /\ ((n - 1) \div Capacity) * Capacity \in Nat
      /\ ((n - 1) \div Capacity + 1) * Capacity \in Nat
  BY <1>2, CapacityAssumption
<1> QED BY <1>1, <1>2, <1>3 DEF Upto

\* Builder c is b when it has built k more frames.
Grown(b, c, k) ==
    /\ c \in Builders
    /\ c.global = b.global + k /\ c.chSeq = b.chSeq + k
    /\ c.slice = b.slice /\ c.channel = b.channel
    /\ Len(c.out) = Len(b.out) + k
    /\ \A i \in 1 .. Len(b.out) : c.out[i] = b.out[i]
    /\ \A i \in Len(b.out) + 1 .. Len(b.out) + k :
           /\ c.out[i] \in FrameRecords
           /\ c.out[i].seq = b.global + (i - Len(b.out)) - 1
           /\ c.out[i].slice = b.slice /\ c.out[i].channel = b.channel
           /\ c.out[i].chSeq = b.chSeq + (i - Len(b.out)) - 1
           /\ c.out[i].end <=> c.pending = <<>>

LEMMA BuilderTypes ==
    ASSUME NEW b \in Builders
    PROVE  /\ b.global \in Nat /\ b.slice \in Nat /\ b.chSeq \in Nat
           /\ b.channel \in {"content", "metadata"}
           /\ b.pending \in Seq(Payload) /\ b.out \in Seq(QueueRecords)
           /\ Len(b.out) \in Nat /\ DOMAIN b.out = 1 .. Len(b.out)
           /\ Len(b.pending) \in Nat
           /\ FramesIn(b.out) \subseteq 1 .. Len(b.out)
           /\ \A i \in DOMAIN b.out : b.out[i] \in QueueRecords
           /\ \A i \in FramesIn(b.out) : b.out[i] \in FrameRecords
<1>1. /\ b.global \in Nat /\ b.slice \in Nat /\ b.chSeq \in Nat
      /\ b.channel \in {"content", "metadata"}
      /\ b.pending \in Seq(Payload) /\ b.out \in Seq(QueueRecords)
  BY DEF Builders
<1>2. /\ Len(b.out) \in Nat /\ DOMAIN b.out = 1 .. Len(b.out)
      /\ \A i \in DOMAIN b.out : b.out[i] \in QueueRecords
      /\ Len(b.pending) \in Nat
  BY <1>1
<1>3. FramesIn(b.out) \subseteq 1 .. Len(b.out)
  BY <1>2 DEF FramesIn
<1>4. \A i \in FramesIn(b.out) : b.out[i] \in FrameRecords
  BY <1>2 DEF FramesIn, QueueRecords, TapeEof
<1> QED BY <1>1, <1>2, <1>3, <1>4

LEMMA RecordTypes ==
    ASSUME NEW f \in FrameRecords
    PROVE  /\ f.archive = "archive" /\ f.check = "ok"
           /\ f.seq \in Nat /\ f.slice \in Nat /\ f.chSeq \in Nat
           /\ f.channel \in {"content", "metadata", "archive_end"}
           /\ f.channel # "tape_eof" /\ f # TapeEof
           /\ f.end \in BOOLEAN /\ f.body \in Seq(Payload)
           /\ f \in QueueRecords
    BY DEF FrameRecords, QueueRecords, TapeEof

LEMMA FramesGrow ==
    ASSUME NEW b \in Builders, NEW c, NEW k \in Nat, Grown(b, c, k)
    PROVE  /\ FramesIn(c.out)
                  = FramesIn(b.out) \cup (Len(b.out) + 1 .. Len(b.out) + k)
           /\ DOMAIN c.out = DOMAIN b.out \cup (Len(b.out) + 1 .. Len(b.out) + k)
           /\ \A i \in FramesIn(b.out) : c.out[i] = b.out[i]
           /\ \A i \in DOMAIN b.out : c.out[i] = b.out[i]
<1>1. /\ Len(b.out) \in Nat /\ DOMAIN b.out = 1 .. Len(b.out)
      /\ DOMAIN c.out = 1 .. Len(b.out) + k
      /\ \A i \in 1 .. Len(b.out) : c.out[i] = b.out[i]
  BY BuilderTypes DEF Grown
<1> DEFINE new == Len(b.out) + 1 .. Len(b.out) + k
<1>2. DOMAIN c.out = DOMAIN b.out \cup new
  BY <1>1
<1>3. \A i \in new : c.out[i].channel # "tape_eof" /\ i \notin DOMAIN b.out
  <2>1. \A i \in new : c.out[i] \in FrameRecords
    BY DEF Grown
  <2>2. \A i \in new : i \notin DOMAIN b.out
    BY <1>1
  <2> QED BY <2>1, <2>2, RecordTypes
<1> HIDE DEF new
<1>4. FramesIn(c.out) = FramesIn(b.out) \cup new
  BY <1>1, <1>2, <1>3 DEF FramesIn
<1> QED BY <1>1, <1>2, <1>4 DEF FramesIn, new

LEMMA NumberedGrows ==
    ASSUME NEW b \in Builders, NEW c, NEW k \in Nat,
           Grown(b, c, k), Numbered(b.out, b.global)
    PROVE  Numbered(c.out, c.global)
<1>1. /\ Len(b.out) \in Nat /\ b.global \in Nat /\ c.global = b.global + k
      /\ FramesIn(b.out) \subseteq 1 .. Len(b.out)
  BY BuilderTypes DEF Grown
<1> DEFINE n == Len(b.out)  g == b.global  F == FramesIn(b.out)  new == n + 1 .. n + k
<1>2. FramesIn(c.out) = F \cup new /\ \A i \in F : c.out[i] = b.out[i]
  BY FramesGrow
<1>3. \A i \in new : c.out[i].seq = g + (i - n) - 1
  BY DEF Grown
<1>4. \A i \in F : b.out[i].seq \in Nat /\ b.out[i].seq < g
  BY BuilderTypes, RecordTypes DEF Numbered
<1>5. /\ \A i, j \in F : i < j => b.out[i].seq < b.out[j].seq
      /\ \A l \in 0 .. g - 1 : \E i \in F : b.out[i].seq = l
  BY DEF Numbered
<1>6. n \in Nat /\ g \in Nat /\ F \subseteq 1 .. n /\ \A i \in new : i \in n + 1 .. n + k
  BY <1>1
<1> HIDE DEF n, g, F, new
<1>7. \A i \in FramesIn(c.out) : c.out[i].seq < g + k
  <2>1. ASSUME NEW i \in new PROVE c.out[i].seq < g + k
    <3>1. c.out[i].seq = g + (i - n) - 1 /\ i \in n + 1 .. n + k
      BY <1>3, <1>6
    <3> QED BY <1>6, <3>1
  <2>2. ASSUME NEW i \in F PROVE c.out[i].seq < g + k
    <3>1. c.out[i].seq \in Nat /\ c.out[i].seq < g
      BY <1>2, <1>4
    <3> QED BY <1>6, <3>1
  <2> QED BY <1>2, <2>1, <2>2
<1>8. \A i, j \in FramesIn(c.out) : i < j => c.out[i].seq < c.out[j].seq
  <2> SUFFICES ASSUME NEW i \in F \cup new, NEW j \in F \cup new, i < j
               PROVE  c.out[i].seq < c.out[j].seq
    BY <1>2
  <2>1. CASE i \in F /\ j \in F
    BY <1>2, <1>5, <2>1
  <2>2. CASE i \in F /\ j \in new
    BY <1>2, <1>3, <1>4, <1>6, <2>2
  <2>3. CASE i \in new
    BY <1>3, <1>6, <2>3
  <2> QED BY <2>1, <2>2, <2>3
<1>9. \A l \in 0 .. g + k - 1 : \E i \in FramesIn(c.out) : c.out[i].seq = l
  <2> SUFFICES ASSUME NEW l \in 0 .. g + k - 1
               PROVE  \E i \in F \cup new : c.out[i].seq = l
    BY <1>2
  <2>1. CASE l < g
    <3>1. l \in 0 .. g - 1
      BY <1>6, <2>1
    <3> QED BY <1>2, <1>5, <3>1
  <2>2. CASE l >= g
    <3>1. n + (l - g) + 1 \in n + 1 .. n + k /\ g + ((n + (l - g) + 1) - n) - 1 = l
      BY <1>6, <2>2
    <3> QED BY <1>3, <3>1 DEF new
  <2>3. l < g \/ l >= g
    BY <1>6
  <2> QED BY <2>1, <2>2, <2>3
<1> QED BY <1>1, <1>7, <1>8, <1>9 DEF Numbered, g

\* The last frame built, or that none was, decides how the next may look.
LEMMA LinkedGrows ==
    ASSUME NEW b \in Builders, NEW c, NEW k \in Nat,
           Grown(b, c, k), Numbered(b.out, b.global),
           Linked(b.out), Tip(b), k > 0, c.pending = <<>> => k = 1,
           b.chSeq > 0 => b.pending # <<>>
    PROVE  Linked(c.out) /\ Tip(c)
<1> DEFINE n == Len(b.out)  g == b.global  F == FramesIn(b.out)  new == n + 1 .. n + k
<1>1. /\ n \in Nat /\ g \in Nat /\ b.chSeq \in Nat /\ b.slice \in Nat
      /\ b.channel \in {"content", "metadata"} /\ F \subseteq 1 .. n
      /\ c.global = g + k /\ c.chSeq = b.chSeq + k
      /\ c.slice = b.slice /\ c.channel = b.channel
  BY BuilderTypes DEF Grown
<1>2. FramesIn(c.out) = F \cup new /\ \A i \in F : c.out[i] = b.out[i]
  BY FramesGrow
<1>3. \A i \in F : b.out[i].seq \in Nat /\ b.out[i].seq < g
  BY BuilderTypes, RecordTypes DEF Numbered
<1>4. \A i \in new :
          /\ c.out[i].seq = g + (i - n) - 1
          /\ c.out[i].slice = b.slice /\ c.out[i].channel = b.channel
          /\ c.out[i].chSeq = b.chSeq + (i - n) - 1 /\ (c.out[i].end <=> c.pending = <<>>)
  BY DEF Grown
<1>12. \A i \in new : i \in n + 1 .. n + k
  OBVIOUS
<1>5. \A i \in F : b.out[i].seq = g - 1 => StandsBehind(b, b.out[i])
  BY DEF Tip
<1>6. g = 0 => b.slice = 0 /\ b.chSeq = 0
  BY DEF Tip
<1>7. /\ \A i \in F : b.out[i].seq = 0 => Begins(b.out[i])
      /\ \A i, j \in F : b.out[j].seq = b.out[i].seq + 1 => Follows(b.out[i], b.out[j])
  BY DEF Linked
<1> HIDE DEF n, g, F, new
<1>8. ASSUME NEW i \in FramesIn(c.out), c.out[i].seq = 0 PROVE Begins(c.out[i])
  <2>1. CASE i \in F
    BY <1>2, <1>7, <1>8, <2>1
  <2>2. ASSUME i \in new PROVE Begins(c.out[i])
    <3>2. c.out[i].seq = g + (i - n) - 1 /\ i \in n + 1 .. n + k
      BY <1>4, <1>12, <2>2
    <3>1. g = 0 /\ i = n + 1
      BY <1>1, <1>8, <3>2
    <3>3. c.out[i].slice = b.slice /\ c.out[i].chSeq = b.chSeq + (i - n) - 1
      BY <1>4, <2>2
    <3>4. c.out[i].slice = 0 /\ c.out[i].chSeq = 0
      BY <1>1, <1>6, <3>1, <3>3
    <3> QED BY <3>4 DEF Begins
  <2> QED BY <1>2, <2>1, <2>2
<1>9. ASSUME NEW i \in FramesIn(c.out), NEW j \in FramesIn(c.out),
             c.out[j].seq = c.out[i].seq + 1
      PROVE  Follows(c.out[i], c.out[j])
  <2>1. CASE i \in F /\ j \in F
    BY <1>2, <1>7, <1>9, <2>1
  <2>2. ASSUME i \in F, j \in new PROVE Follows(c.out[i], c.out[j])
    <3>1. j = n + 1 /\ b.out[i].seq = g - 1 /\ c.out[i] = b.out[i]
      <4>1. c.out[j].seq = g + (j - n) - 1 /\ j \in n + 1 .. n + k
        BY <1>4, <1>12, <2>2
      <4>2. c.out[i] = b.out[i] /\ c.out[i].seq \in Nat /\ c.out[i].seq < g
        BY <1>2, <1>3, <2>2
      <4>3. c.out[j].seq = c.out[i].seq + 1
        BY <1>9
      <4>4. j = n + 1 /\ c.out[i].seq = g - 1
        <5>1. PICK v \in Nat : v = c.out[i].seq /\ v < g /\ g + (j - n) - 1 = v + 1
          BY <4>1, <4>2, <4>3
        <5>2. j = n + 1 /\ v = g - 1
          BY ONLY <1>1, <4>1, <5>1
        <5> QED BY <5>1, <5>2
      <4> QED BY <4>2, <4>4
    <3>2. StandsBehind(b, b.out[i])
      BY <1>5, <2>2, <3>1
    <3>3. /\ c.out[j].slice = b.slice /\ c.out[j].channel = b.channel
          /\ c.out[j].chSeq = b.chSeq
      BY <1>1, <1>4, <1>12, <2>2, <3>1
    <3>4. CASE b.chSeq > 0
      <4>1. /\ b.out[i].slice = b.slice /\ b.out[i].channel = b.channel
            /\ b.out[i].chSeq = b.chSeq - 1 /\ ~b.out[i].end
            /\ b.out[i].channel # "archive_end"
        BY <3>2, <3>4 DEF StandsBehind
      <4>2. c.out[j].chSeq = b.out[i].chSeq + 1 /\ c.out[j].channel # "archive_end"
        BY <1>1, <3>3, <4>1
      <4> QED BY <3>1, <3>3, <4>1, <4>2 DEF Follows
    <3>5. CASE b.chSeq = 0
      <4>1. c.out[j].channel # "archive_end"
        BY <1>1, <3>3
      <4> QED BY <3>1, <3>2, <3>3, <3>5, <4>1 DEF Follows, StandsBehind
    <3> QED BY <1>1, <3>4, <3>5
  <2>3. ASSUME i \in new, j \in new
        PROVE  Follows(c.out[i], c.out[j])
    <3>1. j = i + 1 /\ k > 1
      <4>1. /\ c.out[j].seq = g + (j - n) - 1 /\ j \in n + 1 .. n + k
            /\ c.out[i].seq = g + (i - n) - 1 /\ i \in n + 1 .. n + k
        BY <1>4, <1>12, <2>3
      <4>2. c.out[j].seq = c.out[i].seq + 1
        BY <1>9
      <4> QED BY <1>1, <4>1, <4>2
    <3>2. c.pending # <<>>
      BY <3>1
    <3>3. /\ c.out[j].slice = c.out[i].slice /\ c.out[j].channel = c.out[i].channel
          /\ c.out[j].chSeq = c.out[i].chSeq + 1 /\ ~c.out[i].end
          /\ c.out[i].channel # "archive_end"
      <4>1. /\ c.out[j].slice = b.slice /\ c.out[j].channel = b.channel
            /\ c.out[j].chSeq = b.chSeq + (j - n) - 1
            /\ c.out[i].slice = b.slice /\ c.out[i].channel = b.channel
            /\ c.out[i].chSeq = b.chSeq + (i - n) - 1 /\ (c.out[i].end <=> c.pending = <<>>)
            /\ i \in n + 1 .. n + k
        BY <1>4, <1>12, <2>3
      <4>2. c.out[j].chSeq = c.out[i].chSeq + 1
        <5>1. (j - n) - 1 = ((i - n) - 1) + 1
          BY ONLY <1>1, <3>1, <4>1, k \in Nat
        <5>2. (i - n) - 1 \in Int /\ b.chSeq \in Int
          BY ONLY <1>1, <4>1, k \in Nat
        <5> QED BY ONLY <4>1, <5>1, <5>2
      <4> QED BY <1>1, <3>2, <4>1, <4>2
    <3> QED BY <3>3 DEF Follows
  <2>4. ASSUME i \in new, j \in F PROVE FALSE
    <3>1. c.out[i].seq = g + (i - n) - 1 /\ i \in n + 1 .. n + k
      BY <1>4, <1>12, <2>4
    <3>2. c.out[j].seq \in Nat /\ c.out[j].seq < g
      BY <1>2, <1>3, <2>4
    <3>3. c.out[j].seq = c.out[i].seq + 1
      BY <1>9
    <3> QED BY <1>1, <3>1, <3>2, <3>3
  <2> QED BY <1>2, <2>1, <2>2, <2>3, <2>4
<1>10. ASSUME NEW i \in FramesIn(c.out), c.out[i].seq = c.global - 1
       PROVE  StandsBehind(c, c.out[i])
  <2>1. CASE i \in F
    BY <1>1, <1>2, <1>3, <1>10, <2>1
  <2>2. ASSUME i \in new PROVE StandsBehind(c, c.out[i])
    <3>3. c.out[i].seq = g + (i - n) - 1 /\ i \in n + 1 .. n + k
      BY <1>4, <1>12, <2>2
    <3>1. i = n + k
      BY <1>1, <1>10, <3>3
    <3>2. /\ c.out[i].slice = c.slice /\ c.out[i].channel = c.channel
          /\ c.out[i].chSeq = c.chSeq - 1 /\ (c.out[i].end <=> c.pending = <<>>)
          /\ c.chSeq > 0 /\ c.channel # "archive_end" /\ c.chSeq \in Nat
      <4>1. /\ c.out[i].slice = b.slice /\ c.out[i].channel = b.channel
            /\ c.out[i].chSeq = b.chSeq + (i - n) - 1 /\ (c.out[i].end <=> c.pending = <<>>)
        BY <1>4, <2>2
      <4>2. c.chSeq = b.chSeq + k /\ c.chSeq > 0 /\ c.chSeq \in Nat
        BY <1>1
      <4>3. c.out[i].chSeq = c.chSeq - 1
        BY <1>1, <3>1, <4>1, <4>2
      <4> QED BY <1>1, <4>1, <4>2, <4>3
    <3> QED BY <3>2 DEF StandsBehind
  <2> QED BY <1>2, <2>1, <2>2
<1>11. c.global # 0
  BY <1>1
<1> QED BY <1>8, <1>9, <1>10, <1>11 DEF Linked, Tip

LEMMA NumbersDiffer ==
    ASSUME NEW q, NEW n, Numbered(q, n), FramesIn(q) \subseteq Nat,
           NEW i \in FramesIn(q), NEW j \in FramesIn(q), q[i].seq = q[j].seq,
           q[i].seq \in Nat
    PROVE  i = j
<1>1. i < j \/ j < i \/ i = j
  OBVIOUS
<1> QED BY <1>1 DEF Numbered

\* begin_channel, once the run before it has been flushed.
LEMMA BeginChannelKeeps ==
    ASSUME NEW b \in Builders, NEW s \in Nat, NEW ch \in {"content", "metadata"}
    PROVE  /\ BeginChannel(b, s, ch) \in Builders
           /\ BeginChannel(b, s, ch).out = b.out
           /\ BeginChannel(b, s, ch).global = b.global
           /\ BeginChannel(b, s, ch).pending = b.pending
           /\ BeginChannel(b, s, ch).slice = s
           /\ BeginChannel(b, s, ch).channel = ch
           /\ BeginChannel(b, s, ch).chSeq = 0
  BY DEF BeginChannel, Builders

LEMMA BuiltFrame ==
    ASSUME NEW b \in Builders, NEW i \in Nat \ {0}, NEW payload \in Seq(Payload)
    PROVE  /\ BuildFrame(b, i, payload, FALSE) \in FrameRecords
           /\ BuildFrame(b, i, payload, TRUE) \in FrameRecords
<1>1. b.global \in Nat /\ b.slice \in Nat /\ b.chSeq \in Nat
      /\ b.channel \in {"content", "metadata"}
  BY BuilderTypes
<1>2. b.global + i - 1 \in Nat /\ b.chSeq + i - 1 \in Nat
  BY <1>1
<1> QED BY <1>1, <1>2 DEF BuildFrame, FrameRecords

LEMMA SubSeqFacts ==
    ASSUME NEW S, NEW q \in Seq(S), NEW m \in Nat, NEW n \in Nat, m <= n, n <= Len(q)
    PROVE  /\ SubSeq(q, m + 1, n) \in Seq(S)
           /\ Len(SubSeq(q, m + 1, n)) = n - m
           /\ \A i \in 1 .. n - m : SubSeq(q, m + 1, n)[i] = q[m + i]
<1>1. Len(q) \in Nat /\ m + 1 \in 1 .. Len(q) + 1 /\ n \in (m + 1) - 1 .. Len(q)
  OBVIOUS
<1>2. /\ SubSeq(q, m + 1, n) \in Seq(S)
      /\ Len(SubSeq(q, m + 1, n)) = IF m + 1 <= n THEN n - (m + 1) + 1 ELSE 0
      /\ \A i \in 1 .. n - (m + 1) + 1 : SubSeq(q, m + 1, n)[i] = q[(m + 1) + i - 1]
  BY <1>1, SubSeqProperties
<1>3. \A i \in 1 .. n - m : (m + 1) + i - 1 = m + i
  OBVIOUS
<1> QED BY <1>1, <1>2, <1>3

LEMMA ConcatFacts ==
    ASSUME NEW S, NEW p \in Seq(S), NEW q \in Seq(S)
    PROVE  /\ p \o q \in Seq(S) /\ Len(p \o q) = Len(p) + Len(q)
           /\ \A i \in 1 .. Len(p) : (p \o q)[i] = p[i]
           /\ \A i \in Len(p) + 1 .. Len(p) + Len(q) : (p \o q)[i] = q[i - Len(p)]
    OBVIOUS

\* Bytes p, then bytes q; and what the bytes m + 1 to n are.
Joined(p, q) == p \o q
Piece(q, m, n) == SubSeq(q, m + 1, n)

LEMMA JoinedFacts ==
    ASSUME NEW p \in Seq(Payload), NEW q \in Seq(Payload)
    PROVE  /\ Joined(p, q) \in Seq(Payload)
           /\ Len(Joined(p, q)) = Len(p) + Len(q)
           /\ \A i \in 1 .. Len(p) : Joined(p, q)[i] = p[i]
           /\ \A i \in Len(p) + 1 .. Len(p) + Len(q) :
                  Joined(p, q)[i] = q[i - Len(p)]
           /\ Len(p) \in Nat /\ Len(q) \in Nat
    BY ConcatFacts DEF Joined

LEMMA PieceFacts ==
    ASSUME NEW q \in Seq(Payload), NEW m \in Nat, NEW n \in Nat,
           m <= n, n <= Len(q)
    PROVE  /\ Piece(q, m, n) \in Seq(Payload)
           /\ Len(Piece(q, m, n)) = n - m
           /\ \A i \in 1 .. n - m : Piece(q, m, n)[i] = q[m + i]
    BY SubSeqFacts DEF Piece

\* A builder that appends these frames.
LEMMA Appends ==
    ASSUME NEW b \in Builders, NEW c \in Builders, NEW k \in Nat,
           NEW g \in Seq(FrameRecords), Len(g) = k,
           c.global = b.global + k, c.chSeq = b.chSeq + k,
           c.slice = b.slice, c.channel = b.channel, c.out = b.out \o g,
           \A i \in 1 .. k : /\ g[i].seq = b.global + i - 1
                             /\ g[i].slice = b.slice /\ g[i].channel = b.channel
                             /\ g[i].chSeq = b.chSeq + i - 1 /\ (g[i].end <=> c.pending = <<>>)
    PROVE  /\ Grown(b, c, k)
           /\ \A i \in Len(b.out) + 1 .. Len(b.out) + k :
                  c.out[i] = g[i - Len(b.out)]
<1>1. Len(b.out) \in Nat /\ b.out \in Seq(QueueRecords) /\ g \in Seq(QueueRecords)
      /\ b.global \in Nat /\ b.chSeq \in Nat
  BY BuilderTypes, RecordTypes
<1> DEFINE n == Len(b.out)
<1>2. /\ Len(c.out) = Len(b.out) + Len(g)
      /\ \A i \in 1 .. Len(b.out) : c.out[i] = b.out[i]
      /\ \A i \in Len(b.out) + 1 .. Len(b.out) + Len(g) :
             c.out[i] = g[i - Len(b.out)]
  <2>1. /\ Len(b.out \o g) = Len(b.out) + Len(g)
        /\ \A i \in 1 .. Len(b.out) : (b.out \o g)[i] = b.out[i]
        /\ \A i \in Len(b.out) + 1 .. Len(b.out) + Len(g) :
               (b.out \o g)[i] = g[i - Len(b.out)]
    <3> HIDE DEF n
    <3> QED BY ONLY <1>1, ConcatFacts
  <2> QED BY <2>1
<1>3. n \in Nat /\ n = Len(b.out)
  BY <1>1
<1>4. /\ Len(c.out) = n + k
      /\ \A i \in 1 .. n : c.out[i] = b.out[i]
      /\ \A i \in n + 1 .. n + k : c.out[i] = g[i - n]
  BY <1>2
<1> HIDE DEF n
<1>5. ASSUME NEW i \in n + 1 .. n + k
      PROVE  /\ c.out[i] \in FrameRecords
             /\ c.out[i].seq = b.global + (i - n) - 1
             /\ c.out[i].slice = b.slice /\ c.out[i].channel = b.channel
             /\ c.out[i].chSeq = b.chSeq + (i - n) - 1
             /\ (c.out[i].end <=> c.pending = <<>>)
  <2>1. PICK j \in 1 .. k : j = i - n
    <3>1. i - n \in 1 .. k
      BY <1>3
    <3> QED BY <3>1
  <2>2. c.out[i] = g[j]
    BY <1>4, <2>1
  <2>3. g[j] \in FrameRecords
    BY ElementOfSeq
  <2>4. /\ g[j].seq = b.global + j - 1
        /\ g[j].slice = b.slice /\ g[j].channel = b.channel
        /\ g[j].chSeq = b.chSeq + j - 1 /\ (g[j].end <=> c.pending = <<>>)
    OBVIOUS
  <2> QED BY <2>1, <2>2, <2>3, <2>4
<1> QED BY <1>3, <1>4, <1>5 DEF Grown

\* The k frames c has more than b are the pieces of these bytes from the
\* n-th on.
Bodies(b, c, k, all, n) ==
    \A i \in 1 .. k : c.out[Len(b.out) + i].body
                          = Piece(all, Upto(n + (i - 1)), Upto(n + i))

LEMMA FeedGrows ==
    ASSUME NEW b \in Builders, NEW bytes \in Seq(Payload), bytes # <<>>,
           NEW all \in Seq(Payload), all = Joined(b.pending, bytes),
           NEW c, c = Feed(b, bytes)
    PROVE  \E k \in Nat :
               /\ Grown(b, c, k)
               /\ Upto(k) < Len(all) /\ Len(all) <= Upto(k + 1)
               /\ c.pending = Piece(all, Upto(k), Len(all)) /\ c.pending # <<>>
               /\ Bodies(b, c, k, all, 0)
<1>1. /\ b.pending \in Seq(Payload) /\ b.out \in Seq(QueueRecords)
      /\ b.global \in Nat /\ b.chSeq \in Nat /\ Len(b.out) \in Nat
  BY BuilderTypes
<1>2. Len(all) \in Nat \ {0} /\ all # <<>>
  BY <1>1 DEF Joined
<1> DEFINE k == (Len(all) - 1) \div Capacity
<1>3. k \in Nat /\ Upto(k) < Len(all) /\ Len(all) <= Upto(k + 1)
  BY <1>2, FullFrames
<1>4. c = CutFrames(b, all, k)
  BY <1>2 DEF Feed, Joined
<1> HIDE DEF k
<1> DEFINE piece(i) == Piece(all, Upto(i - 1), Upto(i))
           g == [i \in 1 .. k |-> BuildFrame(b, i, piece(i), FALSE)]
           rest == Piece(all, Upto(k), Len(all))
<1>5. ASSUME NEW i \in 1 .. k PROVE piece(i) \in Seq(Payload)
  <2>1. i \in Nat /\ i - 1 \in Nat /\ i - 1 < i
    BY <1>3
  <2>2. Upto(i - 1) \in Nat /\ Upto(i) \in Nat /\ Upto((i - 1) + 1) <= Upto(i)
        /\ Upto((i - 1) + 1) = Upto(i - 1) + Capacity /\ Capacity \in Nat
    BY <2>1, UptoFacts
  <2>3. i = k \/ i < k
    BY <1>3
  <2>4. Upto(i) <= Len(all)
    <3>1. CASE i = k
      BY <1>2, <1>3, <2>2, <3>1
    <3>2. CASE i < k
      <4>1. /\ Upto(i + 1) <= Upto(k) /\ Upto(i + 1) = Upto(i) + Capacity
            /\ Upto(k) \in Nat
        BY <1>3, <2>1, <3>2, UptoFacts
      <4> QED BY <1>2, <1>3, <2>2, <4>1
    <3> QED BY <2>3, <3>1, <3>2
  <2>5. Upto(i - 1) <= Upto(i)
    BY <2>1, <2>2
  <2> QED BY <2>2, <2>4, <2>5, PieceFacts
<1>6. rest \in Seq(Payload) /\ rest # <<>>
  <2>1. PICK u \in Nat, w \in Nat : u = Upto(k) /\ w = Len(all) /\ u < w
    BY <1>2, <1>3, UptoFacts
  <2>2. Piece(all, u, w) \in Seq(Payload) /\ Len(Piece(all, u, w)) = w - u
    <3>1. w <= Len(all) /\ u <= w
      BY <2>1
    <3> QED BY <3>1, PieceFacts
  <2>3. w - u # 0
    BY <2>1
  <2>4. rest = Piece(all, u, w)
    BY <2>1
  <2> HIDE DEF rest
  <2> QED BY <2>2, <2>3, <2>4
<1>7. c = [b EXCEPT !.global = @ + k, !.chSeq = @ + k, !.pending = rest,
                    !.out = @ \o g]
  BY <1>4 DEF CutFrames, Upto, Piece
<1> HIDE DEF piece, rest
<1>8. g \in Seq(FrameRecords) /\ Len(g) = k /\ DOMAIN g = 1 .. k
  <2>1. ASSUME NEW i \in 1 .. k
        PROVE  BuildFrame(b, i, piece(i), FALSE) \in FrameRecords
    <3>1. piece(i) \in Seq(Payload) /\ i \in Nat \ {0}
      BY <1>3, <1>5
    <3> QED BY <3>1, BuiltFrame
  <2>2. g \in [1 .. k -> FrameRecords] /\ k \in Nat
    BY <1>3, <2>1
  <2> HIDE DEF g
  <2> QED BY <2>2
<1>9. ASSUME NEW i \in 1 .. k
      PROVE  /\ g[i].seq = b.global + i - 1
             /\ g[i].slice = b.slice /\ g[i].channel = b.channel
             /\ g[i].chSeq = b.chSeq + i - 1 /\ ~g[i].end
             /\ g[i].body = piece(i)
  <2>1. PICK f : f = BuildFrame(b, i, piece(i), FALSE)
    OBVIOUS
  <2>2. g[i] = f
    BY <2>1
  <2> HIDE DEF g
  <2>3. /\ f.seq = b.global + i - 1 /\ f.slice = b.slice /\ f.channel = b.channel
        /\ f.chSeq = b.chSeq + i - 1 /\ ~f.end /\ f.body = piece(i)
    BY <2>1 DEF BuildFrame
  <2> QED BY <2>2, <2>3
<1> HIDE DEF g
<1>10. /\ c.global = b.global + k /\ c.chSeq = b.chSeq + k
       /\ c.slice = b.slice /\ c.channel = b.channel /\ c.out = b.out \o g
       /\ c.pending = rest
  BY <1>7 DEF Builders
<1>11. c \in Builders
  <2>1. /\ b.global + k \in Nat /\ b.chSeq + k \in Nat
    BY <1>1, <1>3
  <2>2. b.out \o g \in Seq(QueueRecords)
    BY <1>1, <1>8 DEF QueueRecords
  <2> QED BY <1>6, <1>7, <2>1, <2>2 DEF Builders
<1>12. \A i \in 1 .. k :
          /\ g[i].seq = b.global + i - 1
          /\ g[i].slice = b.slice /\ g[i].channel = b.channel
          /\ g[i].chSeq = b.chSeq + i - 1 /\ (g[i].end <=> c.pending = <<>>)
  BY <1>6, <1>9, <1>10
<1>13. /\ Grown(b, c, k)
       /\ \A i \in Len(b.out) + 1 .. Len(b.out) + k : c.out[i] = g[i - Len(b.out)]
  BY ONLY <1>3, <1>8, <1>10, <1>11, <1>12, Appends, b \in Builders
<1>14. ASSUME NEW i \in 1 .. k PROVE c.out[Len(b.out) + i].body = piece(i)
  <2>1. PICK j \in Nat : j = Len(b.out) + i
    BY <1>1
  <2>2. j \in Len(b.out) + 1 .. Len(b.out) + k /\ j - Len(b.out) = i
    BY <1>1, <1>3, <2>1
  <2>3. c.out[j] = g[i]
    BY <1>13, <2>2
  <2> QED BY <1>9, <2>1, <2>3
<1>15. Bodies(b, c, k, all, 0)
  <2>1. \A i \in 1 .. k : 0 + (i - 1) = i - 1 /\ 0 + i = i
    BY <1>3
  <2> QED BY <1>14, <2>1 DEF Bodies, piece
<1> QED BY <1>3, <1>6, <1>10, <1>13, <1>15 DEF rest

LEMMA FlushGrows ==
    ASSUME NEW b \in Builders, b.pending # <<>>, NEW c, c = Flush(b)
    PROVE  /\ Grown(b, c, 1)
           /\ c.pending = <<>>
           /\ c.out[Len(b.out) + 1].body = b.pending
<1>1. /\ b.pending \in Seq(Payload) /\ b.out \in Seq(QueueRecords)
      /\ b.global \in Nat /\ b.chSeq \in Nat /\ Len(b.out) \in Nat
  BY BuilderTypes
<1> DEFINE f == BuildFrame(b, 1, b.pending, TRUE)  g == <<f>>
<1>2. /\ f \in FrameRecords /\ f.seq = b.global + 1 - 1 /\ f.slice = b.slice
      /\ f.channel = b.channel /\ f.chSeq = b.chSeq + 1 - 1 /\ f.end
      /\ f.body = b.pending
  <2>1. f \in FrameRecords
    <3>1. 1 \in Nat \ {0}
      OBVIOUS
    <3> QED BY <1>1, <3>1, BuiltFrame
  <2> QED BY <2>1 DEF BuildFrame
<1>3. c = [b EXCEPT !.global = @ + 1, !.chSeq = @ + 1, !.pending = <<>>,
                    !.out = Append(@, f)]
  BY DEF Flush
<1> HIDE DEF f
<1>4. Append(b.out, f) = b.out \o g /\ f \in QueueRecords
  BY <1>1, <1>2, RecordTypes
<1>5. /\ c \in Builders /\ c.pending = <<>>
      /\ c.global = b.global + 1 /\ c.chSeq = b.chSeq + 1
      /\ c.slice = b.slice /\ c.channel = b.channel /\ c.out = b.out \o g
  <2>1. /\ b.global + 1 \in Nat /\ b.chSeq + 1 \in Nat
        /\ Append(b.out, f) \in Seq(QueueRecords) /\ <<>> \in Seq(Payload)
    BY <1>1, <1>4
  <2>2. c \in Builders
    BY <1>3, <2>1 DEF Builders
  <2> HIDE DEF g
  <2> QED BY <1>3, <1>4, <2>2 DEF Builders
<1>6. g \in Seq(FrameRecords) /\ Len(g) = 1 /\ g[1] = f
  BY <1>2
<1> HIDE DEF g
<1>7. \A i \in 1 .. 1 : /\ g[i].seq = b.global + i - 1
                        /\ g[i].slice = b.slice /\ g[i].channel = b.channel
                        /\ g[i].chSeq = b.chSeq + i - 1 /\ g[i].end
  BY <1>2, <1>6
<1>8. /\ Grown(b, c, 1)
      /\ \A i \in Len(b.out) + 1 .. Len(b.out) + 1 : c.out[i] = g[i - Len(b.out)]
  <2>2. PICK k \in Nat : k = 1
    OBVIOUS
  <2>3. /\ Len(g) = k /\ c.global = b.global + k /\ c.chSeq = b.chSeq + k
        /\ \A i \in 1 .. k :
               /\ g[i].seq = b.global + i - 1
               /\ g[i].slice = b.slice /\ g[i].channel = b.channel
               /\ g[i].chSeq = b.chSeq + i - 1 /\ (g[i].end <=> c.pending = <<>>)
    BY <1>5, <1>6, <1>7, <2>2
  <2>5. \A i \in 1 .. k : /\ g[i].seq = b.global + i - 1
                          /\ g[i].slice = b.slice /\ g[i].channel = b.channel
                          /\ g[i].chSeq = b.chSeq + i - 1 /\ (g[i].end <=> c.pending = <<>>)
    BY <2>3
  <2>4. /\ Grown(b, c, k)
        /\ \A i \in Len(b.out) + 1 .. Len(b.out) + k : c.out[i] = g[i - Len(b.out)]
    BY ONLY <1>5, <1>6, <2>3, <2>5, Appends, b \in Builders
  <2> QED BY <2>2, <2>4
<1>9. c.out[Len(b.out) + 1] = g[1]
  <2>1. Len(b.out) + 1 \in Len(b.out) + 1 .. Len(b.out) + 1
        /\ Len(b.out) + 1 - Len(b.out) = 1
    BY <1>1
  <2> QED BY <1>8, <2>1
<1> QED BY <1>2, <1>5, <1>6, <1>8, <1>9

LEMMA PiecesEqual ==
    ASSUME NEW p \in Seq(Payload), NEW q \in Seq(Payload),
           NEW x \in Nat, NEW y \in Nat, NEW v \in Nat, NEW w \in Nat,
           x <= y, y <= Len(q), v <= w, w <= Len(p),
           Len(Piece(q, x, y)) = Len(Piece(p, v, w)),
           \A i \in 1 .. Len(Piece(q, x, y)) : q[x + i] = p[v + i]
    PROVE  Piece(q, x, y) = Piece(p, v, w)
<1> DEFINE a == Piece(q, x, y)  c == Piece(p, v, w)
<1>1. a \in Seq(Payload) /\ Len(a) = y - x /\ \A i \in 1 .. y - x : a[i] = q[x + i]
  BY PieceFacts
<1>3. c \in Seq(Payload) /\ Len(c) = w - v /\ \A i \in 1 .. w - v : c[i] = p[v + i]
  BY PieceFacts
<1>2. Len(a) = Len(c) /\ \A i \in 1 .. Len(a) : q[x + i] = p[v + i]
  OBVIOUS
<1> HIDE DEF a, c
<1>4. \A i \in 1 .. Len(a) : a[i] = c[i]
  BY <1>1, <1>2, <1>3
<1>5. a = c
  BY ONLY <1>1, <1>2, <1>3, <1>4, SeqEqual
<1> QED BY <1>5 DEF a, c

\* A piece of what waited and what came, as a piece of all bytes.
LEMMA Shifted ==
    ASSUME NEW p \in Seq(Payload), NEW q \in Seq(Payload), NEW r \in Seq(Payload),
           NEW u \in Nat, u <= Len(p), r = Piece(p, u, Len(p)),
           NEW x \in Nat, NEW y \in Nat, x <= y, y <= Len(Joined(r, q)),
           NEW v \in Nat, v = u + x, NEW w \in Nat, w = u + y
    PROVE  Piece(Joined(r, q), x, y) = Piece(Joined(p, q), v, w)
<1>1. Len(p) \in Nat /\ Len(q) \in Nat /\ Len(r) \in Nat
  OBVIOUS
<1>2. /\ Len(r) = Len(p) - u
      /\ \A i \in 1 .. Len(p) - u : r[i] = p[u + i]
  <2>1. PICK n \in Nat : n = Len(p)
    BY <1>1
  <2>2. r = Piece(p, u, n) /\ u <= n /\ n <= Len(p)
    BY <2>1
  <2>3. Len(r) = n - u /\ \A i \in 1 .. n - u : r[i] = p[u + i]
    <3>1. u <= n /\ n <= Len(p)
      BY ONLY <2>2
    <3>2. /\ Len(Piece(p, u, n)) = n - u
          /\ \A i \in 1 .. n - u : Piece(p, u, n)[i] = p[u + i]
      BY ONLY <3>1, PieceFacts, p \in Seq(Payload), u \in Nat, n \in Nat
    <3> QED BY ONLY <2>2, <3>2
  <2> QED BY <2>1, <2>3
<1> DEFINE pq == Joined(p, q)  rq == Joined(r, q)
<1>3. /\ pq \in Seq(Payload) /\ Len(pq) = Len(p) + Len(q)
      /\ \A i \in 1 .. Len(p) : pq[i] = p[i]
      /\ \A i \in Len(p) + 1 .. Len(p) + Len(q) : pq[i] = q[i - Len(p)]
  BY JoinedFacts
<1>4. /\ rq \in Seq(Payload) /\ Len(rq) = Len(r) + Len(q)
      /\ \A i \in 1 .. Len(r) : rq[i] = r[i]
      /\ \A i \in Len(r) + 1 .. Len(r) + Len(q) : rq[i] = q[i - Len(r)]
  BY JoinedFacts
<1>8. y <= Len(rq)
  OBVIOUS
<1> HIDE DEF pq, rq
<1>5. ASSUME NEW i \in x + 1 .. y PROVE rq[i] = pq[u + i]
  <2>1. CASE i <= Len(r)
    <3>1. i \in 1 .. Len(r) /\ u + i \in 1 .. Len(p) /\ i \in 1 .. Len(p) - u
      BY <1>1, <1>2, <2>1
    <3> QED BY <1>2, <1>3, <1>4, <3>1
  <2>2. CASE i > Len(r)
    <3>1. /\ i \in Len(r) + 1 .. Len(r) + Len(q)
          /\ u + i \in Len(p) + 1 .. Len(p) + Len(q)
          /\ (u + i) - Len(p) = i - Len(r)
      <4>1. i \in Nat /\ i <= Len(r) + Len(q)
        BY <1>1, <1>4, <1>8
      <4>2. PICK m \in Nat, n \in Nat, l \in Nat : m = Len(p) /\ n = Len(q) /\ l = Len(r)
        BY <1>1
      <4>3. l = m - u /\ i > l /\ i <= l + n
        BY <1>2, <2>2, <4>1, <4>2
      <4>4. i \in l + 1 .. l + n /\ u + i \in m + 1 .. m + n /\ (u + i) - m = i - l
        BY ONLY <4>1, <4>3, u \in Nat, m \in Nat, n \in Nat, l \in Nat
      <4> QED BY <4>2, <4>4
    <3>2. rq[i] = q[i - Len(r)] /\ pq[u + i] = q[(u + i) - Len(p)]
      BY ONLY <1>3, <1>4, <3>1
    <3> QED BY <3>1, <3>2
  <2>3. i <= Len(r) \/ i > Len(r)
    BY <1>1
  <2> QED BY <2>1, <2>2, <2>3
<1>6. w <= Len(pq) /\ w - v = y - x
  BY <1>1, <1>2, <1>3, <1>4, <1>8
<1>9. ASSUME NEW i \in 1 .. y - x PROVE rq[x + i] = pq[v + i]
  <2>1. PICK j \in x + 1 .. y : j = x + i
    OBVIOUS
  <2>2. rq[j] = pq[u + j] /\ u + j = v + i
    BY <1>5, <2>1
  <2> QED BY <2>1, <2>2
<1>7. Piece(rq, x, y) = Piece(pq, v, w)
  <2>1. \A i \in 1 .. y - x : rq[x + i] = pq[v + i]
    BY <1>9
  <2>2. pq \in Seq(Payload) /\ rq \in Seq(Payload) /\ x <= y /\ v <= w
    BY <1>3, <1>4
  <2>3. Len(Piece(rq, x, y)) = y - x /\ Len(Piece(pq, v, w)) = w - v
    BY ONLY <1>6, <1>8, <2>2, PieceFacts, x \in Nat, y \in Nat, v \in Nat, w \in Nat
  <2>4. /\ Len(Piece(rq, x, y)) = Len(Piece(pq, v, w))
        /\ \A i \in 1 .. Len(Piece(rq, x, y)) : rq[x + i] = pq[v + i]
    BY ONLY <1>6, <2>1, <2>3
  <2> QED BY ONLY <1>6, <1>8, <2>2, <2>4, PiecesEqual, x \in Nat, y \in Nat,
                  v \in Nat, w \in Nat
<1> QED BY <1>7 DEF pq, rq

\* A piece of the bytes stays what it is when more bytes come.
LEMMA Prefixed ==
    ASSUME NEW p \in Seq(Payload), NEW q \in Seq(Payload),
           NEW x \in Nat, NEW y \in Nat, x <= y, y <= Len(p)
    PROVE  Piece(Joined(p, q), x, y) = Piece(p, x, y)
<1>1. Len(p) \in Nat /\ Len(q) \in Nat
  OBVIOUS
<1> DEFINE pq == Joined(p, q)
<1>2. /\ pq \in Seq(Payload) /\ Len(pq) = Len(p) + Len(q)
      /\ \A i \in 1 .. Len(p) : pq[i] = p[i]
  BY JoinedFacts
<1> HIDE DEF pq
<1>3. y <= Len(pq) /\ \A i \in 1 .. y - x : x + i \in 1 .. Len(p)
  BY <1>1, <1>2
<1>5. \A i \in 1 .. y - x : pq[x + i] = p[x + i]
  BY <1>2, <1>3
<1>4. Piece(pq, x, y) = Piece(p, x, y)
  <2>1. pq \in Seq(Payload)
    BY <1>2
  <2>2. Len(Piece(pq, x, y)) = y - x /\ Len(Piece(p, x, y)) = y - x
    BY <1>3, <2>1, PieceFacts
  <2>3. /\ Len(Piece(pq, x, y)) = Len(Piece(p, x, y))
        /\ \A i \in 1 .. Len(Piece(pq, x, y)) : pq[x + i] = p[x + i]
    BY ONLY <1>5, <2>2
  <2> QED BY ONLY <1>3, <2>1, <2>3, PiecesEqual, x \in Nat, y \in Nat, x <= y,
                  y <= Len(p), p \in Seq(Payload)
<1> QED BY <1>4 DEF pq

LEMMA HeldMeans ==
    ASSUME NEW b, NEW all
    PROVE  Held(b, all) <=>
               /\ Upto(b.chSeq) + Len(b.pending) = Len(all)
               /\ b.pending = Piece(all, Upto(b.chSeq), Len(all))
    BY DEF Held, Piece

LEMMA SharesMeans ==
    ASSUME NEW f, NEW all
    PROVE  Shares(f, all) <=>
               /\ Upto(f.chSeq) < Len(all)
               /\ f.body = Piece(all, Upto(f.chSeq),
                                 IF Upto(f.chSeq + 1) < Len(all)
                                 THEN Upto(f.chSeq + 1) ELSE Len(all))
               /\ f.end <=> Len(all) <= Upto(f.chSeq + 1)
    BY DEF Shares, Share, Piece, Upto

LEMMA RunGrows ==
    ASSUME NEW b \in Builders, NEW c, NEW k \in Nat,
           Grown(b, c, k)
    PROVE  /\ b.channel = "content" =>
                  RunOf(c.out, b.slice + 1)
                      = RunOf(b.out, b.slice + 1)
                            \cup (Len(b.out) + 1 .. Len(b.out) + k)
           /\ b.channel # "content" =>
                  RunOf(c.out, b.slice + 1) = RunOf(b.out, b.slice + 1)
           /\ \A s \in Nat \ {b.slice + 1} : RunOf(c.out, s) = RunOf(b.out, s)
           /\ \A s \in Nat : /\ RunOf(b.out, s) \subseteq DOMAIN b.out
                             /\ \A i \in RunOf(b.out, s) : c.out[i] = b.out[i]
<1> DEFINE new == Len(b.out) + 1 .. Len(b.out) + k
<1>1. DOMAIN c.out = DOMAIN b.out \cup new /\ \A i \in DOMAIN b.out : c.out[i] = b.out[i]
  BY FramesGrow
<1>2. \A i \in new : c.out[i].slice = b.slice /\ c.out[i].channel = b.channel
  BY DEF Grown
<1>3. b.slice \in Nat /\ (b.slice + 1) - 1 = b.slice
  BY BuilderTypes
<1>4. \A i \in new : i \notin DOMAIN b.out
  BY BuilderTypes
<1> HIDE DEF new
<1>5. ASSUME NEW s \in Nat \ {b.slice + 1}
      PROVE  RunOf(c.out, s) = RunOf(b.out, s)
  <2>1. s - 1 # b.slice
    BY <1>3
  <2> QED BY <1>1, <1>2, <2>1 DEF RunOf
<1>6. ASSUME b.channel # "content"
      PROVE  RunOf(c.out, b.slice + 1) = RunOf(b.out, b.slice + 1)
  BY <1>1, <1>2, <1>6 DEF RunOf
<1>7. ASSUME b.channel = "content"
      PROVE  RunOf(c.out, b.slice + 1) = RunOf(b.out, b.slice + 1) \cup new
  BY <1>1, <1>2, <1>3, <1>7 DEF RunOf
<1>8. ASSUME NEW s \in Nat
      PROVE  /\ RunOf(b.out, s) \subseteq DOMAIN b.out
             /\ \A i \in RunOf(b.out, s) : c.out[i] = b.out[i]
  BY <1>1 DEF RunOf
<1> QED BY <1>5, <1>6, <1>7, <1>8 DEF new

\* A frame's share stays what it is when more bytes come behind it.
LEMMA ShareStays ==
    ASSUME NEW f, f.chSeq \in Nat, NEW all \in Seq(Payload),
           NEW bytes \in Seq(Payload), Shares(f, all),
           Upto(f.chSeq + 1) < Len(all)
    PROVE  Shares(f, Joined(all, bytes))
<1> DEFINE k == f.chSeq  total == Joined(all, bytes)
<1>1. /\ Len(all) \in Nat /\ Len(bytes) \in Nat
      /\ Len(total) = Len(all) + Len(bytes)
  BY JoinedFacts
<1>2. Upto(k) \in Nat /\ Upto(k + 1) \in Nat /\ Upto(k) <= Upto(k + 1)
  <2>1. k \in Nat /\ k + 1 \in Nat
    OBVIOUS
  <2> HIDE DEF k, total
  <2>2. /\ Upto(k) \in Nat /\ Upto(k + 1) \in Nat /\ Capacity \in Nat
        /\ Upto(k + 1) = Upto(k) + Capacity
    BY <2>1, UptoFacts
  <2> QED BY <2>2
<1>3. Upto(k + 1) < Len(all) /\ Upto(k + 1) < Len(total)
  BY <1>1, <1>2
<1>4. f.body = Piece(all, Upto(k), Upto(k + 1)) /\ Upto(k) < Len(all)
      /\ ~f.end
  <2>1. ~(Len(all) <= Upto(k + 1))
    BY <1>1, <1>2, <1>3
  <2> QED BY <1>3, <2>1, SharesMeans
<1>5. Piece(total, Upto(k), Upto(k + 1)) = Piece(all, Upto(k), Upto(k + 1))
  <2>1. Upto(k + 1) <= Len(all)
    BY <1>1, <1>2, <1>3
  <2> QED BY <1>2, <2>1, Prefixed
<1>6. Upto(k) < Len(total) /\ ~(Len(total) <= Upto(k + 1))
  BY <1>1, <1>2, <1>3
<1> HIDE DEF total
<1>7. Shares(f, total)
  BY <1>3, <1>4, <1>5, <1>6, SharesMeans
<1> QED BY <1>7 DEF total

LEMMA RunBounds ==
    ASSUME NEW b \in Builders, NEW all \in Seq(Payload), Held(b, all),
           b.chSeq > 0 => b.pending # <<>>, RunInv(b, all),
           NEW i \in RunOf(b.out, b.slice + 1)
    PROVE  /\ b.out[i].chSeq \in Nat /\ b.out[i].chSeq < b.chSeq
           /\ Upto(b.out[i].chSeq + 1) < Len(all)
           /\ i \in Nat /\ i <= Len(b.out)
<1>1. i \in DOMAIN b.out /\ b.out[i].channel = "content" /\ b.out[i].chSeq < b.chSeq
  BY DEF RunOf, RunInv
<1>2. i \in 1 .. Len(b.out) /\ i \in FramesIn(b.out) /\ b.chSeq \in Nat
      /\ Len(b.pending) \in Nat /\ b.pending \in Seq(Payload) /\ Len(b.out) \in Nat
  BY <1>1, BuilderTypes DEF FramesIn
<1>3. b.out[i].chSeq \in Nat
  BY <1>2, BuilderTypes, RecordTypes
<1>4. Upto(b.out[i].chSeq + 1) <= Upto(b.chSeq) /\ Upto(b.chSeq) \in Nat
      /\ Upto(b.out[i].chSeq + 1) \in Nat
  <2>1. PICK j \in Nat : j = b.out[i].chSeq
    BY <1>3
  <2>2. j < b.chSeq /\ j + 1 \in Nat
    BY <1>1, <2>1
  <2> QED BY <1>2, <2>1, <2>2, UptoFacts
<1>5. Upto(b.chSeq) + Len(b.pending) = Len(all)
  BY DEF Held
<1>6. Len(b.pending) > 0
  <2>1. b.pending # <<>>
    BY <1>1, <1>2, <1>3
  <2> QED BY <1>2, <2>1
<1>7. Upto(b.out[i].chSeq + 1) < Len(all)
  BY <1>2, <1>4, <1>5, <1>6
<1> QED BY <1>1, <1>2, <1>3, <1>7

LEMMA FeedCuts ==
    ASSUME NEW b \in Builders, NEW all \in Seq(Payload),
           NEW bytes \in Seq(Payload), bytes # <<>>, Held(b, all),
           NEW c, c = Feed(b, bytes), NEW total, total = Joined(all, bytes)
    PROVE  \E k \in Nat :
               /\ Grown(b, c, k)
               /\ c.pending # <<>>
               /\ Upto(c.chSeq) < Len(total) /\ Len(total) <= Upto(c.chSeq + 1)
               /\ c.pending = Piece(total, Upto(c.chSeq), Len(total))
               /\ Bodies(b, c, k, total, b.chSeq)
<1>2. /\ b.chSeq \in Nat /\ b.pending \in Seq(Payload) /\ Len(b.out) \in Nat
      /\ Len(b.pending) \in Nat /\ Len(all) \in Nat /\ Len(bytes) \in Nat
  BY BuilderTypes
<1> DEFINE local == Joined(b.pending, bytes)  u == Upto(b.chSeq)
<1>5. /\ local \in Seq(Payload) /\ Len(local) = Len(b.pending) + Len(bytes)
      /\ Len(total) = Len(all) + Len(bytes) /\ total \in Seq(Payload)
      /\ Len(local) \in Nat /\ Len(total) \in Nat
  <2>1. local \in Seq(Payload) /\ Len(local) = Len(b.pending) + Len(bytes)
    BY <1>2, JoinedFacts
  <2>2. total \in Seq(Payload) /\ Len(total) = Len(all) + Len(bytes)
    BY <1>2, JoinedFacts
  <2> HIDE DEF local
  <2> QED BY <1>2, <2>1, <2>2
<1>10. local = Joined(b.pending, bytes)
  OBVIOUS
<1> HIDE DEF local
<1>1. PICK k \in Nat :
          /\ Grown(b, c, k)
          /\ Upto(k) < Len(local) /\ Len(local) <= Upto(k + 1)
          /\ c.pending = Piece(local, Upto(k), Len(local)) /\ c.pending # <<>>
          /\ Bodies(b, c, k, local, 0)
  <2>1. PICK l \in Seq(Payload) : l = local
    BY <1>5
  <2>2. l = Joined(b.pending, bytes)
    BY <1>10, <2>1
  <2>3. \E k \in Nat :
          /\ Grown(b, c, k)
          /\ Upto(k) < Len(l) /\ Len(l) <= Upto(k + 1)
          /\ c.pending = Piece(l, Upto(k), Len(l)) /\ c.pending # <<>>
          /\ Bodies(b, c, k, l, 0)
    BY ONLY <2>2, FeedGrows, b \in Builders, bytes \in Seq(Payload),
       bytes # <<>>, c = Feed(b, bytes), l \in Seq(Payload)
  <2> QED BY <2>1, <2>3
<1>4. b.pending = Piece(all, u, Len(all)) /\ u + Len(b.pending) = Len(all)
  BY HeldMeans
<1>3. u \in Nat /\ u <= Len(all)
  <2>1. u \in Nat
    BY <1>2, UptoFacts
  <2> HIDE DEF u
  <2> QED BY <1>2, <1>4, <2>1
<1>6. u + Len(local) = Len(total)
  <2> HIDE DEF u
  <2>1. PICK l \in Nat, t \in Nat, m \in Nat, n \in Nat, a \in Nat :
            l = Len(local) /\ t = Len(total) /\ m = Len(b.pending)
            /\ n = Len(bytes) /\ a = Len(all)
    BY <1>2, <1>5
  <2>2. u + m = a /\ l = m + n /\ t = a + n
    BY <1>4, <1>5, <2>1
  <2>3. u + l = t
    BY ONLY <1>3, <2>2, l \in Nat, t \in Nat, m \in Nat, n \in Nat, a \in Nat
  <2> QED BY <2>1, <2>3
<1>7. ASSUME NEW x \in Nat, NEW y \in Nat, x <= y, y <= Len(local),
             NEW v \in Nat, NEW w \in Nat, v = u + x, w = u + y
      PROVE  Piece(local, x, y) = Piece(total, v, w)
  <2>1. PICK r \in Seq(Payload) : r = b.pending
    BY <1>2
  <2> HIDE DEF u
  <2>2. r = Piece(all, u, Len(all)) /\ y <= Len(Joined(r, bytes))
        /\ local = Joined(r, bytes)
    BY <1>4, <1>7, <1>10, <2>1
  <2>3. Piece(Joined(r, bytes), x, y) = Piece(Joined(all, bytes), v, w)
    BY ONLY <1>3, <1>7, <2>2, Shifted, all \in Seq(Payload), r \in Seq(Payload),
       bytes \in Seq(Payload), x \in Nat, y \in Nat, v \in Nat, w \in Nat
  <2> QED BY <2>2, <2>3
<1> HIDE DEF u
<1>8. c.chSeq = b.chSeq + k
  BY <1>1 DEF Grown
<1>9. /\ Upto(k) \in Nat /\ Upto(k + 1) = Upto(k) + Capacity
      /\ Upto(c.chSeq) = u + Upto(k) /\ Upto(c.chSeq + 1) = Upto(c.chSeq) + Capacity
      /\ Upto(c.chSeq) \in Nat /\ Capacity \in Nat
  <2>1. c.chSeq \in Nat
    BY <1>2, <1>8
  <2> QED BY <1>2, <1>8, <2>1, UptoFacts DEF u
<1>11. Upto(c.chSeq) < Len(total) /\ Len(total) <= Upto(c.chSeq + 1)
  <2>1. Upto(k) < Len(local) /\ Len(local) <= Upto(k + 1)
    BY <1>1
  <2>2. PICK x \in Nat, l \in Nat, t \in Nat :
            x = Upto(k) /\ l = Len(local) /\ t = Len(total)
    BY <1>5, <1>9
  <2>3. u + l = t /\ x < l /\ l <= x + Capacity
    BY ONLY <1>6, <1>9, <2>1, <2>2
  <2>4. u + x < t /\ t <= (u + x) + Capacity
    BY ONLY <1>3, <1>9, <2>3, x \in Nat, l \in Nat, t \in Nat
  <2> QED BY ONLY <1>9, <2>2, <2>4
<1>12. c.pending = Piece(total, Upto(c.chSeq), Len(total))
  <2>1. PICK x \in Nat, y \in Nat : x = Upto(k) /\ y = Len(local)
    BY <1>5, <1>9
  <2>2. PICK v \in Nat, w \in Nat : v = Upto(c.chSeq) /\ w = Len(total)
    BY <1>5, <1>9
  <2>3. v = u + x /\ w = u + y /\ x <= y /\ y <= Len(local)
    BY <1>1, <1>6, <1>9, <2>1, <2>2
  <2>4. Piece(local, x, y) = Piece(total, v, w)
    BY ONLY <1>7, <2>3, x \in Nat, y \in Nat, v \in Nat, w \in Nat
  <2> QED BY <1>1, <2>1, <2>2, <2>4
<1>13. ASSUME NEW i \in 1 .. k
       PROVE  c.out[Len(b.out) + i].body
                  = Piece(total, Upto(b.chSeq + (i - 1)), Upto(b.chSeq + i))
  <2>1. PICK j \in Nat : j = i - 1 /\ i = j + 1 /\ j < k
    <3>1. i - 1 \in Nat /\ i = (i - 1) + 1 /\ i - 1 < k
      OBVIOUS
    <3> QED BY <3>1
  <2>2. c.out[Len(b.out) + i].body = Piece(local, Upto(j), Upto(j + 1))
    <3>1. 0 + (i - 1) = j /\ 0 + i = j + 1
      BY <2>1
    <3> QED BY <1>1, <3>1 DEF Bodies
  <2>3. /\ Upto(j) \in Nat /\ Upto(j + 1) = Upto(j) + Capacity
        /\ Upto(j + 1) <= Upto(k) /\ Upto(b.chSeq + j) = u + Upto(j)
        /\ Upto(b.chSeq + (j + 1)) = u + Upto(j + 1)
    <3>1. j + 1 \in Nat
      BY <2>1
    <3> QED BY <1>2, <2>1, <3>1, UptoFacts DEF u
  <2>4. PICK x \in Nat, y \in Nat : x = Upto(j) /\ y = Upto(j + 1)
    BY <1>9, <2>3
  <2>5. PICK v \in Nat, w \in Nat :
            v = Upto(b.chSeq + j) /\ w = Upto(b.chSeq + (j + 1))
    <3>1. u + Upto(j) \in Nat /\ u + Upto(j + 1) \in Nat
      <4>1. u + x \in Nat /\ u + y \in Nat
        BY ONLY <1>3, x \in Nat, y \in Nat
      <4> QED BY ONLY <2>4, <4>1
    <3>2. Upto(b.chSeq + j) \in Nat /\ Upto(b.chSeq + (j + 1)) \in Nat
      BY ONLY <2>3, <3>1
    <3> QED BY ONLY <3>2
  <2>6. v = u + x /\ w = u + y /\ x <= y /\ y <= Len(local)
    <3>1. y = x + Capacity /\ y <= Upto(k) /\ Upto(k) < Len(local)
      BY <1>1, <2>3, <2>4
    <3>2. v = u + x /\ w = u + y
      BY ONLY <2>3, <2>4, <2>5
    <3>3. x <= y
      BY ONLY <1>9, <3>1, x \in Nat, y \in Nat
    <3>4. y <= Len(local)
      BY ONLY <1>5, <1>9, <3>1, y \in Nat
    <3> QED BY ONLY <3>2, <3>3, <3>4
  <2>7. Piece(local, x, y) = Piece(total, v, w)
    BY ONLY <1>7, <2>6, x \in Nat, y \in Nat, v \in Nat, w \in Nat
  <2>8. b.chSeq + (i - 1) = b.chSeq + j /\ b.chSeq + i = b.chSeq + (j + 1)
    BY <2>1
  <2> QED BY <2>2, <2>4, <2>5, <2>7, <2>8
<1>14. Bodies(b, c, k, total, b.chSeq)
  BY <1>13 DEF Bodies
<1> QED BY <1>1, <1>11, <1>12, <1>14

\* Frames that hold their shares and continue the run keep it cut.
LEMMA RunContinues ==
    ASSUME NEW b \in Builders, NEW c, NEW k \in Nat, Grown(b, c, k),
           b.channel = "content", NEW total \in Seq(Payload),
           \A i \in RunOf(b.out, b.slice + 1) :
               Shares(b.out[i], total) /\ b.out[i].chSeq < b.chSeq,
           \A i, j \in RunOf(b.out, b.slice + 1) :
               i < j => b.out[i].chSeq < b.out[j].chSeq,
           \A j \in Nat : j < b.chSeq => \E i \in RunOf(b.out, b.slice + 1) :
                                             b.out[i].chSeq = j,
           \A i \in 1 .. k : Shares(c.out[Len(b.out) + i], total),
           c.pending # <<>> \/ Len(total) <= Upto(c.chSeq)
    PROVE  RunInv(c, total)
<1> DEFINE n == Len(b.out)  new == n + 1 .. n + k  R == RunOf(b.out, b.slice + 1)
           m == b.chSeq
<1>1. /\ RunOf(c.out, b.slice + 1) = R \cup new
      /\ \A i \in R : c.out[i] = b.out[i]
      /\ R \subseteq DOMAIN b.out
  <2>1. b.slice + 1 \in Nat
    BY BuilderTypes
  <2> QED BY <2>1, RunGrows
<1>2. n \in Nat /\ m \in Nat /\ DOMAIN b.out = 1 .. n /\ c.chSeq = m + k
      /\ c.slice = b.slice
  BY BuilderTypes DEF Grown
<1>3. \A i \in new : i \in n + 1 .. n + k /\ c.out[i].chSeq = m + (i - n) - 1
  BY DEF Grown
<1>4. \A i \in R : /\ Shares(b.out[i], total) /\ b.out[i].chSeq < m
                   /\ b.out[i].chSeq \in Nat /\ i \in 1 .. n
  <2>1. ASSUME NEW i \in R
        PROVE  b.out[i].chSeq \in Nat /\ i \in 1 .. n
    <3>1. i \in 1 .. n /\ b.out[i].channel = "content"
      BY <1>1, <1>2 DEF RunOf
    <3>2. i \in FramesIn(b.out)
      BY <1>2, <3>1 DEF FramesIn
    <3>3. b.out[i] \in FrameRecords
      BY <3>2, BuilderTypes
    <3> QED BY <3>1, <3>3, RecordTypes
  <2> QED BY <2>1
<1>5. \A i, j \in R : i < j => b.out[i].chSeq < b.out[j].chSeq
  OBVIOUS
<1>6. \A j \in Nat : j < m => \E i \in R : b.out[i].chSeq = j
  OBVIOUS
<1>7. ASSUME NEW i \in new PROVE Shares(c.out[i], total)
  <2>1. PICK j \in 1 .. k : j = i - n /\ n + j = i
    <3>1. i - n \in 1 .. k /\ n + (i - n) = i
      BY <1>2, <1>3
    <3> QED BY <3>1
  <2>2. Shares(c.out[Len(b.out) + j], total)
    OBVIOUS
  <2> QED BY <2>1, <2>2
<1>8. \A i \in n + 1 .. n + k : i \in new
  OBVIOUS
<1> HIDE DEF n, new, R, m
<1>9. \A i \in R \cup new : Shares(c.out[i], total)
  BY <1>1, <1>4, <1>7
<1>10. ASSUME NEW i \in R \cup new, NEW j \in R \cup new, i < j
       PROVE  c.out[i].chSeq < c.out[j].chSeq
  <2>1. CASE i \in R /\ j \in R
    BY <1>1, <1>5, <1>10, <2>1
  <2>2. ASSUME i \in R, j \in new PROVE c.out[i].chSeq < c.out[j].chSeq
    <3>1. c.out[i].chSeq \in Nat /\ c.out[i].chSeq < m
      BY <1>1, <1>4, <2>2
    <3>2. c.out[j].chSeq = m + (j - n) - 1 /\ j \in n + 1 .. n + k
      BY <1>3, <2>2
    <3> QED BY <1>2, <3>1, <3>2
  <2>3. ASSUME i \in new, j \in new PROVE c.out[i].chSeq < c.out[j].chSeq
    <3>1. /\ c.out[i].chSeq = m + (i - n) - 1 /\ i \in n + 1 .. n + k
          /\ c.out[j].chSeq = m + (j - n) - 1 /\ j \in n + 1 .. n + k
      BY <1>3, <2>3
    <3> QED BY <1>2, <1>10, <3>1
  <2>4. ASSUME i \in new, j \in R PROVE FALSE
    <3>1. i \in n + 1 .. n + k /\ j \in 1 .. n
      BY <1>3, <1>4, <2>4
    <3> QED BY <1>2, <1>10, <3>1
  <2> QED BY <2>1, <2>2, <2>3, <2>4
<1>11. ASSUME NEW i \in R \cup new PROVE c.out[i].chSeq < m + k
  <2>1. CASE i \in R
    <3>1. c.out[i].chSeq \in Nat /\ c.out[i].chSeq < m
      BY <1>1, <1>4, <2>1
    <3> QED BY <1>2, <3>1
  <2>2. CASE i \in new
    <3>1. c.out[i].chSeq = m + (i - n) - 1 /\ i \in n + 1 .. n + k
      BY <1>3, <2>2
    <3> QED BY <1>2, <3>1
  <2> QED BY <2>1, <2>2
<1>12. ASSUME NEW j \in Nat, j < m + k
       PROVE  \E i \in R \cup new : c.out[i].chSeq = j
  <2>1. CASE j < m
    BY <1>1, <1>6, <2>1
  <2>2. CASE j >= m
    <3>1. PICK i \in n + 1 .. n + k : i = n + (j - m) + 1
      <4>1. n + (j - m) + 1 \in n + 1 .. n + k
        BY <1>2, <1>12, <2>2
      <4> QED BY <4>1
    <3>2. c.out[i].chSeq = m + (i - n) - 1
      BY <1>3, <1>8
    <3>3. c.out[i].chSeq = j
      BY <1>2, <3>1, <3>2
    <3> QED BY <1>8, <3>3
  <2>3. j < m \/ j >= m
    BY <1>2
  <2> QED BY <2>1, <2>2, <2>3
<1>13. ASSUME NEW j \in 0 .. Len(total), Upto(j) < Len(total)
       PROVE  \/ \E i \in R \cup new : c.out[i].chSeq = j
              \/ j >= m + k /\ c.pending # <<>>
  <2>0. j \in Nat /\ Len(total) \in Nat
    OBVIOUS
  <2>1. CASE j < m + k
    BY <1>12, <2>0, <2>1
  <2>2. CASE j >= m + k
    <3>1. c.pending # <<>>
      <4>1. SUFFICES ASSUME c.pending = <<>> PROVE FALSE
        OBVIOUS
      <4>2. Len(total) <= Upto(m + k)
        BY <1>2, <4>1
      <4>3. Upto(m + k) <= Upto(j) /\ Upto(j) \in Nat /\ Upto(m + k) \in Nat
        <5>1. PICK d \in Nat : j = (m + k) + d
          <6>1. j - (m + k) \in Nat /\ j = (m + k) + (j - (m + k))
            BY <1>2, <2>0, <2>2
          <6> QED BY <6>1
        <5>2. m + k \in Nat
          BY <1>2
        <5>3. Upto(j) = Upto(m + k) + Upto(d) /\ Upto(d) \in Nat /\ Upto(m + k) \in Nat
          BY <5>1, <5>2, UptoFacts
        <5> QED BY <5>3
      <4> QED BY <1>13, <2>0, <4>2, <4>3
    <3> QED BY <2>2, <3>1
  <2>3. j < m + k \/ j >= m + k
    BY <1>2, <2>0
  <2> QED BY <2>1, <2>2, <2>3
<1>14. RunOf(c.out, c.slice + 1) = R \cup new
  BY <1>1, <1>2
<1>15. Cut(c.out, c.slice + 1, total)
  BY <1>9, <1>10, <1>14 DEF Cut
<1> QED BY <1>2, <1>11, <1>13, <1>14, <1>15 DEF RunInv

LEMMA UptoMore == \A j \in Nat : j <= Upto(j)
<1>1. \A j \in Nat : j <= j * Capacity
  BY CapacityAssumption
<1> QED BY <1>1 DEF Upto

\* What is in frames of the run of the bytes.
LEMMA RunCovers ==
    ASSUME NEW b \in Builders, NEW all \in Seq(Payload), Held(b, all),
           RunInv(b, all), NEW j \in Nat, j < b.chSeq
    PROVE  \E i \in RunOf(b.out, b.slice + 1) : b.out[i].chSeq = j
<1>1. /\ b.chSeq \in Nat /\ Len(b.pending) \in Nat /\ Len(all) \in Nat
      /\ Upto(b.chSeq) + Len(b.pending) = Len(all)
  <2>1. b.chSeq \in Nat /\ Len(b.pending) \in Nat
    BY BuilderTypes
  <2>2. Upto(b.chSeq) + Len(b.pending) = Len(all)
    BY DEF Held
  <2> QED BY <2>1, <2>2
<1>2. /\ Upto(j) \in Nat /\ Upto(j + 1) = Upto(j) + Capacity
      /\ Upto(j + 1) <= Upto(b.chSeq) /\ Capacity \in Nat \ {0}
      /\ Upto(b.chSeq) \in Nat /\ j <= Upto(j)
  BY <1>1, UptoFacts, UptoMore
<1>3. j \in 0 .. Len(all) /\ Upto(j) < Len(all)
  BY <1>1, <1>2
<1>4. ~(j >= b.chSeq)
  BY <1>1
<1> QED BY <1>3, <1>4 DEF RunInv

LEMMA FeedRun ==
    ASSUME NEW b \in Builders, b.channel = "content",
           NEW all \in Seq(Payload), NEW bytes \in Seq(Payload),
           bytes # <<>>, Held(b, all), b.chSeq > 0 => b.pending # <<>>,
           RunInv(b, all), NEW c, c = Feed(b, bytes),
           NEW total, total = Joined(all, bytes)
    PROVE  /\ Held(c, total) /\ RunInv(c, total) /\ c.pending # <<>>
           /\ Len(c.pending) <= Capacity
           /\ total \in Seq(Payload)
           /\ \E k \in Nat : Grown(b, c, k)
<1>1. PICK k \in Nat :
          /\ Grown(b, c, k)
          /\ c.pending # <<>>
          /\ Upto(c.chSeq) < Len(total) /\ Len(total) <= Upto(c.chSeq + 1)
          /\ c.pending = Piece(total, Upto(c.chSeq), Len(total))
          /\ Bodies(b, c, k, total, b.chSeq)
  BY FeedCuts
<1>2. total \in Seq(Payload) /\ Len(total) \in Nat
  BY JoinedFacts
<1>3. /\ b.chSeq \in Nat /\ c \in Builders /\ c.chSeq = b.chSeq + k /\ c.chSeq \in Nat
      /\ Len(b.out) \in Nat
  BY <1>1, BuilderTypes DEF Grown
<1>4. /\ Upto(c.chSeq) \in Nat /\ Upto(c.chSeq + 1) = Upto(c.chSeq) + Capacity
      /\ Capacity \in Nat
  BY <1>3, UptoFacts
<1> DEFINE R == RunOf(b.out, b.slice + 1)
<1>5. ASSUME NEW i \in R
      PROVE  Shares(b.out[i], total) /\ b.out[i].chSeq < b.chSeq
  <2>1. /\ b.out[i].chSeq \in Nat /\ b.out[i].chSeq < b.chSeq
        /\ Upto(b.out[i].chSeq + 1) < Len(all)
    BY RunBounds
  <2>2. Shares(b.out[i], all)
    BY DEF RunInv, Cut
  <2>3. Shares(b.out[i], Joined(all, bytes))
    BY <2>1, <2>2, ShareStays
  <2> QED BY <2>1, <2>3
<1>6. \A i, j \in R : i < j => b.out[i].chSeq < b.out[j].chSeq
  BY DEF RunInv, Cut
<1>7. \A j \in Nat : j < b.chSeq => \E i \in R : b.out[i].chSeq = j
  BY RunCovers
<1>8. ASSUME NEW i \in 1 .. k
      PROVE  Shares(c.out[Len(b.out) + i], total)
  <2> DEFINE f == c.out[Len(b.out) + i]
  <2>1. /\ f.chSeq = b.chSeq + (i - 1) /\ (f.end <=> c.pending = <<>>)
    <3>1. /\ Len(b.out) + i \in Len(b.out) + 1 .. Len(b.out) + k
          /\ (Len(b.out) + i) - Len(b.out) = i
      <4>1. PICK n \in Nat : n = Len(b.out)
        BY <1>3
      <4>2. n + i \in n + 1 .. n + k /\ (n + i) - n = i
        BY ONLY n \in Nat, k \in Nat, i \in 1 .. k
      <4> QED BY ONLY <4>1, <4>2
    <3>2. /\ f.chSeq = b.chSeq + ((Len(b.out) + i) - Len(b.out)) - 1
          /\ (f.end <=> c.pending = <<>>)
      BY <1>1, <3>1 DEF Grown
    <3>3. b.chSeq + i - 1 = b.chSeq + (i - 1)
      BY <1>3
    <3> HIDE DEF f
    <3> QED BY <3>1, <3>2, <3>3
  <2>2. f.body = Piece(total, Upto(b.chSeq + (i - 1)), Upto(b.chSeq + i))
    BY <1>1 DEF Bodies
  <2>3. PICK m \in Nat : /\ m = b.chSeq + (i - 1) /\ m + 1 = b.chSeq + i
                         /\ m < c.chSeq
    <3>1. /\ b.chSeq + (i - 1) \in Nat
          /\ (b.chSeq + (i - 1)) + 1 = b.chSeq + i
          /\ b.chSeq + (i - 1) < b.chSeq + k
      BY <1>3
    <3> QED BY <1>3, <3>1
  <2> HIDE DEF f
  <2>4. /\ Upto(m + 1) <= Upto(c.chSeq) /\ Upto(m) \in Nat
        /\ Upto(m + 1) = Upto(m) + Capacity
    BY <1>3, <2>3, UptoFacts
  <2>5. Upto(m + 1) < Len(total) /\ Upto(m) < Len(total)
        /\ ~(Len(total) <= Upto(m + 1))
    BY <1>1, <1>2, <1>4, <2>4
  <2>6. ~f.end /\ f.body = Piece(total, Upto(m), Upto(m + 1)) /\ f.chSeq = m
    BY <1>1, <2>1, <2>2, <2>3
  <2>7. Shares(f, total)
    BY <2>5, <2>6, SharesMeans
  <2> QED BY <2>7 DEF f
<1>9. RunInv(c, total)
  BY <1>1, <1>2, <1>5, <1>6, <1>7, <1>8, RunContinues
<1>10. Len(c.pending) = Len(total) - Upto(c.chSeq)
  <2>1. PICK u \in Nat, n \in Nat : u = Upto(c.chSeq) /\ n = Len(total)
    BY <1>2, <1>4
  <2>2. u <= n
    BY <1>1, <2>1
  <2>3. Len(Piece(total, u, n)) = n - u
    <3>1. n <= Len(total) /\ total \in Seq(Payload)
      BY <1>2, <2>1
    <3> QED BY ONLY <2>2, <3>1, PieceFacts, u \in Nat, n \in Nat
  <2> QED BY <1>1, <2>1, <2>3
<1>11. /\ Upto(c.chSeq) + Len(c.pending) = Len(total)
       /\ Len(c.pending) <= Capacity
  <2>1. Upto(c.chSeq) < Len(total) /\ Len(total) <= Upto(c.chSeq) + Capacity
    BY <1>1, <1>4
  <2> QED BY <1>2, <1>4, <1>10, <2>1
<1>12. Held(c, total)
  BY <1>1, <1>11, HeldMeans
<1> QED BY <1>1, <1>2, <1>9, <1>11, <1>12

LEMMA FlushRun ==
    ASSUME NEW b \in Builders, b.channel = "content", b.pending # <<>>,
           Len(b.pending) <= Capacity,
           NEW all \in Seq(Payload), Held(b, all), RunInv(b, all),
           NEW c, c = Flush(b)
    PROVE  RunInv(c, all) /\ c.pending = <<>> /\ Grown(b, c, 1)
<1>1. /\ Grown(b, c, 1) /\ c.pending = <<>>
      /\ c.out[Len(b.out) + 1].body = b.pending
  BY FlushGrows
<1>2. /\ b.chSeq \in Nat /\ c.chSeq = b.chSeq + 1 /\ c.chSeq \in Nat
      /\ Len(b.out) \in Nat /\ Len(all) \in Nat /\ Len(b.pending) \in Nat
      /\ Len(b.pending) > 0
  <2>1. /\ b.chSeq \in Nat /\ Len(b.out) \in Nat /\ Len(all) \in Nat
        /\ Len(b.pending) \in Nat /\ b.pending \in Seq(Payload)
    BY BuilderTypes
  <2>2. c.chSeq = b.chSeq + 1
    BY <1>1 DEF Grown
  <2> QED BY <2>1, <2>2
<1>3. /\ Upto(b.chSeq) \in Nat /\ Upto(b.chSeq + 1) = Upto(b.chSeq) + Capacity
      /\ Capacity \in Nat
  BY <1>2, UptoFacts
<1>4. /\ Upto(b.chSeq) + Len(b.pending) = Len(all)
      /\ b.pending = Piece(all, Upto(b.chSeq), Len(all))
  BY HeldMeans
<1>5. Upto(b.chSeq) < Len(all) /\ Len(all) <= Upto(b.chSeq + 1)
      /\ ~(Upto(b.chSeq + 1) < Len(all))
  BY <1>2, <1>3, <1>4
<1> DEFINE R == RunOf(b.out, b.slice + 1)
<1>6. \A i \in R : Shares(b.out[i], all) /\ b.out[i].chSeq < b.chSeq
  BY DEF RunInv, Cut
<1>7. \A i, j \in R : i < j => b.out[i].chSeq < b.out[j].chSeq
  BY DEF RunInv, Cut
<1>8. \A j \in Nat : j < b.chSeq => \E i \in R : b.out[i].chSeq = j
  BY RunCovers
<1>9. Shares(c.out[Len(b.out) + 1], all)
  <2>1. /\ Len(b.out) + 1 \in Len(b.out) + 1 .. Len(b.out) + 1
        /\ b.chSeq + ((Len(b.out) + 1) - Len(b.out)) - 1 = b.chSeq
    BY <1>2
  <2> DEFINE f == c.out[Len(b.out) + 1]
  <2>2. f.chSeq = b.chSeq /\ f.end /\ f.body = b.pending
    BY <1>1, <2>1 DEF Grown
  <2> HIDE DEF f
  <2>3. Shares(f, all)
    BY <1>4, <1>5, <2>2, SharesMeans
  <2> QED BY <2>3 DEF f
<1>10. \A i \in 1 .. 1 : Shares(c.out[Len(b.out) + i], all)
  BY <1>9
<1>11. Len(all) <= Upto(c.chSeq)
  BY <1>2, <1>5
<1>12. RunInv(c, all)
  BY <1>1, <1>6, <1>7, <1>8, <1>10, <1>11, RunContinues
<1> QED BY <1>1, <1>12

LEMMA FeedGrown ==
    ASSUME NEW b \in Builders, NEW bytes \in Seq(Payload), bytes # <<>>,
           NEW c, c = Feed(b, bytes)
    PROVE  c.pending # <<>> /\ \E k \in Nat : Grown(b, c, k)
<1>1. PICK all \in Seq(Payload) : all = Joined(b.pending, bytes)
  <2>1. b.pending \in Seq(Payload)
    BY BuilderTypes
  <2> QED BY <2>1, JoinedFacts
<1> QED BY <1>1, FeedGrows

\* A builder that fed bytes goes on with its numbers, and with its chain.
LEMMA FeedKeeps ==
    ASSUME NEW b \in Builders, NEW bytes \in Seq(Payload), bytes # <<>>,
           NEW c, c = Feed(b, bytes), Numbered(b.out, b.global),
           b.chSeq > 0 => b.pending # <<>>
    PROVE  /\ Numbered(c.out, c.global)
           /\ Linked(b.out) /\ Tip(b) => Linked(c.out) /\ Tip(c)
<1>1. PICK k \in Nat : Grown(b, c, k) /\ c.pending # <<>>
  BY FeedGrown
<1>2. Numbered(c.out, c.global)
  BY <1>1, NumberedGrows
<1>3. ASSUME Linked(b.out), Tip(b) PROVE Linked(c.out) /\ Tip(c)
  <2>1. CASE k > 0
    BY <1>1, <1>3, <2>1, LinkedGrows
  <2>2. CASE k = 0
    <3>1. /\ FramesIn(c.out) = FramesIn(b.out)
          /\ \A i \in FramesIn(b.out) : c.out[i] = b.out[i]
      <4>1. /\ FramesIn(c.out)
                  = FramesIn(b.out) \cup (Len(b.out) + 1 .. Len(b.out) + k)
            /\ \A i \in FramesIn(b.out) : c.out[i] = b.out[i]
        BY <1>1, FramesGrow
      <4>2. Len(b.out) + 1 .. Len(b.out) + k = {}
        BY <2>2, BuilderTypes
      <4> QED BY <4>1, <4>2
    <3>2. /\ c.global = b.global /\ c.chSeq = b.chSeq /\ c.slice = b.slice
          /\ c.channel = b.channel
      <4>1. /\ c.global = b.global + k /\ c.chSeq = b.chSeq + k
            /\ c.slice = b.slice /\ c.channel = b.channel
        BY <1>1 DEF Grown
      <4> QED BY <2>2, <4>1, BuilderTypes
    <3>3. Linked(c.out)
      BY <1>3, <3>1 DEF Linked
    <3>4. ASSUME NEW l, StandsBehind(b, l) PROVE StandsBehind(c, l)
      BY <1>1, <3>2, <3>4 DEF StandsBehind
    <3>5. Tip(c)
      BY <1>3, <3>1, <3>2, <3>4 DEF Tip
    <3> QED BY <3>3, <3>5
  <2> QED BY <2>1, <2>2
<1> QED BY <1>2, <1>3

LEMMA FlushKeeps ==
    ASSUME NEW b \in Builders, b.pending # <<>>, NEW c, c = Flush(b),
           Numbered(b.out, b.global)
    PROVE  /\ Numbered(c.out, c.global)
           /\ Linked(b.out) /\ Tip(b) => Linked(c.out) /\ Tip(c)
           /\ Grown(b, c, 1) /\ c.pending = <<>>
<1>1. Grown(b, c, 1) /\ c.pending = <<>>
  BY FlushGrows
<1> QED BY <1>1, NumberedGrows, LinkedGrows

\* The sequences hold the same frames at the same places.
SameFrames(p, q) ==
    FramesIn(p) = FramesIn(q) /\ \A i \in FramesIn(p) : p[i] = q[i]

Marked(b) == [b EXCEPT !.out = Append(@, TapeEof)]
Ended(b) == [b EXCEPT !.out = Append(@, ArchiveEnd(b))]

LEMMA MarkIsNoFrame ==
    ASSUME NEW b \in Builders, NEW c, c = Marked(b)
    PROVE  /\ c \in Builders /\ SameFrames(b.out, c.out)
           /\ c.global = b.global /\ c.slice = b.slice /\ c.channel = b.channel
           /\ c.chSeq = b.chSeq /\ c.pending = b.pending
           /\ Len(c.out) = Len(b.out) + 1
           /\ \A i \in DOMAIN b.out : c.out[i] = b.out[i]
           /\ \A i \in DOMAIN c.out : i \in DOMAIN b.out \/ c.out[i] = TapeEof
<1>1. /\ b.out \in Seq(QueueRecords) /\ TapeEof \in QueueRecords
      /\ TapeEof.channel = "tape_eof" /\ DOMAIN b.out = 1 .. Len(b.out)
      /\ Len(b.out) \in Nat
  BY BuilderTypes DEF QueueRecords, TapeEof
<1>2. /\ Append(b.out, TapeEof) \in Seq(QueueRecords)
      /\ Len(Append(b.out, TapeEof)) = Len(b.out) + 1
      /\ \A i \in 1 .. Len(b.out) : Append(b.out, TapeEof)[i] = b.out[i]
      /\ Append(b.out, TapeEof)[Len(b.out) + 1] = TapeEof
      /\ DOMAIN Append(b.out, TapeEof) = 1 .. Len(b.out) + 1
  <2>1. PICK e \in QueueRecords : e = TapeEof
    BY <1>1
  <2>2. /\ Append(b.out, e) \in Seq(QueueRecords)
        /\ Len(Append(b.out, e)) = Len(b.out) + 1
        /\ \A i \in 1 .. Len(b.out) : Append(b.out, e)[i] = b.out[i]
        /\ Append(b.out, e)[Len(b.out) + 1] = e
        /\ DOMAIN Append(b.out, e) = 1 .. Len(b.out) + 1
    BY <1>1
  <2> QED BY <2>1, <2>2
<1>3. /\ c \in Builders /\ c.out = Append(b.out, TapeEof)
      /\ c.global = b.global /\ c.slice = b.slice /\ c.channel = b.channel
      /\ c.chSeq = b.chSeq /\ c.pending = b.pending
  BY <1>2 DEF Builders, Marked
<1>4. \A i \in 1 .. Len(b.out) + 1 : i \in 1 .. Len(b.out) \/ i = Len(b.out) + 1
  BY <1>1
<1>5. DOMAIN b.out \subseteq DOMAIN c.out
  BY <1>1, <1>2, <1>3
<1>6. /\ \A i \in DOMAIN b.out : c.out[i] = b.out[i]
      /\ \A i \in DOMAIN c.out : i \in DOMAIN b.out \/ c.out[i] = TapeEof
  BY <1>1, <1>2, <1>3, <1>4
<1>7. SameFrames(b.out, c.out)
  BY <1>1, <1>5, <1>6 DEF SameFrames, FramesIn
<1> QED BY <1>2, <1>3, <1>6, <1>7

LEMMA SameFramesSame ==
    ASSUME NEW p, NEW q, SameFrames(p, q)
    PROVE  /\ \A n : Numbered(p, n) => Numbered(q, n)
           /\ Linked(p) => Linked(q)
           /\ \A s : RunOf(p, s) = RunOf(q, s)
           /\ \A s : \A i \in RunOf(p, s) : p[i] = q[i]
<1>1. FramesIn(p) = FramesIn(q) /\ \A i \in FramesIn(p) : p[i] = q[i]
  BY DEF SameFrames
<1>2. Linked(p) => Linked(q)
  BY <1>1 DEF Linked
<1>3. \A n : Numbered(p, n) => Numbered(q, n)
  BY <1>1 DEF Numbered
<1>4. ASSUME NEW s
      PROVE  /\ RunOf(p, s) = RunOf(q, s)
             /\ \A i \in RunOf(p, s) : p[i] = q[i]
  <2>1. RunOf(p, s) = {i \in FramesIn(p) : p[i].channel = "content" /\ p[i].slice = s - 1}
    BY DEF RunOf, FramesIn
  <2>2. RunOf(q, s) = {i \in FramesIn(q) : q[i].channel = "content" /\ q[i].slice = s - 1}
    BY DEF RunOf, FramesIn
  <2> QED BY <1>1, <2>1, <2>2
<1> QED BY <1>2, <1>3, <1>4

LEMMA TipStays ==
    ASSUME NEW b, NEW c, SameFrames(b.out, c.out), Tip(b),
           c.global = b.global, c.slice = b.slice, c.channel = b.channel,
           c.chSeq = b.chSeq, c.pending = b.pending
    PROVE  Tip(c)
<1>1. \A l : StandsBehind(b, l) => StandsBehind(c, l)
  BY DEF StandsBehind
<1> QED BY <1>1 DEF Tip, SameFrames

\* A new run begins where the format lets it.
LEMMA BeginKeeps ==
    ASSUME NEW b \in Builders, NEW s \in Nat, NEW ch \in {"content", "metadata"},
           Tip(b), b.pending = <<>>,
           \/ /\ s = b.slice /\ ch = "content" /\ b.channel = "metadata"
              /\ b.chSeq > 0
           \/ s = b.slice /\ ch = b.channel /\ b.chSeq = 0
           \/ s = b.slice + 1 /\ b.chSeq > 0
           \/ /\ s = 1 /\ b.slice = 0 /\ b.channel = "content"
              /\ b.chSeq = 0 /\ b.global > 0
    PROVE  Tip(BeginChannel(b, s, ch))
<1> DEFINE c == BeginChannel(b, s, ch)
<1>1. /\ c.out = b.out /\ c.global = b.global /\ c.pending = b.pending
      /\ c.slice = s /\ c.channel = ch /\ c.chSeq = 0
  BY BeginChannelKeeps
<1>2. /\ b.global \in Nat /\ b.slice \in Nat /\ b.chSeq \in Nat
      /\ \A i \in FramesIn(b.out) : b.out[i] \in FrameRecords
  BY BuilderTypes
<1> HIDE DEF c
<1>3. c.global = 0 => c.slice = 0 /\ c.chSeq = 0
  <2>1. b.global = 0 => b.slice = 0 /\ b.chSeq = 0
    BY DEF Tip
  <2> QED BY <1>1, <1>2, <2>1
<1>4. ASSUME NEW i \in FramesIn(c.out), c.out[i].seq = c.global - 1
      PROVE  StandsBehind(c, c.out[i])
  <2>1. PICK l \in FrameRecords : l = c.out[i]
    BY <1>1, <1>2
  <2>2. StandsBehind(b, l)
    BY <1>1, <1>4, <2>1 DEF Tip
  <2>3. l.slice \in Nat
    BY RecordTypes
  <2>4. /\ l.channel # "archive_end"
        /\ b.chSeq > 0 => l.slice = b.slice /\ l.channel = b.channel /\ l.end
        /\ b.chSeq = 0 => /\ l.end
                          /\ \/ /\ l.slice = b.slice
                                /\ l.channel = "metadata" /\ b.channel = "content"
                             \/ b.slice = l.slice + 1
    BY <2>2 DEF StandsBehind
  <2>5. l.end
    BY <1>2, <2>4
  <2>6. \/ /\ l.slice = c.slice
           /\ l.channel = "metadata" /\ c.channel = "content"
        \/ c.slice = l.slice + 1
    BY <1>1, <1>2, <2>3, <2>4
  <2> QED BY <1>1, <2>1, <2>4, <2>5, <2>6 DEF StandsBehind
<1>5. Tip(c)
  BY <1>3, <1>4 DEF Tip
<1> QED BY <1>5 DEF c

\* The archive_end frame behind a flushed builder's frames.
LEMMA EndKeeps ==
    ASSUME NEW b \in Builders, b.pending = <<>>, Numbered(b.out, b.global),
           NEW c, c = Ended(b)
    PROVE  /\ c \in Builders /\ Numbered(c.out, c.global + 1)
           /\ Linked(b.out) /\ Tip(b) => Linked(c.out)
           /\ \A s : RunOf(c.out, s) = RunOf(b.out, s)
           /\ \A s : \A i \in RunOf(b.out, s) : c.out[i] = b.out[i]
           /\ DOMAIN b.out \subseteq DOMAIN c.out
           /\ \A i \in DOMAIN b.out : c.out[i] = b.out[i]
           /\ c.global = b.global /\ c.slice = b.slice /\ c.channel = b.channel
           /\ c.chSeq = b.chSeq /\ c.pending = b.pending
           /\ \A i \in DOMAIN c.out : c.out[i].channel = "content" => i \in DOMAIN b.out
           /\ Len(c.out) = Len(b.out) + 1
<1> DEFINE e == ArchiveEnd(b)  n == Len(b.out)  F == FramesIn(b.out)
<1>1. /\ b.out \in Seq(QueueRecords) /\ n \in Nat /\ b.global \in Nat
      /\ DOMAIN b.out = 1 .. n /\ F \subseteq 1 .. n
      /\ \A i \in F : b.out[i] \in FrameRecords
  BY BuilderTypes
<1>2. /\ e \in FrameRecords /\ e.channel = "archive_end" /\ e.seq = b.global
  BY <1>1 DEF ArchiveEnd, FrameRecords
<1>3. e \in QueueRecords /\ e.channel # "tape_eof" /\ e.channel # "content"
  BY <1>2, RecordTypes
<1> HIDE DEF e
<1>4. /\ Append(b.out, e) \in Seq(QueueRecords)
      /\ Len(Append(b.out, e)) = n + 1
      /\ \A i \in 1 .. n : Append(b.out, e)[i] = b.out[i]
      /\ Append(b.out, e)[n + 1] = e
      /\ DOMAIN Append(b.out, e) = 1 .. n + 1
  BY <1>1, <1>3
<1>5. /\ c \in Builders /\ c.out = Append(b.out, e)
      /\ c.global = b.global /\ c.slice = b.slice /\ c.channel = b.channel
      /\ c.chSeq = b.chSeq /\ c.pending = b.pending
  <2>1. c = [b EXCEPT !.out = Append(@, e)]
    BY DEF e, Ended
  <2> QED BY <1>4, <2>1 DEF Builders
<1>6. /\ \A i \in 1 .. n + 1 : i \in 1 .. n \/ i = n + 1
      /\ \A i \in 1 .. n : i \in 1 .. n + 1 /\ i < n + 1
      /\ n + 1 \notin 1 .. n /\ n + 1 \in 1 .. n + 1
  BY <1>1
<1>7. /\ \A i \in DOMAIN b.out : c.out[i] = b.out[i]
      /\ DOMAIN b.out \subseteq DOMAIN c.out
      /\ c.out[n + 1] = e /\ DOMAIN c.out = DOMAIN b.out \cup {n + 1}
      /\ n + 1 \notin DOMAIN b.out
  BY <1>1, <1>4, <1>5, <1>6
<1>8. FramesIn(c.out) = F \cup {n + 1}
  BY <1>3, <1>7 DEF FramesIn
<1>9. \A i \in F : c.out[i] = b.out[i] /\ i < n + 1 /\ i \in Nat
  BY <1>1, <1>7
<1> HIDE DEF n, F
<1>10. ASSUME NEW s
       PROVE  /\ RunOf(c.out, s) = RunOf(b.out, s)
              /\ \A i \in RunOf(b.out, s) : c.out[i] = b.out[i]
  BY <1>3, <1>7 DEF RunOf
<1>11. \A i \in DOMAIN c.out : c.out[i].channel = "content" => i \in DOMAIN b.out
  BY <1>3, <1>7
<1>12. \A i \in F : b.out[i].seq \in Nat /\ b.out[i].seq < b.global
  BY <1>1, RecordTypes DEF Numbered, F
<1>13. /\ \A i, j \in F : i < j => b.out[i].seq < b.out[j].seq
       /\ \A k \in 0 .. b.global - 1 : \E i \in F : b.out[i].seq = k
  BY DEF Numbered, F
<1>14. Numbered(c.out, c.global + 1)
  <2>1. ASSUME NEW i \in F \cup {n + 1} PROVE c.out[i].seq < b.global + 1
    <3>1. CASE i \in F
      <4>1. c.out[i].seq \in Nat /\ c.out[i].seq < b.global
        BY <1>9, <1>12, <3>1
      <4> QED BY <1>1, <4>1
    <3>2. CASE i = n + 1
      <4>1. c.out[i].seq = b.global
        BY <1>2, <1>7, <3>2
      <4> QED BY <1>1, <4>1
    <3> QED BY <3>1, <3>2
  <2>2. ASSUME NEW i \in F \cup {n + 1}, NEW j \in F \cup {n + 1}, i < j
        PROVE  c.out[i].seq < c.out[j].seq
    <3>1. CASE i \in F /\ j \in F
      BY <1>9, <1>13, <2>2, <3>1
    <3>2. CASE i \in F /\ j = n + 1
      BY <1>2, <1>7, <1>9, <1>12, <3>2
    <3>3. CASE i = n + 1
      BY <1>1, <1>9, <2>2, <3>3
    <3> QED BY <3>1, <3>2, <3>3
  <2>3. ASSUME NEW k \in 0 .. (b.global + 1) - 1
        PROVE  \E i \in F \cup {n + 1} : c.out[i].seq = k
    <3>1. CASE k = b.global
      BY <1>2, <1>7, <3>1
    <3>2. CASE k # b.global
      <4>1. k \in 0 .. b.global - 1
        BY <1>1, <3>2
      <4> QED BY <1>9, <1>13, <4>1
    <3> QED BY <3>1, <3>2
  <2> QED BY <1>5, <1>8, <2>1, <2>2, <2>3 DEF Numbered
<1>15. ASSUME Linked(b.out), Tip(b) PROVE Linked(c.out)
  <2>1. \A i \in F \cup {n + 1} : c.out[i].seq = 0 => Begins(c.out[i])
    <3>1. Begins(e)
      BY <1>2 DEF Begins
    <3> QED BY <1>7, <1>9, <1>15, <3>1 DEF Linked, F
  <2>2. ASSUME NEW i \in F \cup {n + 1}, NEW j \in F \cup {n + 1},
               c.out[j].seq = c.out[i].seq + 1
        PROVE  Follows(c.out[i], c.out[j])
    <3>1. CASE i \in F /\ j \in F
      BY <1>9, <1>15, <2>2, <3>1 DEF Linked, F
    <3>2. CASE i \in F /\ j = n + 1
      <4>1. b.out[i].seq + 1 = b.global
        BY <1>2, <1>7, <1>9, <2>2, <3>2
      <4>2. b.out[i].seq = b.global - 1
        BY <1>1, <1>12, <3>2, <4>1
      <4>3. StandsBehind(b, b.out[i])
        BY <1>15, <3>2, <4>2 DEF Tip, F
      <4>4. b.out[i].channel # "archive_end" /\ b.out[i].end
        <5>1. b.chSeq > 0 \/ b.chSeq = 0
          BY BuilderTypes
        <5> QED BY <4>3, <5>1 DEF StandsBehind
      <4> QED BY <1>2, <1>7, <1>9, <3>2, <4>4 DEF Follows
    <3>3. CASE i = n + 1
      <4>1. c.out[j].seq = b.global + 1
        BY <1>2, <1>7, <2>2, <3>3
      <4>2. c.out[j].seq \in Nat /\ c.out[j].seq <= b.global
        <5>1. CASE j \in F
          BY <1>1, <1>9, <1>12, <5>1
        <5>2. CASE j = n + 1
          <6>1. c.out[j].seq = b.global
            BY <1>2, <1>7, <5>2
          <6> QED BY <1>1, <6>1
        <5> QED BY <5>1, <5>2
      <4> QED BY <1>1, <4>1, <4>2
    <3> QED BY <3>1, <3>2, <3>3
  <2> QED BY <1>8, <2>1, <2>2 DEF Linked
<1>16. Len(c.out) = Len(b.out) + 1
  BY <1>4, <1>5 DEF n
<1> QED BY <1>5, <1>7, <1>10, <1>11, <1>14, <1>15, <1>16

-----------------------------------------------------------------------------
(* The validator behind the queue. *)

LEMMA Numbers == ASSUME NEW v \in ValidatorStates
    PROVE  /\ v.expected \in Nat /\ v.slice \in Nat
           /\ v.archive \in {V!NoArchive, "archive", "refused"}
           /\ v.anyFrame \in BOOLEAN /\ v.endSeen \in BOOLEAN
           /\ v.nextSeq \in [V!SliceChannels -> Nat]
           /\ v.seen \in [V!SliceChannels -> BOOLEAN]
           /\ v.ended \in [V!SliceChannels -> BOOLEAN]
           /\ v.unknown \in [V!SliceChannels -> {FALSE}]
           /\ v.history \in Seq(FrameRecords) /\ v.replayNext = V!NoReplay
           /\ v.seeded \in {FALSE}
  BY DEF ValidatorStates

LEMMA FirstState == V!Unused \in ValidatorStates /\ Refused \in ValidatorStates
<1>1. V!Unused \in ValidatorStates
  BY DEF V!Unused, ValidatorStates
<1> QED BY <1>1 DEF Refused, ValidatorStates

LEMMA RemembersFrames ==
    ASSUME NEW v \in ValidatorStates, NEW f \in FrameRecords
    PROVE  V!Remember(v, f) \in Seq(FrameRecords)
<1>1. v.history \in Seq(FrameRecords)
  BY Numbers
<1>2. Append(v.history, f) \in Seq(FrameRecords) /\ Append(v.history, f) # <<>>
  BY <1>1
<1>3. Tail(Append(v.history, f)) \in Seq(FrameRecords)
  BY <1>2
<1> QED BY <1>1, <1>2, <1>3 DEF V!Remember

\* What a frame may follow, a validator accepts behind it.
LEMMA TakesFollower ==
    ASSUME NEW v \in ValidatorStates, NEW l \in FrameRecords,
           NEW f \in FrameRecords, Knows(v, l), Follows(l, f),
           f.seq = v.expected
    PROVE  V!IsNext(v, f, FALSE)
<1>1. /\ v.expected \in Nat /\ v.slice \in Nat
      /\ v.unknown \in [V!SliceChannels -> {FALSE}]
      /\ v.replayNext = V!NoReplay /\ f.check = "ok" /\ f.archive = "archive"
      /\ f.seq \in Nat /\ f.slice \in Nat /\ l.slice \in Nat /\ l.chSeq \in Nat
      /\ f.channel \in {"content", "metadata", "archive_end"}
      /\ l.channel \in {"content", "metadata", "archive_end"}
  BY Numbers, RecordTypes
<1>2. /\ v.archive = "archive" /\ ~v.endSeen /\ v.anyFrame /\ v.slice = l.slice
      /\ v.nextSeq[l.channel] = l.chSeq + 1
      /\ v.seen[l.channel] /\ v.ended[l.channel] = l.end
      /\ \A c \in V!SliceChannels \ {l.channel} :
             IF v.seen[c] THEN v.ended[c] /\ l.channel = "content"
             ELSE v.nextSeq[c] = 0 /\ ~v.ended[c]
      /\ l.channel # "archive_end" /\ l.channel \in V!SliceChannels
  BY <1>1 DEF Knows, Follows, V!SliceChannels
<1>3. V!MayBeNew(v, f)
  <2>1. ~V!IsOld(v, f)
    BY <1>1 DEF V!IsOld
  <2> QED BY <1>1, <2>1 DEF V!MayBeNew
<1>4. l.end => V!AllSeenEnded(v)
  BY <1>2 DEF V!AllSeenEnded
<1>5. CASE f.channel = "archive_end"
  <2>1. l.end
    BY <1>5 DEF Follows
  <2> QED BY <1>1, <1>2, <1>3, <1>4, <1>5, <2>1
          DEF V!IsNext, V!EndFollows, V!Intact
<1>6. CASE f.channel # "archive_end"
  <2>0. f.channel \in V!SliceChannels /\ v.unknown[f.channel] = FALSE
    BY <1>1, <1>6 DEF V!SliceChannels
  <2>1. V!SliceFollows(v, f) /\ V!ChannelFollows(V!InSliceOf(v, f), f)
    <3>1. CASE /\ f.slice = l.slice /\ f.channel = l.channel
               /\ f.chSeq = l.chSeq + 1 /\ ~l.end
      <4>1. V!SliceFollows(v, f)
        BY <1>2, <3>1 DEF V!SliceFollows
      <4>2. /\ V!InSliceOf(v, f).ended = v.ended
            /\ V!InSliceOf(v, f).unknown = v.unknown
            /\ V!InSliceOf(v, f).nextSeq = v.nextSeq
        BY <1>2, <3>1 DEF V!InSliceOf, ValidatorStates
      <4> QED BY <1>2, <3>1, <4>1, <4>2 DEF V!ChannelFollows
    <3>2. CASE /\ f.slice = l.slice
               /\ l.channel = "metadata" /\ f.channel = "content"
               /\ f.chSeq = 0 /\ l.end
      <4>1. V!SliceFollows(v, f)
        BY <1>2, <3>2 DEF V!SliceFollows
      <4>2. /\ V!InSliceOf(v, f).ended = v.ended
            /\ V!InSliceOf(v, f).unknown = v.unknown
            /\ V!InSliceOf(v, f).nextSeq = v.nextSeq
        BY <1>2, <3>2 DEF V!InSliceOf, ValidatorStates
      <4>3. ~v.ended["content"] /\ v.nextSeq["content"] = 0
        <5>1. "content" \in V!SliceChannels \ {l.channel}
          BY <3>2 DEF V!SliceChannels
        <5> QED BY <1>2, <3>2, <5>1
      <4> QED BY <3>2, <4>1, <4>2, <4>3 DEF V!ChannelFollows
    <3>3. CASE f.slice = l.slice + 1 /\ f.chSeq = 0 /\ l.end
      <4>1. f.slice = v.slice + 1 /\ f.slice # v.slice
        BY <1>1, <1>2, <3>3
      <4>2. V!SliceFollows(v, f)
        BY <1>2, <1>4, <3>3, <4>1 DEF V!SliceFollows
      <4>3. /\ V!InSliceOf(v, f).ended = [c \in V!SliceChannels |-> FALSE]
            /\ V!InSliceOf(v, f).nextSeq = [c \in V!SliceChannels |-> 0]
        BY <1>2, <4>1 DEF V!InSliceOf, ValidatorStates
      <4> QED BY <2>0, <3>3, <4>2, <4>3 DEF V!ChannelFollows
    <3> QED BY <1>6, <3>1, <3>2, <3>3 DEF Follows
  <2> QED BY <1>1, <1>2, <1>3, <1>6, <2>1 DEF V!IsNext, V!Intact
<1> QED BY <1>5, <1>6

LEMMA TakesFirst ==
    ASSUME NEW f \in FrameRecords, Begins(f), f.seq = 0
    PROVE  V!IsNext(V!Unused, f, FALSE)
<1>1. /\ f.check = "ok"
      /\ f.channel \in {"content", "metadata", "archive_end"}
  BY RecordTypes
<1> DEFINE u == V!Unused
<1>2. /\ u.expected = 0 /\ u.replayNext = V!NoReplay /\ u.archive = V!NoArchive
      /\ ~u.endSeen /\ ~u.anyFrame /\ ~u.seeded
      /\ u.ended = [c \in V!SliceChannels |-> FALSE]
      /\ u.nextSeq = [c \in V!SliceChannels |-> 0]
      /\ V!InSliceOf(u, f).ended = u.ended
      /\ V!InSliceOf(u, f).nextSeq = u.nextSeq
  BY DEF V!Unused, V!InSliceOf
<1> HIDE DEF u
<1>3. V!MayBeNew(u, f)
  <2>1. ~V!IsOld(u, f)
    BY <1>2 DEF V!IsOld
  <2> QED BY <1>2, <2>1 DEF V!MayBeNew
<1>4. f.channel # "archive_end" =>
          V!SliceFollows(u, f) /\ V!ChannelFollows(V!InSliceOf(u, f), f)
  BY <1>1, <1>2 DEF Begins, V!SliceFollows, V!ChannelFollows, V!SliceChannels
<1>5. f.channel = "archive_end" => V!EndFollows(u)
  BY <1>2 DEF V!EndFollows
<1>6. V!IsNext(u, f, FALSE)
  BY <1>1, <1>2, <1>3, <1>4, <1>5 DEF V!IsNext, V!Intact
<1> QED BY <1>6 DEF u

\* And it knows of the frame what it must know for the next.
LEMMA KnowsTaken ==
    ASSUME NEW v \in ValidatorStates, NEW f \in FrameRecords,
           \/ v = V!Unused
           \/ \E l \in FrameRecords : Knows(v, l) /\ Follows(l, f)
    PROVE  /\ V!Accepted(v, f) \in ValidatorStates
           /\ V!Accepted(v, f).expected = f.seq + 1
           /\ V!Accepted(v, f).archive = "archive"
           /\ Knows(V!Accepted(v, f), f)
<1>1. /\ f.archive = "archive" /\ f.seq \in Nat /\ f.slice \in Nat /\ f.chSeq \in Nat
      /\ f.channel \in {"content", "metadata", "archive_end"} /\ f.end \in BOOLEAN
      /\ V!Remember(v, f) \in Seq(FrameRecords)
  BY RecordTypes, RemembersFrames
<1> DEFINE w == [v EXCEPT !.archive = f.archive, !.expected = f.seq + 1,
                          !.history = V!Remember(v, f)]
           s == V!InSliceOf(w, f)
<1>2. PICK h \in Seq(FrameRecords) : h = V!Remember(v, f)
  BY <1>1
<1>3. w = [v EXCEPT !.archive = "archive", !.expected = f.seq + 1, !.history = h]
  BY <1>1, <1>2
<1>4. /\ w \in ValidatorStates /\ w.archive = "archive" /\ w.expected = f.seq + 1
      /\ w.slice = v.slice /\ w.anyFrame = v.anyFrame /\ w.endSeen = v.endSeen
      /\ w.nextSeq = v.nextSeq /\ w.seen = v.seen /\ w.ended = v.ended
  <2>1. f.seq + 1 \in Nat
    BY <1>1
  <2> HIDE DEF w
  <2> QED BY <1>3, <2>1 DEF ValidatorStates
<1>5. V!Accepted(v, f) =
          IF f.channel = "archive_end" THEN [w EXCEPT !.endSeen = TRUE]
          ELSE [s EXCEPT !.nextSeq[f.channel] = f.chSeq + 1,
                         !.seen[f.channel] = TRUE,
                         !.ended[f.channel] = f.end,
                         !.unknown[f.channel] = FALSE]
  BY DEF V!Accepted
<1> HIDE DEF w
<1>6. CASE f.channel = "archive_end"
  <2>1. V!Accepted(v, f) = [w EXCEPT !.endSeen = TRUE]
    BY <1>5, <1>6
  <2>2. /\ V!Accepted(v, f) \in ValidatorStates
        /\ V!Accepted(v, f).expected = w.expected
        /\ V!Accepted(v, f).archive = w.archive /\ V!Accepted(v, f).endSeen
    BY <1>4, <2>1 DEF ValidatorStates
  <2> QED BY <1>4, <1>6, <2>2 DEF Knows
<1>7. CASE f.channel # "archive_end"
  <2>0. f.channel \in V!SliceChannels
    BY <1>1, <1>7 DEF V!SliceChannels
  <2>1. /\ s \in ValidatorStates /\ s.archive = "archive" /\ s.expected = f.seq + 1
        /\ s.slice = f.slice /\ s.anyFrame /\ s.endSeen = v.endSeen
    BY <1>1, <1>4 DEF V!InSliceOf, ValidatorStates
  <2>2. \A c \in V!SliceChannels \ {f.channel} :
            IF s.seen[c] THEN s.ended[c] /\ f.channel = "content"
            ELSE s.nextSeq[c] = 0 /\ ~s.ended[c]
    <3>1. CASE v = V!Unused
      <4>1. /\ s.seen = [c \in V!SliceChannels |-> FALSE]
            /\ s.ended = [c \in V!SliceChannels |-> FALSE]
            /\ s.nextSeq = [c \in V!SliceChannels |-> 0]
        <5>1. /\ ~v.anyFrame /\ v.seen = [c \in V!SliceChannels |-> FALSE]
              /\ v.ended = [c \in V!SliceChannels |-> FALSE]
              /\ v.nextSeq = [c \in V!SliceChannels |-> 0]
          BY <3>1 DEF V!Unused
        <5> QED BY <1>4, <5>1 DEF V!InSliceOf, ValidatorStates
      <4> HIDE DEF s
      <4> QED BY <4>1
    <3>2. ASSUME NEW l \in FrameRecords, Knows(v, l), Follows(l, f)
          PROVE  \A c \in V!SliceChannels \ {f.channel} :
                     IF s.seen[c] THEN s.ended[c] /\ f.channel = "content"
                     ELSE s.nextSeq[c] = 0 /\ ~s.ended[c]
      <4>1. /\ ~v.endSeen /\ v.anyFrame /\ v.slice = l.slice
            /\ v.seen[l.channel] /\ v.ended[l.channel] = l.end
            /\ \A c \in V!SliceChannels \ {l.channel} :
                   IF v.seen[c] THEN v.ended[c] /\ l.channel = "content"
                   ELSE v.nextSeq[c] = 0 /\ ~v.ended[c]
            /\ l.channel \in V!SliceChannels
        BY <3>2, RecordTypes DEF Knows, Follows, V!SliceChannels
      <4>2. v.slice \in Nat /\ l.slice \in Nat
        BY Numbers, RecordTypes
      <4>3. CASE f.slice = l.slice
        <5>1. s.seen = v.seen /\ s.ended = v.ended /\ s.nextSeq = v.nextSeq
          BY <1>4, <4>1, <4>3 DEF V!InSliceOf, ValidatorStates
        <5>2. CASE f.channel = l.channel
          BY <4>1, <5>1, <5>2
        <5>3. CASE l.channel = "metadata" /\ f.channel = "content" /\ l.end
          <6>1. \A c \in V!SliceChannels \ {f.channel} : c = l.channel
            BY <5>3 DEF V!SliceChannels
          <6> HIDE DEF s
          <6> QED BY <4>1, <5>1, <5>3, <6>1
        <5> QED BY <1>1, <1>7, <3>2, <4>2, <4>3, <5>2, <5>3 DEF Follows
      <4>4. CASE f.slice # l.slice
        <5>1. /\ s.seen = [c \in V!SliceChannels |-> FALSE]
              /\ s.ended = [c \in V!SliceChannels |-> FALSE]
              /\ s.nextSeq = [c \in V!SliceChannels |-> 0]
          BY <1>4, <4>1, <4>4 DEF V!InSliceOf, ValidatorStates
        <5> HIDE DEF s
        <5> QED BY <5>1
      <4> QED BY <4>3, <4>4
    <3> QED BY <3>1, <3>2
  <2>3. ~v.endSeen
    BY DEF V!Unused, Knows, Follows
  <2> DEFINE a == V!Accepted(v, f)
  <2>4. a = [s EXCEPT !.nextSeq[f.channel] = f.chSeq + 1,
                      !.seen[f.channel] = TRUE,
                      !.ended[f.channel] = f.end,
                      !.unknown[f.channel] = FALSE]
    BY <1>5, <1>7
  <2> HIDE DEF s, a
  <2>5. /\ s.nextSeq \in [V!SliceChannels -> Nat]
        /\ s.seen \in [V!SliceChannels -> BOOLEAN]
        /\ s.ended \in [V!SliceChannels -> BOOLEAN]
        /\ s.unknown \in [V!SliceChannels -> {FALSE}]
    BY <2>1, Numbers
  <2>6. /\ [s.nextSeq EXCEPT ![f.channel] = f.chSeq + 1] \in [V!SliceChannels -> Nat]
        /\ [s.seen EXCEPT ![f.channel] = TRUE] \in [V!SliceChannels -> BOOLEAN]
        /\ [s.ended EXCEPT ![f.channel] = f.end] \in [V!SliceChannels -> BOOLEAN]
        /\ [s.unknown EXCEPT ![f.channel] = FALSE] \in [V!SliceChannels -> {FALSE}]
    <3>1. f.chSeq + 1 \in Nat
      BY <1>1
    <3> QED BY <1>1, <2>0, <2>5, <3>1
  <2>7. /\ a \in ValidatorStates /\ a.archive = s.archive /\ a.expected = s.expected
        /\ a.slice = s.slice /\ a.anyFrame = s.anyFrame /\ a.endSeen = s.endSeen
        /\ a.nextSeq = [s.nextSeq EXCEPT ![f.channel] = f.chSeq + 1]
        /\ a.seen = [s.seen EXCEPT ![f.channel] = TRUE]
        /\ a.ended = [s.ended EXCEPT ![f.channel] = f.end]
    BY <2>1, <2>4, <2>6 DEF ValidatorStates
  <2>8. /\ a.nextSeq[f.channel] = f.chSeq + 1 /\ a.seen[f.channel]
        /\ a.ended[f.channel] = f.end
        /\ \A c \in V!SliceChannels \ {f.channel} :
               /\ a.nextSeq[c] = s.nextSeq[c] /\ a.seen[c] = s.seen[c]
               /\ a.ended[c] = s.ended[c]
    BY <2>0, <2>5, <2>7
  <2>9. \A c \in V!SliceChannels \ {f.channel} :
            IF a.seen[c] THEN a.ended[c] /\ f.channel = "content"
            ELSE a.nextSeq[c] = 0 /\ ~a.ended[c]
    BY <2>2, <2>8
  <2>10. Knows(a, f)
    BY <1>7, <2>1, <2>3, <2>7, <2>8, <2>9 DEF Knows
  <2> QED BY <2>1, <2>7, <2>10 DEF a
<1> QED BY <1>6, <1>7

-----------------------------------------------------------------------------
(* The steps of the pax writer, by the callback they invoke. *)

PlainStep ==
    /\ calls' = calls /\ slice' = slice
    /\ Working' => Working
    /\ main = "done" <=> main' = "done"

OpenStep ==
    /\ main = "begin" /\ slice < Len(plan) /\ slice' = slice + 1
    /\ Working' /\ calls' = Append(calls, Stream!BeginCall(slice + 1))

ChunkStep(e) ==
    /\ Working /\ main' = main /\ slice' = slice
    /\ e.slice = slice /\ calls' = Append(calls, e)

CloseStep ==
    /\ main = "joinOutput" /\ main' = "begin" /\ slice' = slice
    /\ calls' = Append(calls, Stream!EndCall(slice))

ReturnStep ==
    /\ main = "begin" /\ slice = Len(plan) /\ main' = "done" /\ slice' = slice
    /\ calls' = calls

LEMMA StepKinds ==
    ASSUME StreamInv, Next
    PROVE  /\ plan' = plan
           /\ \/ PlainStep \/ OpenStep \/ CloseStep \/ ReturnStep
              \/ \E e \in ChunkCalls : ChunkStep(e)
<1> USE DEF mainVars, workerVars, serialVars, outputVars, stopVars
<1>0. StopInv /\ CallsInv /\ LineInv
  BY DEF StreamInv, PaxInv
<1>1. ASSUME NewPipeline, main' = "emit" \/ main' = "cancel"
      PROVE  plan' = plan /\ OpenStep
  BY <1>1 DEF NewPipeline, OpenStep, Working
<1>2. CASE BeginSlice \/ StartFails
  BY <1>1, <1>2 DEF BeginSlice, StartFails
<1>3. ASSUME Working, plan' = plan, calls' = calls, slice' = slice, main' # "done"
      PROVE  plan' = plan /\ PlainStep
  BY <1>3 DEF PlainStep, Working
<1>4. CASE \/ Enqueue \/ EnqueueSmall \/ PublishSmall \/ EnqueueRefused
           \/ FinishInput \/ JoinWorkers \/ JoinSerializer
  BY <1>3, <1>4 DEF Enqueue, EnqueueSmall, PublishSmall, Publish, EnqueueRefused,
     FinishInput, JoinWorkers, JoinSerializer, Join, HasNext, Working
<1>5. CASE MainThrows
  BY <1>5 DEF MainThrows, PlainStep, Working
<1>6. CASE JoinOutput
  BY <1>6 DEF JoinOutput, CloseStep, PlainStep, Working
<1>7. CASE Finish
  BY <1>7 DEF Finish, ReturnStep
<1>8. ASSUME NEW t, CloseNext(t) \/ Cancelled(t)
      PROVE  plan' = plan /\ PlainStep
  <2>1. Working
    BY <1>0, <1>8, RunningWorks DEF CloseNext, Cancelled
  <2> QED BY <1>3, <1>8, <2>1 DEF CloseNext, Cancelled, Working
<1>9. ASSUME UNCHANGED <<plan, calls, slice, main>>
      PROVE  plan' = plan /\ PlainStep
  BY <1>9 DEF PlainStep, Working
<1>10. CASE \E w \in Workers : WorkerNext(w)
  BY <1>8, <1>9, <1>10 DEF WorkerNext, WorkerTakes, WorkerPuts, WorkerThrows,
     WorkerEnds
<1>11. CASE SerializerNext
  BY <1>8, <1>9, <1>11 DEF SerializerNext, SerializerTakes, SerializerFetches,
     SerializerPushes, SerializerFinishesEntry, SerializerThrows, SerializerEnds
<1>12. CASE OutputWrites
  <2>1. Working /\ UNCHANGED <<plan, slice, main>>
    BY <1>0, <1>12, RunningWorks DEF OutputWrites, Active
  <2>2. /\ calls' = Append(calls, writing[1]) /\ writing[1] \in ChunkCalls
        /\ writing[1].slice = slice
    BY <1>0, <1>12, WrittenOne DEF LineInv
  <2> QED BY <2>1, <2>2 DEF ChunkStep
<1>13. CASE OutputNext
  BY <1>8, <1>9, <1>12, <1>13 DEF OutputNext, OutputPops, OutputThrows, OutputEnds
<1> QED BY <1>2, <1>4, <1>5, <1>6, <1>7, <1>8, <1>10, <1>11, <1>13 DEF Next, MainNext

LEMMA UnitsCounted ==
    ASSUME NEW e \in ChunkCalls
    PROVE  Units(e) \in Seq(Payload) /\ Units(e) # <<>>
<1>1. /\ e.slice \in Nat /\ e.entry \in Nat /\ e.part \in Nat
  BY DEF ChunkCalls
<1>2. PICK n \in {1, 2} :
          Units(e) = [i \in 1 .. n |-> <<e.slice, e.entry, e.part, i>>]
  BY DEF Units
<1>3. \A i \in 1 .. n : <<e.slice, e.entry, e.part, i>> \in Payload
  BY <1>1 DEF Payload
<1>4. Units(e) \in [1 .. n -> Payload]
  BY <1>2, <1>3
<1>5. Units(e) \in Seq(Payload) /\ Len(Units(e)) = n
  BY <1>4
<1> QED BY <1>5

LEMMA LastCall ==
    ASSUME CallsInv, NEW e \in ChunkCalls \cup SliceCalls, calls' = Append(calls, e)
    PROVE  calls' # calls /\ calls'[Len(calls')] = e
<1>1. calls \in Seq(ChunkCalls \cup SliceCalls) /\ Len(calls) \in Nat
  BY DEF CallsInv
<1>2. Len(calls') = Len(calls) + 1 /\ calls'[Len(calls) + 1] = e
  BY <1>1, Appended
<1> QED BY <1>1, <1>2

\* What a step of the pax writer does to the builder.
LEMMA FeedKinds ==
    ASSUME StreamInv, Next, Feeding
    PROVE  /\ plan' = plan /\ UNCHANGED <<taken, checked>>
           /\ \/ PlainStep /\ UNCHANGED <<builder, delivered>>
              \/ /\ OpenStep /\ delivered' = delivered
                 /\ builder' = BeginChannel(builder, (slice + 1) - 1, "content")
              \/ \E e \in ChunkCalls :
                    /\ ChunkStep(e) /\ builder' = Feed(builder, Units(e))
                    /\ delivered' = [delivered EXCEPT ![slice] = @ \o Units(e)]
              \/ CloseStep /\ delivered' = delivered /\ builder' = EndOfSlice(builder)
              \/ ReturnStep /\ delivered' = delivered /\ builder' = Finished(builder)
<1>0. CallsInv /\ slice \in Nat
  <2>1. CallsInv /\ TypeInv
    BY DEF StreamInv, PaxInv
  <2> QED BY <2>1, Capacities DEF TypeInv, PipelineTypeOK
<1>1. plan' = plan /\ UNCHANGED <<taken, checked>>
  BY StepKinds DEF Feeding
<1>2. ASSUME NEW e \in ChunkCalls \cup SliceCalls, calls' = Append(calls, e), ~Returns
      PROVE  builder' = Callback(builder, e) /\ delivered' = Delivering(e)
  <2>1. calls' # calls /\ calls'[Len(calls')] = e
    BY <1>0, <1>2, LastCall
  <2> QED BY <1>2, <2>1 DEF Feeding
<1>3. CASE PlainStep
  <2>1. calls' = calls /\ ~Returns
    BY <1>3 DEF PlainStep, Returns
  <2> QED BY <1>1, <1>3, <2>1 DEF Feeding
<1>4. CASE OpenStep
  <2>1. PICK e : e = Stream!BeginCall(slice + 1)
    OBVIOUS
  <2>2. e \in SliceCalls /\ e.call = "begin_slice" /\ e.slice = slice + 1
    <3>1. slice + 1 \in Nat
      BY <1>0
    <3> QED BY <2>1, <3>1, CallKinds DEF Stream!BeginCall
  <2>3. calls' = Append(calls, e) /\ ~Returns
    BY <1>4, <2>1 DEF OpenStep, Returns, Working
  <2>4. builder' = Callback(builder, e) /\ delivered' = Delivering(e)
    BY <1>2, <2>2, <2>3
  <2> QED BY <1>1, <1>4, <2>2, <2>4 DEF Callback, Delivering
<1>5. ASSUME NEW e \in ChunkCalls, ChunkStep(e)
      PROVE  /\ builder' = Feed(builder, Units(e))
             /\ delivered' = [delivered EXCEPT ![slice] = @ \o Units(e)]
  <2>1. calls' = Append(calls, e) /\ ~Returns /\ e.slice = slice
    BY <1>5 DEF ChunkStep, Returns, Working
  <2>2. builder' = Callback(builder, e) /\ delivered' = Delivering(e)
    BY <1>2, <2>1
  <2>3. e.call = "write_chunk"
    BY DEF ChunkCalls
  <2> QED BY <2>1, <2>2, <2>3 DEF Callback, Delivering
<1>6. CASE CloseStep
  <2>1. PICK e : e = Stream!EndCall(slice)
    OBVIOUS
  <2>2. e \in SliceCalls /\ e.call = "end_slice"
    BY <1>0, <2>1, CallKinds
  <2>3. calls' = Append(calls, e) /\ ~Returns
    BY <1>6, <2>1 DEF CloseStep, Returns
  <2>4. builder' = Callback(builder, e) /\ delivered' = Delivering(e)
    BY <1>2, <2>2, <2>3
  <2> QED BY <1>1, <1>6, <2>2, <2>4 DEF Callback, Delivering
<1>7. CASE ReturnStep
  <2>1. Returns /\ calls' = calls
    BY <1>7 DEF ReturnStep, Returns
  <2> QED BY <1>1, <1>7, <2>1 DEF Feeding
<1> QED BY <1>1, <1>3, <1>4, <1>5, <1>6, <1>7, StepKinds

-----------------------------------------------------------------------------
(* Every step keeps what is said of the builder. *)

\* The frames in q are those in p and later ones, from number n on.
Extends(p, q, n) ==
    /\ Len(p) <= Len(q)
    /\ \A i \in FramesIn(p) : i \in FramesIn(q) /\ q[i] = p[i]
    /\ \A i \in FramesIn(q) : i \in FramesIn(p) \/ (i > Len(p) /\ q[i].seq >= n)

LEMMA GrownExtends ==
    ASSUME NEW b \in Builders, NEW c, NEW k \in Nat, Grown(b, c, k)
    PROVE  Extends(b.out, c.out, b.global)
<1>1. /\ FramesIn(c.out)
              = FramesIn(b.out) \cup (Len(b.out) + 1 .. Len(b.out) + k)
      /\ \A i \in FramesIn(b.out) : c.out[i] = b.out[i]
  BY FramesGrow
<1>2. Len(b.out) \in Nat /\ b.global \in Nat /\ Len(c.out) = Len(b.out) + k
  BY BuilderTypes DEF Grown
<1>3. ASSUME NEW i \in Len(b.out) + 1 .. Len(b.out) + k
      PROVE  i > Len(b.out) /\ c.out[i].seq >= b.global
  <2>1. c.out[i].seq = b.global + (i - Len(b.out)) - 1
    BY DEF Grown
  <2> QED BY <1>2, <2>1
<1>4. Len(b.out) <= Len(c.out)
  BY <1>2
<1> QED BY <1>1, <1>3, <1>4 DEF Extends

LEMMA ExtendsOn ==
    ASSUME NEW p, NEW q, NEW r, NEW n, SameFrames(q, r), Extends(p, q, n),
           Len(p) \in Nat, Len(q) \in Nat, Len(r) = Len(q) + 1
    PROVE  Extends(p, r, n)
<1>1. Len(p) <= Len(r)
  BY DEF Extends
<1> QED BY <1>1 DEF Extends, SameFrames

\* What the slices' numbers and marks are in any state.
LEMMA Standing ==
    ASSUME StreamInv
    PROVE  /\ slice \in Nat /\ Len(plan) \in Nat /\ slice \in 0 .. Len(plan)
           /\ Working => slice \in 1 .. Len(plan) /\ slice # 0 /\ ~Closed(slice)
           /\ main = "begin" /\ slice # 0 => Closed(slice)
           /\ CallsInv
<1>1. TypeInv /\ CallsInv /\ HistoryInv
  BY DEF StreamInv, PaxInv
<1>2. slice \in Nat /\ Len(plan) \in Nat /\ slice \in 0 .. Len(plan)
  BY <1>1, Capacities DEF TypeInv, PipelineTypeOK
<1>3. ASSUME Working PROVE slice \in 1 .. Len(plan) /\ slice # 0 /\ ~Closed(slice)
  <2>1. Stream!IsOpen(slice) /\ slice # 0
    BY <1>3, InSlice DEF StreamInv, RangeInv
  <2> QED BY <1>2, <2>1 DEF Stream!IsOpen, Closed
<1>4. main = "begin" /\ slice # 0 => Closed(slice)
  BY <1>1 DEF HistoryInv, Closed
<1> QED BY <1>1, <1>2, <1>3, <1>4

\* A slice once closed stays closed; the step that closes one closes no other.
LEMMA ClosedThen ==
    ASSUME CallsInv, slice \in Nat
    PROVE  /\ PlainStep \/ OpenStep \/ ReturnStep \/ (\E e \in ChunkCalls : ChunkStep(e))
                  => \A s : Closed(s)' <=> Closed(s)
           /\ CloseStep => \A s : Closed(s)' <=> Closed(s) \/ s = slice
<1>1. ASSUME calls' = calls PROVE \A s : Closed(s)' <=> Closed(s)
  BY <1>1 DEF Closed, Stream!Done, Stream!Range, Stream!EndCall
<1>2. ASSUME NEW e \in ChunkCalls \cup SliceCalls, calls' = Append(calls, e)
      PROVE  \A s : Closed(s)' <=> Closed(s) \/ Stream!EndCall(s) = e
  <2>1. \A c : Stream!Done(c)' <=> Stream!Done(c) \/ c = e
    BY <1>2, DoneAppends
  <2>2. ASSUME NEW s PROVE Closed(s)' <=> Closed(s) \/ Stream!EndCall(s) = e
    <3>1. PICK c : c = Stream!EndCall(s)
      OBVIOUS
    <3>2. Stream!EndCall(s)' = c
      BY <3>1 DEF Stream!EndCall
    <3>3. Closed(s)' <=> Stream!Done(c)'
      BY <3>2 DEF Closed, Stream!Done
    <3>4. Closed(s) <=> Stream!Done(c)
      BY <3>1 DEF Closed
    <3> QED BY <2>1, <3>1, <3>3, <3>4
  <2> QED BY <2>2
<1>3. \A s : Stream!EndCall(s).call = "end_slice" /\ Stream!EndCall(s).slice = s
  BY DEF Stream!EndCall
<1>4. PlainStep \/ ReturnStep => calls' = calls
  BY DEF PlainStep, ReturnStep
<1>5. ASSUME OpenStep PROVE \A s : Closed(s)' <=> Closed(s)
  <2>1. PICK e : e = Stream!BeginCall(slice + 1)
    OBVIOUS
  <2>2. e \in SliceCalls /\ e.call = "begin_slice"
    <3>1. slice + 1 \in Nat
      OBVIOUS
    <3> QED BY <2>1, <3>1, CallKinds
  <2>3. calls' = Append(calls, e)
    BY <1>5, <2>1 DEF OpenStep
  <2>4. \A s : Stream!EndCall(s) # e
    BY <1>3, <2>2
  <2> QED BY <1>2, <2>2, <2>3, <2>4
<1>6. ASSUME NEW e \in ChunkCalls, ChunkStep(e)
      PROVE  \A s : Closed(s)' <=> Closed(s)
  <2>1. calls' = Append(calls, e)
    BY <1>6 DEF ChunkStep
  <2>2. \A s : Stream!EndCall(s) # e
    <3>1. e.call = "write_chunk"
      BY DEF ChunkCalls
    <3> QED BY <1>3, <3>1
  <2> QED BY <1>2, <2>1, <2>2
<1>7. ASSUME CloseStep PROVE \A s : Closed(s)' <=> Closed(s) \/ s = slice
  <2>1. PICK e : e = Stream!EndCall(slice)
    OBVIOUS
  <2>2. e \in SliceCalls /\ calls' = Append(calls, e)
    BY <1>7, <2>1, CallKinds DEF CloseStep
  <2>3. \A s : Closed(s)' <=> Closed(s) \/ Stream!EndCall(s) = e
    BY <1>2, <2>2
  <2>4. \A s : Stream!EndCall(s) = e <=> s = slice
    BY <1>3, <2>1
  <2> QED BY <2>3, <2>4
<1> QED BY <1>1, <1>4, <1>5, <1>6, <1>7

LEMMA ClosedSlicePrimed ==
    ASSUME NEW s, slice' = s PROVE Closed(slice)' <=> Closed(s)'
  BY DEF Closed, Stream!EndCall, Stream!Done

\* A slice that came out empty stays empty.
LEMMA EmptyStays ==
    ASSUME \A s : Closed(s) => Closed(s)', slice \in Nat, slice' \in Nat, slice <= slice',
           \A s \in 1 .. slice : Closed(s) => delivered'[s] = delivered[s]
    PROVE  NoneEmpty' => NoneEmpty
<1>1. ASSUME NEW s \in 1 .. slice, SliceIsEmpty(s)
      PROVE  s \in 1 .. slice' /\ SliceIsEmpty(s)'
  <2>1. Closed(s) /\ delivered[s] = <<>> /\ (s = 1 => CatalogUnits = 0)
    BY <1>1 DEF SliceIsEmpty, Closed
  <2>2. Closed(s)' /\ delivered'[s] = <<>>
    BY <2>1
  <2>3. SliceIsEmpty(s)'
    BY <2>1, <2>2 DEF SliceIsEmpty, Closed
  <2> QED BY <2>3
<1> QED BY <1>1 DEF NoneEmpty

LEMMA PlainKeeps ==
    ASSUME StreamInv, BuilderInv, PieceInv, plan' = plan, PlainStep,
           UNCHANGED <<builder, delivered>>
    PROVE  /\ BuilderInv' /\ PieceInv' /\ (Chained => Chained')
           /\ Count' = Count /\ (NoneEmpty' => NoneEmpty)
<1>1. /\ slice \in Nat /\ CallsInv
      /\ slice' = slice /\ (Working' => Working) /\ (main = "done" <=> main' = "done")
  BY Standing DEF PlainStep
<1>2. \A s : Closed(s)' <=> Closed(s)
  BY <1>1, ClosedThen
<1>3. Closed(slice)' <=> Closed(slice)
  BY <1>1, <1>2, ClosedSlicePrimed
<1>4. Count' = Count
  BY <1>1 DEF Count
<1>5. BuilderInv'
  BY <1>1, <1>3, <1>4 DEF BuilderInv
<1>6. PieceInv'
  BY <1>1 DEF PieceInv
<1>7. NoneEmpty' => NoneEmpty
  BY <1>1, <1>2, EmptyStays
<1> QED BY <1>1, <1>4, <1>5, <1>6, <1>7 DEF Chained

LEMMA WholeThen ==
    ASSUME NEW b \in Builders, NEW all, RunInv(b, all), b.pending = <<>>
    PROVE  Whole(b.out, b.slice + 1, all)
  BY DEF RunInv, Whole

LEMMA NothingHeld ==
    ASSUME NEW c, c.chSeq = 0, c.pending = <<>>
    PROVE  Held(c, <<>>)
<1>1. Upto(0) = 0 /\ Len(<<>>) = 0 /\ <<>> \in Seq(Payload)
  BY UptoFacts
<1>2. Piece(<<>>, 0, 0) \in Seq(Payload) /\ Len(Piece(<<>>, 0, 0)) = 0
  <2>1. PICK q \in Seq(Payload) : q = <<>>
    BY <1>1
  <2>2. PICK m \in Nat : m = 0
    OBVIOUS
  <2>3. m <= m /\ m <= Len(q) /\ m - m = 0
    BY <1>1, <2>1, <2>2
  <2>4. Piece(q, m, m) \in Seq(Payload) /\ Len(Piece(q, m, m)) = m - m
    BY ONLY <2>3, PieceFacts, q \in Seq(Payload), m \in Nat
  <2> QED BY <2>1, <2>2, <2>3, <2>4
<1>3. Piece(<<>>, 0, 0) = <<>>
  BY <1>2
<1> QED BY <1>1, <1>3, HeldMeans

LEMMA OpenKeeps ==
    ASSUME StreamInv, BuilderInv, PieceInv, plan' = plan, OpenStep,
           delivered' = delivered,
           builder' = BeginChannel(builder, (slice + 1) - 1, "content")
    PROVE  /\ BuilderInv' /\ PieceInv' /\ (Chained => Chained')
           /\ Extends(builder.out, builder'.out, Count) /\ Count' = Count
           /\ (NoneEmpty' => NoneEmpty)
<1>1. /\ slice \in Nat /\ slice < Len(plan) /\ Len(plan) \in Nat /\ CallsInv
      /\ main = "begin" /\ Working' /\ slice' = slice + 1 /\ slice' \in Nat
      /\ slice + 1 \in 1 .. Len(plan) /\ (slice # 0 => Closed(slice))
  BY Standing DEF OpenStep
<1>2. PICK b \in Builders, s \in Nat : b = builder /\ s = slice
  BY <1>1 DEF BuilderInv
<1>3. /\ builder' = BeginChannel(b, s, "content")
      /\ builder' \in Builders /\ builder'.out = b.out /\ builder'.global = b.global
      /\ builder'.pending = b.pending /\ builder'.slice = s
      /\ builder'.channel = "content" /\ builder'.chSeq = 0
  <2>1. builder' = BeginChannel(b, s, "content")
    <3>1. (slice + 1) - 1 = s
      BY <1>2
    <3> QED BY <1>2, <3>1
  <2>2. PICK ch \in {"content", "metadata"} : ch = "content"
    OBVIOUS
  <2>3. PICK c : c = BeginChannel(b, s, ch)
    OBVIOUS
  <2>4. /\ c \in Builders /\ c.out = b.out /\ c.global = b.global
        /\ c.pending = b.pending /\ c.slice = s /\ c.channel = ch /\ c.chSeq = 0
    <3>1. /\ BeginChannel(b, s, ch) \in Builders
          /\ BeginChannel(b, s, ch).out = b.out
          /\ BeginChannel(b, s, ch).global = b.global
          /\ BeginChannel(b, s, ch).pending = b.pending
          /\ BeginChannel(b, s, ch).slice = s
          /\ BeginChannel(b, s, ch).channel = ch
          /\ BeginChannel(b, s, ch).chSeq = 0
      BY ONLY BeginChannelKeeps, b \in Builders, s \in Nat,
         ch \in {"content", "metadata"}
    <3> QED BY ONLY <2>3, <3>1
  <2>5. builder' = c
    BY <2>1, <2>2, <2>3
  <2> QED BY <2>1, <2>2, <2>4, <2>5
<1>4. b.pending = <<>>
  BY <1>1, <1>2 DEF BuilderInv
<1>5. main # "done" /\ main' # "done"
  BY <1>1 DEF Working
<1>6. Count = b.global /\ Count' = b.global
  BY <1>2, <1>3, <1>5 DEF Count
<1>7. delivered[s + 1] = <<>>
  <2>1. s + 1 \in 1 .. Len(plan) /\ s + 1 > slice
    BY <1>1, <1>2
  <2> QED BY <2>1 DEF BuilderInv
<1>8. BuilderInv'
  <2>1. \A r \in 1 .. Len(plan) : r > s + 1 => delivered[r] = <<>>
    <3>1. \A r \in 1 .. Len(plan) : r > s => delivered[r] = <<>>
      BY <1>2 DEF BuilderInv
    <3> QED BY <3>1
  <2>2. Numbered(b.out, b.global)
    BY <1>2, <1>6 DEF BuilderInv
  <2>3. slice' # 0 /\ slice' = s + 1 /\ slice' - 1 = s
    BY <1>1, <1>2
  <2>4. Held(builder', <<>>)
    BY <1>3, <1>4, NothingHeld
  <2>5. Len(<<>>) = 0 /\ 0 <= Capacity
    BY CapacityAssumption
  <2>6. (CatalogUnits > 0 => b.global > 0) /\ delivered \in [1 .. Len(plan) -> Seq(Payload)]
    BY <1>2 DEF BuilderInv
  <2> QED BY <1>3, <1>4, <1>6, <1>7, <2>1, <2>2, <2>3, <2>4, <2>5, <2>6 DEF BuilderInv
<1>9. PieceInv'
  <2>1. \A i \in DOMAIN b.out : b.out[i].channel = "content" => b.out[i].slice < s
    BY <1>2 DEF PieceInv
  <2>2. \A i \in DOMAIN b.out : b.out[i].channel = "content" =>
            /\ b.out[i].slice \in Nat /\ b.out[i].slice < s + 1
            /\ b.out[i].slice # (s + 1) - 1
    <3>1. ASSUME NEW i \in DOMAIN b.out, b.out[i].channel = "content"
          PROVE  b.out[i].slice \in Nat
      <4>1. i \in FramesIn(b.out)
        BY <3>1 DEF FramesIn
      <4>2. b.out[i] \in FrameRecords
        BY <4>1, BuilderTypes
      <4> QED BY <4>2, RecordTypes
    <3> QED BY <2>1, <3>1
  <2>3. RunOf(b.out, s + 1) = {}
    BY <2>2 DEF RunOf
  <2>4. RunInv(builder', <<>>)
    <3>1. Cut(builder'.out, builder'.slice + 1, <<>>)
      BY <1>3, <2>3 DEF Cut
    <3>2. \A k \in 0 .. Len(<<>>) : ~(Upto(k) < Len(<<>>))
      <4>1. \A k \in 0 .. Len(<<>>) : k = 0
        OBVIOUS
      <4> QED BY <4>1, UptoFacts
    <3> QED BY <1>3, <2>3, <3>1, <3>2 DEF RunInv
  <2>5. ASSUME NEW r \in 1 .. s PROVE Whole(b.out, r, delivered[r])
    <3>1. CASE r = s
      <4>1. s # 0 /\ RunInv(b, delivered[s])
        BY <1>2, <3>1 DEF PieceInv
      <4>2. b.slice + 1 = s
        BY <1>2, <4>1 DEF BuilderInv
      <4> QED BY <1>4, <3>1, <4>1, <4>2, WholeThen
    <3>2. CASE r # s
      <4>1. r \in 1 .. s - 1
        BY <3>2
      <4> QED BY <1>2, <4>1 DEF PieceInv
    <3> QED BY <3>1, <3>2
  <2>6. slice' = s + 1 /\ slice' - 1 = s /\ slice' # 0
    BY <1>1, <1>2
  <2> QED BY <1>3, <1>7, <2>2, <2>4, <2>5, <2>6 DEF PieceInv
<1>10. NoneEmpty' => NoneEmpty
  <2>1. \A r : Closed(r)' <=> Closed(r)
    BY <1>1, ClosedThen
  <2>2. slice <= slice'
    BY <1>1
  <2> QED BY <1>1, <2>1, <2>2, EmptyStays
<1>11. ASSUME Chained, NoneEmpty' PROVE Linked(builder'.out) /\ Tip(builder')
  <2>1. Linked(b.out) /\ Tip(b)
    BY <1>2, <1>5, <1>10, <1>11 DEF Chained
  <2>2. /\ b.channel = "content" /\ (slice = 0 => b.slice = 0 /\ b.chSeq = 0)
        /\ (slice # 0 => b.slice + 1 = s)
        /\ (CatalogUnits > 0 => b.global > 0)
        /\ b.chSeq \in Nat /\ b.slice \in Nat /\ b.global \in Nat
    BY <1>1, <1>2, BuilderTypes DEF BuilderInv
  <2>3. slice # 0 /\ b.chSeq = 0 => slice = 1 /\ CatalogUnits > 0
    <3>1. SUFFICES ASSUME slice # 0, b.chSeq = 0 PROVE slice = 1 /\ CatalogUnits > 0
      OBVIOUS
    <3>2. delivered[slice] = <<>> /\ Closed(slice)
      BY <1>1, <1>2, <1>4, <3>1 DEF BuilderInv
    <3>3. slice \in 1 .. slice
      BY <1>1, <3>1
    <3>4. ~SliceIsEmpty(slice)
      BY <1>10, <1>11, <3>3 DEF NoneEmpty
    <3>5. slice = 1 /\ CatalogUnits # 0
      BY <3>2, <3>4 DEF SliceIsEmpty, Closed
    <3> QED BY <3>5, ArchiverAssumption
  <2>4. \/ s = b.slice /\ b.chSeq = 0
        \/ s = b.slice + 1 /\ b.chSeq > 0
        \/ s = 1 /\ b.slice = 0 /\ b.chSeq = 0 /\ b.global > 0
    BY <1>2, <2>2, <2>3
  <2>5. Tip(BeginChannel(b, s, "content"))
    BY <1>4, <2>1, <2>2, <2>4, BeginKeeps
  <2> QED BY <1>3, <2>1, <2>5
<1>12. Extends(builder.out, builder'.out, Count)
  <2>1. Len(b.out) \in Nat
    BY BuilderTypes
  <2> QED BY <1>2, <1>3, <2>1 DEF Extends
<1> QED BY <1>6, <1>8, <1>9, <1>10, <1>11, <1>12 DEF Chained

LEMMA ChunkKeeps ==
    ASSUME StreamInv, BuilderInv, PieceInv, plan' = plan,
           NEW e \in ChunkCalls, ChunkStep(e), builder' = Feed(builder, Units(e)),
           delivered' = [delivered EXCEPT ![slice] = @ \o Units(e)]
    PROVE  /\ BuilderInv' /\ PieceInv' /\ (Chained => Chained')
           /\ Extends(builder.out, builder'.out, Count) /\ Count <= Count'
           /\ (NoneEmpty' => NoneEmpty)
<1>1. /\ slice \in Nat /\ Len(plan) \in Nat /\ CallsInv /\ Working
      /\ slice \in 1 .. Len(plan) /\ slice # 0 /\ ~Closed(slice)
      /\ main' = main /\ slice' = slice
  BY Standing DEF ChunkStep
<1>2. main # "done" /\ Working'
  BY <1>1 DEF Working
<1>3. PICK b \in Builders, s \in Nat, u \in Seq(Payload) :
          b = builder /\ s = slice /\ u = Units(e) /\ u # <<>>
  BY <1>1, UnitsCounted DEF BuilderInv
<1>4. PICK all \in Seq(Payload) : all = delivered[slice]
  BY <1>1 DEF BuilderInv
<1>5. /\ b.channel = "content" /\ b.slice + 1 = s /\ b.slice \in Nat
      /\ b.slice = s - 1
      /\ Held(b, all) /\ (b.chSeq > 0 => b.pending # <<>>)
      /\ Numbered(b.out, b.global) /\ RunInv(b, all)
      /\ (CatalogUnits > 0 => b.global > 0) /\ b.global \in Nat
  <2>1. /\ b.channel = "content" /\ b.slice = s - 1
        /\ Held(b, all) /\ (b.pending = <<>> => b.chSeq = 0)
        /\ (CatalogUnits > 0 => b.global > 0)
    BY <1>1, <1>3, <1>4 DEF BuilderInv
  <2>2. Numbered(b.out, b.global)
    BY <1>2, <1>3 DEF BuilderInv, Count
  <2>3. RunInv(b, all)
    BY <1>1, <1>3, <1>4 DEF PieceInv
  <2>4. b.slice \in Nat /\ b.chSeq \in Nat /\ b.global \in Nat
    BY BuilderTypes
  <2>5. b.slice + 1 = s
    BY <1>3, <2>1
  <2> QED BY <2>1, <2>2, <2>3, <2>4, <2>5
<1>6. PICK c, total : c = Feed(b, u) /\ total = Joined(all, u)
  OBVIOUS
<1>7. /\ Held(c, total) /\ RunInv(c, total) /\ c.pending # <<>>
      /\ Len(c.pending) <= Capacity /\ total \in Seq(Payload)
      /\ \E k \in Nat : Grown(b, c, k)
  BY <1>3, <1>5, <1>6, FeedRun
<1>8. PICK k \in Nat : Grown(b, c, k)
  BY <1>7
<1>9. /\ c \in Builders /\ c.slice = b.slice /\ c.channel = b.channel
      /\ c.global = b.global + k
  BY <1>8 DEF Grown
<1>10. /\ Numbered(c.out, c.global)
       /\ Linked(b.out) /\ Tip(b) => Linked(c.out) /\ Tip(c)
  BY <1>3, <1>5, <1>6, FeedKeeps
<1>11. builder' = c
  BY <1>3, <1>6
<1>12. /\ delivered' \in [1 .. Len(plan) -> Seq(Payload)]
       /\ delivered'[s] = total
       /\ \A r \in 1 .. Len(plan) : r # s => delivered'[r] = delivered[r]
  <2>1. delivered \in [1 .. Len(plan) -> Seq(Payload)] /\ s \in 1 .. Len(plan)
    BY <1>1, <1>3 DEF BuilderInv
  <2>2. delivered' = [delivered EXCEPT ![s] = total]
    BY <1>3, <1>4, <1>6 DEF Joined
  <2> QED BY <1>7, <2>1, <2>2
<1>13. Count = b.global /\ Count' = c.global /\ Count <= Count'
  <2>1. Count = b.global /\ Count' = c.global
    BY <1>1, <1>2, <1>3, <1>11 DEF Count
  <2> QED BY <1>5, <1>9, <2>1
<1>14. \A r : Closed(r)' <=> Closed(r)
  BY <1>1, ClosedThen
<1>15. ~Closed(slice)'
  BY <1>1, <1>14, ClosedSlicePrimed
<1>16. BuilderInv'
  <2>1. \A r \in 1 .. Len(plan) : r > slice => delivered'[r] = <<>>
    <3>1. \A r \in 1 .. Len(plan) : r > s => r # s
      OBVIOUS
    <3>2. \A r \in 1 .. Len(plan) : r > s => delivered[r] = <<>>
      BY <1>3 DEF BuilderInv
    <3> QED BY <1>3, <1>12, <3>1, <3>2
  <2>2. CatalogUnits > 0 => c.global > 0
    BY <1>5, <1>9
  <2> QED BY <1>1, <1>3, <1>5, <1>7, <1>9, <1>10, <1>11, <1>12, <1>13, <1>15,
             <2>1, <2>2 DEF BuilderInv
<1>17. PieceInv'
  <2>1. /\ DOMAIN c.out = DOMAIN b.out \cup (Len(b.out) + 1 .. Len(b.out) + k)
        /\ \A i \in DOMAIN b.out : c.out[i] = b.out[i]
        /\ \A i \in Len(b.out) + 1 .. Len(b.out) + k : c.out[i].slice = b.slice
    <3>1. \A i \in Len(b.out) + 1 .. Len(b.out) + k : c.out[i].slice = b.slice
      BY <1>8 DEF Grown
    <3> QED BY <1>8, <3>1, FramesGrow
  <2>2. \A i \in DOMAIN c.out : c.out[i].channel = "content" => c.out[i].slice < s
    <3>1. b.slice < s
      BY <1>5
    <3>2. \A i \in DOMAIN b.out : b.out[i].channel = "content" => b.out[i].slice < s
      BY <1>3 DEF PieceInv
    <3> QED BY <2>1, <3>1, <3>2
  <2>3. ASSUME NEW r \in 1 .. s - 1
        PROVE  Whole(c.out, r, delivered'[r])
    <3>1. Whole(b.out, r, delivered[r])
      BY <1>3 DEF PieceInv
    <3>2. r \in 1 .. Len(plan) /\ r # s /\ r \in Nat /\ r # b.slice + 1
      BY <1>1, <1>3, <1>5
    <3>3. RunOf(c.out, r) = RunOf(b.out, r)
      BY <1>8, <3>2, RunGrows
    <3>4. \A i \in RunOf(b.out, r) : c.out[i] = b.out[i]
      BY <1>8, <3>2, RunGrows
    <3>5. delivered'[r] = delivered[r]
      BY <1>12, <3>2
    <3> QED BY <3>1, <3>3, <3>4, <3>5 DEF Whole, Cut
  <2> QED BY <1>1, <1>3, <1>7, <1>11, <1>12, <2>2, <2>3 DEF PieceInv
<1>18. NoneEmpty' => NoneEmpty
  <2>1. \A r \in 1 .. slice : Closed(r) => delivered'[r] = delivered[r]
    <3>1. \A r \in 1 .. slice : r \in 1 .. Len(plan)
      BY <1>1
    <3> QED BY <1>1, <1>3, <1>12, <3>1
  <2>2. slice <= slice' /\ slice' \in Nat
    BY <1>1
  <2> QED BY <1>1, <1>14, <2>1, <2>2, EmptyStays
<1>19. Chained => Chained'
  BY <1>1, <1>2, <1>3, <1>10, <1>11, <1>18 DEF Chained
<1>20. Extends(builder.out, builder'.out, Count)
  BY <1>3, <1>8, <1>11, <1>13, GrownExtends
<1> QED BY <1>13, <1>16, <1>17, <1>18, <1>19, <1>20

\* Flush, whether or not bytes are pending.
LEMMA FlushAll ==
    ASSUME NEW b \in Builders, b.channel = "content", Len(b.pending) <= Capacity,
           NEW all \in Seq(Payload), Held(b, all), RunInv(b, all),
           Numbered(b.out, b.global), NEW c, c = Flush(b)
    PROVE  /\ c \in Builders /\ c.pending = <<>> /\ RunInv(c, all)
           /\ c.slice = b.slice /\ c.channel = "content"
           /\ Numbered(c.out, c.global)
           /\ Linked(b.out) /\ Tip(b) => Linked(c.out) /\ Tip(c)
           /\ c.chSeq = 0 => b.chSeq = 0 /\ b.pending = <<>>
           /\ \E k \in Nat : Grown(b, c, k)
<1>1. CASE b.pending = <<>>
  <2>1. c = b
    BY <1>1 DEF Flush
  <2>2. Grown(b, b, 0)
    BY BuilderTypes DEF Grown
  <2> QED BY <1>1, <2>1, <2>2
<1>2. CASE b.pending # <<>>
  <2>1. /\ Numbered(c.out, c.global)
        /\ Linked(b.out) /\ Tip(b) => Linked(c.out) /\ Tip(c)
        /\ Grown(b, c, 1) /\ c.pending = <<>>
    BY <1>2, FlushKeeps
  <2>2. RunInv(c, all)
    BY <1>2, FlushRun
  <2>3. /\ c \in Builders /\ c.slice = b.slice /\ c.channel = b.channel
        /\ c.chSeq = b.chSeq + 1
    BY <2>1 DEF Grown
  <2>4. c.chSeq # 0
    BY <2>3, BuilderTypes
  <2> QED BY <2>1, <2>2, <2>3, <2>4
<1> QED BY <1>1, <1>2

LEMMA CloseKeeps ==
    ASSUME StreamInv, BuilderInv, PieceInv, plan' = plan, CloseStep,
           delivered' = delivered, builder' = EndOfSlice(builder)
    PROVE  /\ BuilderInv' /\ PieceInv' /\ (Chained => Chained')
           /\ Extends(builder.out, builder'.out, Count) /\ Count <= Count'
           /\ (NoneEmpty' => NoneEmpty)
<1>1. /\ slice \in Nat /\ Len(plan) \in Nat /\ CallsInv /\ Working
      /\ slice \in 1 .. Len(plan) /\ slice # 0
      /\ main # "done" /\ main' # "done" /\ ~Working' /\ slice' = slice
  <2>1. Working /\ main # "done" /\ main' # "done" /\ ~Working' /\ slice' = slice
    BY DEF CloseStep, Working
  <2> QED BY <2>1, Standing
<1>2. PICK b \in Builders, s \in Nat : b = builder /\ s = slice
  BY <1>1 DEF BuilderInv
<1>3. PICK all \in Seq(Payload) : all = delivered[slice]
  BY <1>1 DEF BuilderInv
<1>4. /\ b.channel = "content" /\ b.slice = s - 1 /\ b.slice \in Nat
      /\ b.slice + 1 = s /\ Len(b.pending) <= Capacity
      /\ Held(b, all) /\ Numbered(b.out, b.global) /\ RunInv(b, all)
      /\ (CatalogUnits > 0 => b.global > 0) /\ b.global \in Nat
      /\ (b.chSeq = 0 /\ b.pending = <<>> => all = <<>>)
  <2>1. /\ b.channel = "content" /\ b.slice = s - 1
        /\ Len(b.pending) <= Capacity /\ Held(b, all)
        /\ (CatalogUnits > 0 => b.global > 0)
        /\ (b.chSeq = 0 /\ b.pending = <<>> => all = <<>>)
    BY <1>1, <1>2, <1>3 DEF BuilderInv
  <2>2. Numbered(b.out, b.global)
    BY <1>1, <1>2 DEF BuilderInv, Count
  <2>3. RunInv(b, all)
    BY <1>1, <1>2, <1>3 DEF PieceInv
  <2>4. b.slice \in Nat /\ b.global \in Nat
    BY BuilderTypes
  <2>5. b.slice + 1 = s
    BY <1>2, <2>1
  <2> QED BY <2>1, <2>2, <2>3, <2>4, <2>5
<1>5. PICK c : c = Flush(b)
  OBVIOUS
<1>6. /\ c \in Builders /\ c.pending = <<>> /\ RunInv(c, all)
      /\ c.slice = b.slice /\ c.channel = "content"
      /\ Numbered(c.out, c.global)
      /\ Linked(b.out) /\ Tip(b) => Linked(c.out) /\ Tip(c)
      /\ c.chSeq = 0 => b.chSeq = 0 /\ b.pending = <<>>
      /\ \E k \in Nat : Grown(b, c, k)
  BY <1>4, <1>5, FlushAll
<1>7. PICK k \in Nat : Grown(b, c, k)
  BY <1>6
<1>8. PICK d : d = Marked(c)
  OBVIOUS
<1>9. /\ d \in Builders /\ SameFrames(c.out, d.out)
      /\ d.global = c.global /\ d.slice = c.slice /\ d.channel = c.channel
      /\ d.chSeq = c.chSeq /\ d.pending = c.pending
      /\ Len(d.out) = Len(c.out) + 1
      /\ \A i \in DOMAIN c.out : d.out[i] = c.out[i]
      /\ \A i \in DOMAIN d.out : i \in DOMAIN c.out \/ d.out[i] = TapeEof
  BY <1>6, <1>8, MarkIsNoFrame
<1>10. builder' = d
  BY <1>2, <1>5, <1>8 DEF EndOfSlice, Marked
<1>11. /\ Numbered(d.out, d.global)
       /\ Linked(c.out) => Linked(d.out)
       /\ \A r : RunOf(c.out, r) = RunOf(d.out, r)
       /\ \A r : \A i \in RunOf(c.out, r) : c.out[i] = d.out[i]
  BY <1>6, <1>9, SameFramesSame
<1>12. Tip(c) => Tip(d)
  BY <1>9, TipStays
<1>13. Count = b.global /\ Count' = d.global /\ Count <= Count'
  <2>1. Count = b.global /\ Count' = d.global
    BY <1>1, <1>2, <1>10 DEF Count
  <2>2. d.global = b.global + k
    BY <1>7, <1>9 DEF Grown
  <2> QED BY <1>4, <2>1, <2>2
<1>14. BuilderInv'
  <2>1. \A r \in 1 .. Len(plan) : r > slice => delivered[r] = <<>>
    BY DEF BuilderInv
  <2>2. CatalogUnits > 0 => d.global > 0
    <3>1. d.global = b.global + k
      BY <1>7, <1>9 DEF Grown
    <3> QED BY <1>4, <3>1
  <2>3. Len(d.pending) <= Capacity
    <3>1. Len(<<>>) = 0 /\ 0 <= Capacity
      BY CapacityAssumption
    <3> QED BY <1>6, <1>9, <3>1
  <2>4. delivered \in [1 .. Len(plan) -> Seq(Payload)]
    BY DEF BuilderInv
  <2> QED BY <1>1, <1>2, <1>3, <1>4, <1>6, <1>9, <1>10, <1>11, <1>13, <2>1, <2>2,
             <2>3, <2>4 DEF BuilderInv
<1>15. PieceInv'
  <2>1. /\ DOMAIN c.out = DOMAIN b.out \cup (Len(b.out) + 1 .. Len(b.out) + k)
        /\ \A i \in DOMAIN b.out : c.out[i] = b.out[i]
        /\ \A i \in Len(b.out) + 1 .. Len(b.out) + k : c.out[i].slice = b.slice
    <3>1. \A i \in Len(b.out) + 1 .. Len(b.out) + k : c.out[i].slice = b.slice
      BY <1>7 DEF Grown
    <3> QED BY <1>7, <3>1, FramesGrow
  <2>2. \A i \in DOMAIN c.out : c.out[i].channel = "content" => c.out[i].slice < s
    <3>1. b.slice < s
      BY <1>4
    <3>2. \A i \in DOMAIN b.out : b.out[i].channel = "content" => b.out[i].slice < s
      BY <1>2 DEF PieceInv
    <3> QED BY <2>1, <3>1, <3>2
  <2>3. \A i \in DOMAIN d.out : d.out[i].channel = "content" => d.out[i].slice < s
    <3>1. TapeEof.channel # "content"
      BY DEF TapeEof
    <3> QED BY <1>9, <2>2, <3>1
  <2>4. ASSUME NEW r \in 1 .. s - 1 PROVE Whole(d.out, r, delivered[r])
    <3>1. Whole(b.out, r, delivered[r])
      BY <1>2 DEF PieceInv
    <3>2. r \in Nat /\ r # b.slice + 1
      BY <1>4
    <3>3. RunOf(d.out, r) = RunOf(b.out, r)
      <4>1. RunOf(c.out, r) = RunOf(b.out, r)
        BY <1>7, <3>2, RunGrows
      <4> QED BY <1>11, <4>1
    <3>4. \A i \in RunOf(b.out, r) : d.out[i] = b.out[i]
      <4>1. \A i \in RunOf(b.out, r) : c.out[i] = b.out[i]
        BY <1>7, <3>2, RunGrows
      <4> QED BY <1>11, <3>3, <4>1
    <3> QED BY <3>1, <3>3, <3>4 DEF Whole, Cut
  <2>5. RunInv(d, all)
    <3>1. RunOf(d.out, d.slice + 1) = RunOf(c.out, c.slice + 1)
      BY <1>9, <1>11
    <3>2. \A i \in RunOf(d.out, d.slice + 1) : d.out[i] = c.out[i]
      BY <1>9, <1>11
    <3> QED BY <1>6, <1>9, <3>1, <3>2 DEF RunInv, Cut
  <2> QED BY <1>1, <1>2, <1>3, <1>10, <2>3, <2>4, <2>5 DEF PieceInv
<1>16. NoneEmpty' => NoneEmpty
  <2>1. \A r : Closed(r)' <=> Closed(r) \/ r = slice
    BY <1>1, ClosedThen
  <2>2. slice <= slice' /\ slice' \in Nat
    BY <1>1
  <2> QED BY <1>1, <2>1, <2>2, EmptyStays
<1>17. Chained => Chained'
  BY <1>1, <1>2, <1>6, <1>10, <1>11, <1>12, <1>16 DEF Chained
<1>18. Extends(builder.out, builder'.out, Count)
  <2>1. Extends(b.out, c.out, b.global)
    BY <1>7, GrownExtends
  <2>2. Len(b.out) \in Nat /\ Len(c.out) \in Nat
    BY <1>6, BuilderTypes
  <2>3. Extends(b.out, d.out, b.global)
    BY <1>9, <2>1, <2>2, ExtendsOn
  <2> QED BY <1>2, <1>10, <1>13, <2>3
<1> QED BY <1>13, <1>14, <1>15, <1>16, <1>17, <1>18

LEMMA ReturnKeeps ==
    ASSUME StreamInv, BuilderInv, PieceInv, plan' = plan, ReturnStep,
           delivered' = delivered, builder' = Finished(builder)
    PROVE  /\ BuilderInv' /\ PieceInv' /\ (Chained => Chained')
           /\ Extends(builder.out, builder'.out, Count) /\ Count <= Count'
           /\ (NoneEmpty' => NoneEmpty)
<1>1. /\ slice \in Nat /\ CallsInv
      /\ main # "done" /\ main' = "done" /\ ~Working' /\ slice' = slice
      /\ (slice # 0 => Closed(slice))
  <2>1. main = "begin" /\ main' = "done" /\ ~Working' /\ slice' = slice
    BY DEF ReturnStep, Working
  <2> QED BY <2>1, Standing
<1>2. PICK b \in Builders, s \in Nat : b = builder /\ s = slice
  BY <1>1 DEF BuilderInv
<1>3. b.pending = <<>> /\ Numbered(b.out, b.global) /\ b.global \in Nat
  <2>1. b.pending = <<>>
    BY <1>1, <1>2 DEF BuilderInv
  <2>2. Numbered(b.out, b.global)
    BY <1>1, <1>2 DEF BuilderInv, Count
  <2> QED BY <2>1, <2>2, BuilderTypes
<1>4. PICK c : c = Ended(b)
  OBVIOUS
<1>5. /\ c \in Builders /\ Numbered(c.out, c.global + 1)
      /\ Linked(b.out) /\ Tip(b) => Linked(c.out)
      /\ \A r : RunOf(c.out, r) = RunOf(b.out, r)
      /\ \A r : \A i \in RunOf(b.out, r) : c.out[i] = b.out[i]
      /\ DOMAIN b.out \subseteq DOMAIN c.out
      /\ \A i \in DOMAIN b.out : c.out[i] = b.out[i]
      /\ c.global = b.global /\ c.slice = b.slice /\ c.channel = b.channel
      /\ c.chSeq = b.chSeq /\ c.pending = b.pending
      /\ \A i \in DOMAIN c.out : c.out[i].channel = "content" => i \in DOMAIN b.out
      /\ Len(c.out) = Len(b.out) + 1
  <2>1. c \in Builders /\ Numbered(c.out, c.global + 1)
    BY <1>3, <1>4, EndKeeps
  <2>2. Linked(b.out) /\ Tip(b) => Linked(c.out)
    BY <1>3, <1>4, EndKeeps
  <2>3. \A r : RunOf(c.out, r) = RunOf(b.out, r)
    BY <1>3, <1>4, EndKeeps
  <2>4. \A r : \A i \in RunOf(b.out, r) : c.out[i] = b.out[i]
    BY <1>3, <1>4, EndKeeps
  <2>5. /\ DOMAIN b.out \subseteq DOMAIN c.out
        /\ \A i \in DOMAIN b.out : c.out[i] = b.out[i]
        /\ c.global = b.global /\ c.slice = b.slice /\ c.channel = b.channel
        /\ c.chSeq = b.chSeq /\ c.pending = b.pending
        /\ \A i \in DOMAIN c.out : c.out[i].channel = "content" => i \in DOMAIN b.out
        /\ Len(c.out) = Len(b.out) + 1
    BY <1>3, <1>4, EndKeeps
  <2> QED BY <2>1, <2>2, <2>3, <2>4, <2>5
<1>6. builder' = c
  <2>1. Flush(b) = b
    BY <1>3 DEF Flush
  <2> QED BY <1>2, <1>4, <2>1 DEF Finished, Ended
<1>7. Count = b.global /\ Count' = b.global + 1 /\ Count <= Count'
  <2>1. Count = b.global /\ Count' = c.global + 1
    BY <1>1, <1>2, <1>6 DEF Count
  <2> QED BY <1>3, <1>5, <2>1
<1>8. \A r : Closed(r)' <=> Closed(r)
  BY <1>1, ClosedThen
<1>9. Closed(slice)' <=> Closed(slice)
  BY <1>1, <1>8, ClosedSlicePrimed
<1>10. BuilderInv'
  <2>1. Numbered(builder'.out, Count')
    BY <1>5, <1>6, <1>7
  <2> QED BY <1>1, <1>2, <1>5, <1>6, <1>9, <2>1 DEF BuilderInv
<1>11. PieceInv'
  <2>1. \A i \in DOMAIN c.out : c.out[i].channel = "content" => c.out[i].slice < s
    BY <1>2, <1>5 DEF PieceInv
  <2>2. \A r \in 1 .. s - 1 : Whole(c.out, r, delivered[r])
    <3>1. \A r \in 1 .. s - 1 : Whole(b.out, r, delivered[r])
      BY <1>2 DEF PieceInv
    <3> QED BY <1>5, <3>1 DEF Whole, Cut
  <2>3. s # 0 => RunInv(c, delivered[s])
    <3>1. s # 0 => RunInv(b, delivered[s])
      BY <1>2 DEF PieceInv
    <3> QED BY <1>5, <3>1 DEF RunInv, Cut
  <2> QED BY <1>1, <1>2, <1>6, <2>1, <2>2, <2>3 DEF PieceInv
<1>12. NoneEmpty' => NoneEmpty
  <2>1. slice <= slice' /\ slice' \in Nat
    BY <1>1
  <2> QED BY <1>1, <1>8, <2>1, EmptyStays
<1>13. Chained => Chained'
  BY <1>1, <1>2, <1>5, <1>6, <1>12 DEF Chained
<1>14. Extends(builder.out, builder'.out, Count)
  <2>1. Len(b.out) \in Nat /\ DOMAIN b.out = 1 .. Len(b.out) /\ DOMAIN c.out = 1 .. Len(c.out)
    BY <1>5, BuilderTypes
  <2>2. \A i \in DOMAIN c.out : i \in DOMAIN b.out \/ i = Len(b.out) + 1
    BY <1>5, <2>1
  <2>3. c.out[Len(b.out) + 1].seq = b.global
    <3>1. PICK a : a = ArchiveEnd(b)
      OBVIOUS
    <3>2. a.seq = b.global
      BY <3>1 DEF ArchiveEnd
    <3>3. c.out = Append(b.out, a)
      BY <1>4, <3>1 DEF Builders, Ended
    <3>4. c.out[Len(b.out) + 1] = a
      BY <2>1, <3>3, BuilderTypes
    <3> QED BY <3>2, <3>4
  <2>4. \A i \in FramesIn(b.out) : i \in FramesIn(c.out) /\ c.out[i] = b.out[i]
    BY <1>5 DEF FramesIn
  <2>5. ASSUME NEW i \in FramesIn(c.out)
        PROVE  i \in FramesIn(b.out) \/ (i > Len(b.out) /\ c.out[i].seq >= b.global)
    <3>1. CASE i \in DOMAIN b.out
      BY <1>5, <3>1 DEF FramesIn
    <3>2. CASE i = Len(b.out) + 1
      BY <1>3, <2>1, <2>3, <3>2
    <3> QED BY <2>2, <3>1, <3>2 DEF FramesIn
  <2>6. Len(b.out) <= Len(c.out)
    BY <1>5, <2>1
  <2>7. Extends(b.out, c.out, b.global)
    BY <2>4, <2>5, <2>6 DEF Extends
  <2> QED BY <1>2, <1>6, <1>7, <2>7
<1> QED BY <1>7, <1>10, <1>11, <1>12, <1>13, <1>14

-----------------------------------------------------------------------------
(* The validator has taken what was taken from the queue. *)

LEMMA FramesCounted ==
    ASSUME NEW b \in Builders
    PROVE  \A i \in FramesIn(b.out) :
               i \in Nat /\ b.out[i] \in FrameRecords /\ b.out[i].seq \in Nat
<1>1. /\ FramesIn(b.out) \subseteq 1 .. Len(b.out) /\ Len(b.out) \in Nat
      /\ \A i \in FramesIn(b.out) : b.out[i] \in FrameRecords
  BY BuilderTypes
<1>2. \A i \in 1 .. Len(b.out) : i \in Nat
  BY <1>1
<1> QED BY <1>1, <1>2, RecordTypes

LEMMA SummaryStays ==
    ASSUME BuilderInv, builder' \in Builders, CheckInv, NoneEmpty' => NoneEmpty,
           Extends(builder.out, builder'.out, Count), Count <= Count',
           UNCHANGED <<taken, checked>>, Count \in Nat, Count' \in Nat
    PROVE  CheckInv'
<1>1. PICK b \in Builders, c \in Builders, m \in Nat, n \in Nat, t \in Nat :
          b = builder /\ c = builder' /\ m = Count /\ n = Count' /\ t = taken
  BY DEF BuilderInv, CheckInv
<1>2. /\ Len(b.out) <= Len(c.out) /\ Len(b.out) \in Nat /\ Len(c.out) \in Nat
      /\ t <= Len(b.out)
      /\ \A i \in FramesIn(b.out) : i \in FramesIn(c.out) /\ c.out[i] = b.out[i]
      /\ \A i \in FramesIn(c.out) :
             i \in FramesIn(b.out) \/ (i > Len(b.out) /\ c.out[i].seq >= m)
  BY <1>1, BuilderTypes DEF Extends, CheckInv
<1>3. taken' \in 0 .. Len(builder'.out)
  <2>1. t \in 0 .. Len(c.out)
    BY <1>2
  <2> QED BY <1>1, <2>1
<1>4. ASSUME NoneEmpty'
      PROVE  /\ checked' \in ValidatorStates /\ checked' # Refused
             /\ checked'.expected <= n
             /\ Summary(checked', c.out, t)
  <2>1. /\ checked \in ValidatorStates /\ checked # Refused
        /\ checked.expected <= m /\ Summary(checked, b.out, t)
    BY <1>1, <1>4 DEF CheckInv
  <2>2. PICK v \in ValidatorStates, x \in Nat : v = checked /\ x = v.expected
    BY <2>1, Numbers
  <2>3. m <= n /\ x <= m /\ x <= n
    BY <1>1, <2>1, <2>2
  <2>4. ASSUME NEW i \in FramesIn(c.out)
        PROVE  /\ i <= t <=> c.out[i].seq < x
               /\ x = c.out[i].seq + 1 => Knows(v, c.out[i])
    <3>1. CASE i \in FramesIn(b.out)
      BY <1>2, <2>1, <2>2, <3>1 DEF Summary
    <3>2. CASE i > Len(b.out) /\ c.out[i].seq >= m
      <4>1. i \in Nat /\ c.out[i] \in FrameRecords
        BY FramesCounted
      <4>2. PICK y \in Nat : y = c.out[i].seq
        BY <4>1, RecordTypes
      <4>3. ~(i <= t)
        <5>1. t <= Len(b.out) /\ Len(b.out) \in Nat
          BY <1>2
        <5> QED BY <3>2, <4>1, <5>1
      <4>4. ~(y < x) /\ x # y + 1
        <5>1. y >= m /\ x <= m
          BY <2>3, <3>2, <4>2
        <5> QED BY <5>1
      <4> QED BY <4>2, <4>3, <4>4
    <3> QED BY <1>2, <3>1, <3>2
  <2>5. Summary(v, c.out, t)
    BY <2>1, <2>2, <2>4 DEF Summary
  <2> QED BY <2>1, <2>2, <2>3, <2>5
<1> QED BY <1>1, <1>3, <1>4 DEF CheckInv

\* The frame taken next is the one the validator expects, and follows the
\* one it has accepted last.
LEMMA NextTaken ==
    ASSUME NEW b \in Builders, NEW n \in Nat, Numbered(b.out, n), Linked(b.out),
           NEW v \in ValidatorStates, v # Refused, v.expected <= n,
           NEW t \in Nat, Summary(v, b.out, t), t + 1 \in FramesIn(b.out),
           NEW f, f = b.out[t + 1]
    PROVE  /\ f \in FrameRecords /\ f.seq = v.expected /\ f.seq + 1 <= n
           /\ \/ v = V!Unused /\ Begins(f)
              \/ \E l \in FrameRecords : Knows(v, l) /\ Follows(l, f)
<1>1. /\ f \in FrameRecords /\ FramesIn(b.out) \subseteq Nat
      /\ \A i \in FramesIn(b.out) : b.out[i] \in FrameRecords
  BY FramesCounted
<1>2. \A i \in FramesIn(b.out) : b.out[i].seq \in Nat
  BY FramesCounted
<1>3. PICK x \in Nat, y \in Nat : x = v.expected /\ y = f.seq
  BY <1>1, Numbers, RecordTypes
<1>4. y >= x /\ y < n
  <2>1. ~(t + 1 <= t)
    OBVIOUS
  <2>2. ~(y < x)
    BY <1>3, <2>1 DEF Summary
  <2>3. y < n
    BY <1>3 DEF Numbered
  <2> QED BY <1>3, <2>2, <2>3
<1>5. y = x
  <2> SUFFICES ASSUME y > x PROVE FALSE
    BY <1>3, <1>4
  <2>1. x \in 0 .. n - 1
    BY <1>4
  <2>2. PICK j \in FramesIn(b.out) : b.out[j].seq = x
    BY <2>1 DEF Numbered
  <2>3. j \in Nat /\ ~(j <= t)
    BY <1>1, <1>3, <2>2 DEF Summary
  <2>4. t + 1 < j \/ j = t + 1
    BY <2>3
  <2>5. CASE t + 1 < j
    <3>1. b.out[t + 1].seq < b.out[j].seq
      BY <2>5 DEF Numbered
    <3>2. y < x
      BY <1>3, <2>2, <3>1
    <3> QED BY <1>3, <3>2
  <2>6. CASE j = t + 1
    BY <1>3, <2>2, <2>6
  <2> QED BY <2>4, <2>5, <2>6
<1>6. CASE x = 0
  <2>1. v = V!Unused
    BY <1>3, <1>6 DEF Summary
  <2>2. Begins(f)
    BY <1>3, <1>5, <1>6 DEF Linked
  <2> QED BY <1>1, <1>3, <1>4, <1>5, <2>1, <2>2
<1>7. CASE x # 0
  <2>1. x - 1 \in 0 .. n - 1 /\ (x - 1) + 1 = x
    BY <1>3, <1>4, <1>5, <1>7
  <2>2. PICK j \in FramesIn(b.out) : b.out[j].seq = x - 1
    BY <2>1 DEF Numbered
  <2>3. x = b.out[j].seq + 1
    BY <2>1, <2>2
  <2>4. Knows(v, b.out[j])
    BY <1>3, <2>3 DEF Summary
  <2>5. Follows(b.out[j], f)
    BY <1>3, <1>5, <2>3 DEF Linked
  <2>6. b.out[j] \in FrameRecords
    BY <1>1
  <2> QED BY <1>1, <1>3, <1>4, <1>5, <2>4, <2>5, <2>6
<1> QED BY <1>6, <1>7

\* No other frame is the last one then.
LEMMA SummaryGrows ==
    ASSUME NEW b \in Builders, NEW n \in Nat, Numbered(b.out, n),
           NEW v, NEW w, NEW t \in Nat, Summary(v, b.out, t),
           t + 1 \in FramesIn(b.out), NEW f \in FrameRecords, f = b.out[t + 1],
           f.seq = v.expected, w.expected = f.seq + 1, Knows(w, f)
    PROVE  Summary(w, b.out, t + 1)
<1>1. PICK y \in Nat : y = f.seq /\ y = v.expected /\ y + 1 = w.expected
  BY RecordTypes
<1>2. \A i \in FramesIn(b.out) : i \in Nat /\ b.out[i].seq \in Nat
  BY FramesCounted
<1>3. ASSUME NEW i \in FramesIn(b.out)
      PROVE  /\ i <= t + 1 <=> b.out[i].seq < y + 1
             /\ y + 1 = b.out[i].seq + 1 => Knows(w, b.out[i])
  <2>1. PICK z \in Nat : z = b.out[i].seq
    BY <1>2
  <2>2. i <= t <=> z < y
    BY <1>1, <2>1 DEF Summary
  <2>3. i = t + 1 => z = y
    BY <1>1, <2>1
  <2>4. z = y => i = t + 1
    <3>1. SUFFICES ASSUME z = y PROVE i = t + 1
      OBVIOUS
    <3>2. b.out[i].seq = b.out[t + 1].seq /\ FramesIn(b.out) \subseteq Nat
      BY <1>1, <1>2, <2>1, <3>1
    <3> QED BY <1>2, <3>2, NumbersDiffer
  <2>5. i \in Nat
    BY <1>2
  <2>6. i <= t + 1 <=> z < y + 1
    BY <2>2, <2>3, <2>4, <2>5
  <2>7. y + 1 = z + 1 => i = t + 1
    BY <2>4
  <2> QED BY <2>1, <2>6, <2>7
<1> QED BY <1>1, <1>3 DEF Summary

LEMMA CheckKeeps ==
    ASSUME BuilderInv, Chained, CheckInv, Check, NoneEmpty' => NoneEmpty,
           Count \in Nat, Count' = Count
    PROVE  CheckInv'
<1>1. /\ builder' = builder /\ taken < Len(builder.out) /\ taken' = taken + 1
  BY DEF Check
<1>2. PICK b \in Builders, t \in Nat, n \in Nat :
          b = builder /\ t = taken /\ n = Count
  BY DEF BuilderInv, CheckInv
<1>3. /\ Len(b.out) \in Nat /\ DOMAIN b.out = 1 .. Len(b.out)
      /\ t < Len(b.out) /\ t + 1 \in 0 .. Len(b.out) /\ t + 1 \in DOMAIN b.out
  BY <1>1, <1>2, BuilderTypes
<1>4. ASSUME NoneEmpty'
      PROVE  /\ checked' \in ValidatorStates /\ checked' # Refused
             /\ checked'.expected <= n
             /\ Summary(checked', b.out, t + 1)
  <2>1. /\ checked \in ValidatorStates /\ checked # Refused
        /\ checked.expected <= n /\ Summary(checked, b.out, t)
        /\ Linked(b.out) /\ Numbered(b.out, n)
    BY <1>2, <1>4 DEF CheckInv, Chained, BuilderInv
  <2>2. PICK v \in ValidatorStates, f \in {b.out[t + 1]} : v = checked /\ f = b.out[t + 1]
    BY <2>1
  <2>3. CASE f = TapeEof
    <3>1. checked' = v
      BY <1>2, <2>2, <2>3 DEF Check
    <3>2. t + 1 \notin FramesIn(b.out)
      <4>1. TapeEof.channel = "tape_eof"
        BY DEF TapeEof
      <4> QED BY <2>2, <2>3, <4>1 DEF FramesIn
    <3>3. \A i \in FramesIn(b.out) : i <= t + 1 <=> i <= t
      <4>1. \A i \in FramesIn(b.out) : i \in Nat
        BY FramesCounted
      <4> QED BY <3>2, <4>1
    <3>4. Summary(v, b.out, t + 1)
      BY <2>1, <2>2, <3>3 DEF Summary
    <3> QED BY <2>1, <2>2, <3>1, <3>4
  <2>4. CASE f # TapeEof
    <3>1. t + 1 \in FramesIn(b.out)
      <4>1. f \in QueueRecords
        BY <1>3, <2>2, BuilderTypes
      <4>2. f \in FrameRecords
        BY <2>4, <4>1 DEF QueueRecords
      <4> QED BY <1>3, <2>2, <4>2, RecordTypes DEF FramesIn
    <3>2. /\ f \in FrameRecords /\ f.seq = v.expected /\ f.seq + 1 <= n
          /\ \/ v = V!Unused /\ Begins(f)
             \/ \E l \in FrameRecords : Knows(v, l) /\ Follows(l, f)
      BY <2>1, <2>2, <3>1, NextTaken
    <3>3. V!IsNext(v, f, FALSE)
      <4>1. CASE v = V!Unused /\ Begins(f)
        <5>1. f.seq = 0
          BY <3>2, <4>1 DEF V!Unused
        <5> QED BY <3>2, <4>1, <5>1, TakesFirst
      <4>2. CASE \E l \in FrameRecords : Knows(v, l) /\ Follows(l, f)
        BY <3>2, <4>2, TakesFollower
      <4> QED BY <3>2, <4>1, <4>2
    <3>4. PICK w : w = V!Accepted(v, f)
      OBVIOUS
    <3>5. checked' = w
      BY <1>2, <2>1, <2>2, <2>4, <3>3, <3>4 DEF Check
    <3>6. /\ w \in ValidatorStates /\ w.expected = f.seq + 1
          /\ w.archive = "archive" /\ Knows(w, f)
      <4>1. v = V!Unused \/ \E l \in FrameRecords : Knows(v, l) /\ Follows(l, f)
        BY <3>2
      <4> QED BY <3>2, <3>4, <4>1, KnowsTaken
    <3>7. w # Refused
      <4>1. Refused.archive = "refused"
        BY DEF Refused, V!Unused
      <4> QED BY <3>6, <4>1
    <3>8. Summary(w, b.out, t + 1)
      BY <2>1, <2>2, <3>1, <3>2, <3>6, SummaryGrows
    <3> QED BY <3>2, <3>5, <3>6, <3>7, <3>8
  <2> QED BY <2>3, <2>4
<1> QED BY <1>1, <1>2, <1>3, <1>4 DEF CheckInv

-----------------------------------------------------------------------------
(* The builder the pax writer starts with: the plan file's frames, if any. *)

LEMMA NoFrames ==
    FramesIn(<<>>) = {} /\ Numbered(<<>>, 0) /\ Linked(<<>>)
<1>1. FramesIn(<<>>) = {}
  BY DEF FramesIn
<1>2. 0 .. 0 - 1 = {}
  OBVIOUS
<1> QED BY <1>1, <1>2 DEF Numbered, Linked

LEMMA NewBuilderFacts ==
    ASSUME NEW ch \in {"content", "metadata"}
    PROVE  LET b == BeginChannel(NewBuilder, 0, ch) IN
           /\ b \in Builders /\ b.out = <<>> /\ b.pending = <<>>
           /\ b.global = 0 /\ b.slice = 0 /\ b.chSeq = 0 /\ b.channel = ch
           /\ Numbered(b.out, b.global) /\ Linked(b.out) /\ Tip(b)
<1> DEFINE b == BeginChannel(NewBuilder, 0, ch)
<1>1. NewBuilder \in Builders /\ NewBuilder.out = <<>> /\ NewBuilder.pending = <<>>
      /\ NewBuilder.global = 0
  <2>1. <<>> \in Seq(Payload) /\ <<>> \in Seq(QueueRecords)
    OBVIOUS
  <2> QED BY <2>1 DEF NewBuilder, Builders
<1>2. /\ b \in Builders /\ b.out = <<>> /\ b.pending = <<>>
      /\ b.global = 0 /\ b.slice = 0 /\ b.chSeq = 0 /\ b.channel = ch
  <2>1. PICK s \in Nat : s = 0
    OBVIOUS
  <2>2. /\ BeginChannel(NewBuilder, s, ch) \in Builders
        /\ BeginChannel(NewBuilder, s, ch).out = NewBuilder.out
        /\ BeginChannel(NewBuilder, s, ch).global = NewBuilder.global
        /\ BeginChannel(NewBuilder, s, ch).pending = NewBuilder.pending
        /\ BeginChannel(NewBuilder, s, ch).slice = s
        /\ BeginChannel(NewBuilder, s, ch).channel = ch
        /\ BeginChannel(NewBuilder, s, ch).chSeq = 0
    BY <1>1, BeginChannelKeeps
  <2> QED BY <1>1, <2>1, <2>2
<1> HIDE DEF b
<1>3. Numbered(b.out, b.global) /\ Linked(b.out) /\ Tip(b)
  BY <1>2, NoFrames DEF Tip
<1> QED BY <1>2, <1>3 DEF b

LEMMA StartFacts ==
    /\ StartBuilder \in Builders
    /\ StartBuilder.channel = "content" /\ StartBuilder.slice = 0
    /\ StartBuilder.chSeq = 0 /\ StartBuilder.pending = <<>>
    /\ Numbered(StartBuilder.out, StartBuilder.global)
    /\ Linked(StartBuilder.out) /\ Tip(StartBuilder)
    /\ CatalogUnits > 0 => StartBuilder.global > 0
    /\ \A i \in DOMAIN StartBuilder.out : StartBuilder.out[i].channel # "content"
<1>1. CASE CatalogUnits = 0
  <2>1. PICK ch \in {"content", "metadata"} : ch = "content"
    OBVIOUS
  <2>2. PICK b : b = BeginChannel(NewBuilder, 0, ch)
    OBVIOUS
  <2>3. /\ b \in Builders /\ b.out = <<>> /\ b.pending = <<>>
        /\ b.global = 0 /\ b.slice = 0 /\ b.chSeq = 0 /\ b.channel = ch
        /\ Numbered(b.out, b.global) /\ Linked(b.out) /\ Tip(b)
    BY <2>2, NewBuilderFacts
  <2>4. StartBuilder = b
    BY <1>1, <2>1, <2>2 DEF StartBuilder, NewBuilder, BeginChannel
  <2> QED BY <1>1, <2>1, <2>3, <2>4
<1>2. CASE CatalogUnits # 0
  <2>1. PICK m \in {"content", "metadata"}, ch \in {"content", "metadata"} :
            m = "metadata" /\ ch = "content"
    OBVIOUS
  <2>2. PICK a : a = BeginChannel(NewBuilder, 0, m)
    OBVIOUS
  <2>3. /\ a \in Builders /\ a.out = <<>> /\ a.pending = <<>>
        /\ a.global = 0 /\ a.slice = 0 /\ a.chSeq = 0 /\ a.channel = m
        /\ Numbered(a.out, a.global) /\ Linked(a.out) /\ Tip(a)
    BY <2>2, NewBuilderFacts
  <2>4. Catalog \in Seq(Payload) /\ Catalog # <<>>
    <3>1. CatalogUnits \in Nat /\ CatalogUnits > 0
      BY <1>2, ArchiverAssumption
    <3>2. \A i \in 1 .. CatalogUnits : <<"plan", i>> \in Payload
      BY <3>1 DEF Payload
    <3>3. Catalog \in [1 .. CatalogUnits -> Payload]
      BY <3>2 DEF Catalog
    <3>4. Catalog \in Seq(Payload) /\ Len(Catalog) = CatalogUnits
      BY <3>1, <3>3
    <3> QED BY <3>1, <3>4
  <2>5. PICK b : b = Feed(a, Catalog)
    OBVIOUS
  <2>6. b.pending # <<>> /\ \E k \in Nat : Grown(a, b, k)
    BY <2>3, <2>4, <2>5, FeedGrown
  <2>7. PICK k \in Nat : Grown(a, b, k)
    BY <2>6
  <2>8. Numbered(b.out, b.global) /\ Linked(b.out) /\ Tip(b)
    BY <2>3, <2>4, <2>5, FeedKeeps
  <2>9. b \in Builders /\ b.slice = 0 /\ b.channel = m
    BY <2>3, <2>7 DEF Grown
  <2>10. PICK c : c = Flush(b)
    OBVIOUS
  <2>11. /\ Numbered(c.out, c.global) /\ Linked(c.out) /\ Tip(c)
         /\ Grown(b, c, 1) /\ c.pending = <<>>
    BY <2>6, <2>8, <2>9, <2>10, FlushKeeps
  <2>12. /\ c \in Builders /\ c.slice = 0 /\ c.channel = m
         /\ c.chSeq > 0 /\ c.global > 0
    <3>1. /\ c \in Builders /\ c.slice = b.slice /\ c.channel = b.channel
          /\ c.chSeq = b.chSeq + 1 /\ c.global = b.global + 1
      BY <2>11 DEF Grown
    <3> QED BY <2>9, <3>1, BuilderTypes
  <2>13. \A i \in DOMAIN c.out : c.out[i].channel # "content"
    <3>1. \A i \in DOMAIN b.out : b.out[i].channel = m
      <4>1. DOMAIN b.out = Len(a.out) + 1 .. Len(a.out) + k
        <5>1. DOMAIN b.out = DOMAIN a.out \cup (Len(a.out) + 1 .. Len(a.out) + k)
          <6>1. a \in Builders
            BY <2>3
          <6> QED BY ONLY <6>1, <2>7, k \in Nat, FramesGrow
        <5>2. DOMAIN a.out = {}
          <6>1. DOMAIN <<>> = {}
            OBVIOUS
          <6> QED BY ONLY <6>1, <2>3
        <5> QED BY ONLY <5>1, <5>2
      <4>2. \A i \in Len(a.out) + 1 .. Len(a.out) + k : b.out[i].channel = a.channel
        BY <2>7 DEF Grown
      <4> QED BY <2>3, <4>1, <4>2
    <3>2. DOMAIN c.out = DOMAIN b.out \cup (Len(b.out) + 1 .. Len(b.out) + 1)
          /\ \A i \in DOMAIN b.out : c.out[i] = b.out[i]
      BY <2>9, <2>11, FramesGrow
    <3>3. \A i \in Len(b.out) + 1 .. Len(b.out) + 1 : c.out[i].channel = b.channel
      BY <2>11 DEF Grown
    <3> QED BY <2>1, <2>9, <3>1, <3>2, <3>3
  <2>0. PICK s \in Nat : s = 0
    OBVIOUS
  <2>14. PICK d : d = BeginChannel(c, s, ch)
    OBVIOUS
  <2>15. /\ d \in Builders /\ d.out = c.out /\ d.global = c.global
         /\ d.pending = c.pending /\ d.slice = s /\ d.channel = ch /\ d.chSeq = 0
    BY <2>12, <2>0, <2>14, BeginChannelKeeps
  <2>16. Tip(d)
    <3>1. s = c.slice /\ ch = "content" /\ c.channel = "metadata" /\ c.chSeq > 0
      BY <2>1, <2>12, <2>0, <2>14
    <3> QED BY <2>11, <2>12, <2>0, <2>14, <3>1, BeginKeeps
  <2>17. StartBuilder = d
    BY <1>2, <2>1, <2>2, <2>5, <2>10, <2>0, <2>14 DEF StartBuilder, WriteCatalog
  <2> QED BY <2>1, <2>11, <2>12, <2>13, <2>0, <2>14, <2>15, <2>16, <2>17
<1> QED BY <1>1, <1>2

-----------------------------------------------------------------------------
ArchInv == StreamInv /\ BuilderInv /\ PieceInv /\ Chained /\ CheckInv

LEMMA CountIsNat == ASSUME BuilderInv PROVE Count \in Nat
<1>1. builder.global \in Nat
  BY BuilderTypes DEF BuilderInv
<1> QED BY <1>1 DEF Count

LEMMA InitArch == ArchiverInit => ArchInv
<1> SUFFICES ASSUME ArchiverInit PROVE ArchInv
  OBVIOUS
<1>1. /\ Init /\ builder = StartBuilder /\ taken = 0 /\ checked = V!Unused
      /\ delivered = [s \in 1 .. Len(plan) |-> <<>>]
  BY DEF ArchiverInit
<1>2. StreamInv /\ slice = 0 /\ main = "begin" /\ ~Working
  BY <1>1, InitStream DEF Init, Working
<1>3. PICK b \in Builders : b = builder
  BY <1>1, StartFacts
<1>4. /\ b.channel = "content" /\ b.slice = 0 /\ b.chSeq = 0 /\ b.pending = <<>>
      /\ Numbered(b.out, b.global) /\ Linked(b.out) /\ Tip(b)
      /\ (CatalogUnits > 0 => b.global > 0)
      /\ \A i \in DOMAIN b.out : b.out[i].channel # "content"
  BY <1>1, <1>3, StartFacts
<1>5. Count = b.global
  BY <1>2, <1>3 DEF Count
<1>6. BuilderInv
  <2>1. delivered \in [1 .. Len(plan) -> Seq(Payload)]
    <3>1. <<>> \in Seq(Payload)
      OBVIOUS
    <3> QED BY <1>1, <3>1
  <2>2. \A s \in 1 .. Len(plan) : delivered[s] = <<>>
    BY <1>1
  <2>3. Len(<<>>) = 0 /\ 0 <= Capacity
    BY CapacityAssumption
  <2> QED BY <1>2, <1>3, <1>4, <1>5, <2>1, <2>2, <2>3 DEF BuilderInv
<1>7. PieceInv
  <2>1. 1 .. slice - 1 = {}
    BY <1>2
  <2> QED BY <1>2, <1>3, <1>4, <2>1 DEF PieceInv
<1>8. Chained
  BY <1>3, <1>4 DEF Chained
<1>9. CheckInv
  <2>1. V!Unused \in ValidatorStates /\ V!Unused # Refused /\ V!Unused.expected = 0
    <3>1. V!Unused.archive = "" /\ Refused.archive = "refused"
          /\ V!Unused.expected = 0
      BY DEF V!Unused, Refused, V!NoArchive
    <3> QED BY <3>1, FirstState
  <2>2. b.global \in Nat /\ Len(b.out) \in Nat /\ 0 \in 0 .. Len(b.out)
    BY BuilderTypes
  <2>3. ASSUME NEW i \in FramesIn(b.out)
        PROVE  /\ i <= 0 <=> b.out[i].seq < 0
               /\ 0 = b.out[i].seq + 1 => Knows(V!Unused, b.out[i])
    <3>1. i \in 1 .. Len(b.out)
      BY BuilderTypes
    <3>2. PICK y \in Nat : y = b.out[i].seq
      BY FramesCounted
    <3>3. ~(i <= 0) /\ ~(y < 0) /\ 0 # y + 1
      BY <2>2, <3>1
    <3> QED BY <3>2, <3>3
  <2>4. Summary(V!Unused, b.out, 0)
    BY <2>1, <2>3 DEF Summary
  <2> QED BY <1>1, <1>3, <1>5, <2>1, <2>2, <2>4 DEF CheckInv
<1> QED BY <1>2, <1>6, <1>7, <1>8, <1>9 DEF ArchInv

LEMMA ArchStep == ArchInv /\ [ArchiverNext]_archiverVars => ArchInv'
<1> SUFFICES ASSUME ArchInv, [ArchiverNext]_archiverVars PROVE ArchInv'
  OBVIOUS
<1>0. StreamInv /\ BuilderInv /\ PieceInv /\ Chained /\ CheckInv
  BY DEF ArchInv
<1>1. StreamInv'
  <2>1. [Next]_vars
    BY DEF ArchiverNext, Check, archiverVars
  <2> QED BY <1>0, <2>1, StreamInvStep
<1>2. ASSUME BuilderInv', PieceInv', Chained => Chained', NoneEmpty' => NoneEmpty,
             Extends(builder.out, builder'.out, Count), Count <= Count',
             UNCHANGED <<taken, checked>>
      PROVE  ArchInv'
  <2>1. Count \in Nat
    BY <1>0, CountIsNat
  <2>2. Count' \in Nat
    <3>1. builder' \in Builders
      BY <1>2 DEF BuilderInv
    <3>2. builder'.global \in Nat
      BY <3>1, BuilderTypes
    <3> QED BY <3>2 DEF Count
  <2>3. builder' \in Builders
    BY <1>2 DEF BuilderInv
  <2>4. CheckInv'
    BY <1>0, <1>2, <2>1, <2>2, <2>3, SummaryStays
  <2> QED BY <1>0, <1>1, <1>2, <2>4 DEF ArchInv
<1>3. ASSUME UNCHANGED <<builder, delivered>>, PlainStep, plan' = plan,
             UNCHANGED <<taken, checked>>
      PROVE  ArchInv'
  <2>1. /\ BuilderInv' /\ PieceInv' /\ (Chained => Chained')
        /\ Count' = Count /\ (NoneEmpty' => NoneEmpty)
    BY <1>0, <1>3, PlainKeeps
  <2>2. Extends(builder.out, builder'.out, Count)
    <3>1. PICK b \in Builders : b = builder
      BY <1>0 DEF BuilderInv
    <3>2. Len(b.out) <= Len(b.out)
      BY BuilderTypes
    <3> QED BY <1>3, <3>1, <3>2 DEF Extends
  <2>3. Count <= Count'
    BY <1>0, <2>1, CountIsNat
  <2> QED BY <1>2, <1>3, <2>1, <2>2, <2>3
<1>4. CASE Next /\ Feeding
  <2>1. /\ plan' = plan /\ UNCHANGED <<taken, checked>>
        /\ \/ PlainStep /\ UNCHANGED <<builder, delivered>>
           \/ /\ OpenStep /\ delivered' = delivered
              /\ builder' = BeginChannel(builder, (slice + 1) - 1, "content")
           \/ \E e \in ChunkCalls :
                 /\ ChunkStep(e) /\ builder' = Feed(builder, Units(e))
                 /\ delivered' = [delivered EXCEPT ![slice] = @ \o Units(e)]
           \/ CloseStep /\ delivered' = delivered /\ builder' = EndOfSlice(builder)
           \/ ReturnStep /\ delivered' = delivered /\ builder' = Finished(builder)
    BY <1>0, <1>4, FeedKinds
  <2>2. CASE PlainStep /\ UNCHANGED <<builder, delivered>>
    BY <1>3, <2>1, <2>2
  <2>3. CASE /\ OpenStep /\ delivered' = delivered
             /\ builder' = BeginChannel(builder, (slice + 1) - 1, "content")
    <3>1. /\ BuilderInv' /\ PieceInv' /\ (Chained => Chained')
          /\ Extends(builder.out, builder'.out, Count) /\ Count' = Count
          /\ (NoneEmpty' => NoneEmpty)
      BY <1>0, <2>1, <2>3, OpenKeeps
    <3>2. Count <= Count'
      BY <1>0, <3>1, CountIsNat
    <3> QED BY <1>2, <2>1, <3>1, <3>2
  <2>4. ASSUME NEW e \in ChunkCalls, ChunkStep(e),
               builder' = Feed(builder, Units(e)),
               delivered' = [delivered EXCEPT ![slice] = @ \o Units(e)]
        PROVE  ArchInv'
    <3>1. /\ BuilderInv' /\ PieceInv' /\ (Chained => Chained')
          /\ Extends(builder.out, builder'.out, Count) /\ Count <= Count'
          /\ (NoneEmpty' => NoneEmpty)
      BY <1>0, <2>1, <2>4, ChunkKeeps
    <3> QED BY <1>2, <2>1, <3>1
  <2>5. CASE CloseStep /\ delivered' = delivered /\ builder' = EndOfSlice(builder)
    <3>1. /\ BuilderInv' /\ PieceInv' /\ (Chained => Chained')
          /\ Extends(builder.out, builder'.out, Count) /\ Count <= Count'
          /\ (NoneEmpty' => NoneEmpty)
      BY <1>0, <2>1, <2>5, CloseKeeps
    <3> QED BY <1>2, <2>1, <3>1
  <2>6. CASE ReturnStep /\ delivered' = delivered /\ builder' = Finished(builder)
    <3>1. /\ BuilderInv' /\ PieceInv' /\ (Chained => Chained')
          /\ Extends(builder.out, builder'.out, Count) /\ Count <= Count'
          /\ (NoneEmpty' => NoneEmpty)
      BY <1>0, <2>1, <2>6, ReturnKeeps
    <3> QED BY <1>2, <2>1, <3>1
  <2> QED BY <2>1, <2>2, <2>3, <2>4, <2>5, <2>6
<1>5. ASSUME UNCHANGED vars PROVE plan' = plan /\ PlainStep
  BY <1>5 DEF vars, mainVars, outputVars, PlainStep, Working
<1>6. CASE Check
  <2>1. UNCHANGED <<builder, delivered>> /\ plan' = plan /\ PlainStep
    <3>1. UNCHANGED vars /\ UNCHANGED <<builder, delivered>>
      BY <1>6 DEF Check
    <3> QED BY <1>5, <3>1
  <2>2. /\ BuilderInv' /\ PieceInv' /\ (Chained => Chained')
        /\ Count' = Count /\ (NoneEmpty' => NoneEmpty)
    BY <1>0, <2>1, PlainKeeps
  <2>3. CheckInv'
    BY <1>0, <1>6, <2>2, CheckKeeps, CountIsNat
  <2> QED BY <1>0, <1>1, <2>2, <2>3 DEF ArchInv
<1>7. CASE UNCHANGED archiverVars
  <2>1. UNCHANGED vars /\ UNCHANGED <<builder, taken, checked, delivered>>
    BY <1>7 DEF archiverVars
  <2> QED BY <1>3, <1>5, <2>1
<1> QED BY <1>4, <1>6, <1>7 DEF ArchiverNext

LEMMA WholeMeans ==
    ASSUME NEW q, NEW s, NEW all, Whole(q, s, all), NEW run,
           run = {i \in DOMAIN q : q[i].channel = "content" /\ q[i].slice = s - 1}
    PROVE  /\ \A i \in run :
                  /\ q[i].chSeq * Capacity < Len(all)
                  /\ q[i].body = Share(all, q[i].chSeq)
                  /\ q[i].end <=> Len(all) <= (q[i].chSeq + 1) * Capacity
           /\ \A k \in 0 .. Len(all) : k * Capacity < Len(all) =>
                  \E i \in run : q[i].chSeq = k
           /\ \A i, j \in run : i < j => q[i].chSeq < q[j].chSeq
  BY DEF Whole, Cut, Shares, RunOf, Upto

LEMMA WholeFromPieces == ASSUME ArchInv PROVE SlicesAreWhole
<1>0. StreamInv /\ BuilderInv /\ PieceInv /\ slice \in Nat
  <2>1. StreamInv /\ BuilderInv /\ PieceInv
    BY DEF ArchInv
  <2> QED BY <2>1, Standing
<1>1. PICK b \in Builders, n \in Nat : b = builder /\ n = slice
  BY <1>0 DEF BuilderInv
<1>2. ASSUME NEW s \in 1 .. n, Closed(s)
      PROVE  Whole(b.out, s, delivered[s])
  <2>1. CASE s = n
    <3>1. RunInv(b, delivered[n]) /\ b.pending = <<>> /\ b.slice = n - 1
      BY <1>0, <1>1, <1>2, <2>1 DEF PieceInv, BuilderInv
    <3>2. b.slice + 1 = n
      BY <3>1
    <3> QED BY <2>1, <3>1, <3>2, WholeThen
  <2>2. CASE s # n
    <3>1. s \in 1 .. n - 1
      BY <2>2
    <3> QED BY <1>0, <1>1, <3>1 DEF PieceInv
  <2> QED BY <2>1, <2>2
<1>3. ASSUME NEW s \in 1 .. slice, Closed(s)
      PROVE  LET all == delivered[s]
                 run == {i \in DOMAIN builder.out :
                             /\ builder.out[i].channel = "content"
                             /\ builder.out[i].slice = s - 1}
                 Place(i) == builder.out[i].chSeq
             IN  /\ \A i \in run :
                        /\ Place(i) * Capacity < Len(all)
                        /\ builder.out[i].body = Share(all, Place(i))
                        /\ builder.out[i].end <=> Len(all) <= (Place(i) + 1) * Capacity
                 /\ \A k \in 0 .. Len(all) : k * Capacity < Len(all) =>
                        \E i \in run : Place(i) = k
                 /\ \A i, j \in run : i < j => Place(i) < Place(j)
  <2>1. Whole(builder.out, s, delivered[s])
    BY <1>1, <1>2, <1>3
  <2> DEFINE run == {i \in DOMAIN builder.out :
                         /\ builder.out[i].channel = "content"
                         /\ builder.out[i].slice = s - 1}
  <2>2. PICK q, all, r : q = builder.out /\ all = delivered[s] /\ r = run
    OBVIOUS
  <2>3. r = {i \in DOMAIN q : q[i].channel = "content" /\ q[i].slice = s - 1}
    BY <2>2
  <2> HIDE DEF run
  <2>4. Whole(q, s, all)
    BY <2>1, <2>2
  <2>5. /\ \A i \in r :
               /\ q[i].chSeq * Capacity < Len(all)
               /\ q[i].body = Share(all, q[i].chSeq)
               /\ q[i].end <=> Len(all) <= (q[i].chSeq + 1) * Capacity
        /\ \A k \in 0 .. Len(all) : k * Capacity < Len(all) =>
               \E i \in r : q[i].chSeq = k
        /\ \A i, j \in r : i < j => q[i].chSeq < q[j].chSeq
    BY ONLY <2>3, <2>4, WholeMeans
  <2> QED BY ONLY <2>2, <2>5 DEF run
<1> QED BY <1>3 DEF SlicesAreWhole, Closed

\* Whatever the frame queue lets through and when, the pax writer behind the
\* callbacks behaves as the one by itself: all that is proved of its threads
\* holds in the archiver.
THEOREM ArchiverIsPaxWriter == ArchiverSpec => Spec
<1>1. ArchiverInit => Init
  BY DEF ArchiverInit
<1>2. [ArchiverNext]_archiverVars => [Next]_vars
  BY DEF ArchiverNext, Check, archiverVars
<1> QED BY <1>1, <1>2, PTL DEF ArchiverSpec, Spec

\* The inductive invariant of the pax writer, the frame builder its callbacks
\* feed and the validator behind the queue, for all plans, faults, capacities
\* of queues and frames and sizes of the catalog (make_server_callbacks,
\* FrameBuilder, FrameValidator::validate).
THEOREM ArchiverInvariant == ArchiverSpec => []ArchInv
<1> QED BY InitArch, ArchStep, PTL DEF ArchiverSpec

\* Whatever the plan, however its bytes fall on frames, whatever fails and
\* however long the frames wait: a validator accepts everything the archiver
\* emits, to the archive_end frame, as long as no slice came out empty.
THEOREM EmittedIsAccepted == ArchiverSpec => []FramesAccepted
<1>1. ArchInv => FramesAccepted
  BY DEF ArchInv, CheckInv, NoneEmpty, FramesAccepted
<1> QED BY <1>1, ArchiverInvariant, PTL

\* However the callbacks cut the bytes of a slice, once the slice is closed
\* its content frames are those bytes: full frames in order, the last alone
\* shorter and alone with END, none missing and none twice.
THEOREM ClosedSlicesAreWhole == ArchiverSpec => []SlicesAreWhole
  BY ArchiverInvariant, WholeFromPieces, PTL
=============================================================================
