# NeoTape: a TLA+ verification of writing and restoring archives

NeoTape archives a stream to a series of tapes (or spool directories that imitate
tapes). The archiver produces numbered *frames* and serves them over a socket;
`neotape-write` runs once per medium, asks for frames, writes them and acknowledges
them. Later `neotape-read` replays media, one process per medium, to
`neotape-extractor`. This directory holds TLA+ modules for the core of that system,
the TLC runs that check them and the proofs TLAPS checks. It depends only on the
sources under `src/`; `PROJECT.json` gives, for each definition, the lines it models.

Four parts are modelled. On the **producing side**, the planner walks the sources into a
plan, the pax writer turns a plan into a byte stream with a pipeline of threads, and the
frame builder cuts the stream into frames: all of this is concurrent, and all of it must
give what one thread would. The **write path** (producer, queue, volume server, connection,
writer, medium) is where NeoTape promises the most: an acknowledged frame is on a
medium, media can be swapped, writers can die, and the archive still becomes
complete. A **spool directory** must keep that promise over many writer processes with
nothing but the names of its files. The **restore path** (medium, reader, connection, extractor with its
validator) must turn what such a history left on media, repetitions and all, back
into the stream, each frame once.

## 1. Inventory

Paths are relative to the repository (`src/neotape_x.cpp` and so on).

| Component | State | Operations | Talks to |
|---|---|---|---|
| producer (`neotape_raw_store_cmd.cpp`, `neotape_tcp_server.cpp`) | next frame number, position in the input | push frames, end a slice, push done, throw | queue |
| frame queue (`closable_queue.hpp`) | bounded FIFO, closed flag | push (blocks), pop (blocks), close | producer, server |
| volume server (`neotape_volume_server.cpp`) | last acknowledged frame, next volume number; per connection: next frame to send, archive_end sent, volume committed | accept, next_frame, ack_frame, drain, refuse, return | queue, retention, writer |
| retention buffer (`neotape_frame_builder.cpp`) | frames not acknowledged | add (evicts), find, acknowledge | server |
| frame builder (`neotape_frame_builder.cpp`) | global, slice and channel numbers | build frame, archive_end | producer, server |
| connection (`neotape_tcp_protocol.cpp`, `neotape_socket_util.cpp`) | bytes in flight each way | write/read a message, end of file, shutdown, reset | server, writer |
| writer (`neotape_writer.cpp`) | output buffer, status, errors, validator; two threads | request, validate, queue; write, filemark, acknowledge, stop | server, medium |
| write command (`neotape_write_cmd.cpp`) | options, device | authenticate, position, run the session, close, exit status | writer, medium |
| media (`neotape_tape.cpp`) | records, filemarks, end of medium | write record, write filemark, status, close | writer, reader |
| spool directory (`neotape_tape.cpp`, `neotape_write_cmd.cpp`) | finished files, pending file, number of the next, recovery bundle | scan, refuse, append, rewind (erases), write, filemark (renames), destructor (renames or removes) | writer, reader |
| validator (`neotape_validate.cpp`) | expected numbers, slice and channel state, replay history | validate, seed, salvage | writer, extractor, inspect |
| reader, extractor (`neotape_read_cmd.cpp`, `neotape_extractor.cpp`) | position on the medium; validator, output file | send record, suppress replay, write output, acknowledge | each other |
| pax pipeline (`neotape_pax_writer.cpp`, `neotape_bounded_buffer.cpp`, `result_store.hpp`) | work and order queues, ordered results, output buffer, recorded exception | hand out entries, read small files in parallel, stream large ones, emit in order, cancel, join | planner's file, frame builder |
| planner (`neotape_plan_cmd.cpp`, `neotape_plan.cpp`) | frontier, inodes seen, current slice; job and result queues | walk, lstat in parallel, pack, write and read a plan | files |
| catalog, inspect, scan, dump, signatures, format | mostly none | single-threaded tools, byte layouts | files |

**How they interact.** The producer thread and the server thread share the queue and
the stored exception. Server and writer share nothing but the socket. Inside the
writer, the receiving thread and the output thread share the buffer, the status and
two flags under one mutex, and both write to the socket (requests, acknowledgements);
the output thread wakes the receiving one by shutting down the socket's receiving
side. Media are seen only by writers and, much later, by readers. In the archiver the producer thread
runs the pax writer (as its "main" thread), whose serializer, workers and output thread it starts anew for
every slice; the output thread calls back into the frame builder, which fills the
queue. Planner and archiver share only a file. Reader and
extractor work in lock step over one socket, one frame at a time; the extractor's
validator and output outlive each connection.

**What is hard.** Threads that fill and empty bounded queues in a circle, and an error in
any of them; results that come out of order; the interleaving of four threads over two FIFOs; a window that must
be full neither too early (deadlock) nor too late (a frame is evicted that a later
volume needs); volumes that end, writers that are killed and connections that reset
at any step, with acknowledgements or frames lost in flight; writes that were carried
out but reported as failed; a producer that fails while a writer waits; and the end of
the archive, which must appear exactly when everything else is on media. On the way
back: readers killed between a frame and its acknowledgement, media read again or in a
wrong order, replays that break off, records that decayed, output that cannot be
flushed. On a spool directory: kills, failing renames, no space, restarts. `PROJECT.json`
lists these as hazards with their lines.

**What makes each component correct.**

* queue and producer: every frame, slice end and the end are delivered once, in order; an exception reaches whoever waits;
* server: nothing unacknowledged is forgotten; archive_end comes last; volume numbers count committed volumes; it ends;
* connection: (environment) FIFO, loses only a suffix, and tells each end;
* writer: acknowledges what the medium holds and nothing else; writes one consecutive run; always exits, and its exit status tells the operator the truth;
* media as a whole: every acknowledged frame is on one, in an order a reader can follow;
* spool directory: a finished file stays, numbers are unique and without gaps, and what was acknowledged can be read;
* validator: accepts exactly what continues a well-formed stream; takes for a replay only what it accepted before;
* reader: forwards every record that can be parsed, exits with the truth, never waits for an extractor that waits for it;
* extractor: output is the stream, each frame once, and all of it when it reports success; salvage loses nothing it could take;
* pax pipeline: the callbacks are those of one thread; bounded queues; no failed slice is closed; every thread ends on an error;
* frame builder: frames hold exactly the bytes of the slice and are what the validator accepts;
* planner: the plan is that of one thread, holds everything that no warning is about once within the slice sizes, and the scan ends.

## 2. Modules

| Module | Models | 
|---|---|
| `ArchiveStream` | the archive as a list of frame numbers, slice ends and the archive_end number; queue items |
| `Wire` | the socket: a queue of messages each way, what each end believes about the other |
| `VolumeServer` | producer thread, `ClosableQueue`, accept loop, `serve_volume_client`, `FrameRetentionBuffer` |
| `MediaLayout` | a medium as records and filemarks, what makes media replayable: shared by both paths |
| `VolumeWriter` | `write_volume` with its two threads, `RecordSink`, the loaded medium, the process's exit |
| `WritePipeline` | composition: one archiver, writers one after the other, kills, resets, media that end |
| `DurableArchive` | the abstract promise of the write path, which `WritePipeline` implements |
| `ServerAnyClient` | the server alone against arbitrary clients |
| `WriterAnyServer` | the writer alone against an arbitrary server |
| `FrameValidator` | the validator as operators on its state: seeding, replays, continuity, salvage |
| `ValidatedStream` | the validator alone, fed with every frame that can be encoded, against a stateless definition of a well-formed stream |
| `Restore` | composition: operator, media, `neotape-read`, connection, `neotape-extractor` |
| `SliceStream` | the abstract promise of the pax writer: its callbacks, one slice and one chunk after the other |
| `PaxPipeline` | the pax writer: main thread, workers, serializer, output thread, their queues, cancellation; implements `SliceStream` |
| `FrameBuilder` | `FrameBuilder` as operators on its state |
| `Archiver` | composition: the pax writer's callbacks, the frame builder and, behind it, a validator |
| `SpoolVolumes` | `SpoolTapeDevice`, the start of `neotape-write` and its bundle over many sessions, and what `RecordReader` finds |
| `PlanScan` | `neotape-plan` with one thread: walk, slices, `PlanReader`; the abstract specification of |
| `Planner` | the same scan with its `WorkerPool` |
| `MC*` | the small instances TLC checks |
| `VolumeServerProofs`, `AnyPeerProofs`, `WritePipelineProofs`, `ArchiverProofs`, `SpoolVolumesProofs`, `ValidatedStreamProofs`, `RestoreProofs`, `PlannerProofs` | the proofs |

### Correspondence

*Frames* are their `global_frame_seq_num`; payload, hash and signature follow from it
and nothing in the write path decides on them. `NumFrames` may be 0: an empty input
still has one slice end and an archive_end. `SliceEnds` are the frames that end a slice.

*Server.* `srv` is the place of the serving thread: blocked in `accept`; in
`read_message` for a request (`"request"`); serving a `next_frame`, i.e. opening the
window, reading a retained frame or popping the queue (`"serve"`); draining
acknowledgements before archive_end (`"drain"`); or done. `acked` is
`last_acked_global_frame + 1`, and 0 before the first acknowledgement, the value
`serve_volume_client` starts `next_send_seq` from. One action is one message or
one reply, with every assignment that goes with it; between two such points the
thread touches nothing another thread can see. `Return` is the end of the call *and*
the bookkeeping behind it in the accept loop, since nobody can observe the state in
between. A write to a writer that has stopped reading either raises (the call
returns) or is lost: both are explored.

*Retention.* The buffer is the set of retained numbers. `Retain` is `add`, which drops
the front of a full buffer; frames enter in ascending order, so the front is the
smallest.

*Writer.* `recv` and `out` are the two threads. The receiving thread is waiting for
buffer space (`"request"`), for a reply (`"await"`) or for the other thread to end
(`"join"`). The output thread takes an item, writes it, acknowledges it. `status`,
`outError` and `recvError` are the fields of the session from which `ExitOf` computes
the exit status, in the code's order of precedence. Buffer capacity is counted in
records (`output_buffer_size` is bytes; records have one size). `expect` is the part
of `FrameValidator` that a connection relies on here.

*Media.* `mounted` is the loaded medium, `shelf` the earlier ones. A faulty write may
have reached a tape even though it was reported as failed (`Uncertain`): a drive
reports late errors, and the code's own comment at `neotape_writer.cpp:34` says so. On
a spool directory `Readable` gives what a reader finds after a kill: finished files,
but not the pending one. A writer that wrote nothing leaves its medium to the next.

*Validator.* `v` is a record with the members of `FrameValidator`; a frame `f` has the
header fields the validator reads and `check`, the result of `check_frame` (`ok`,
`bad_hash`, `bad_size`; the latter implies a wrong hash too). `validate` is split along its
own sections: what is refused (`IsNext` and its parts), and the state after acceptance
(`Accepted`). A refusal has no next state: in restore mode the extractor ends, the
writer ends its session, and salvage refuses before it changes anything. `HistoryLimit` is
`retry_history_records`, 8192 in the code.

*Restore.* `reader` is `neotape-read`: off, in `read_message` for a request, or waiting for
the acknowledgement. One action takes one message and does all that `main` does until
it reads the next, the search for the next record included (`Stops`: filemarks,
recovery records in front of the first frame, unreadable blocks of a tape and, once a frame
was seen, broken headers are passed over). `ext` is the extractor: in `accept`, serving,
done or failed. One action processes one message: check, signature policy,
validation, output, answer and, for an accepted frame, the request for the next one, which
`serve_client` writes before it reads again. `buffered` is what stdio holds and
`output` the file; they change places only in `flush_output`, so every earlier write by
stdio itself is a flush that could also have come later. `Damaged` says what decay
does to a record: a wrong hash, a wrong size, a broken header behind the magic
(`torn`) or a read error (`unreadable`). Layouts are ones `Replayable` describes, the
shape `pipeline_faults` shows of the media the write path leaves (`MediaReplayable`).

*Connection.* `Truncations` is what remains of a queue when a reset discards what was
in flight: both a real reset and a close with unread data (which the kernel turns into
a reset) use it.

*Pax writer.* An entry is its kind: `"bare"` (no data, serialised by the main thread),
`"small"` (read by a worker), `"large"` (streamed by the serializer), `"eoa"` (the end-of-archive
blocks of the last slice); with no workers a small file is streamed. The order queue is
two counters, `published` and `ordered`, because it only ever holds the entries between
them. `results` is the result store, `holding` what each worker has in its hands; `Cancelled`
and `CloseNext` are `request_cancel`, which closes four queues one after the
other while everybody else runs on. `skipped` are entries given up with a
warning, by the worker, by the main thread or by the serializer before its first chunk. An
exception in the serializer may come after any chunk, because the archive entry is padded to its size
as the exception unwinds. `Faults` names the threads that may throw, `"start"` that a thread cannot be
started, `"skip"` that files vanish. `finish_input` closes two queues in one step: the only thread that
could push between the two is the one that closes them.

*Frame builder.* Bytes are tagged units; a chunk of a streamed file is two of them, any other
chunk is one, and a frame holds `Capacity`. In `Archiver` the step of the pax writer that makes a callback is
also the builder's step (`Feeding`): `builder` is its state and all it has put into the frame queue, of
which a validator has taken `taken` records (`Check`). A callback that pushes anything waits for room in the queue
before its first record (`QueueHasRoom`), as `ClosableQueue::push` does, and so blocks the thread that makes it;
`delivered` records the bytes the callbacks brought for each slice. The validator is not
seeded, as the extractor's, and so stricter than a writer's.

*Spool directory.* A session is `opened`, then `erasing`, `bundle`, `writing`, after a
filemark `marked`, `closing` and `off`. `files` are the finished files with number, type
and records, `pending` the file with the `.pending` name. `Kill` may fall between any two steps;
`departures` remembers how a session lost acknowledged records: killed with a
pending file, a torn record inside a file, a file removed because its name could not be made, an erase that
broke off or could not remove a file.

*Planner.* `stack` holds the activations of `process_one_directory`, one above the
other when `enqueue_directory` finds the frontier full and calls it: the rest of its
children, and the directory it is holding. `gone` are the entries on which `lstat` fails; the loop
passes over their results one by one (`SkipChild`). `Listings` are what `sorted_children` may return of a
directory: all its names or, when `opendir` or `readdir` fails, which is a warning and nothing else, any
part of them; `unread` collects the names that were lost in that way. `CloseOutput` is the last `fclose`, at
whose result nobody looks: the run ends as well when it fails (`phase` `"cut"`, not `"done"`), and
then the plan has lost any number of its last records.
`Planner` adds the two queues of `WorkerPool`, the result each worker has in its hands, the list that is
being collected and the window of `collect`; its `outcome` is set when the pool is being stopped.

### Abstractions to know about

* `Connect` starts the writer and accepts it in one step: a writer in the listen
  backlog does nothing before. Authentication (one message each way before the first
  request) is left out.
* Every lost connection is eventually noticed by both ends. The code sets no timeout,
  so a host that vanishes silently would block it; no property could hold of that.
* In `WritePipeline` a failed write of a record to a spool directory leaves nothing; in the code it
  may leave part of a record, which `SpoolVolumes` has. Capacity is a fault at any step, not a number of bytes.
* `SpoolVolumes` serves every session from the first frame not acknowledged: acknowledgements
  that get lost are the matter of `WritePipeline`. All archives have one block size.
* The pax writer's queues hold entries, not bytes; the output buffer counts chunks.
* The further records of one callback do not wait for room, and the catalog is in the queue from the start.
* The planner's limits are small numbers in place of 4096 directories, four jobs for each worker and
  a metadata buffer in bytes (here: in entries). `gone` is fixed before the scan; an entry that
  vanishes during it is one that was gone, since the scan looks at each entry once (at one
  that two sources name, twice: here it is then gone both times or neither). What a failing `fclose` loses is
  cut between two records: `PlanReader` refuses a last record that is there in part.
* `accept` does not fail.
* An extractor that ends is not started again: it would overwrite its output.
* A damaged payload is a `check` value; two records with the same header and a right
  hash are the same record, which is what the code's comparison of hashes relies on.
* A signature is the hash it signs: with keys, a frame of the archive whose hash is
  right is authentic, one whose hash is wrong is not (`Forged`).
* A medium of another archive is loaded only in `restore_any_order`. Spool media are
  not read from the middle: `RecordReader` begins at the first file.
* Failing writes to the metadata output, and `write_output` failing before a flush does, are left out.

## 3. Runs

Unless noted: `NumFrames = 3`, `SliceEnds = {1, 2}`, queue 2, output buffer 2. The
stream is the smallest with two slices, one of more than one frame, so that a lost
acknowledgement can fall inside a slice, at its end and before archive_end. Queue and
buffer of 2 can be empty, partly full and full. `MaxSessions` counts the writers up to
and including the first that meets no fault: with 3, two faulty sessions precede, enough for
a replay of a replay and for a frame on three media.

| Run | Bounds | Shows |
|---|---|---|
| `pipeline_faults` | tape, window 2, 3 sessions | safety and liveness of the whole pipeline with a kill, a reset or a media fault at any step: nothing needed is evicted (`RetentionCovers`), the peers never disagree (`NoProtocolError`), media can be read back (`MediaReplayable`, `SameNumberSameStart`), exits tell the truth (`ExitIsTruthful`), the abstract promise is kept (`StoresArchive`), the archive is completed unless the done item was lost (`CompletesUnlessDoneLost`) |
| `pipeline_spool` | spool, window 1, 3 sessions, failing producer | no deadlock; the archive is completed after any faults or the producer failed (`ArchiveCompletes`), although a volume may begin with a filemark on an empty file; a failure reaches each connected writer (`FailureReachesWriters`) and leaves no archive_end on any medium (`NoEndAfterFailure`) |
| `server_any_client` | window 2, clients 2 messages ahead | the server against clients that obey nothing but "acknowledge only what this connection sent you" |
| `writer_any_server` | 2 frames, 5 replies | the writer against any replies in any order |
| `validated_stream` | 3 frames, 3 slices, 2 identities, 2 bodies, history 2 | for every stream so far and every frame that can be encoded: accepted exactly if it continues the stream well (`AcceptsExactlyTheWellFormed`); replays are repetitions and run to the end (`ReplaysAreRepetitions`, `ReplayEndsAtTheEnd`) |
| `restore_any_order` | history 2, 1 damage, 2 faults | any medium next, rewound or not, one of another archive: the output is a prefix of one archive (`OutputIsPrefix`), complete when success is reported (`DoneIsComplete`), metadata never damaged, repeated or out of order (`MetadataIsSound`); salvage, even with failing flushes, writes nothing damaged, repeated or out of order (`SalvageInOrder`) |
| `restore_in_order` | history 4, 2 damages, 2 faults; tape, signed spool, salvage | undamaged media are restored whatever reader and connection go through (`RestoreCompletes`); every reader leaves (`ReadersLeave`), its exit is truthful (`ReaderExitIsTruthful`); success with keys means that the metadata is complete too (`DoneIsAuthentic`; not salvage, which ignores signatures); salvage of media read once, the undamaged copies in the order of the archive, takes every content frame that has one, whichever medium it is on (`SalvageLosesOnlyDamaged`) |
| `archiver` | 2 workers, order and work queue 1, output buffer 3 with a waterline of 3, frames of 2 units, frame queue 1 | every thread may throw at every point, threads may not start, files may vanish: the callbacks are those of one thread (`StreamsInOrder`), the writer returns (`PaxWriterEnds`), results always have room (`StoreHasRoom`), no failed slice is closed (`NoEndAfterError`), the frames are accepted by the validator (`FramesAccepted`) and hold the bytes of their slice (`SlicesAreWhole`) |
| `spool_volumes` | 2 archives, 4 sessions | finished files stay (`FinishedFilesStay`), numbers are unique and without gaps (`SpoolIsWellFormed`), acknowledged records can be read back except where a named departure lost them (`AckedAreReadable`) |
| `planner` | 10 entries, frontier 1, 2 threads, queues 2 | the plan is the one of one thread (`PlansAsWithOneThread`), `PlanReader` accepts it, slices fit, nothing is left out without a warning if the last `fclose` succeeds (`PlanIsSound`), the scan ends (`ScanEnds`) |
| `flush_lost`, `empty_slice` | | counterexamples, section 6 |

The restored archive has five frames in two slices, the first with a metadata
channel inside the content channel: the smallest in which a replay can begin and break
off inside a slice, cross a slice end and contain metadata. Its media (`MCRestore`)
are a volume that repeats two frames, two volumes that repeat one another's first
frames, and volumes that repeat nothing. A history of two is shorter than the longest repetition, so
the case of forgotten frames occurs; four covers all of them, which liveness needs (a
replay longer than the history is fatal in the code too). Where damage is possible or
media come in any order, restoring may rightly fail, so those runs check safety, or make undamaged
media the premise of `RestoreCompletes`. `Options` are the ways the two programs are run
(tape or spool, keys, salvage, an output that may refuse a flush); a run explores several from its
initial states. Salvage is given media of one archive only: alternating media of two would
be written again and again, without a bound. `salvage` acknowledges what it skips, so a
damaged archive_end followed by a lost connection looks like success to the reader:
`ReaderExitIsTruthful` excludes salvage.

*The producing side.* The three plans are the empty one; one slice with four small files in
a row, more than an order queue of one and two workers can hold between them, so that
the result store fills; and two slices with a streamed file whose chunks end on a frame boundary. A waterline
equal to the buffer's capacity is the hardest: the output thread sleeps until the
buffer is full or closed. With a catalog of three units slice 0 begins with two metadata frames.
The frame queue has room for one record, so that every callback that builds a frame may have to wait for the validator.
Larger queues and more workers are the matter of the proofs (section 4).

*The spool.* Four sessions allow a kill, a repetition, an append and an erase in one
history; the second archive is appended behind the first or follows an erase. With two
slices and an archive_end an archive has all three types of file.

*The planner.* A directory of seven names is larger than both queues and the workers'
hands together; four subdirectories, two of them not empty, with a frontier of one force the recursion; one is
also a source of its own, on a second device. The sizes make slices that fill, that overflow their
limit and that hold the largest value of the type (`c`), and `q` is a second name of `c`. Three of the
entries may be gone, and `readdir` may fail to deliver two: one of the seven names, the first of the
two names of a linked file, and the only name in a subdirectory, which then looks empty, as it does when `opendir` fails.

`TypeOK` and `PipelineTypeOK` are the type invariants that are run; those of the server
alone (`ServerTypeOK`) and its part of the pipeline are proved. Deadlock is checked
in `pipeline_spool`, whose completed system stutters explicitly (`Finished`). It is off where
a lost done item stops the system (window 2), and in runs whose environment may rightly have
nothing left to do: arbitrary clients and servers, a validator that refused, media
that are used up or damaged; a pax writer, a planner or a series of sessions that has ended. `pipeline_spool` has a window of one, in which nothing can be
outstanding when done is popped, and which bounds the media after a producer failure:
with a larger one, frames sent but never acknowledged stay retained, and every
further writer is given them again.

In `pipeline_faults` the faults are not fair: they may happen, need not. Each property
has a mutant: a small change of one definition, as a bug would make it, that breaks the
property under the run's own configuration (`PROJECT.json`, "mutants"; the mutated
operators stand before the originals, marked `Mutant:`).

### Fairness

Weak fairness of each thread's step (`Produce`, `Serve`, `Receiver`, `Output`, `Exit`):
the operating system keeps running runnable threads, and a thread blocked in a wait or
a read becomes enabled, and stays so, when its condition holds. Weak fairness of
`Connect`: an operator keeps supplying writers and media; without it no archive that
spans media is ever completed. No fairness for faults, kills or resets. From session
`MaxSessions` on, media do not end and nothing fails: liveness is claimed only
for finitely many faults.

On the restore path likewise: weak fairness of `Reader` and `Extractor`, each a single
thread that runs unless it waits for the other, and of `Connect`, the operator who loads
the next medium, or the same again after a reader that failed. `MaxFaults` bounds kills
and resets.

In `Archiver` (for `PaxPipeline`) and `Planner`: weak fairness of each thread. A thread waits only in queues
and joins, whose conditions stay true until it has run, and file reads, `lstat` and callbacks
return. The callback that pushes into the frame queue returns when frames are taken from it: weak fairness of `Check`, which
stands for writers that go on taking frames, the write path's liveness. `PaxWriterEnds` thus holds with
callbacks that block on a full queue. No fairness for exceptions. `SpoolVolumes` has safety only.

## 4. Proofs

TLAPS proves, for every number of frames, every division into slices, every window,
queue, buffer and session count, every plan, number of workers and capacity of the pax writer's queues, size of frame and catalog,
every archive on a spool and any number of sessions, every stream, history size, layout of media and
number of damaged records, readers and resets, every file system that is planned, and any number of the planner's threads
and size of its queues:

| Theorem | States |
|---|---|
| `AnyPeerProofs!Invariant` | the inductive invariant of the server, against arbitrary clients |
| `TypeCorrect`, `NothingNeededIsEvicted`, `EndIsLast`, `VolumesCounted` | `ServerTypeOK`, `RetentionCovers`, `EndBehindAllAcks`, `CommitCountsVolumes` |
| `AcknowledgesWhatItWrote` | `AcksFollowTheMedium`: the writer, against an arbitrary server |
| `WritePipelineProofs!PipelineInvariant` | the inductive invariant of the whole pipeline, with any number of faults |
| `PipelineTypes`, `PipelineRetention`, `AcknowledgedIsWritten` | `TypeOK`, `RetentionCovers` and, on tape, `AckedOnMedia` |
| `WritingStoresTheArchive` | on tape, `WritePipeline` implements `DurableArchive` (`StoresArchive`) |
| `FlowHolds` | the inductive invariant of what is between archiver and medium, in order |
| `NeverTalkPast`, `FailureLeavesNoEnd`, `VolumesStartWhereTheirNumberDid` | `NoProtocolError`, `NoEndAfterFailure`, `SameNumberSameStart` |
| `TapesCanBeReadBack`, `ExitTellsTheTruth` | on tape, `MediaReplayable` and `ExitIsTruthful` |
| `ArchiverProofs!PaxInvariant` | the inductive invariant of the pax writer |
| `PaxTypes`, `RoomForTheAwaited`, `FailedSlicesStayOpen` | `PipelineTypeOK`, `StoreHasRoom`, `NoEndAfterError` |
| `ThreadsStreamAsOne` | the threads of `PaxPipeline` implement `SliceStream` (`StreamsInOrder`) |
| `ArchiverIsPaxWriter` | `Archiver` implements `PaxPipeline`, so that all this holds in it |
| `ArchiverInvariant` | the inductive invariant of pax writer, frame builder and validator |
| `EmittedIsAccepted`, `ClosedSlicesAreWhole` | `FramesAccepted`, `SlicesAreWhole` |
| `SpoolVolumesProofs!SpoolInvariant` | the numbers of pending and finished spool files |
| `FinishedFilesSurvive`, `NumbersWellFormed`, `AcknowledgedIsReadable` | `FinishedFilesStay`, `SpoolIsWellFormed`, `AckedAreReadable` |
| `ValidatedStreamProofs!ValidatorKnows` | the inductive invariant of the validator |
| `AcceptsExactly`, `ReplaysRepeat`, `ReplayEnds` | `AcceptsExactlyTheWellFormed`, `ReplaysAreRepetitions`, `ReplayEndsAtTheEnd` |
| `RestoreProofs!ExtractorKnows` | the inductive invariant of media, reader, connection and extractor |
| `OutputIsTheBeginning`, `SuccessIsComplete` | `OutputIsPrefix`, `DoneIsComplete` |
| `MetadataSound`, `SuccessIsAuthentic`, `SalvageAscends` | `MetadataIsSound`, `DoneIsAuthentic`, `SalvageInOrder` |
| `ExitsAreTruthful`, `SalvageTakesTheUndamaged` | `ReaderExitIsTruthful`, `SalvageLosesOnlyDamaged` |
| `PlannerProofs!PoolInvariant` | the inductive invariant of the planner's worker pool |
| `ThreadsPlanAsOne` | `Planner` implements `PlanScan` (`PlansAsWithOneThread`) |
| `PlanStaysInOrder`, `PlanStaysSound` | `PlanInOrder`, and all of `PlanIsSound` |

The assumptions are the named ones beside the constants (`StreamAssumption`,
`ServerAssumption`, `WriterAssumption`, `SessionAssumption`, `InFlightAssumption`,
`PipelineAssumption`, `CapacityAssumption`, `ArchiverAssumption`, `SpoolAssumption`, `HistoryAssumption`, `FeedAssumption`, `RestoreAssumption`,
`ScanAssumption`, `PoolAssumption`).
Some theorems have a further premise, without which they are false:

* `AcknowledgedIsWritten`, `WritingStoresTheArchive`, `TapesCanBeReadBack` and `ExitTellsTheTruth` assume
  `~SpoolTarget`: a writer killed on a spool directory leaves acknowledged records nobody reads.
* `OutputIsTheBeginning` and `SuccessIsComplete` assume that no flush fails outside of salvage:
  otherwise output is lost (`flush_lost`).
* `ExitsAreTruthful` and `SalvageTakesTheUndamaged` assume `~AnyOrder`: a reader started in the middle of a medium
  says nothing about the records in front of it. The latter also assumes that no flush fails in salvage, and the
  property has a premise of its own, `ReadInOrder` (section 6, item 10).
* `PlanIsSound` promises a plan with nothing left out for `phase = "done"` only, a run whose last `fclose`
  succeeded, and but for the names in `unread` and `gone`, about each of which there was a warning: the exit
  status tells of neither (section 6). A plan that is cut short is in order and fits, nothing more.
* `PlanStaysSound` assumes, for its last part alone, that no directory has two paths (`DirectoriesLinkedOnce`): a
  directory mounted a second time on the same device is planned as a hard link and not gone into, whichever of its paths comes first.

Of the archive, `RestoreAssumption` asks only that frames are numbered and that archive_end, and nothing
else, is last; of the media, that they are `Replayable`. That the sequence is well formed is not needed:
a frame the validator refuses ends the extractor, which then reports no success.

**Argument.** `RetentionCovers` alone is not inductive: that a new frame evicts nothing
needs that the window is counted from the same number the buffer begins at, that the
queue's numbers are consecutive and continue what was taken from it, and that the
window is open when a frame is added. `ServerInv` (`VolumeServerProofs`) says
this: the retained set is an interval from `acked`; `nextSend` lies in it or just behind
it; the queue continues it up to `nextSeq`; where `"drain"` stands, everything was
produced and taken. `VolumeServerProofs` proves that each server and producer action preserves it, given
that acknowledgements in flight name frames this connection sent. That premise is
`AcksSent`: in `ServerAnyClient` it is the one promise asked of clients; in
`WritePipeline` it is *proved* of this repository's writer.
`WritePipelineProofs` carries it through the writer: every frame in the writer's hands (in flight,
buffered, in hand) was sent by the current connection, every acknowledgement in flight
names a frame that is on a medium, so that each acknowledged frame is (`AckedOnMedia`). Writers that die move their medium to the shelf and take nothing from it.

*The writer by itself.* `AcksFollowTheMedium` compares two places by their rank, the number of acknowledgements up
to one and of frames up to the other, so that recovery records between the frames do not matter. `AckInv` adds by how many the two
may differ: by none while the output thread is about to take or write an item, by one between a write and its
acknowledgement, and then the record in hand is the last on the medium (`ToldEnough`). Only while the server listens, since an
acknowledgement sent to one that has gone is lost.

The refinement maps the frames on media to `held`, `acked` to `taken` and a completed
server to `over`. `MediaHolds` shows that no step of a tape pipeline loses a frame from
the media; `CountSteps` that only `ReadAck` moves `acked` and that every other step leaves
both it and the end alone; `CountStep` that the frame it counts is held, by the invariant.

*The order of things.* That no acknowledgement is refused, no medium has a gap and no exit lies is one argument
about what is under way (second half of `WritePipelineProofs`). `DialogueInv` first: requests and replies alternate, so that
there is at most one of either on the socket, and each end knows where the other stands (`RequestInv`), a
dead end included (`LinkInv`). `FlowInv` then names two numbers for a working writer, `a`, the first frame it has not
acknowledged, and `b`, the first it has not received (`Flow`): acknowledgements on the socket are exactly `acked` up to
`a` (`Run`), the frame in hand is `a`, the buffer holds exactly what lies between it and `b`, the validator
expects `b`, and the last frame on the medium is the one before the next to be written. `a` moves only when an
acknowledgement is sent (`FlowMoves`), `b` only when a frame arrives. `Rising` is what remains of this when the writer
is gone and its acknowledgements are cut short; it makes every one that still arrives the next
(`NeverTalkPast`). A connection that has brought nothing yet is the hard case, since its validator expects nothing: there
`FreshInv` says that the medium is blank and that the first reply is frame `acked`.
From the same numbers, `TapesCanBeReadBack` needs only that the first frame of a blank medium is `acked`
and that everything below is on media (`MediaInv`); `ExitTellsTheTruth`, that all frames below `a` are
(`TapeInv`), and that the acknowledgement of archive_end is sent only by a writer with nothing left but the filemark
(`ExitInv`); `VolumesStartWhereTheirNumberDid`, that while a medium is blank nothing is acknowledged, so that
the server can neither commit the volume nor count it (`BlankInv`).

*The pax writer.* That the result store has room for the awaited entry is an argument about
counting: its capacity is that of the order queue plus the number of workers, so results
that overtook the awaited entry must all be among the entries the order queue holds, the one
announced, and those that workers finished while another worker holds the awaited one. `PaxInv` makes it inductive. Each entry
given to the workers is in exactly one place, the work queue, a worker's hands or the store
(`Places`), and the work queue holds the latest of them in order; none is lost while it is still
to be taken (`NoneLost`); and one worker alone finishes in order (`OneInOrder`). With two workers or
more the count is enough; with one it is short by a slot, but then nothing overtakes. While the awaited entry is not in the store, a worker or the work
queue has it, and what is in the store lies between it and the last announced entry, so that `published - ordered <=
OrderCapacity` bounds it. `StopInv` and `ClosedInv` say who still runs behind each join, which gives
`NoEndAfterError`.

That these threads, with a callback order nobody imposes on them as a whole, do what one thread
would (`ThreadsStreamAsOne`) is a refinement whose map takes `outcome` to where the main thread stands and
everything else to itself. It needs `StreamInv`. What the serializer has
pushed is exactly what the output thread has written or what waits in its hands and in the buffer, in
order and of the current slice (`LineInv`); the entry in the serializer's hands is known, and given up only
before any of it was pushed (`TurnInv`); slices are opened and closed one after the other
(`HistoryInv`); and without an error a thread ends only when its input has ended
(`EndInv`), so that at the last join nothing waits and everything of the slice was
pushed. A new pipeline then is `BeginSlice`, a given-up entry `Skip`, a write of the output thread `WriteChunk`, the last join
`EndSlice`; every other step of every thread stutters.

*The frames.* What the builder does is arithmetic on how the bytes of a callback fall on frames: `Feed` appends some
number of full frames and leaves one byte or more, at most a frame, pending (`FeedGrows`). `ArchInv` follows the
queue through the callbacks. Numbers begin at 0 and have no gap (`Numbered`). Each frame is one that may follow the
frame before it (`Linked`), and the builder's own numbers say what may follow the last (`Tip`); this is where an empty slice
does harm, since it moves the builder to the next slice without a frame, hence the premise of
`FramesAccepted`. The bytes of the open slice are those in its frames and then the pending ones (`Held`), the frames of
its run hold their shares of the bytes so far (`RunInv`) and go on doing so as more bytes come, as
a frame is cut only when it is full; `Flush` completes the run and with it `Whole`, which later
callbacks leave alone since they build frames of later slices. The validator, last, knows of the
frames no more than the last one it took (`Summary`), and `Linked` is exactly what it then requires of the next.

*The spool.* `SpoolInv` says that finished files are numbered behind the pending one
(`Behind`), with the state between the rename and the next file as the only exception, and
then nothing is pending; `Counted` that the numbers are those below some `n` which the pending
file continues. A session that starts finds `NextNumber`, the maximum plus one (`Maximum`, proved from
well-foundedness), whatever the sessions before it left. `FinishedFilesStay` follows as no
rename can meet a file of its own number.
`Readable` follows the records: an acknowledged one is in a finished file or in the pending one while that is
being written or closed, and a torn record only in a pending file that is about to be closed. A rename adds
the pending file and, by `SpoolInv`, replaces none, so the records only move.

*The validator.* Its members summarise the stream it has accepted. `FeedInv` says how: the next number is
that of the last frame plus one, the slice is the last frame's and the largest, and for each channel either the last frame of that
channel in this slice tells the next number and whether it has ended, or there was none (`ChannelKnown`);
where a volume's start seeded the state, the first slice's channels may be unknown. `WellFormed` quantifies over the whole
stream, `IsNext` looks at these members alone; `AcceptsExactly` is that the two agree for every next frame. The
history needs less than one expects: that each remembered frame is one of the stream, undamaged,
is enough for `ReplaysRepeat`, since a replay begins and continues only with remembered frames.

*The restore.* Two fields of the validator tell what has been written: `RestoreInv` says that file and stdio buffer
together hold exactly the content frames of `v.archive` below `v.expected`, in order (`OutputKnown`), that
metadata ascends below the same number, and with keys is complete (`MetadataKnown`), and that each
acknowledgement on its way names a frame below it, the last frame's only when the extractor is done
(`AcksKnown`). The reader side is `ReaderKnown`: what lies in front of the head has been accepted. `OutputKnown` needs the
premise that no flush fails, the rest does not. Damaged records, kills and
resets then change nothing, since each leaves the validator alone, and a medium of another
archive is refused by `v.archive`. Salvage, which accepts gaps, has an invariant of its own
(`SalvageKnown`): one archive, ascending, undamaged, below `v.expected`.
That salvage loses nothing needs the reader's whole way over the media (`LossInv`). Each undamaged copy
it has passed is below `v.expected`, the one under way excepted (`PassedIsTaken`), and each below that number whose content is
wanted has been written (`Written`). The copy under way then is either new, since everything still to come is (`Going`),
or the medium holds a record at which every pass over it ends (`Impassable`), and what lies in front of that was taken
in the first pass (`Stuck`); only then can an old frame open a replay, and nothing new follows it.

*The planner.* Of the pool, `PoolInv` says that each index submitted so far is in exactly one place, the job queue,
a worker's hands, the result queue or among the received ones, and at most once there. When as many were received
as there are names, they are a permutation of the indices, by counting, so that walking the map by index
gives the names in their order, and nothing is outstanding that a later call could take for its own.
This is the one step of the pool that is not a stutter of `PlanScan`, its `StatChildren`; the walk's
steps are the same in both.
What the walk writes is followed on one list, `Listed`, the plan and behind it the records of the current slice:
it grows by one record at a time, whatever slices are written to the plan on the way. `ListInv` says of every position that
the reader's rules hold there (`Good`), that what waits in the frontier and on the stack is below a listed
directory (`Pending`), and that `seen` are exactly the inodes whose data is listed; the last makes a link's
target come first. The size of a slice is the cardinality of a set of bytes (`Bytes`), so that a record that joins the list adds its
size to one part of it (`PartGrows`); `FitInv` is the promise for the slices of `Listed`, the current one included, and
ties the size `AddToSlice` compares to the last part. A plan that loses its end (`"cut"`) keeps both promises, since the
reader's rules look at what is in front of a record and a part only gets smaller (`PrefixInOrder`, `PrefixFits`), and
no step follows (`CutIsFinal`); but the sets above are then no longer those of the plan, so that
`OrderInv` and `SizeInv` fall back on the promises themselves. That nothing is left out is closure (`CoverInv`): with a listed
directory everything that was read of it and can be had is listed, or a frame of the stack still has it, or the directory
is in the frontier or held up by its being full, there with a device that gives the same answer as its own (`OkSame`).
When the scan ends there are no frames and no frontier. The invariants need of a list only that it has names of its
directory (`ListingFacts`): whichever of them `readdir` delivers, the rest is in `unread`.

**Only model-checked**: liveness and deadlock (fairness and `ENABLED` are out of the
prover's reach). Every safety property that a passing run checks is a theorem. No `RECURSIVE` operator is used.

## 5. Not modelled

* Tapes as devices: the write command's positioning, the `mt` operations, capacity accounting,
  the recovery bundle in front of a first volume. The drive's behaviour is external; what remains is a
  sequence of calls each of which may fail.
* The spool device for reading (space and locate operations) and media file numbers of the reader's command line.
* mt-pax's output to a local file, header contents, the link resolver of libarchive.
* A failing `accept` in the archiver.
* Cryptography, byte layouts, JSON, options, progress output, and the single-threaded report tools
  beyond the validator they share; hardware behaviour beyond section 2.

## 6. Where the code departs from its documentation

With a run:

1. **A failed flush is forgotten** (`flush_lost`, `neotape_extractor.cpp:226`). At the end of a medium it
   drops acknowledged output; the extractor takes the next reader and may report success.
2. **An empty slice stops the archive** (`empty_slice`, `neotape_tcp_server.cpp:40`). A slice whose
   entries all became unreadable after planning yields no frame; the next slice's number jumps
   (`docs/spec/03-frames-and-slices.md:83`), and `neotape-write`, which validates what it
   stores, refuses it. `FramesAccepted` shows that nothing else is refused.

Visible in the models, but without a run of their own:

3. **The done item can be lost** (`neotape_volume_server.cpp:214`). The item is
   popped before the server drains the acknowledgements of the frames in front of it.
   If the connection ends in between (the medium fills up with the last data frame, say),
   no archive_end exists and nothing will make one: the next writer repeats the
   last frames and then waits for ever. `docs/spec/05-volume-layout.md:185-186` promises that "the next
   volume writes the same Archive End frame". Impossible with a window of one, the
   value the integration tests use; the default is 256. This is the premise of
   `CompletesUnlessDoneLost`.
4. **A slice boundary can be lost** (`neotape_volume_server.cpp:208`). Frames are retained until acknowledged,
   `tape_eof` items are not, so a volume that repeats the frames on both sides of a
   boundary has no filemark between them
   (`docs/spec/05-volume-layout.md:55`, `06-spool-dir.md:81`).
5. **Spool acknowledgements precede the commit** (`neotape_tape.cpp:263`): a killed writer's acknowledged
   records are in a pending file that readers skip and the next writer truncates. The
   `"killed"` departure of `SpoolVolumes`; likewise `"removed"`: the destructor removes a
   file with acknowledged records when finishing it fails (`:286-292`).
6. **A torn record is finished** (`neotape_tape.cpp:286`). A write that found no space leaves part of a
   record, and the destructor gives the file its final name all the same. A reader stops there with
   an error and reads nothing behind it, later files included. `docs/spec/05-volume-layout.md:169`: "A partial record is not part of the archive."
   The `"torn"` departure.
7. **An erase ignores what it cannot remove** (`neotape_tape.cpp:430`) and numbers from 0 again; the next start
   may find a number twice and refuse the directory. The `"not erased"` departure.
8. **Damaged metadata can block** (`neotape_validate.cpp:57`). A metadata frame
   passed with a wrong hash is not remembered; its repetition on the next volume is fatal
   (`neotape_extractor.cpp:75-76`: hash failures "do not block extraction").
9. After a producer error the accept loop runs on (`neotape_volume_server.cpp:370`), although
   `tcp_server.hpp:26` says it blocks "until the archive completes or an error occurs".
10. In salvage a damaged record inside a replayed suffix leaves the replay open
    (`neotape_validate.cpp:94`), so that every later undamaged frame of that connection is refused,
    although `validate.hpp:79-81` says that salvage does not enforce sequencing. Likewise an undamaged copy is
    passed over when a later frame was taken before it was met: a frame that is damaged on the first medium
    and repeated on the next, behind which the first went on, is lost (its number is old, and it is not
    in the history). `ReadInOrder`, the premise of `SalvageLosesOnlyDamaged`, excludes both: the undamaged
    copies come in the order of the archive and none twice.

In the models too, but no document says otherwise: `neotape-plan` ends with exit status 0 although its plan is not complete

* when its last `fclose` fails (`neotape_plan_cmd.cpp:746`): a plan cut short by a full disk is reported as complete,
  without a word, and `PlanReader` accepts what is left of it if the cut is between two records (`CloseOutput`);
* when `opendir` or `readdir` fails (`:221-253`), with a warning for the directory: what was not read of it, and
  everything below, is not in the plan (`Listings`); and likewise when `lstat` fails for an entry (`gone`), although
  not for a source, which ends the program.

Read in the code, outside of the models: a reader keeps the block
size of the first archive on a spool when the one behind it has another (`neotape_media.cpp:316`); and
a start without options takes a directory for empty whose files have names like those of the spool but types
it does not know, and removes them as it rewinds (`neotape_tape.cpp:420-431`).

## 7. Plan

1. *Done:* the write path with its abstract promise and proofs; the validator; the restore
   path with salvage, checked; the pax writer with the frame builder, checked, the writer proved to implement `SliceStream`; the spool directory
   over many sessions, checked and proved; the planner, checked and proved to plan as one thread.
   The validator and the restore path are proved as well, and of the write path every safety property.
2. *Done:* proofs of every safety property the runs check.
3. The write command on tape: authentication, positioning, erase and append checks, the bundle.
