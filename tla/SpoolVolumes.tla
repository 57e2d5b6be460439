---------------------------- MODULE SpoolVolumes ----------------------------
(***************************************************************************)
(* A spool directory across the neotape-write sessions that run on it one  *)
(* after the other: the start policy of neotape-write, the recovery        *)
(* bundle, SpoolTapeDevice with its pending file, and what a reader finds. *)
(*                                                                         *)
(* A session is served from the first frame not acknowledged.  A record is *)
(* acknowledged when it is written; that acknowledgements get lost and     *)
(* slice marks with them is the matter of WritePipeline.                   *)
(***************************************************************************)
EXTENDS Naturals, Sequences, FiniteSets, SequencesExt

CONSTANTS
    Stream,         \* one archive: frames and the filemarks between slices
    MaxArchives,    \* archives written to the spool, bound of the run
    MaxSessions     \* sessions, bound of the run

ASSUME SpoolAssumption ==
    /\ MaxArchives \in Nat \ {0} /\ MaxSessions \in Nat \ {0}
    /\ \A i \in DOMAIN Stream : Stream[i].kind \in {"frame", "mark"}
    /\ Stream[Len(Stream)].type = "archive-end"

VARIABLES
    files,          \* the finished tape files: number, type and records
    pending,        \* the .pending file; it matters only with records
    bundle,         \* recovery-bundle.tar: "none" or "whole"
    phase,          \* where the session stands, "off" between sessions
    mode,           \* "default", "erase" or "append"
    withBundle,     \* the session was given a recovery bundle
    sessions,
    archive,        \* the archive being written
    next,           \* the item of it that the server sends next
    acked,          \* records acknowledged and not erased since
    departures      \* how acknowledged records were lost

fileVars == <<files, pending, bundle>>
sessionVars == <<phase, mode, withBundle, sessions>>
streamVars == <<archive, next, acked>>
vars == <<fileVars, sessionVars, streamVars, departures>>

Torn == [kind |-> "torn"]
Empty(n) == [num |-> n, records |-> <<>>]

\* next_file_num_ after the scan.
NextNumber == Max({0} \cup {f.num + 1 : f \in files})

\* scan_spool_files refuses a directory with a number twice.
Duplicate == \E f, g \in files : f # g /\ f.num = g.num

SpoolInit ==
    /\ files = {} /\ pending = Empty(0) /\ bundle = "none"
    /\ phase = "off" /\ mode = "default" /\ withBundle = FALSE /\ sessions = 0
    /\ archive = 1 /\ next = 1 /\ acked = {} /\ departures = {}

-----------------------------------------------------------------------------
(* The start of neotape-write. *)

\* A default start on a spool with a bundle fails before the device is made.
Open(m, b) ==
    /\ phase = "off" /\ sessions < MaxSessions /\ archive <= MaxArchives
    /\ b => m # "append"
    /\ m = "default" => bundle = "none"
    /\ ~Duplicate
    /\ phase' = "opened" /\ mode' = m /\ withBundle' = b
    /\ sessions' = sessions + 1
    /\ pending' = Empty(NextNumber)       \* O_CREAT | O_TRUNC
    /\ UNCHANGED <<files, bundle, streamVars, departures>>

\* fail ends the process without running destructors.
RefuseToOverwrite ==
    /\ phase = "opened" /\ mode = "default" /\ files # {}
    /\ phase' = "off"
    /\ UNCHANGED <<fileVars, mode, withBundle, sessions, streamVars, departures>>

GoToEnd ==
    /\ phase = "opened" /\ mode = "append"
    /\ phase' = "writing"
    /\ UNCHANGED <<fileVars, mode, withBundle, sessions, streamVars, departures>>

\* Mutant: the start does not look whether the spool is empty.
RewindUnchecked ==
    /\ phase = "opened" /\ mode # "append"
    /\ phase' = "erasing" /\ pending' = Empty(0)
    /\ UNCHANGED <<files, bundle, mode, withBundle, sessions, streamVars,
                   departures>>

Rewind ==
    /\ phase = "opened" /\ mode # "append"
    /\ mode = "default" => files = {}
    /\ phase' = "erasing" /\ pending' = Empty(0)
    /\ UNCHANGED <<files, bundle, mode, withBundle, sessions, streamVars,
                   departures>>

\* The files are removed one by one, in directory order.
EraseFile(f) ==
    /\ phase = "erasing"
    /\ files' = files \ {f}
    /\ acked' = acked \ Range(f.records)
    /\ UNCHANGED <<pending, bundle, sessionVars, archive, next, departures>>

\* An error of removing a file is ignored: what cannot be removed stays, and
\* the numbering starts again all the same.
EraseEnds ==
    /\ phase = "erasing"
    /\ pending' = Empty(0)
    /\ acked' = {}
    /\ departures' = IF files = {} THEN {} ELSE {"not erased"}
    /\ phase' = IF withBundle \/ mode = "erase" THEN "bundle" ELSE "writing"
    /\ UNCHANGED <<files, bundle, mode, withBundle, sessions, archive, next>>

\* The copy to a name of its own touches nothing else; then the rename.
InstallBundle ==
    /\ phase = "bundle" /\ withBundle
    /\ \/ bundle' = "whole" /\ phase' = "writing"
       \/ phase' = "closing" /\ UNCHANGED bundle
    /\ UNCHANGED <<files, pending, mode, withBundle, sessions, streamVars,
                   departures>>

RemoveBundle ==
    /\ phase = "bundle" /\ ~withBundle
    /\ \/ bundle' = "none" /\ phase' = "writing"
       \/ phase' = "off" /\ UNCHANGED bundle                \* fail
    /\ UNCHANGED <<files, pending, mode, withBundle, sessions, streamVars,
                   departures>>

-----------------------------------------------------------------------------
(* Writing. *)

Item == Stream[next]

\* The record of a frame: its type, and which frame of which archive it is.
Record == [kind |-> "frame", type |-> Item.type, place |-> next,
           archive |-> archive]

\* write_record and the acknowledgement behind it.  With that of archive_end
\* the archive is over for its server.
WriteRecord ==
    /\ phase = "writing" /\ Item.kind = "frame"
    /\ pending' = [pending EXCEPT !.records = Append(@, Record)]
    /\ acked' = acked \cup {Record}
    /\ IF next = Len(Stream)
       THEN phase' = "final mark" /\ archive' = archive + 1 /\ next' = 1
       ELSE next' = next + 1 /\ UNCHANGED <<phase, archive>>
    /\ UNCHANGED <<files, bundle, mode, withBundle, sessions, departures>>

\* No space is left in the middle of a record.
WriteTorn ==
    /\ phase = "writing" /\ Item.kind = "frame"
    /\ pending' = [pending EXCEPT !.records = Append(@, Torn)]
    /\ phase' = "closing"
    /\ UNCHANGED <<files, bundle, mode, withBundle, sessions, streamVars,
                   departures>>

\* finalize_current_file: the name is made from the first header.
Finished ==
    [num |-> pending.num, type |-> pending.records[1].type,
     records |-> pending.records]

\* The rename replaces a file of the same name.
Renamed ==
    {f \in files : f.num # Finished.num \/ f.type # Finished.type} \cup {Finished}

\* MTWEOF up to the rename.  Each step may fail, and on an empty file, which
\* has no header to be named after, it does.
Finalize(nextPhase) ==
    \/ /\ pending.records # <<>>
       /\ files' = Renamed
       /\ pending' = Empty(pending.num)
       /\ phase' = nextPhase
    \/ phase' = "closing" /\ UNCHANGED <<files, pending>>

WriteMark ==
    /\ phase = "writing" /\ Item.kind = "mark"
    /\ next' = next + 1
    /\ Finalize("marked")
    /\ UNCHANGED <<bundle, mode, withBundle, sessions, archive, acked,
                   departures>>

WriteFinalMark ==
    /\ phase = "final mark"
    /\ Finalize("closing")
    /\ UNCHANGED <<bundle, mode, withBundle, sessions, streamVars, departures>>

\* Mutant: the number of the next file is not advanced.
OpenNextSameNumber ==
    /\ phase = "marked"
    /\ phase' = "writing"
    /\ UNCHANGED <<fileVars, mode, withBundle, sessions, streamVars, departures>>

OpenNext ==
    /\ phase = "marked"
    /\ \/ pending' = Empty(pending.num + 1) /\ phase' = "writing"
       \/ phase' = "closing" /\ UNCHANGED pending
    /\ UNCHANGED <<files, bundle, mode, withBundle, sessions, streamVars,
                   departures>>

\* The volume is full, or the session failed.
Stop ==
    /\ phase \in {"writing", "final mark"}
    /\ phase' = "closing"
    /\ UNCHANGED <<fileVars, mode, withBundle, sessions, streamVars, departures>>

\* Mutant: the destructor gives up a file no filemark ended.
CloseDiscarding ==
    /\ phase = "closing"
    /\ pending' = Empty(0) /\ phase' = "off"
    /\ UNCHANGED <<files, bundle, mode, withBundle, sessions, streamVars,
                   departures>>

\* ~SpoolTapeDevice: a file with records is finished, or removed when that
\* fails; one without is removed.
HasRecords == \E i \in DOMAIN pending.records : pending.records[i] # Torn
Close ==
    /\ phase = "closing"
    /\ phase' = "off" /\ pending' = Empty(0)
    /\ \/ /\ HasRecords
          /\ files' = Renamed
          /\ departures' = departures \cup
                 (IF Torn \in Range(pending.records) THEN {"torn"} ELSE {})
       \/ /\ HasRecords
          /\ departures' = departures \cup {"removed"}
          /\ UNCHANGED files
       \/ ~HasRecords /\ UNCHANGED <<files, departures>>
    /\ UNCHANGED <<bundle, mode, withBundle, sessions, streamVars>>

\* The process is killed between any two steps.
Kill ==
    /\ phase # "off"
    /\ phase' = "off"
    /\ departures' = departures \cup
           (IF HasRecords THEN {"killed"} ELSE {}) \cup
           (IF phase = "erasing" THEN {"half erased"} ELSE {})
    /\ UNCHANGED <<fileVars, mode, withBundle, sessions, streamVars>>

\* The archiver is given up, and the archive with it.
Abandon ==
    /\ phase = "off" /\ next > 1 /\ archive < MaxArchives
    /\ archive' = archive + 1 /\ next' = 1
    /\ UNCHANGED <<fileVars, sessionVars, acked, departures>>

SpoolNext ==
    \/ \E m \in {"default", "erase", "append"}, b \in BOOLEAN : Open(m, b)
    \/ RefuseToOverwrite \/ GoToEnd \/ Rewind
    \/ \E f \in files : EraseFile(f)
    \/ EraseEnds \/ InstallBundle \/ RemoveBundle
    \/ WriteRecord \/ WriteTorn \/ WriteMark \/ WriteFinalMark
    \/ OpenNext \/ Stop \/ Close \/ Kill \/ Abandon

SpoolSpec == SpoolInit /\ [][SpoolNext]_vars

-----------------------------------------------------------------------------
(* Reading: RecordReader over scan_spool_files. *)

Torns(f) == Torn \in Range(f.records)

\* The reader stops with an error at a record that is not whole.
ReadBack ==
    IF Duplicate THEN {}
    ELSE UNION {Range(f.records) \ {Torn} :
                f \in {g \in files : \A h \in files : h.num < g.num => ~Torns(h)}}

-----------------------------------------------------------------------------

\* A finished tape file is for good: only an erase under way removes it, and no
\* session renames another file over it or writes into it; a session behind an
\* erase that could not remove everything may, as it numbers from 0 again.
FinishedFilesStay ==
    [][\A f \in files :
          \/ f \in files'
          \/ mode = "erase" /\ (phase = "erasing" \/ "not erased" \in departures)]_vars

\* Between sessions a reader gets back every record that was acknowledged
\* and not erased, however the sessions ended, except where the directory
\* lost one: to a kill, to a failing rename, behind a record torn in two.
AckedAreReadable ==
    phase = "off" /\ departures \subseteq {"half erased"} => acked \subseteq ReadBack

\* What scan_spool_files relies on: no number twice, unless an erase could not
\* remove a file, and none left out while no erase is under way or broke off.
SpoolIsWellFormed ==
    /\ "not erased" \notin departures => ~Duplicate
    /\ phase # "erasing" /\ departures \cap {"half erased", "not erased"} = {} =>
           {f.num : f \in files} = 0 .. Cardinality(files) - 1
=============================================================================
