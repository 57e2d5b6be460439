----------------------------- MODULE SliceStream -----------------------------
(***************************************************************************)
(* What the pax writer promises the consumer of its callbacks, whatever    *)
(* the number of its threads: the slices of the plan one after the other,  *)
(* each opened, filled with the chunks of its entries in plan order and    *)
(* closed; an entry left out only as a whole and only after a warning; the *)
(* archive reported complete only when every slice has been closed.        *)
(***************************************************************************)
EXTENDS Naturals, Sequences, SequencesExt

CONSTANTS
    Plans,          \* the plans that may be archived
    Parts(_)        \* the number of chunks an entry of a kind is written in

VARIABLES
    plan,           \* the slices, each a sequence of entry kinds
    calls,          \* the callbacks invoked so far
    skipped,        \* <<slice, entry>> given up with a warning
    outcome         \* "running", "done" or "failed"

streamVars == <<plan, calls, skipped, outcome>>

BeginCall(s)       == [call |-> "begin_slice", slice |-> s]
ChunkCall(s, n, i) == [call |-> "write_chunk", slice |-> s, entry |-> n,
                       part |-> i]
EndCall(s)         == [call |-> "end_slice", slice |-> s]

\* The last slice carries the end-of-archive marker after its entries.
Contents(p, s) == p[s] \o (IF s = Len(p) THEN <<"eoa">> ELSE <<>>)

Done(c) == c \in Range(calls)
IsOpen(s) == Done(BeginCall(s)) /\ ~Done(EndCall(s))
Complete(s, n) ==
    <<s, n>> \in skipped \/ Done(ChunkCall(s, n, Parts(Contents(plan, s)[n])))

StreamInit ==
    /\ plan \in Plans
    /\ calls = <<>>
    /\ skipped = {}
    /\ outcome = "running"

BeginSlice(s) ==
    /\ ~Done(BeginCall(s))
    /\ \A r \in 1 .. s - 1 : Done(EndCall(r))
    /\ calls' = Append(calls, BeginCall(s))
    /\ UNCHANGED <<plan, skipped, outcome>>

Skip(s, n) ==
    /\ Contents(plan, s)[n] # "eoa"
    /\ \A i \in 1 .. Parts(Contents(plan, s)[n]) : ~Done(ChunkCall(s, n, i))
    /\ skipped' = skipped \cup {<<s, n>>}
    /\ UNCHANGED <<plan, calls, outcome>>

WriteChunk(s, n, i) ==
    /\ IsOpen(s)
    /\ <<s, n>> \notin skipped
    /\ \A m \in 1 .. n - 1 : Complete(s, m)
    /\ \A j \in 1 .. i - 1 : Done(ChunkCall(s, n, j))
    /\ ~Done(ChunkCall(s, n, i))
    /\ calls' = Append(calls, ChunkCall(s, n, i))
    /\ UNCHANGED <<plan, skipped, outcome>>

EndSlice(s) ==
    /\ IsOpen(s)
    /\ \A n \in DOMAIN Contents(plan, s) : Complete(s, n)
    /\ calls' = Append(calls, EndCall(s))
    /\ UNCHANGED <<plan, skipped, outcome>>

Finish ==
    /\ \A s \in DOMAIN plan : Done(EndCall(s))
    /\ outcome' = "done"
    /\ UNCHANGED <<plan, calls, skipped>>

Fail == outcome' = "failed" /\ UNCHANGED <<plan, calls, skipped>>

StreamNext ==
    /\ outcome = "running"
    /\ \/ \E s \in DOMAIN plan :
              \/ BeginSlice(s) \/ EndSlice(s)
              \/ \E n \in DOMAIN Contents(plan, s) :
                    \/ Skip(s, n)
                    \/ \E i \in 1 .. Parts(Contents(plan, s)[n]) :
                           WriteChunk(s, n, i)
       \/ Finish
       \/ Fail

StreamSpec == StreamInit /\ [][StreamNext]_streamVars
=============================================================================
