----------------------------- MODULE MCArchiver -----------------------------
(***************************************************************************)
(* Instances of the archiver's producer.  The plans have more small files  *)
(* in a row than workers and queues together hold, a streamed file whose   *)
(* chunks end on a frame boundary, and one slice or two.                   *)
(***************************************************************************)
EXTENDS Archiver

CONSTANTS w1, w2

MCWorkers == {w1, w2}
MCPlans == { <<>>, << <<"small", "small", "small", "small">> >>,
             << <<"large", "small">>, <<"bare", "small">> >> }
MCFaults == {"main", "worker", "serializer", "output", "start", "skip"}

MCTwoFiles == { << <<"small">>, <<"small">> >> }
MCSkip == {"skip"}
=============================================================================
