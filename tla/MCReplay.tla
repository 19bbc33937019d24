------------------------------ MODULE MCReplay ------------------------------
(***************************************************************************)
(* Input files for model-checking ReplayPipeline.  MCRows has a duplicate  *)
(* identity (e1, in agreement and, across the two runs, in conflict), a    *)
(* run whose rows can arrive in any order, two of them with the highest    *)
(* sequence and different states, and a second run.                        *)
(***************************************************************************)
EXTENDS ReplayPipeline

CONSTANTS e1, e2, e3, r1, r2

MCRow(id, run, seq, st) ==
  [event_id |-> id, run_id |-> run, sequence |-> seq, state |-> st]

MCRows == {MCRow(e1, r1, 1, "Preparing"), MCRow(e2, r1, 2, "Ready"),
           MCRow(e3, r1, 2, "Failed"), MCRow(e1, r2, 1, "Preparing")}

(* Every sequence of at most five rows: long enough for the rejection at
   offset 3, a tick after it, and a backlog behind the pause. *)
MCCorpora == UNION {[1 .. n -> MCRows] : n \in 0 .. 5}

(* Every sequence of at most three lines, with blank and rejected ones, and a
   file that is longer than MaxLines only because of a blank line. *)
MCLines == {MCRow(e1, r1, 1, "Preparing"), MCRow(e2, r1, 2, "Ready"),
            Blank, BadLine, BadRow}
MCLong == [i \in 1 .. 6 |-> IF i = 2 THEN Blank ELSE MCRow(e1, r1, 1, "Ready")]
MCFiles == MCCorpora \union UNION {[1 .. n -> MCLines] : n \in 0 .. 3}
                    \union {MCLong}
=============================================================================
