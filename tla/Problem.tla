------------------------------ MODULE Problem ------------------------------
(***************************************************************************)
(* A program that computes one answer for one problem, as a state machine: *)
(* it is given any problem and answers it in one step.                     *)
(***************************************************************************)
EXTENDS Integers, SequencesExt

VARIABLES problem, solved, answer
vars == <<problem, solved, answer>>

Unsolved == solved = FALSE /\ answer = <<>>

Solve(kind, solution) ==
  /\ ~solved /\ problem.kind = kind
  /\ solved' = TRUE /\ answer' = solution
  /\ UNCHANGED problem

Solved(kind) == solved /\ problem.kind = kind

Upto(n, S) == UNION {[1 .. k -> S] : k \in 0 .. n}
Increasing(s) == \A i \in 1 .. Len(s) - 1 : s[i] <= s[i + 1]
Distinct(S) == {s \in Upto(Cardinality(S), S) : IsInjective(s)}
=============================================================================
