--------------------------- MODULE TextbookModels ---------------------------
(***************************************************************************)
(* The pure programs of the textbooks, each on every problem up to a bound. *)
(***************************************************************************)
EXTENDS AlgorithmsCheck, SchedulingCheck, SmallModelsCheck

Init == Unsolved /\ (AlgorithmProblem \/ SchedulingProblem \/ SmallProblem)

Next == SolveAlgorithm \/ SolveScheduling \/ SolveSmall

Spec == Init /\ [][Next]_vars

-----------------------------------------------------------------------------
(* Properties *)

(* On every input up to the bounds each program gives what it is for: the
   position of a key, a stable order, every reachable node nearest or deepest
   first, shortest paths, fewest coins, the best load; devices of one node for
   all requests if any node has them, a replica that follows the log whatever
   is lost or reordered, the right page, sectors and products, the memory
   target; lost updates, pipeline cycles and store-buffering outcomes exactly
   as overlaps and dependencies explain them. *)
AnswersCorrect == AlgorithmsCorrect /\ ExecutionsCorrect /\ SmallModelsCorrect

(* Whatever arrives when, and for however long: every timeline serves each job
   in full and wastes no tick, shortest first waits least, round robin lets
   nobody wait for more than one quantum of each other job, and a processor
   budget is used up and shared evenly. *)
TimelinesFair ==
  /\ Solved("queue") => Conserving /\ WaitsLeast
  /\ Solved("round robin") =>
       IF problem.quantum = 0 THEN answer = ValueError
       ELSE Conserving /\ NobodyStarves
  /\ Solved("budget") => BudgetShared
=============================================================================
