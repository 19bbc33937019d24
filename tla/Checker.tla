------------------------------ MODULE Checker ------------------------------
(***************************************************************************)
(* What the two checkers of the documentation have in common:              *)
(* check_lessons.py and validate_docs.py go through input, collect errors, *)
(* run the Python in it if asked to, and exit with 1 if there are errors.  *)
(***************************************************************************)
EXTENDS Integers, Sequences, FiniteSets

CONSTANT None

(* None is not an exit code. *)
ASSUME ExitAssumption == None \notin {0, 1}

VARIABLES
  pc,
  run_python,   (* --run-python was given        *)
  at,           (* how much of the input is done *)
  errors,
  exit

(* The last statement of main(). *)
ExitWithErrors ==
  /\ pc = "report"
  /\ exit' = IF errors = {} THEN 0 ELSE 1
  /\ pc' = "exited"
  /\ UNCHANGED <<run_python, at, errors>>
=============================================================================
