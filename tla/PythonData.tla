----------------------------- MODULE PythonData -----------------------------
(***************************************************************************)
(* What the textbooks' programs take from Python: None and the exceptions  *)
(* they raise, min and max, and the order of tuples.                       *)
(***************************************************************************)
EXTENDS Integers, SequencesExt

CONSTANTS None, ValueError, LookupError

Least(a, b) == IF a <= b THEN a ELSE b
Greatest(a, b) == IF a <= b THEN b ELSE a

(* k < l for tuples of one length. *)
Before(k, l) ==
  \E i \in DOMAIN k : k[i] < l[i] /\ \A j \in 1 .. i - 1 : k[j] = l[j]

FirstOf(S) == CHOOSE k \in S : \A l \in S \ {k} : Before(k, l)

=============================================================================
