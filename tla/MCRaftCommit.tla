---------------------------- MODULE MCRaftCommit ----------------------------
EXTENDS RaftCommit, TLC

CONSTANTS A, B, C

(* Servers differ in nothing but their names. *)
ServerSymmetry == Permutations(Server)
=============================================================================
