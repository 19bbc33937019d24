-------------------------- MODULE MCTextbookModels --------------------------
(***************************************************************************)
(* Inputs for model-checking TextbookModels: all graphs of three nodes,    *)
(* all sets of three jobs, devices or instructions, all deliveries of      *)
(* three log entries: small enough to be gone through completely.          *)
(***************************************************************************)
EXTENDS TextbookModels

MCWeight == {-1, 0, 1, 3}
MCItem == {[weight |-> w, value |-> v] : w \in {1, 2, 3}, v \in {1, 3}}
=============================================================================
