----------------------------- MODULE MCWriteAll -----------------------------
(* The streams WriteAll is handed to. *)
EXTENDS WriteAll

(* A stream that may report anything, also more than it was handed. *)
MCMiscounts(n) == -1 .. (MaxTotal + 1) \union {None, NotAnInt}
=============================================================================
