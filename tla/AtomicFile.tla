----------------------------- MODULE AtomicFile -----------------------------
(***************************************************************************)
(* What replacing a file promises its caller: the name always shows one    *)
(* whole version.  history lists the versions a reader may find: the last  *)
(* is the one visible now, the first the one a crash brings back.  A crash *)
(* may lose versions, but none that was acknowledged.                      *)
(*                                                                         *)
(* DurableReplace implements this specification.                           *)
(***************************************************************************)
EXTENDS Naturals, Sequences

CONSTANT Version   (* a set of naturals; 0 stands for "no file yet" *)

VARIABLES history, acked

vars == <<history, acked>>

Init ==
  /\ history = <<0>>
  /\ acked = 0

(* A new version becomes visible, or the log of changes grows by a change
   that leaves the visible version alone. *)
Publish ==
  /\ \E v \in Version : v >= history[Len(history)] /\ history' = Append(history, v)
  /\ UNCHANGED acked

Persist ==
  /\ \E k \in 2 .. Len(history) : history' = SubSeq(history, k, Len(history))
  /\ UNCHANGED acked

(* Only what a crash can no longer take away is acknowledged. *)
Acknowledge ==
  /\ acked' \in acked .. history[1]
  /\ UNCHANGED history

Crash ==
  /\ history' = <<history[1]>>
  /\ UNCHANGED acked

Next == Publish \/ Persist \/ Acknowledge \/ Crash

Spec == Init /\ [][Next]_vars
=============================================================================
