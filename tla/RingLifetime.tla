---------------------------- MODULE RingLifetime ----------------------------
(***************************************************************************)
(* learning/ubuntu-linux-internals/examples/ring_lifetime_model.py: what a *)
(* ring promises about the requests it is given and their buffers.  Each   *)
(* request has its own id and buffer, and stands for both.                 *)
(*                                                                         *)
(* What raises an exception and changes nothing is not a step: an id       *)
(* submitted while it is pending, a completion for an unknown id.          *)
(* External: the kernel, which is done with a request at some moment after *)
(* it was submitted, and only then answers.                                *)
(***************************************************************************)
EXTENDS Sequences

CONSTANT Request

VARIABLES pending, state, released, release_log, done

vars == <<pending, state, released, release_log, done>>

Init ==
  /\ pending = {}
  /\ state = [r \in Request |-> "SUBMITTED"]
  /\ released = {} /\ release_log = <<>>
  /\ done = {}

submit(r) ==
  /\ r \notin pending
  /\ pending' = pending \union {r}
  /\ UNCHANGED <<state, released, release_log, done>>

KernelDone(r) ==
  /\ r \in pending \ done
  /\ done' = done \union {r}
  /\ UNCHANGED <<pending, state, released, release_log>>

finish(r, result) ==
  /\ state[r] = "SUBMITTED"
  /\ state' = [state EXCEPT ![r] =
                 IF result = "ECANCELED" THEN "CANCELLED" ELSE "COMPLETED"]

release_once(r) ==
  /\ r \notin released /\ state'[r] # "SUBMITTED"
  /\ released' = released \union {r}

(* The id is taken from pending first, and stays out when the request turns
   out to have ended before and finish raises. *)
complete(r, result) ==
  /\ r \in pending \intersect done
  /\ pending' = pending \ {r}
  /\ \/ /\ finish(r, result) /\ release_once(r)
        /\ release_log' = Append(release_log, r)
     \/ state[r] # "SUBMITTED" /\ UNCHANGED <<state, released, release_log>>
  /\ UNCHANGED done

Next ==
  \E r \in Request :
    \/ submit(r) \/ KernelDone(r)
    \/ \E result \in {"ECANCELED", "errno", "bytes"} : complete(r, result)

Spec == Init /\ [][Next]_vars
=============================================================================
