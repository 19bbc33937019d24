------------------------------ MODULE WriteAll ------------------------------
(***************************************************************************)
(* _write_all() of kubernetes/storage/data-systems-foundations/examples/   *)
(* io_durability_demo.py: hand a payload to a stream, at most CHUNK_SIZE   *)
(* bytes a call, until the counts the stream reports add up.               *)
(*                                                                         *)
(* The stream is external.  It takes as many bytes as it reports and       *)
(* never more than it was handed; Reports says which reports it makes.     *)
(***************************************************************************)
EXTENDS Integers

CONSTANTS
  MaxTotal,   (* bound: the longest payload considered                     *)
  ChunkSize,  (* 1 MiB in the code                                         *)
  None,       (* a stream that would block reports None                    *)
  NotAnInt,   (* any other object that is not an integer                   *)
  Reports(_)  (* what the stream may report when handed n bytes            *)

VARIABLES
  total,   (* len(view)                                                    *)
  offset,
  taken,   (* bytes the stream really took                                 *)
  result   (* "running", "returned" or "raised"                            *)

vars == <<total, offset, taken, result>>

Init ==
  /\ total \in 0 .. MaxTotal
  /\ offset = 0 /\ taken = 0
  /\ result = "running"

Least(a, b) == IF a < b THEN a ELSE b

(* The length of the slice view[offset : offset + CHUNK_SIZE]. *)
requested == Least(ChunkSize, total - offset)

Confirms(written) ==
  /\ written \notin {None, NotAnInt}
  /\ written > 0
  /\ written <= total - offset

StreamWrite ==
  /\ result = "running"
  /\ offset < total
  /\ \E written \in Reports(requested) :
       IF Confirms(written)
       THEN /\ offset' = offset + written
            /\ taken' = taken + Least(written, requested)
            /\ UNCHANGED result
       ELSE /\ result' = "raised"
            /\ UNCHANGED <<offset, taken>>
  /\ UNCHANGED total

Return ==
  /\ result = "running"
  /\ offset >= total
  /\ result' = "returned"
  /\ UNCHANGED <<total, offset, taken>>

Next == StreamWrite \/ Return

Spec == Init /\ [][Next]_vars
-----------------------------------------------------------------------------
(* Properties *)

(* "Write every byte or raise": when the function returns, the stream has
   taken the whole payload, whatever short or missing counts it reported. *)
EveryByteOrRaise == result = "returned" => taken = total
=============================================================================
