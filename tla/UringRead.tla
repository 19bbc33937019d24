----------------------------- MODULE UringRead -----------------------------
(***************************************************************************)
(* learning/ubuntu-linux-internals/examples/uring_read.c: one process      *)
(* reads a regular file once through io_uring, and the kernel works on the *)
(* request at its own pace.  Any call may fail; after a failure nobody     *)
(* knows whether the kernel still holds a pointer into the buffer.         *)
(*                                                                         *)
(* The kernel and liburing are external: a submission that reports an      *)
(* error may have been accepted, closing the ring asks for cancellation    *)
(* but does not wait for it, and a completion queue entry may carry a      *)
(* user_data the program does not expect.                                  *)
(***************************************************************************)
EXTENDS Integers

CONSTANT BufferSize   (* in the pieces the kernel fills it by; 4096 bytes *)
ASSUME BufferAssumption == BufferSize \in Nat \ {0}

Errno == -1                              (* any negative cqe->res *)
Res == {Errno} \union 0 .. BufferSize

VARIABLES
  (* the process *)
  pc,
  fd,                       (* "none", "open" or "closed"                  *)
  buffer,                   (* "none", "live" or "freed"                   *)
  ring,                     (* "none", "ready" or "exited"                 *)
  requestMayBePending,
  exitStatus,
  printed,                  (* the count it prints, Errno if none          *)
  ended,                    (* "no", "returned" or "_Exit"                 *)
  (* the kernel *)
  request,                  (* "none", "inflight" or "done"                *)
  filled,                   (* how much of the buffer it has written       *)
  cqes                      (* completions not yet seen, by kind           *)

resources == <<fd, buffer, ring>>
status == <<requestMayBePending, exitStatus, printed>>
kernel == <<request, filled, cqes>>
vars == <<pc, resources, status, ended, kernel>>

Init ==
  /\ pc = "args"
  /\ fd = "none" /\ buffer = "none" /\ ring = "none"
  /\ requestMayBePending = FALSE
  /\ exitStatus = "failure" /\ printed = Errno
  /\ ended = "no"
  /\ request = "none" /\ filled = 0 /\ cqes = {}

-----------------------------------------------------------------------------
(* The kernel *)

(* The kernel writes into the buffer as long as the request is in flight,
   whatever the process has done to the ring meanwhile. *)
Fill ==
  /\ request = "inflight"
  /\ filled < BufferSize
  /\ filled' = filled + 1
  /\ UNCHANGED <<pc, resources, status, ended, request, cqes>>

(* The request ends, with an error or with the bytes it wrote; a completion
   is only seen through a ring that still exists. *)
Complete ==
  /\ request = "inflight"
  /\ request' = "done"
  /\ \E res \in {Errno, filled} :
       cqes' = IF ring = "ready" THEN cqes \union {[id |-> "ours", res |-> res]}
                                 ELSE cqes
  /\ UNCHANGED <<pc, resources, status, ended, filled>>

(* An entry with an unexpected user_data, at most one at a time. *)
PostForeign ==
  /\ ring = "ready"
  /\ \A c \in cqes : c.id # "foreign"
  /\ cqes' = cqes \union {[id |-> "foreign", res |-> 0]}
  /\ UNCHANGED <<pc, resources, status, ended, request, filled>>

-----------------------------------------------------------------------------
(* main() up to the submission: each step may fail and go to cleanup *)

Goto(from, to) == pc = from /\ pc' \in {to, "cleanup"}

CheckArgs ==
  /\ pc = "args"
  /\ \/ pc' = "open" /\ UNCHANGED ended
     \/ pc' = "end" /\ ended' = "returned"
  /\ UNCHANGED <<resources, status, kernel>>

Open ==
  /\ Goto("open", "fstat")
  /\ fd' = IF pc' = "fstat" THEN "open" ELSE fd
  /\ UNCHANGED <<buffer, ring, status, ended, kernel>>

(* fstat and the test for a regular file. *)
Fstat ==
  /\ Goto("fstat", "malloc")
  /\ UNCHANGED <<resources, status, ended, kernel>>

Malloc ==
  /\ Goto("malloc", "queue_init")
  /\ buffer' = IF pc' = "queue_init" THEN "live" ELSE buffer
  /\ UNCHANGED <<fd, ring, status, ended, kernel>>

QueueInit ==
  /\ Goto("queue_init", "get_sqe")
  /\ ring' = IF pc' = "get_sqe" THEN "ready" ELSE ring
  /\ UNCHANGED <<fd, buffer, status, ended, kernel>>

GetSqe ==
  /\ Goto("get_sqe", "submit")
  /\ UNCHANGED <<resources, status, ended, kernel>>

(* Faulty: the flag is only set once the submission has succeeded. *)
SubmitThenFlag ==
  /\ Goto("submit", "wait")
  /\ requestMayBePending' = (pc' = "wait")
  /\ request' \in IF pc' = "wait" THEN {"inflight"} ELSE {"none", "inflight"}
  /\ UNCHANGED <<resources, exitStatus, printed, ended, filled, cqes>>

(* Faulty: the number of submitted requests is not looked at. *)
SubmitUncounted ==
  /\ Goto("submit", "wait")
  /\ requestMayBePending' = TRUE
  /\ request' \in {"none", "inflight"}
  /\ UNCHANGED <<resources, exitStatus, printed, ended, filled, cqes>>

(* The flag is set before the attempt. A return value other than 1 goes to
   cleanup, and the kernel may have taken the request all the same. *)
Submit ==
  /\ Goto("submit", "wait")
  /\ requestMayBePending' = TRUE
  /\ request' \in IF pc' = "wait" THEN {"inflight"} ELSE {"none", "inflight"}
  /\ UNCHANGED <<resources, exitStatus, printed, ended, filled, cqes>>

-----------------------------------------------------------------------------
(* Waiting; -EINTR repeats the call and changes nothing *)

WaitFails ==
  /\ pc = "wait"
  /\ pc' = "cleanup"
  /\ UNCHANGED <<resources, status, ended, kernel>>

(* Faulty: any completion is taken for the request's own. *)
TakeAnyCompletion ==
  /\ pc = "wait"
  /\ \E c \in cqes :
       /\ cqes' = cqes \ {c}
       /\ requestMayBePending' = FALSE
       /\ printed' = c.res
       /\ exitStatus' = IF c.res < 0 THEN exitStatus ELSE "success"
  /\ pc' = "cleanup"
  /\ UNCHANGED <<resources, ended, request, filled>>

(* Faulty: the count includes a terminator. *)
TakeCompletionPlusOne ==
  /\ pc = "wait"
  /\ \E c \in cqes : cqes' = cqes \ {c} /\ printed' = c.res + 1
  /\ pc' = "cleanup"
  /\ UNCHANGED <<resources, requestMayBePending, exitStatus, ended, request,
                 filled>>

(* One completion arrives. Only the one with the request's own id tells that
   the kernel is done with the buffer. *)
TakeCompletion ==
  /\ pc = "wait"
  /\ \E c \in cqes :
       /\ cqes' = cqes \ {c}
       /\ IF c.id = "ours"
          THEN /\ requestMayBePending' = FALSE
               /\ printed' = c.res
               /\ exitStatus' = IF c.res < 0 THEN exitStatus ELSE "success"
          ELSE UNCHANGED status
  /\ pc' = "cleanup"
  /\ UNCHANGED <<resources, ended, request, filled>>

-----------------------------------------------------------------------------
(* cleanup *)

(* Faulty: the ring is not closed while a request may be pending. *)
QueueExitWhenIdle ==
  /\ pc = "cleanup"
  /\ IF ring = "ready" /\ ~requestMayBePending
     THEN ring' = "exited" /\ cqes' = {}
     ELSE UNCHANGED <<ring, cqes>>
  /\ pc' = "pending?"
  /\ UNCHANGED <<fd, buffer, status, ended, request, filled>>

(* io_uring_queue_exit, if there is a ring; what is unread in it is lost. *)
QueueExit ==
  /\ pc = "cleanup"
  /\ IF ring = "ready" THEN ring' = "exited" /\ cqes' = {}
                       ELSE UNCHANGED <<ring, cqes>>
  /\ pc' = "pending?"
  /\ UNCHANGED <<fd, buffer, status, ended, request, filled>>

(* _Exit: the buffer is given up with the whole process. *)
ExitWithoutFree ==
  /\ pc = "pending?"
  /\ requestMayBePending
  /\ ended' = "_Exit" /\ exitStatus' = "failure"
  /\ pc' = "end"
  /\ UNCHANGED <<resources, requestMayBePending, printed, kernel>>

Free ==
  /\ pc = "pending?"
  /\ ~requestMayBePending
  /\ buffer' = IF buffer = "live" THEN "freed" ELSE buffer
  /\ pc' = "close"
  /\ UNCHANGED <<fd, ring, status, ended, kernel>>

CloseAndReturn ==
  /\ pc = "close"
  /\ fd' = IF fd = "open" THEN "closed" ELSE fd
  /\ ended' = "returned"
  /\ pc' = "end"
  /\ UNCHANGED <<buffer, ring, status, kernel>>

(* What main() does of its own accord: waiting may, but need not, fail. *)
Main ==
  \/ CheckArgs \/ Open \/ Fstat \/ Malloc \/ QueueInit \/ GetSqe \/ Submit
  \/ TakeCompletion
  \/ QueueExit \/ ExitWithoutFree \/ Free \/ CloseAndReturn

Next == Main \/ WaitFails \/ Fill \/ Complete \/ PostForeign

Spec == Init /\ [][Next]_vars

(* The process is scheduled; a read of a regular file ends; and a completion
   that has arrived is delivered in spite of repeated interrupts. *)
FairSpec == Spec /\ WF_vars(Main) /\ WF_vars(Complete)
-----------------------------------------------------------------------------
(* Properties *)

TypeOK ==
  /\ pc \in {"args", "open", "fstat", "malloc", "queue_init", "get_sqe",
             "submit", "wait", "cleanup", "pending?", "close", "end"}
  /\ fd \in {"none", "open", "closed"}
  /\ buffer \in {"none", "live", "freed"}
  /\ ring \in {"none", "ready", "exited"}
  /\ requestMayBePending \in BOOLEAN
  /\ exitStatus \in {"failure", "success"} /\ printed \in Res
  /\ ended \in {"no", "returned", "_Exit"}
  /\ request \in {"none", "inflight", "done"}
  /\ filled \in 0 .. BufferSize
  /\ cqes \subseteq [id : {"ours", "foreign"}, res : Res]

(* The kernel never writes into freed memory: as long as it may be working on
   the request, the buffer is allocated - also after a failed submission, a
   failed wait, an unexpected completion and the closing of the ring. *)
BufferOutlivesRequest == request = "inflight" => buffer = "live"

(* Success is only reported for a read that ended, with the count of bytes
   that really lie in the buffer. *)
SuccessMeansRead ==
  exitStatus = "success" => request = "done" /\ printed = filled

(* Every path that returns from main gives back what it took. Only a process
   that ends by _Exit leaves the buffer and the descriptor to the system. *)
NothingLeaks ==
  /\ ended = "returned" => fd # "open" /\ buffer # "live" /\ ring # "ready"
  /\ ended = "_Exit" => ring = "exited"

(* Once a submission was attempted the request is the ring's until the buffer
   is freed, which is the one moment main() acts on its completion. *)
Attempted == requestMayBePending \/ request # "none"
Freed == IF Attempted /\ buffer = "freed" THEN {"read"} ELSE {}

Lifetime == INSTANCE RingLifetime WITH
  Request <- {"read"},
  pending <- IF Attempted THEN {"read"} \ Freed ELSE {},
  state <- [r \in {"read"} |-> IF r \in Freed THEN "COMPLETED" ELSE "SUBMITTED"],
  released <- Freed,
  release_log <- IF Freed = {} THEN <<>> ELSE <<"read">>,
  done <- IF request = "done" THEN {"read"} ELSE {}

(* The program keeps the textbook's rules for a ring, ring_lifetime_model.py:
   each step of main() and of the kernel is a submission, an answer or a
   release in the order the model allows, or none of its business; in
   particular a buffer is freed once, after the matching answer. *)
LifetimeKept == Lifetime!Spec

(* No call sequence leaves the process waiting for a request the kernel never
   took: a wait is only entered when a completion will come. *)
ProcessEnds == <>(ended # "no")
=============================================================================
