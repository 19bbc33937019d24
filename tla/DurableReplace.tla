--------------------------- MODULE DurableReplace ---------------------------
(***************************************************************************)
(* write_replace_verify() of kubernetes/storage/data-systems-foundations/  *)
(* examples/io_durability_demo.py: write a temporary file, flush, fsync,   *)
(* close, rename it over the final name, fsync the directory, read back.   *)
(* Any call may fail, the process may be killed, the machine may crash,    *)
(* and the next call starts from what was left behind.                     *)
(*                                                                         *)
(* The caller's side is the code's.  The file system is external and only  *)
(* as strong as POSIX plus an ordered journal: pages reach the disk in any *)
(* order and at any time, directory updates in the order they were made, a *)
(* rename at once or not at all; fsync makes its object catch up.          *)
(*                                                                         *)
(* One call at a time uses a directory: run_demo gives each call a         *)
(* TemporaryDirectory of its own.                                          *)
(***************************************************************************)
EXTENDS Naturals, Sequences

CONSTANTS
  Chunks,    (* the payload's length, in the smallest unit written         *)
  MaxCalls   (* bound: calls made on the directory, over all crashes       *)

ASSUME SizeAssumption == Chunks \in Nat \ {0}
ASSUME CallsAssumption == MaxCalls \in Nat

Version == 0 .. MaxCalls     (* call n writes version n; 0: no file *)
Inode == 1 .. MaxCalls       (* call n's open() creates inode n, if any *)
Content == [of : Version, chunks : SUBSET (1 .. Chunks)]

VARIABLES
  (* the caller *)
  pc, call,
  offset,                    (* of _write_all: what stream.write accepted  *)
  passed,                    (* how much of it left Python's buffer        *)
  raising,                   (* an exception is on its way out of `with`   *)
  dirStatus,                 (* directory_fsync["status"]                  *)
  outcome,                   (* what the last call told its caller         *)
  acked,                     (* newest version reported as synced          *)
  (* the file system *)
  cache, disk,               (* contents: in memory, on stable storage     *)
  dirs                       (* directory states: first durable, last seen *)

stream == <<offset, passed, raising>>
files == <<cache, disk>>
vars == <<pc, call, stream, dirStatus, outcome, acked, files, dirs>>

Empty(v) == [of |-> v, chunks |-> {}]
Whole(v) == [of |-> v, chunks |-> 1 .. Chunks]

Init ==
  /\ pc = "idle" /\ call = 0
  /\ offset = 0 /\ passed = 0 /\ raising = FALSE
  /\ dirStatus = "none" /\ outcome = "none" /\ acked = 0
  /\ cache = [i \in Inode |-> Empty(0)]
  /\ disk = [i \in Inode |-> Empty(0)]
  /\ dirs = <<[temp |-> 0, final |-> 0]>>

Now == dirs[Len(dirs)]

-----------------------------------------------------------------------------
(* The file system, external *)

(* Part of a file's pages is written back. *)
Writeback(i) ==
  /\ disk[i] # cache[i]
  /\ \E more \in SUBSET cache[i].chunks :
       LET kept == IF disk[i].of = cache[i].of THEN disk[i].chunks ELSE {} IN
       disk' = [disk EXCEPT ![i] = [of |-> cache[i].of, chunks |-> kept \union more]]
  /\ UNCHANGED <<pc, call, stream, dirStatus, outcome, acked, cache, dirs>>

(* The oldest pending directory update reaches the disk. *)
JournalCommit ==
  /\ Len(dirs) > 1
  /\ dirs' = Tail(dirs)
  /\ UNCHANGED <<pc, call, stream, dirStatus, outcome, acked, files>>

(* The machine stops: memory is lost, the disk is what the next call finds. *)
Crash ==
  /\ pc' = "idle" /\ outcome' = "none"
  /\ cache' = disk
  /\ dirs' = <<dirs[1]>>
  /\ UNCHANGED <<call, stream, dirStatus, acked, disk>>

(* Only the process stops: bytes in Python's buffer are lost. *)
Kill ==
  /\ pc # "idle"
  /\ pc' = "idle" /\ outcome' = "none"
  /\ UNCHANGED <<call, stream, dirStatus, acked, files, dirs>>

-----------------------------------------------------------------------------
(* write_replace_verify *)

(* The call raises after the `with` block; a temporary file may stay behind. *)
Raise ==
  /\ pc' = "idle" /\ outcome' = "raised"
  /\ UNCHANGED <<call, stream, dirStatus, acked, files, dirs>>

(* open("wb") creates the temporary file or truncates one left behind. *)
Open ==
  /\ pc = "idle"
  /\ call < MaxCalls
  /\ call' = call + 1
  /\ LET i == IF Now.temp = 0 THEN call + 1 ELSE Now.temp IN
     /\ cache' = [cache EXCEPT ![i] = Empty(call + 1)]
     /\ dirs' = IF Now.temp = 0 THEN Append(dirs, [Now EXCEPT !.temp = i])
                                ELSE dirs
  /\ offset' = 0 /\ passed' = 0 /\ raising' = FALSE
  /\ dirStatus' = "none" /\ outcome' = "none"
  /\ pc' = "write"
  /\ UNCHANGED <<acked, disk>>

OpenFails ==
  /\ pc = "idle"
  /\ call < MaxCalls
  /\ call' = call + 1
  /\ outcome' = "raised"
  /\ UNCHANGED <<pc, stream, dirStatus, acked, files, dirs>>

(* Python's buffered stream hands bytes 1 .. upTo to the kernel. *)
Pass(upTo) ==
  /\ passed' = upTo
  /\ cache' = [cache EXCEPT ![Now.temp].chunks = 1 .. upTo]

(* Faulty: the count is not bounded by what is left to write. *)
WriteUnbounded ==
  /\ pc = "write"
  /\ offset < Chunks
  /\ \E written \in 1 .. Chunks :
       /\ offset' = offset + written
       /\ \E upTo \in passed .. (offset + written) : Pass(upTo)
  /\ UNCHANGED <<pc, call, raising, dirStatus, outcome, acked, disk, dirs>>

(* Faulty: a count of 0 is taken for progress, and the loop goes round. *)
WriteSpinning ==
  /\ pc = "write"
  /\ offset < Chunks
  /\ \E written \in 0 .. (Chunks - offset) :
       /\ offset' = offset + written
       /\ \E upTo \in passed .. (offset + written) : Pass(upTo)
  /\ UNCHANGED <<pc, call, raising, dirStatus, outcome, acked, disk, dirs>>

(* One turn of _write_all. A count of 0 raises; the buffer may spill. *)
Write ==
  /\ pc = "write"
  /\ offset < Chunks
  /\ \E written \in 0 .. (Chunks - offset) :
       /\ offset' = offset + written
       /\ \E upTo \in passed .. (offset + written) : Pass(upTo)
       /\ IF written = 0 THEN raising' = TRUE /\ pc' = "close"
                         ELSE UNCHANGED <<raising, pc>>
  /\ UNCHANGED <<call, dirStatus, outcome, acked, disk, dirs>>

(* stream.write, flush_file or fsync_file raises OSError. *)
BodyRaises ==
  /\ \/ pc = "write" /\ offset < Chunks
     \/ pc \in {"flush", "fsync"}
  /\ \E upTo \in passed .. offset : Pass(upTo)
  /\ raising' = TRUE /\ pc' = "close"
  /\ UNCHANGED <<call, offset, dirStatus, outcome, acked, disk, dirs>>

WriteDone ==
  /\ pc = "write"
  /\ offset = Chunks
  /\ pc' = "flush"
  /\ UNCHANGED <<call, stream, dirStatus, outcome, acked, files, dirs>>

Flush ==
  /\ pc = "flush"
  /\ Pass(offset)
  /\ pc' = "fsync"
  /\ UNCHANGED <<call, offset, raising, dirStatus, outcome, acked, disk, dirs>>

(* Faulty: flushing is taken for syncing. *)
FsyncOmitted ==
  /\ pc = "fsync"
  /\ pc' = "close"
  /\ UNCHANGED <<call, stream, dirStatus, outcome, acked, files, dirs>>

Fsync ==
  /\ pc = "fsync"
  /\ disk' = [disk EXCEPT ![Now.temp] = cache[Now.temp]]
  /\ pc' = "close"
  /\ UNCHANGED <<call, stream, dirStatus, outcome, acked, cache, dirs>>

(* Faulty: the exception is lost when the block is left. *)
CloseSwallowing ==
  /\ pc = "close"
  /\ Pass(offset)
  /\ pc' = "replace"
  /\ UNCHANGED <<call, offset, raising, dirStatus, outcome, acked, disk, dirs>>

(* Leaving the `with` block closes the stream, which flushes what is left. *)
Close ==
  /\ pc = "close"
  /\ Pass(offset)
  /\ IF raising THEN pc' = "idle" /\ outcome' = "raised"
                ELSE pc' = "replace" /\ UNCHANGED outcome
  /\ UNCHANGED <<call, offset, raising, dirStatus, acked, disk, dirs>>

CloseFails ==
  /\ pc = "close"
  /\ \E upTo \in passed .. offset : Pass(upTo)
  /\ pc' = "idle" /\ outcome' = "raised"
  /\ UNCHANGED <<call, offset, raising, dirStatus, acked, disk, dirs>>

Replace ==
  /\ pc = "replace"
  /\ dirs' = Append(dirs, [temp |-> 0, final |-> Now.temp])
  /\ pc' = "dirsync"
  /\ UNCHANGED <<call, stream, dirStatus, outcome, acked, files>>

(* Faulty: an error after the file was synced is reported as "unknown". *)
TailTolerates ==
  /\ pc \in {"replace", "dirsync", "verify"}
  /\ pc' = "idle" /\ outcome' = "unknown_not_tested"
  /\ UNCHANGED <<call, stream, dirStatus, acked, files, dirs>>

(* replace_file, fsync_directory or read_bytes raises OSError. *)
TailRaises ==
  /\ pc \in {"replace", "dirsync", "verify"}
  /\ Raise

(* Faulty: an unsupported directory fsync is reported as a success. *)
DirectoryFsyncClaimed ==
  /\ pc = "dirsync"
  /\ dirs' \in {<<Now>>, dirs} /\ dirStatus' = "succeeded"
  /\ pc' = "verify"
  /\ UNCHANGED <<call, stream, outcome, acked, files>>

(* _default_directory_fsync: synced, or known to be unsupported here. *)
DirectoryFsync ==
  /\ pc = "dirsync"
  /\ \/ dirs' = <<Now>> /\ dirStatus' = "succeeded"
     \/ UNCHANGED dirs /\ dirStatus' = "unknown_not_tested"
  /\ pc' = "verify"
  /\ UNCHANGED <<call, stream, outcome, acked, files>>

hash_match == Now.final # 0 /\ cache[Now.final] = Whole(call)

Verify ==
  /\ pc = "verify"
  /\ IF hash_match
     THEN /\ pc' = "idle" /\ outcome' = dirStatus
          /\ acked' = IF dirStatus = "succeeded" THEN call ELSE acked
          /\ UNCHANGED <<call, stream, dirStatus, files, dirs>>
     ELSE Raise

CallStep ==
  \/ Write \/ BodyRaises \/ WriteDone \/ Flush \/ Fsync \/ Close \/ CloseFails
  \/ Replace \/ TailRaises \/ DirectoryFsync \/ Verify

Next ==
  \/ Open \/ OpenFails \/ CallStep
  \/ \E i \in Inode : Writeback(i)
  \/ JournalCommit \/ Crash \/ Kill

Spec == Init /\ [][Next]_vars

(* The caller's thread runs; nothing is assumed of the file system. *)
FairSpec == Spec /\ WF_vars(CallStep)
-----------------------------------------------------------------------------
(* Properties *)

TypeOK ==
  /\ pc \in {"idle", "write", "flush", "fsync", "close", "replace", "dirsync",
             "verify"}
  /\ call \in Version
  /\ offset \in 0 .. Chunks /\ passed \in 0 .. Chunks /\ raising \in BOOLEAN
  /\ dirStatus \in {"none", "succeeded", "unknown_not_tested"}
  /\ outcome \in {"none", "raised", "succeeded", "unknown_not_tested"}
  /\ acked \in Version
  /\ cache \in [Inode -> Content] /\ disk \in [Inode -> Content]
  /\ dirs \in Seq([temp : Version, final : Version]) /\ dirs # <<>>

(* The version a reader finds under the final name in directory state d. *)
FinalVersion(d) == IF d.final = 0 THEN 0 ELSE cache[d.final].of

(* Whichever directory state a crash leaves behind, the final name leads to
   one whole payload, in memory and on disk: it is never truncated, partial
   or a mixture, although the payload itself was written piece by piece. *)
FinalNeverTorn ==
  \A k \in DOMAIN dirs :
    dirs[k].final # 0 =>
      /\ cache[dirs[k].final] = Whole(FinalVersion(dirs[k]))
      /\ disk[dirs[k].final] = cache[dirs[k].final]

(* A version reported with directory_fsync "succeeded" outlives any crash: no
   directory state the disk can hold shows an older one. "unknown_not_tested"
   promises nothing, and the report says so. *)
AckSurvives == \A k \in DOMAIN dirs : acked <= FinalVersion(dirs[k])

(* A call that returns, synced or not, made its own payload visible, and it
   stays so until the next call or a crash. *)
ReturnMeansVisible ==
  outcome \in {"succeeded", "unknown_not_tested"} => FinalVersion(Now) = call

(* Every call comes to an end, partial writes and zero counts included.  A turn
   of a loop that changes nothing would be a stutter, which fairness does not
   count as a step: no step of a call may leave everything as it was, or the
   call could take it for ever. *)
CallsEnd ==
  /\ pc # "idle" ~> pc = "idle"
  /\ ~<>ENABLED (CallStep /\ UNCHANGED vars)

File == INSTANCE AtomicFile WITH
  history <- [k \in DOMAIN dirs |-> FinalVersion(dirs[k])]

(* Replace-by-rename is an atomic file, through failures and crashes: a reader
   is only taken back to an older version by a crash, and never behind what is
   durable. *)
ImplementsAtomicFile == File!Spec
=============================================================================
