---------------------------- MODULE LogPipeline ----------------------------
(***************************************************************************)
(* What a replayable pipeline promises, whatever its schedule: one ordered *)
(* log feeds two sinks that read it independently, each from its own       *)
(* cursor.  The hot sink keys documents by event identity, so a redelivery *)
(* changes nothing; the archive keeps one record per log entry, in log     *)
(* order.  The log may expire a prefix, and a sink whose next entry has    *)
(* expired stays where it is: it never jumps over the gap.                 *)
(*                                                                         *)
(* ReplayPipeline implements this specification.                           *)
(***************************************************************************)
EXTENDS Naturals, Sequences

CONSTANT Row   (* records with a field event_id *)

VARIABLES log, hot, hotCursor, archive, archiveCursor, base

vars == <<log, hot, hotCursor, archive, archiveCursor, base>>

Init ==
  /\ log = <<>>
  /\ hot = {} /\ hotCursor = 0
  /\ archive = <<>> /\ archiveCursor = 0
  /\ base = 0

Deliver ==
  /\ \E row \in Row : log' = Append(log, row)
  /\ UNCHANGED <<hot, hotCursor, archive, archiveCursor, base>>

IndexNext ==
  /\ hotCursor < Len(log)
  /\ hot' = hot \union {log[hotCursor + 1].event_id}
  /\ hotCursor' = hotCursor + 1
  /\ UNCHANGED <<log, archive, archiveCursor, base>>

ArchiveNext ==
  /\ base <= archiveCursor
  /\ archiveCursor < Len(log)
  /\ archive' = Append(archive, <<archiveCursor, log[archiveCursor + 1]>>)
  /\ archiveCursor' = archiveCursor + 1
  /\ UNCHANGED <<log, hot, hotCursor, base>>

Expire ==
  /\ \E offset \in 0 .. Len(log) : offset > base /\ base' = offset
  /\ UNCHANGED <<log, hot, hotCursor, archive, archiveCursor>>

Next == Deliver \/ IndexNext \/ ArchiveNext \/ Expire

Spec == Init /\ [][Next]_vars
=============================================================================
