--------------------------- MODULE ReplayPipeline ---------------------------
(***************************************************************************)
(* The offline replay lab,                                                 *)
(* kubernetes/observability/data-pipelines/examples/replay_demo.py: it     *)
(* reads an event file, feeds it tick by tick to a hot index and to an     *)
(* archive that is paused for the first half, injects one rejected index   *)
(* call, optionally lets the log's head expire before the archive has read *)
(* it, and reports whether the two sinks agree.                            *)
(*                                                                         *)
(* One action is one loop iteration or one straight-line block.  Timestamps*)
(* and byte counts are left out: nothing after validate() reads them.      *)
(***************************************************************************)
EXTENDS Integers, Sequences, FiniteSets

CONSTANTS
  EventId, RunId, State,
  SequenceNo,  (* the source sequence numbers in use                        *)
  File,        (* the input files considered: sequences of lines           *)
  Blank,       (* a line of white space, skipped by load_events            *)
  BadLine,     (* a line load_events rejects: too long, or not JSON        *)
  BadRow,      (* a JSON value validate() rejects for its own fields       *)
  Absent,      (* no document / no state recorded yet                      *)
  MaxLines,    (* 100_000 in the code                                      *)
  RejectAt,    (* hot offset of the synthetic rejection, 3 in the code     *)
  RetainFrom   (* first offset kept in the retention-gap scenario, 3       *)

Row == [event_id : EventId, run_id : RunId, sequence : SequenceNo,
        state : State]
Line == Row \union {Blank, BadLine, BadRow}
Scenario == {"outage", "retention-gap"}

ASSUME InputAssumption ==
  /\ File \subseteq Seq(Line)
  /\ Blank # BadLine /\ Blank # BadRow /\ BadLine # BadRow
  /\ Row \intersect {Blank, BadLine, BadRow, Absent} = {}
  /\ Absent \notin State /\ Absent \notin {0, 2}
  /\ SequenceNo \subseteq Nat
ASSUME BoundAssumption ==
  MaxLines \in Nat /\ RejectAt \in Nat /\ RetainFrom \in Nat \ {0}

VARIABLES
  pc,
  file, scenario,             (* the program's input                       *)
  number, rows,               (* load_events                               *)
  tick, source,
  hot, hotCursor, retried,
  hotDuringPause,             (* documents; the report prints their number *)
  archive, archiveCursor,
  missing,                    (* missing_offsets                           *)
  arrivalState, sequenceState,
  exit                        (* exit code of main(), Absent while running *)

sinks == <<hot, hotCursor, retried, hotDuringPause, archive, archiveCursor>>
views == <<arrivalState, sequenceState>>
vars == <<pc, file, scenario, number, rows, tick, source, sinks, missing,
          views, exit>>

Init ==
  /\ pc = "load"
  /\ file \in File
  /\ scenario \in Scenario
  /\ number = 0 /\ rows = <<>>
  /\ tick = 0 /\ source = <<>>
  /\ hot = [id \in EventId |-> Absent]
  /\ hotCursor = 0 /\ retried = FALSE /\ hotDuringPause = {}
  /\ archive = <<>> /\ archiveCursor = 0
  /\ missing = {}
  /\ arrivalState = [r \in RunId |-> Absent]
  /\ sequenceState = [r \in RunId |-> Absent]
  /\ exit = Absent

-----------------------------------------------------------------------------
(* load_events and validate *)

Fail ==
  /\ exit' = 2
  /\ pc' = "exited"

(* One line of the input file. The line number is checked before the line. *)
LoadLine ==
  /\ pc = "load"
  /\ number < Len(file)
  /\ number' = number + 1
  /\ LET line == file[number + 1] IN
     IF number + 1 > MaxLines \/ line = BadLine
     THEN Fail /\ UNCHANGED rows
     ELSE /\ rows' = IF line = Blank THEN rows ELSE Append(rows, line)
          /\ UNCHANGED <<pc, exit>>
  /\ UNCHANGED <<file, scenario, tick, source, sinks, missing, views>>

(* Two rows with one identity must be the same row. *)
Conflicting(rs) ==
  \E i, j \in DOMAIN rs : rs[i].event_id = rs[j].event_id /\ rs[i] # rs[j]

Valid(rs) ==
  /\ rs # <<>>
  /\ \A i \in DOMAIN rs : rs[i] # BadRow
  /\ ~Conflicting(rs)

Validate ==
  /\ pc = "load"
  /\ number = Len(file)
  /\ IF Valid(rows) THEN pc' = "tick" /\ UNCHANGED exit ELSE Fail
  /\ UNCHANGED <<file, scenario, number, rows, tick, source, sinks, missing,
                 views>>

-----------------------------------------------------------------------------
(* simulate: the tick loop *)

PauseUntil == IF Len(rows) \div 2 > 1 THEN Len(rows) \div 2 ELSE 1

Documents == {id \in EventId : hot[id] # Absent}

Deliver ==
  /\ pc = "tick"
  /\ tick < Len(rows)
  /\ source' = Append(source, rows[tick + 1])
  /\ pc' = "hot"
  /\ UNCHANGED <<file, scenario, number, rows, tick, sinks, missing, views,
                 exit>>

(* Indexing overwrites the document of that identity. *)
Index ==
  /\ hotCursor < Len(source)
  /\ LET event == source[hotCursor + 1] IN
     hot' = [hot EXCEPT ![event.event_id] = event]
  /\ hotCursor' = hotCursor + 1

RejectNow == hotCursor = RejectAt /\ ~retried

HotIndex ==
  /\ pc = "hot"
  /\ ~RejectNow
  /\ Index
  /\ UNCHANGED <<pc, file, scenario, number, rows, tick, source, retried,
                 hotDuringPause, archive, archiveCursor, missing, views, exit>>

Paused == tick < PauseUntil

(* Faulty: the rejected entry counts as indexed. *)
HotBreakSkipping ==
  /\ pc = "hot"
  /\ hotCursor < Len(source) => RejectNow
  /\ retried' = (retried \/ hotCursor < Len(source))
  /\ hotCursor' = IF hotCursor < Len(source) THEN hotCursor + 1 ELSE hotCursor
  /\ hotDuringPause' = IF Paused THEN Documents ELSE hotDuringPause
  /\ pc' = "archive"
  /\ UNCHANGED <<file, scenario, number, rows, tick, source, hot,
                 archive, archiveCursor, missing, views, exit>>

(* Faulty: the rejection is not remembered, and repeats every tick. *)
HotBreakForgetting ==
  /\ pc = "hot"
  /\ hotCursor < Len(source) => RejectNow
  /\ hotDuringPause' = IF Paused THEN Documents ELSE hotDuringPause
  /\ pc' = "archive"
  /\ UNCHANGED <<file, scenario, number, rows, tick, source, hot, hotCursor,
                 retried, archive, archiveCursor, missing, views, exit>>

(* The hot loop ends for this tick: because it caught up, or because of the
   one rejection, which leaves the cursor where it is. *)
HotBreak ==
  /\ pc = "hot"
  /\ hotCursor < Len(source) => RejectNow
  /\ retried' = (retried \/ hotCursor < Len(source))
  /\ hotDuringPause' = IF Paused THEN Documents ELSE hotDuringPause
  /\ pc' = "archive"
  /\ UNCHANGED <<file, scenario, number, rows, tick, source, hot, hotCursor,
                 archive, archiveCursor, missing, views, exit>>

Archive ==
  /\ archiveCursor < Len(source)
  /\ archive' = Append(archive, <<archiveCursor, source[archiveCursor + 1]>>)
  /\ archiveCursor' = archiveCursor + 1

ArchiveRuns == scenario = "outage" /\ ~Paused

ArchiveCopy ==
  /\ pc = "archive"
  /\ ArchiveRuns
  /\ Archive
  /\ UNCHANGED <<pc, file, scenario, number, rows, tick, source, hot,
                 hotCursor, retried, hotDuringPause, missing, views, exit>>

EndTick ==
  /\ pc = "archive"
  /\ ArchiveRuns => archiveCursor = Len(source)
  /\ tick' = tick + 1
  /\ pc' = IF tick + 1 < Len(rows) THEN "tick" ELSE "drain"
  /\ UNCHANGED <<file, scenario, number, rows, source, sinks, missing, views,
                 exit>>

-----------------------------------------------------------------------------
(* simulate: after the loop *)

HotDrain ==
  /\ pc = "drain"
  /\ Index
  /\ UNCHANGED <<pc, file, scenario, number, rows, tick, source, retried,
                 hotDuringPause, archive, archiveCursor, missing, views, exit>>

(* earliest_available_offset *)
Earliest ==
  IF scenario = "outage" THEN 0
  ELSE IF RetainFrom < Len(source) THEN RetainFrom ELSE Len(source)

Retention ==
  /\ pc = "drain"
  /\ hotCursor = Len(source)
  /\ missing' = archiveCursor .. (Earliest - 1)
  /\ pc' = "backlog"
  /\ UNCHANGED <<file, scenario, number, rows, tick, source, sinks, views,
                 exit>>

(* Faulty: the backlog is copied in spite of a gap. *)
BacklogCopyUnguarded ==
  /\ pc = "backlog"
  /\ Archive
  /\ UNCHANGED <<pc, file, scenario, number, rows, tick, source, hot,
                 hotCursor, retried, hotDuringPause, missing, views, exit>>

(* Faulty: a gap moves the cursor to the earliest entry still there. *)
BacklogCopyResuming ==
  /\ pc = "backlog"
  /\ LET from == IF missing = {} THEN archiveCursor ELSE Earliest IN
     /\ from < Len(source)
     /\ archive' = Append(archive, <<from, source[from + 1]>>)
     /\ archiveCursor' = from + 1
  /\ missing' = {}
  /\ UNCHANGED <<pc, file, scenario, number, rows, tick, source, hot,
                 hotCursor, retried, hotDuringPause, views, exit>>

BacklogCopy ==
  /\ pc = "backlog"
  /\ missing = {}
  /\ Archive
  /\ UNCHANGED <<pc, file, scenario, number, rows, tick, source, hot,
                 hotCursor, retried, hotDuringPause, missing, views, exit>>

(* The loop over rows that builds the two run views. *)
BeginViews ==
  /\ pc = "backlog"
  /\ missing = {} => archiveCursor = Len(source)
  /\ tick' = 0
  /\ pc' = "views"
  /\ UNCHANGED <<file, scenario, number, rows, source, sinks, missing, views,
                 exit>>

(* Faulty: a later row of equal sequence wins. *)
NewerOrEqual(row) ==
  \/ sequenceState[row.run_id] = Absent
  \/ row.sequence >= sequenceState[row.run_id].sequence

Newer(row) ==
  \/ sequenceState[row.run_id] = Absent
  \/ row.sequence > sequenceState[row.run_id].sequence

ViewRow ==
  /\ pc = "views"
  /\ tick < Len(rows)
  /\ LET row == rows[tick + 1] IN
     /\ arrivalState' = [arrivalState EXCEPT ![row.run_id] = row.state]
     /\ sequenceState' = IF Newer(row)
                         THEN [sequenceState EXCEPT ![row.run_id] = row]
                         ELSE sequenceState
  /\ tick' = tick + 1
  /\ UNCHANGED <<pc, file, scenario, number, rows, source, sinks, missing,
                 exit>>

SourceIds == {source[i].event_id : i \in DOMAIN source}
ArchiveIds == {archive[i][2].event_id : i \in DOMAIN archive}

(* Faulty: a gap goes unreported. *)
StatusBlind == "complete"

status == IF missing # {} THEN "retention_gap" ELSE "complete"
logical_sink_sets_match == Documents = ArchiveIds /\ ArchiveIds = SourceIds

(* Faulty: the exit code counts the missing offsets. *)
ReportCounting ==
  /\ pc = "views"
  /\ tick = Len(rows)
  /\ exit' = Cardinality(missing)
  /\ pc' = "exited"
  /\ UNCHANGED <<file, scenario, number, rows, tick, source, sinks, missing,
                 views>>

Report ==
  /\ pc = "views"
  /\ tick = Len(rows)
  /\ exit' = IF status = "complete" THEN 0 ELSE 2
  /\ pc' = "exited"
  /\ UNCHANGED <<file, scenario, number, rows, tick, source, sinks, missing,
                 views>>

Next ==
  \/ LoadLine \/ Validate
  \/ Deliver \/ HotIndex \/ HotBreak \/ ArchiveCopy \/ EndTick
  \/ HotDrain \/ Retention \/ BacklogCopy
  \/ BeginViews \/ ViewRow \/ Report

Spec == Init /\ [][Next]_vars
-----------------------------------------------------------------------------
(* Properties *)

(* Types of the variables; the reports are made of finite data only. *)
TypeOK ==
  /\ pc \in {"load", "tick", "hot", "archive", "drain", "backlog", "views",
             "exited"}
  /\ file \in File /\ scenario \in Scenario
  /\ number \in 0 .. Len(file)
  /\ rows \in Seq(Row \union {BadRow})
  /\ tick \in Nat
  /\ source \in Seq(Row)
  /\ hot \in [EventId -> Row \union {Absent}]
  /\ hotCursor \in Nat /\ retried \in BOOLEAN
  /\ hotDuringPause \subseteq EventId
  /\ archive \in Seq(Nat \X Row) /\ archiveCursor \in Nat
  /\ missing \subseteq Nat
  /\ arrivalState \in [RunId -> State \union {Absent}]
  /\ sequenceState \in [RunId -> Row \union {Absent}]
  /\ exit \in {0, 2, Absent}

(* A cursor never claims more or less than its sink holds: the index has a
   document for exactly the entries before its cursor, under the row that was
   delivered, and the archive holds exactly those entries, in log order with
   their offsets - through the rejection, the pause and the backlog. *)
SinksFollowCursors ==
  /\ hotCursor <= Len(source) /\ archiveCursor <= Len(source)
  /\ Documents = {source[i].event_id : i \in 1 .. hotCursor}
  /\ \A i \in 1 .. hotCursor : hot[source[i].event_id] = source[i]
  /\ Len(archive) = archiveCursor
  /\ \A i \in 1 .. archiveCursor : archive[i] = <<i - 1, source[i]>>

(* When a tick's hot loop ends, the index has caught up with everything
   delivered; only the single rejection may leave it one entry behind, and
   only for one tick.  The paused archive never holds the index back. *)
HotKeepsUp ==
  pc = "archive" =>
    \/ hotCursor = Len(source)
    \/ hotCursor = RejectAt /\ Len(source) = RejectAt + 1

(* The archive stops short of an expired prefix: no missing offset was
   archived, nothing after the gap was either, and the run is reported as
   a gap with exit code 2 (test_retention_gap_does_not_silently_skip_ahead). *)
NoSilentSkip ==
  missing # {} =>
    /\ \A i \in DOMAIN archive, offset \in missing : archive[i][1] < offset
    /\ archiveCursor \in missing
    /\ exit # 0

(* Exit code 0 is only given to a run whose whole input reached both sinks:
   equal sets of event identities, one archive record per input row although
   rows repeat, and one index document per identity. *)
SuccessMeansConverged ==
  exit = 0 =>
    /\ source = rows
    /\ logical_sink_sets_match
    /\ Len(archive) = Len(rows)
    /\ Cardinality(Documents) = Cardinality(SourceIds)

(* Row i comes before every other row of ofRun in the order of the sequence
   view: higher sequences first, rows of equal sequence as they arrived. *)
FirstOfHighest(i, ofRun) ==
  \A j \in ofRun :
    \/ rows[j].sequence < rows[i].sequence
    \/ rows[j].sequence = rows[i].sequence /\ i <= j

(* source_sequence_state is not fooled by the order in which rows arrive, nor
   by repetitions: for every run it names the first of the rows with the run's
   highest sequence.  naive_arrival_state has no such guarantee. *)
LatestState ==
  pc = "exited" /\ source # <<>> =>
    \A r \in RunId :
      LET ofRun == {i \in DOMAIN rows : rows[i].run_id = r} IN
      IF ofRun = {} THEN sequenceState[r] = Absent
      ELSE \E i \in ofRun :
             sequenceState[r] = rows[i] /\ FirstOfHighest(i, ofRun)

(* The abstract log only forgets a prefix once the retention decision is
   taken. *)
Pipeline == INSTANCE LogPipeline WITH
  log <- source,
  hot <- Documents,
  base <- IF pc \in {"backlog", "views", "exited"} THEN Earliest ELSE 0

(* The lab's fixed schedule is one of the schedules LogPipeline allows. *)
ImplementsLogPipeline == Pipeline!Spec
=============================================================================
