------------------------ MODULE ReplayPipelineProofs ------------------------
(***************************************************************************)
(* Proofs about ReplayPipeline for every input file, row set, rejection    *)
(* offset and retention limit.  They are layered: Fed (types, and how far  *)
(* the source has been filled from the rows) carries every later one.      *)
(***************************************************************************)
EXTENDS ReplayPipeline, TLAPS

(* source is the part of rows delivered so far, and only rows that passed
   validate() are ever delivered. *)
Feeding ==
  /\ Len(source) <= Len(rows)
  /\ \A i \in 1 .. Len(source) : source[i] = rows[i]
  /\ pc = "load" => source = <<>> /\ tick = 0
  /\ pc = "tick" => Len(source) = tick /\ tick < Len(rows)
  /\ pc \in {"hot", "archive"} => Len(source) = tick + 1
  /\ pc \in {"drain", "backlog", "views"} =>
       source # <<>> /\ Len(source) = Len(rows)
  /\ pc \in {"tick", "hot", "archive", "drain", "backlog", "views"}
       \/ source # <<>> => Valid(rows)
  /\ exit # Absent <=> pc = "exited"
  /\ exit # Absent /\ source # <<>> => Len(source) = Len(rows)
  /\ exit = 0 => source # <<>>

Fed == TypeOK /\ Feeding

LEMMA RowFacts ==
  /\ Absent \notin Row /\ BadRow \notin Row /\ BadLine \notin Row
  /\ Blank \notin Row
  /\ Blank # BadLine /\ Blank # BadRow /\ BadLine # BadRow
  BY InputAssumption

LEMMA ValidRows ==
  ASSUME NEW rs \in Seq(Row \union {BadRow}), Valid(rs)
  PROVE  rs \in Seq(Row) /\ rs # <<>>
  BY DEF Valid

LEMMA FedInit == Init => Fed
  <1> SUFFICES ASSUME Init PROVE Fed
    OBVIOUS
  <1>1. file \in Seq(Line)
    BY InputAssumption DEF Init
  <1>2. TypeOK
    <2>1. number \in 0 .. Len(file)
      BY <1>1 DEF Init
    <2>2. /\ rows \in Seq(Row \union {BadRow}) /\ source \in Seq(Row)
          /\ archive \in Seq(Nat \X Row)
      BY DEF Init
    <2>3. /\ hot \in [EventId -> Row \union {Absent}]
          /\ arrivalState \in [RunId -> State \union {Absent}]
          /\ sequenceState \in [RunId -> Row \union {Absent}]
      BY DEF Init
    <2> QED
      BY <2>1, <2>2, <2>3 DEF Init, TypeOK
  <1>3. Feeding
    BY InputAssumption DEF Init, Feeding
  <1> QED
    BY <1>2, <1>3 DEF Fed

LEMMA FedLoad ==
  ASSUME Fed, LoadLine \/ Validate
  PROVE  Fed'
  <1> USE DEF Fed, TypeOK, Feeding
  <1>0. file \in Seq(Line) /\ Len(file) \in Nat
    BY InputAssumption
  <1>1. CASE LoadLine
    <2> DEFINE line == file[number + 1]
    <2>1. line \in Line /\ number + 1 \in 0 .. Len(file)
      BY <1>0, <1>1 DEF LoadLine
    <2>2. CASE number + 1 > MaxLines \/ line = BadLine
      BY <1>1, <2>1, <2>2, InputAssumption DEF LoadLine, Fail, sinks, views
    <2>3. CASE ~(number + 1 > MaxLines \/ line = BadLine)
      <3>1. rows' \in Seq(Row \union {BadRow})
        <4>1. line = Blank \/ line \in Row \union {BadRow}
          BY <2>1, <2>3 DEF Line
        <4>2. rows' = IF line = Blank THEN rows ELSE Append(rows, line)
          BY <1>1, <2>3 DEF LoadLine
        <4> QED
          BY <4>1, <4>2
      <3> QED
        BY <1>1, <2>1, <2>3, <3>1 DEF LoadLine, sinks, views
    <2> QED
      BY <2>2, <2>3
  <1>2. CASE Validate
    <2>1. CASE Valid(rows)
      BY <1>2, <2>1 DEF Validate, Valid, sinks, views
    <2>2. CASE ~Valid(rows)
      BY <1>2, <2>2, InputAssumption DEF Validate, Fail, sinks, views
    <2> QED
      BY <2>1, <2>2
  <1> QED
    BY <1>1, <1>2

LEMMA FedTick ==
  ASSUME Fed, Deliver \/ HotIndex \/ HotBreak \/ ArchiveCopy \/ EndTick
  PROVE  Fed'
  <1> USE DEF Fed
  <1>1. CASE Deliver
    <2>1. rows \in Seq(Row) /\ tick + 1 \in 1 .. Len(rows)
      BY <1>1, ValidRows DEF Deliver, TypeOK, Feeding
    <2>2. rows[tick + 1] \in Row
      BY <2>1
    <2>3. TypeOK'
      BY <1>1, <2>2 DEF Deliver, TypeOK, sinks, views
    <2>4. Feeding'
      <3>1. /\ UNCHANGED <<rows, exit>> /\ pc = "tick" /\ pc' = "hot"
            /\ tick' = tick /\ source' = Append(source, rows[tick + 1])
        BY <1>1 DEF Deliver, sinks, views
      <3>2. tick \in Nat /\ Len(source) = tick /\ source \in Seq(Row)
        BY <3>1 DEF TypeOK, Feeding
      <3>3. Len(source') = tick + 1 /\ source' # <<>>
        BY <2>2, <3>1, <3>2
      <3>4. \A i \in 1 .. Len(source') : source'[i] = rows'[i]
        BY <2>1, <3>1, <3>2, <3>3 DEF Feeding
      <3>5. Valid(rows') /\ exit' = Absent
        BY <3>1 DEF Feeding
      <3> QED
        BY <2>1, <3>1, <3>2, <3>3, <3>4, <3>5 DEF Feeding
    <2> QED
      BY <2>3, <2>4
  <1>2. CASE HotIndex
    <2>1. source[hotCursor + 1] \in Row
      BY <1>2 DEF HotIndex, Index, TypeOK
    <2>2. hot' \in [EventId -> Row \union {Absent}] /\ hotCursor' \in Nat
      BY <1>2, <2>1 DEF HotIndex, Index, TypeOK, Row
    <2> QED
      BY <1>2, <2>2 DEF HotIndex, TypeOK, Feeding, views
  <1>3. CASE HotBreak
    BY <1>3 DEF HotBreak, Documents, TypeOK, Feeding, views
  <1>4. CASE ArchiveCopy
    <2>1. source[archiveCursor + 1] \in Row
      BY <1>4 DEF ArchiveCopy, Archive, TypeOK
    <2>2. archive' \in Seq(Nat \X Row) /\ archiveCursor' \in Nat
      BY <1>4, <2>1 DEF ArchiveCopy, Archive, TypeOK
    <2> QED
      BY <1>4, <2>2 DEF ArchiveCopy, TypeOK, Feeding, views
  <1>5. CASE EndTick
    BY <1>5 DEF EndTick, TypeOK, Feeding, sinks, views
  <1> QED
    BY <1>1, <1>2, <1>3, <1>4, <1>5

LEMMA FedFinish ==
  ASSUME Fed,
         HotDrain \/ Retention \/ BacklogCopy \/ BeginViews \/ ViewRow \/ Report
  PROVE  Fed'
  <1> USE DEF Fed
  <1>1. CASE HotDrain
    <2>1. source[hotCursor + 1] \in Row
      BY <1>1 DEF HotDrain, Index, TypeOK
    <2>2. hot' \in [EventId -> Row \union {Absent}] /\ hotCursor' \in Nat
      BY <1>1, <2>1 DEF HotDrain, Index, TypeOK, Row
    <2> QED
      BY <1>1, <2>2 DEF HotDrain, TypeOK, Feeding, views
  <1>2. CASE Retention
    <2>1. missing' \subseteq Nat
      BY <1>2, BoundAssumption DEF Retention, Earliest, TypeOK
    <2> QED
      BY <1>2, <2>1 DEF Retention, TypeOK, Feeding, sinks, views
  <1>3. CASE BacklogCopy
    <2>1. source[archiveCursor + 1] \in Row
      BY <1>3 DEF BacklogCopy, Archive, TypeOK
    <2>2. archive' \in Seq(Nat \X Row) /\ archiveCursor' \in Nat
      BY <1>3, <2>1 DEF BacklogCopy, Archive, TypeOK
    <2> QED
      BY <1>3, <2>2 DEF BacklogCopy, TypeOK, Feeding, views
  <1>4. CASE BeginViews
    BY <1>4 DEF BeginViews, TypeOK, Feeding, sinks, views
  <1>5. CASE ViewRow
    <2> DEFINE row == rows[tick + 1]
    <2>1. rows \in Seq(Row) /\ tick + 1 \in 1 .. Len(rows)
      BY <1>5, ValidRows DEF ViewRow, TypeOK, Feeding
    <2>2. row \in Row
      BY <2>1
    <2>3. row.run_id \in RunId /\ row.state \in State
      BY <2>2 DEF Row
    <2>4. /\ arrivalState' \in [RunId -> State \union {Absent}]
          /\ sequenceState' \in [RunId -> Row \union {Absent}]
      BY <1>5, <2>2, <2>3 DEF ViewRow, TypeOK
    <2> QED
      BY <1>5, <2>4 DEF ViewRow, TypeOK, Feeding, sinks
  <1>6. CASE Report
    BY <1>6, InputAssumption DEF Report, TypeOK, Feeding, sinks, views
  <1> QED
    BY <1>1, <1>2, <1>3, <1>4, <1>5, <1>6

LEMMA FedStep == Fed /\ [Next]_vars => Fed'
  <1> SUFFICES ASSUME Fed, [Next]_vars PROVE Fed'
    OBVIOUS
  <1>1. CASE UNCHANGED vars
    BY <1>1 DEF Fed, TypeOK, Feeding, vars, sinks, views
  <1> QED
    BY <1>1, FedLoad, FedTick, FedFinish DEF Next

LEMMA FedAlways == Spec => []Fed
  BY FedInit, FedStep, PTL DEF Spec

(* Every variable keeps its type, whatever the input file holds. *)
THEOREM TypeCorrect == Spec => []TypeOK
  <1>1. Fed => TypeOK
    BY DEF Fed
  <1> QED
    BY <1>1, FedAlways, PTL

-----------------------------------------------------------------------------
(* Sinks and cursors *)

(* A row delivered twice is the same row: the identity in the index is not
   overwritten by something else. *)
LEMMA OneRowPerIdentity ==
  ASSUME Fed, NEW i \in 1 .. Len(source), NEW j \in 1 .. Len(source),
         source[i].event_id = source[j].event_id
  PROVE  source[i] = source[j]
  BY DEF Fed, TypeOK, Feeding, Valid, Conflicting

LEMMA IndexKeeps ==
  ASSUME Fed, SinksFollowCursors, Index,
         UNCHANGED <<source, archive, archiveCursor>>
  PROVE  SinksFollowCursors'
  <1> DEFINE event == source[hotCursor + 1]
  <1>1. hotCursor + 1 \in 1 .. Len(source) /\ event \in Row
    BY DEF Index, Fed, TypeOK
  <1>2. event.event_id \in EventId /\ event # Absent
    BY <1>1, RowFacts DEF Row
  <1>3. hot' = [hot EXCEPT ![event.event_id] = event]
    BY DEF Index
  <1>4. Documents' = Documents \union {event.event_id}
    BY <1>2, <1>3 DEF Documents, Fed, TypeOK
  <1>5. \A i \in 1 .. hotCursor' : hot'[source[i].event_id] = source[i]
    <2> SUFFICES ASSUME NEW i \in 1 .. hotCursor + 1
                 PROVE  hot'[source[i].event_id] = source[i]
      BY DEF Index
    <2>1. i \in 1 .. Len(source) /\ source[i] \in Row
      BY <1>1 DEF Fed, TypeOK
    <2>2. source[i].event_id \in EventId
      BY <2>1 DEF Row
    <2>3. CASE source[i].event_id = event.event_id
      BY <1>1, <1>2, <1>3, <2>1, <2>3, OneRowPerIdentity DEF Fed, TypeOK
    <2>4. CASE source[i].event_id # event.event_id
      <3>1. i \in 1 .. hotCursor
        BY <2>4 DEF Fed, TypeOK
      <3> QED
        BY <1>3, <2>2, <2>4, <3>1 DEF SinksFollowCursors, Fed, TypeOK
    <2> QED
      BY <2>3, <2>4
  <1>6. {source[i].event_id : i \in 1 .. hotCursor + 1}
          = {source[i].event_id : i \in 1 .. hotCursor} \union {event.event_id}
    <2>1. 1 .. hotCursor + 1 = 1 .. hotCursor \union {hotCursor + 1}
      BY DEF Fed, TypeOK
    <2> QED
      BY <2>1
  <1> QED
    BY <1>1, <1>4, <1>5, <1>6 DEF SinksFollowCursors, Index, Fed, TypeOK

LEMMA ArchiveKeeps ==
  ASSUME Fed, SinksFollowCursors, Archive, UNCHANGED <<source, hot, hotCursor>>
  PROVE  SinksFollowCursors'
  <1>1. archiveCursor + 1 \in 1 .. Len(source)
    BY DEF Archive, Fed, TypeOK
  <1>2. /\ Len(archive') = archiveCursor'
        /\ \A i \in 1 .. archiveCursor' : archive'[i] = <<i - 1, source[i]>>
    <2>1. /\ archive' = Append(archive, <<archiveCursor, source[archiveCursor + 1]>>)
          /\ archiveCursor' = archiveCursor + 1
      BY DEF Archive
    <2>2. /\ archiveCursor \in Nat /\ Len(archive) = archiveCursor
          /\ archive \in Seq(Nat \X Row)
          /\ \A i \in 1 .. archiveCursor : archive[i] = <<i - 1, source[i]>>
      BY DEF SinksFollowCursors, Fed, TypeOK
    <2>3. Len(archive') = archiveCursor'
      BY <2>1, <2>2
    <2>4. \A i \in 1 .. archiveCursor : archive'[i] = archive[i]
      BY <2>1, <2>2
    <2>5. archive'[archiveCursor'] = <<archiveCursor, source[archiveCursor']>>
      BY <2>1, <2>2
    <2> QED
      BY <2>1, <2>2, <2>3, <2>4, <2>5
  <1> QED
    BY <1>1, <1>2, SMTT(30) DEF SinksFollowCursors, Archive, Documents, Fed, TypeOK

LEMMA DeliverKeeps ==
  ASSUME Fed, Fed', SinksFollowCursors, Deliver
  PROVE  SinksFollowCursors'
  <1>1. /\ Len(source') = Len(source) + 1
        /\ \A i \in 1 .. Len(source) : source'[i] = source[i]
    BY DEF Deliver, Fed, TypeOK
  <1>2. UNCHANGED <<hot, hotCursor, archive, archiveCursor>>
    BY DEF Deliver, sinks
  <1>3. \A i \in 1 .. hotCursor : source'[i] = source[i]
    BY <1>1 DEF SinksFollowCursors, Fed, TypeOK
  <1>4. \A i \in 1 .. archiveCursor : source'[i] = source[i]
    BY <1>1, SMTT(30) DEF SinksFollowCursors, Fed, TypeOK
  <1>5. Documents' = {source'[i].event_id : i \in 1 .. hotCursor}
    BY <1>2, <1>3 DEF SinksFollowCursors, Documents
  <1>6. \A i \in 1 .. hotCursor : hot[source'[i].event_id] = source'[i]
    BY <1>3 DEF SinksFollowCursors
  <1>7. \A i \in 1 .. archiveCursor : archive[i] = <<i - 1, source'[i]>>
    BY <1>4 DEF SinksFollowCursors
  <1>8. hotCursor <= Len(source') /\ archiveCursor <= Len(source')
    BY <1>1, SMTT(30) DEF SinksFollowCursors, Fed, TypeOK
  <1> QED
    BY <1>2, <1>5, <1>6, <1>7, <1>8 DEF SinksFollowCursors

LEMMA SinksStep ==
  Fed /\ Fed' /\ SinksFollowCursors /\ [Next]_vars => SinksFollowCursors'
  <1> SUFFICES ASSUME Fed, Fed', SinksFollowCursors, [Next]_vars
               PROVE  SinksFollowCursors'
    OBVIOUS
  <1>1. CASE Deliver
    BY <1>1, DeliverKeeps
  <1>2. CASE HotIndex \/ HotDrain
    BY <1>2, IndexKeeps DEF HotIndex, HotDrain
  <1>3. CASE ArchiveCopy \/ BacklogCopy
    BY <1>3, ArchiveKeeps DEF ArchiveCopy, BacklogCopy
  <1>4. CASE UNCHANGED <<source, hot, hotCursor, archive, archiveCursor>>
    BY <1>4 DEF SinksFollowCursors, Documents
  <1>5. \/ LoadLine \/ Validate \/ HotBreak \/ EndTick \/ Retention
        \/ BeginViews \/ ViewRow \/ Report \/ UNCHANGED vars
        => UNCHANGED <<source, hot, hotCursor, archive, archiveCursor>>
    BY DEF LoadLine, Validate, HotBreak, EndTick, Retention, BeginViews,
           ViewRow, Report, vars, sinks
  <1> QED
    BY <1>1, <1>2, <1>3, <1>4, <1>5 DEF Next

(* The cursors and the sinks agree at every moment, for every input and every
   placement of the rejection and the retention limit. *)
THEOREM SinksFollow == Spec => []SinksFollowCursors
  <1>1. Init => SinksFollowCursors
    BY DEF Init, SinksFollowCursors, Documents
  <1> QED
    BY <1>1, FedAlways, SinksStep, PTL DEF Spec

-----------------------------------------------------------------------------
(* The hot index keeps up *)

(* Before the rejection the index lags by the row just delivered at most;
   afterwards only the tick of the rejection ends behind. *)
Lag ==
  /\ hotCursor <= Len(source)
  /\ pc = "load" => hotCursor = 0
  /\ pc = "hot" /\ ~retried => hotCursor + 1 >= Len(source)
  /\ pc \in {"tick", "archive"} =>
       \/ hotCursor = Len(source)
       \/ retried /\ hotCursor = RejectAt /\ Len(source) = RejectAt + 1
  /\ pc \in {"backlog", "views"} \/ exit = 0 => hotCursor = Len(source)

LEMMA LagStep == Fed /\ Fed' /\ Lag /\ [Next]_vars => Lag'
  <1> SUFFICES ASSUME Fed, Fed', Lag, [Next]_vars PROVE Lag'
    OBVIOUS
  <1> USE BoundAssumption, InputAssumption DEF Lag, Fed, TypeOK, Feeding
  <1>1. CASE LoadLine
    BY <1>1 DEF LoadLine, Fail, sinks
  <1>2. CASE Validate
    BY <1>2 DEF Validate, Fail, sinks
  <1>3. CASE Deliver
    <2>1. Len(source') = Len(source) + 1
      BY <1>3 DEF Deliver
    <2> QED
      BY <1>3, <2>1 DEF Deliver, sinks
  <1>4. CASE HotIndex
    BY <1>4 DEF HotIndex, Index
  <1>5. CASE HotBreak
    <2>1. UNCHANGED <<hotCursor, source, exit>> /\ pc = "hot" /\ pc' = "archive"
      BY <1>5 DEF HotBreak
    <2>2. CASE hotCursor < Len(source)
      <3>1. hotCursor = RejectAt /\ ~retried /\ retried'
        BY <1>5, <2>2, ZenonT(40) DEF HotBreak, RejectNow
      <3>2. hotCursor + 1 >= Len(source)
        BY <2>1, <3>1, Zenon
      <3>3. Len(source) = RejectAt + 1
        BY <2>2, <3>1, <3>2, SMTT(30)
      <3> QED
        BY <2>1, <3>1, <3>3
    <2>3. CASE ~(hotCursor < Len(source))
      <3>1. hotCursor = Len(source)
        BY <2>3
      <3>2. hotCursor' = Len(source') /\ pc' = "archive"
        BY <2>1, <3>1, Zenon
      <3> QED
        BY <3>2
    <2> QED
      BY <2>2, <2>3
  <1>6. CASE ArchiveCopy
    BY <1>6 DEF ArchiveCopy
  <1>7. CASE EndTick
    BY <1>7 DEF EndTick, sinks
  <1>8. CASE HotDrain
    BY <1>8 DEF HotDrain, Index
  <1>9. CASE Retention
    BY <1>9 DEF Retention, sinks
  <1>10. CASE BacklogCopy
    BY <1>10 DEF BacklogCopy
  <1>11. CASE BeginViews
    BY <1>11 DEF BeginViews, sinks
  <1>12. CASE ViewRow
    BY <1>12 DEF ViewRow, sinks
  <1>13. CASE Report
    BY <1>13 DEF Report, sinks
  <1>14. CASE UNCHANGED vars
    BY <1>14 DEF vars, sinks
  <1> QED
    BY <1>1, <1>2, <1>3, <1>4, <1>5, <1>6, <1>7, <1>8, <1>9, <1>10, <1>11,
       <1>12, <1>13, <1>14 DEF Next

LEMMA LagAlways == Spec => []Lag
  <1>1. Init => Lag
    BY InputAssumption DEF Init, Lag
  <1> QED
    BY <1>1, FedAlways, LagStep, PTL DEF Spec

(* Wherever the rejection falls, no tick ends with the index more than the
   rejected entry behind. *)
THEOREM HotIndexKeepsUp == Spec => []HotKeepsUp
  <1>1. Lag => HotKeepsUp
    BY DEF Lag, HotKeepsUp
  <1> QED
    BY <1>1, LagAlways, PTL

-----------------------------------------------------------------------------
(* The gap *)

(* Offsets are only missing when the archive's next entry is among them, and
   from then on the archive stands still; without a gap the copy is complete
   before the views are built. *)
Gap ==
  /\ pc \in {"load", "tick", "hot", "archive", "drain"} => missing = {}
  /\ missing # {} => \E e \in Nat : missing = archiveCursor .. (e - 1)
  /\ pc = "backlog" /\ missing = {} => Earliest <= archiveCursor
  /\ exit = 0 => missing = {}
  /\ (pc = "views" \/ exit = 0) /\ missing = {}
       => archiveCursor = Len(source)

LEMMA GapStep == Fed /\ Fed' /\ SinksFollowCursors /\ Gap /\ [Next]_vars => Gap'
  <1> SUFFICES ASSUME Fed, Fed', SinksFollowCursors, Gap, [Next]_vars
               PROVE  Gap'
    OBVIOUS
  <1> USE InputAssumption DEF Gap, Fed, TypeOK, Feeding
  <1>1. CASE LoadLine \/ Validate
    BY <1>1 DEF LoadLine, Validate, Fail, sinks
  <1>2. CASE Deliver \/ HotIndex \/ HotBreak \/ ArchiveCopy \/ EndTick \/ HotDrain
    BY <1>2 DEF Deliver, HotIndex, HotBreak, ArchiveCopy, EndTick, HotDrain, sinks
  <1>3. CASE Retention
    <2>1. Earliest \in Nat /\ Earliest' = Earliest
      BY <1>3, BoundAssumption DEF Retention, Earliest
    <2>2. /\ missing' = archiveCursor .. (Earliest - 1)
          /\ UNCHANGED <<archiveCursor, exit>> /\ pc = "drain" /\ pc' = "backlog"
      BY <1>3 DEF Retention, sinks
    <2>3. ASSUME Earliest > archiveCursor PROVE archiveCursor \in missing'
      BY <2>1, <2>2, <2>3
    <2>4. \E e \in Nat : missing' = archiveCursor' .. (e - 1)
      BY <2>1, <2>2
    <2>5. missing' = {} => Earliest' <= archiveCursor'
      <3>1. CASE Earliest <= archiveCursor
        BY <2>1, <2>2, <3>1
      <3>2. CASE Earliest > archiveCursor
        BY <2>3, <3>2
      <3> QED
        BY <2>1, <3>1, <3>2
    <2>6. exit' # 0
      BY <2>2
    <2> QED
      BY <2>2, <2>4, <2>5, <2>6
  <1>4. CASE BacklogCopy
    <2>1. Earliest' = Earliest /\ Earliest \in Nat
      BY <1>4, BoundAssumption DEF BacklogCopy, Earliest
    <2> QED
      BY <1>4, <2>1 DEF BacklogCopy, Archive
  <1>5. CASE BeginViews \/ ViewRow
    BY <1>5 DEF BeginViews, ViewRow, sinks
  <1>6. CASE Report
    BY <1>6 DEF Report, status, sinks
  <1>7. CASE UNCHANGED vars
    <2>1. Earliest' = Earliest
      BY <1>7 DEF vars, Earliest
    <2> QED
      BY <1>7, <2>1 DEF vars, sinks
  <1> QED
    BY <1>1, <1>2, <1>3, <1>4, <1>5, <1>6, <1>7 DEF Next

LEMMA GapAlways == Spec => []Gap
  <1>1. Init => Gap
    BY InputAssumption DEF Init, Gap
  <1> QED
    BY <1>1, FedAlways, SinksFollow, GapStep, PTL DEF Spec

(* The archive never skips ahead over expired entries, for every retention
   limit. *)
THEOREM ArchiveNeverSkips == Spec => []NoSilentSkip
  <1>1. Fed /\ SinksFollowCursors /\ Gap => NoSilentSkip
    <2> SUFFICES ASSUME Fed, SinksFollowCursors, Gap, missing # {}
                 PROVE  /\ \A i \in DOMAIN archive, offset \in missing :
                             archive[i][1] < offset
                        /\ archiveCursor \in missing
                        /\ exit # 0
      BY DEF NoSilentSkip
    <2>1. PICK e \in Nat : missing = archiveCursor .. (e - 1)
      BY DEF Gap
    <2>2. archiveCursor \in missing
      BY <2>1 DEF Fed, TypeOK
    <2>3. ASSUME NEW i \in DOMAIN archive, NEW offset \in missing
          PROVE  archive[i][1] < offset
      <3>1. i \in 1 .. archiveCursor /\ archive[i] = <<i - 1, source[i]>>
        BY <2>3 DEF SinksFollowCursors, Fed, TypeOK
      <3>2. offset \in Nat /\ offset >= archiveCursor
        BY <2>1, <2>3 DEF Fed, TypeOK
      <3> QED
        BY <3>1, <3>2 DEF Fed, TypeOK
    <2> QED
      BY <2>2, <2>3 DEF Gap
  <1> QED
    BY <1>1, FedAlways, SinksFollow, GapAlways, PTL

(* Exit code 0 always means that both sinks hold the whole input. *)
THEOREM SuccessConverged == Spec => []SuccessMeansConverged
  <1>1. Fed /\ SinksFollowCursors /\ Lag /\ Gap => SuccessMeansConverged
    <2> SUFFICES ASSUME Fed, SinksFollowCursors, Lag, Gap, exit = 0
                 PROVE  /\ source = rows
                        /\ logical_sink_sets_match
                        /\ Len(archive) = Len(rows)
                        /\ Cardinality(Documents) = Cardinality(SourceIds)
      BY DEF SuccessMeansConverged
    <2>1. Len(source) = Len(rows) /\ Len(rows) \in Nat
      BY InputAssumption DEF Fed, TypeOK, Feeding
    <2>2. source = rows
      <3>1. \A i \in 1 .. Len(source) : source[i] = rows[i]
        BY DEF Fed, Feeding
      <3>2. rows \in Seq(Row \union {BadRow}) /\ source \in Seq(Row \union {BadRow})
        BY DEF Fed, TypeOK
      <3> QED
        BY <2>1, <3>1, <3>2
    <2>3. hotCursor = Len(source) /\ archiveCursor = Len(source)
      BY DEF Lag, Gap
    <2>4. Documents = SourceIds
      <3>1. DOMAIN source = 1 .. hotCursor
        BY <2>3 DEF Fed, TypeOK
      <3> QED
        BY <3>1 DEF SinksFollowCursors, SourceIds
    <2>5. DOMAIN archive = DOMAIN source
          /\ \A i \in DOMAIN source : archive[i][2] = source[i]
      BY <2>3 DEF SinksFollowCursors, Fed, TypeOK
    <2>6. ArchiveIds = SourceIds
      BY <2>5 DEF ArchiveIds, SourceIds
    <2> QED
      BY <2>1, <2>2, <2>3, <2>4, <2>6
         DEF logical_sink_sets_match, SinksFollowCursors
  <1> QED
    BY <1>1, FedAlways, SinksFollow, LagAlways, GapAlways, PTL

-----------------------------------------------------------------------------
(* The run views *)

(* state is right for run r after the rows up to offset k. *)
LatestUpTo(k, r) ==
  LET ofRun == {i \in 1 .. k : rows[i].run_id = r} IN
  IF ofRun = {} THEN sequenceState[r] = Absent
  ELSE \E i \in ofRun : sequenceState[r] = rows[i] /\ FirstOfHighest(i, ofRun)

Viewed ==
  /\ pc \in {"tick", "hot", "archive", "drain", "backlog"} =>
       \A r \in RunId : sequenceState[r] = Absent
  /\ pc = "load" => \A r \in RunId : sequenceState[r] = Absent
  /\ pc = "views" =>
       tick <= Len(rows) /\ \A r \in RunId : LatestUpTo(tick, r)
  /\ pc = "exited" /\ source # <<>> =>
       \A r \in RunId : LatestUpTo(Len(rows), r)

LEMMA ViewRowKeeps ==
  ASSUME Fed, Viewed, ViewRow
  PROVE  Viewed'
  <1> DEFINE row == rows[tick + 1]
  <1>1. rows \in Seq(Row) /\ tick \in Nat /\ tick + 1 \in 1 .. Len(rows)
    BY ValidRows DEF ViewRow, Fed, TypeOK, Feeding
  <1>2. \A i \in 1 .. tick + 1 : rows[i] \in Row /\ rows[i] # Absent
    BY <1>1, RowFacts
  <1>3. \A i \in 1 .. tick + 1 : rows[i].sequence \in Nat
    BY <1>2, InputAssumption DEF Row
  <1>4. /\ pc' = "views" /\ pc = "views" /\ tick' = tick + 1 /\ UNCHANGED rows
        /\ sequenceState' = IF Newer(row)
                            THEN [sequenceState EXCEPT ![row.run_id] = row]
                            ELSE sequenceState
    BY DEF ViewRow
  <1>5. ASSUME NEW r \in RunId
        PROVE  LatestUpTo(tick, r)'
    <2> DEFINE before == {i \in 1 .. tick : rows[i].run_id = r}
               after  == {i \in 1 .. tick + 1 : rows[i].run_id = r}
    <2>1. LatestUpTo(tick, r)
      BY <1>4 DEF Viewed
    <2>2. CASE row.run_id # r
      <3>1. after = before
        BY <1>1, <2>2
      <3>2. sequenceState'[r] = sequenceState[r]
        BY <1>4, <2>2 DEF Fed, TypeOK
      <3> QED
        BY <1>4, <2>1, <3>1, <3>2 DEF LatestUpTo, FirstOfHighest
    <2>3. CASE row.run_id = r
      <3>1. after = before \union {tick + 1} /\ tick + 1 \in after
        BY <1>1, <2>3
      <3>2. CASE before = {}
        <4>1. sequenceState[r] = Absent
          BY <2>1, <3>2 DEF LatestUpTo
        <4>2. sequenceState'[r] = row
          BY <1>4, <2>3, <4>1 DEF Newer, Fed, TypeOK
        <4>3. FirstOfHighest(tick + 1, after)
          BY <1>1, <1>3, <3>1, <3>2 DEF FirstOfHighest
        <4> QED
          BY <1>4, <3>1, <4>2, <4>3 DEF LatestUpTo, FirstOfHighest
      <3>3. CASE before # {}
        <4>1. PICK i \in before :
                sequenceState[r] = rows[i] /\ FirstOfHighest(i, before)
          BY <2>1, <3>3 DEF LatestUpTo
        <4>2. i \in after /\ rows[i] # Absent
          BY <1>2, <3>1, <4>1
        <4>3. CASE row.sequence > rows[i].sequence
          <5>1. sequenceState'[r] = row
            BY <1>4, <2>3, <4>1, <4>3 DEF Newer, Fed, TypeOK
          <5>2. FirstOfHighest(tick + 1, after)
            BY <1>1, <1>3, <3>1, <4>1, <4>3, SMTT(30) DEF FirstOfHighest
          <5> QED
            BY <1>4, <3>1, <5>1, <5>2 DEF LatestUpTo, FirstOfHighest
        <4>4. CASE ~(row.sequence > rows[i].sequence)
          <5>1. sequenceState'[r] = rows[i]
            BY <1>4, <2>3, <4>1, <4>2, <4>4 DEF Newer, Fed, TypeOK
          <5>2. FirstOfHighest(i, after)
            BY <1>1, <1>3, <3>1, <4>1, <4>2, <4>4, SMTT(30) DEF FirstOfHighest
          <5> QED
            BY <1>4, <4>2, <5>1, <5>2 DEF LatestUpTo, FirstOfHighest
        <4> QED
          BY <4>3, <4>4
      <3> QED
        BY <3>2, <3>3
    <2> QED
      BY <2>2, <2>3
  <1> QED
    BY <1>1, <1>4, <1>5 DEF Viewed

LEMMA ViewedStep == Fed /\ Fed' /\ Viewed /\ [Next]_vars => Viewed'
  <1> SUFFICES ASSUME Fed, Fed', Viewed, [Next]_vars PROVE Viewed'
    OBVIOUS
  <1>1. CASE LoadLine \/ Validate
    BY <1>1 DEF LoadLine, Validate, Fail, views, Viewed, Fed, TypeOK, Feeding
  <1>2. CASE Deliver \/ HotIndex \/ HotBreak \/ ArchiveCopy \/ EndTick
             \/ HotDrain \/ Retention \/ BacklogCopy
    BY <1>2 DEF Deliver, HotIndex, HotBreak, ArchiveCopy, EndTick, HotDrain,
                Retention, BacklogCopy, views, Viewed
  <1>3. CASE BeginViews
    <2>1. /\ pc' = "views" /\ tick' = 0 /\ UNCHANGED <<sequenceState, rows>>
          /\ \A r \in RunId : sequenceState[r] = Absent
      BY <1>3 DEF BeginViews, views, Viewed
    <2>2. \A r \in RunId : LatestUpTo(tick, r)'
      BY <2>1 DEF LatestUpTo
    <2>3. tick' <= Len(rows')
      BY <2>1 DEF Fed, TypeOK
    <2> QED
      BY <2>1, <2>2, <2>3 DEF Viewed
  <1>4. CASE ViewRow
    BY <1>4, ViewRowKeeps
  <1>5. CASE Report
    BY <1>5 DEF Report, views, Viewed, LatestUpTo, FirstOfHighest
  <1>6. CASE UNCHANGED vars
    BY <1>6 DEF vars, views, Viewed, LatestUpTo, FirstOfHighest
  <1> QED
    BY <1>1, <1>2, <1>3, <1>4, <1>5, <1>6 DEF Next

(* The sequence view is right for every corpus and every arrival order. *)
THEOREM LatestStateHolds == Spec => []LatestState
  <1>1. Init => Viewed
    BY DEF Init, Viewed
  <1>2. Fed /\ Viewed => LatestState
    <2> SUFFICES ASSUME Fed, Viewed PROVE LatestState
      OBVIOUS
    <2>1. DOMAIN rows = 1 .. Len(rows)
      BY DEF Fed, TypeOK
    <2> QED
      BY <2>1 DEF Viewed, LatestState, LatestUpTo, FirstOfHighest
  <1> QED
    BY <1>1, <1>2, FedAlways, ViewedStep, PTL DEF Spec

-----------------------------------------------------------------------------
(* Refinement *)

Base == IF pc \in {"backlog", "views", "exited"} THEN Earliest ELSE 0

LEMMA StepRefines ==
  ASSUME Fed, Fed', SinksFollowCursors, Gap, [Next]_vars
  PROVE  [Pipeline!Next]_Pipeline!vars
  <1> USE DEF Fed
  <1>1. CASE Deliver
    <2>1. rows[tick + 1] \in Row
      <3>1. rows \in Seq(Row) /\ tick + 1 \in 1 .. Len(rows)
        BY <1>1, ValidRows DEF Deliver, TypeOK, Feeding
      <3> QED
        BY <3>1
    <2>2. Pipeline!Deliver
      BY <1>1, <2>1 DEF Deliver, sinks, Documents, Pipeline!Deliver
    <2> QED
      BY <2>2 DEF Pipeline!Next
  <1>2. CASE HotIndex \/ HotDrain
    <2> DEFINE event == source[hotCursor + 1]
    <2>1. event \in Row
      BY <1>2 DEF HotIndex, HotDrain, Index, TypeOK
    <2>2. event.event_id \in EventId /\ event # Absent
      BY <2>1, RowFacts DEF Row
    <2>3. Documents' = Documents \union {event.event_id}
      BY <1>2, <2>2 DEF HotIndex, HotDrain, Index, Documents, TypeOK
    <2>4. Pipeline!IndexNext
      BY <1>2, <2>3 DEF HotIndex, HotDrain, Index, Pipeline!IndexNext
    <2> QED
      BY <2>4 DEF Pipeline!Next
  <1>3. CASE ArchiveCopy
    <2>1. Pipeline!ArchiveNext
      BY <1>3 DEF ArchiveCopy, Archive, Documents, TypeOK, Pipeline!ArchiveNext
    <2> QED
      BY <2>1 DEF Pipeline!Next
  <1>4. CASE BacklogCopy
    <2>1. Earliest <= archiveCursor
      BY <1>4 DEF BacklogCopy, Gap
    <2>2. Pipeline!ArchiveNext
      BY <1>4, <2>1
         DEF BacklogCopy, Archive, Documents, Earliest, Pipeline!ArchiveNext
    <2> QED
      BY <2>2 DEF Pipeline!Next
  <1>5. CASE Retention
    <2>1. /\ pc = "drain" /\ pc' = "backlog"
          /\ UNCHANGED <<source, scenario, hot, hotCursor, archive, archiveCursor>>
      BY <1>5 DEF Retention, sinks
    <2>2. Earliest' = Earliest /\ Documents' = Documents
      BY <2>1 DEF Earliest, Documents
    <2>3. Earliest \in 0 .. Len(source)
      BY BoundAssumption DEF Earliest, TypeOK
    <2>4. CASE Earliest = 0
      BY <2>1, <2>2, <2>4 DEF Pipeline!vars
    <2>5. CASE Earliest > 0
      <3>1. Pipeline!Expire
        BY <2>1, <2>2, <2>3, <2>5 DEF Pipeline!Expire
      <3> QED
        BY <3>1 DEF Pipeline!Next
    <2> QED
      BY <2>3, <2>4, <2>5
  <1>6. CASE LoadLine \/ Validate
    <2>1. UNCHANGED <<source, sinks, scenario>> /\ source = <<>>
      BY <1>6 DEF LoadLine, Validate, Feeding
    <2>2. Earliest = 0 /\ Earliest' = 0
      BY <2>1, BoundAssumption DEF Earliest
    <2> QED
      BY <1>6, <2>1, <2>2 DEF sinks, Documents, Pipeline!vars, Fail
  <1>7. CASE HotBreak \/ EndTick
    BY <1>7 DEF HotBreak, EndTick, sinks, Documents, Pipeline!vars
  <1>8. CASE BeginViews \/ ViewRow \/ Report
    BY <1>8 DEF BeginViews, ViewRow, Report, sinks, Documents, Earliest,
                Pipeline!vars
  <1>9. CASE UNCHANGED vars
    BY <1>9 DEF vars, sinks, Documents, Earliest, Pipeline!vars
  <1> QED
    BY <1>1, <1>2, <1>3, <1>4, <1>5, <1>6, <1>7, <1>8, <1>9 DEF Next

(* The lab's schedule, rejection, pause and gap stay within what LogPipeline
   allows. *)
THEOREM RefinesLogPipeline == Spec => ImplementsLogPipeline
  <1>1. Init => Pipeline!Init
    BY DEF Init, Documents, Pipeline!Init
  <1> QED
    BY <1>1, StepRefines, FedAlways, SinksFollow, GapAlways, PTL
       DEF Spec, ImplementsLogPipeline, Pipeline!Spec
=============================================================================
