-------------------------- MODULE IcebergLabProofs --------------------------
(***************************************************************************)
(* Proofs about IcebergLab for any number of runs and of files another     *)
(* program writes: what the lab removes, when it refuses to start, and    *)
(* that its assertions hold.                                               *)
(***************************************************************************)
EXTENDS IcebergLab, FiniteSetTheorems, TLAPS

(* The places of a run after the marker is there. *)
Lab == {"create table", "insert 1", "insert 4", "update 1", "delete 2",
        "merge", "rename", "add field", "insert 7", "format 3", "insert 8",
        "update 8", "delete 4", "stop"}

(* The files come and go with the directory. *)
Places ==
  /\ pc \in {"idle", "guard", "empty", "rmtree", "mkdir", "touch"} \union Lab
  /\ kind \in {"absent", "file", "directory"}
  /\ entries \subseteq Entry
  /\ kind # "directory" => entries = {}
  /\ pc \in {"rmtree", "touch"} \union Lab => kind = "directory"
  /\ outcome = "refused" => pc = "idle"

(* What the lab made lies in a directory with the marker, until rmtree comes;
   rmtree leaves nothing or was cut short. *)
Marked ==
  /\ pc \in Lab => "marker" \in entries
  /\ pc # "rmtree" /\ ~torn /\ "marker" \notin entries =>
       entries \subseteq {"theirs"}

(* Files that were there before the marker: the guard keeps them from being
   marked, and so from being listed. *)
Foreign ==
  /\ "marker" \in entries \/ pc \in {"empty", "mkdir", "touch"} =>
       "theirs" \notin entries
  /\ "theirs" \notin listed

IInv ==
  /\ Places
  /\ Marked
  /\ ~inWindow => Foreign
  /\ UnmarkedKept
  /\ RefusalExplained

-----------------------------------------------------------------------------

LEMMA InitIInv == Init => IInv
  BY DEF Init, IInv, Places, Marked, Foreign, UnmarkedKept, RefusalExplained,
         Entry, Lab

LEMMA PutIInv == IInv /\ Put => IInv'
  <1> SUFFICES ASSUME IInv, Put PROVE IInv'
    OBVIOUS
  <1> DEFINE put == IF "marker" \in entries THEN "guest" ELSE "theirs"
  <1>1. /\ kind # "file" /\ kind' = "directory" /\ entries' = entries \union {put}
        /\ pc' = pc /\ outcome' = outcome /\ protected' = protected
        /\ listed' = listed /\ torn' = torn /\ lost' = lost
        /\ inWindow' = \/ inWindow
                       \/ /\ pc \in {"empty", "mkdir", "touch"}
                          /\ "marker" \notin entries
    BY DEF Put, lab
  <1>2. Places'
    BY <1>1 DEF IInv, Places, Entry
  <1>3. Marked'
    BY <1>1 DEF IInv, Marked
  <1>4. ~inWindow' => Foreign'
    BY <1>1 DEF IInv, Foreign
  <1>5. UnmarkedKept' /\ RefusalExplained'
    BY <1>1 DEF IInv, UnmarkedKept, RefusalExplained
  <1> QED
    BY <1>2, <1>3, <1>4, <1>5 DEF IInv

(* A statement of the lab changes nothing of the directory but that the
   table's part of it may come to be. *)
LEMMA LabIInv ==
  ASSUME IInv, pc \in Lab, pc' \in Lab \union {"idle"}, outcome' # "refused",
         UNCHANGED <<protected, kind, listed, inWindow, torn, lost>>,
         entries' \in {entries, entries \union {"orders"}}
  PROVE  IInv'
  <1>1. /\ "marker" \in entries /\ "marker" \in entries'
        /\ "theirs" \in entries' <=> "theirs" \in entries
        /\ kind = "directory"
    BY DEF IInv, Places, Marked
  <1>2. Places'
    BY <1>1 DEF IInv, Places, Entry
  <1>3. Marked'
    BY <1>1 DEF IInv, Marked
  <1>4. ~inWindow' => Foreign'
    BY <1>1 DEF IInv, Foreign
  <1>5. UnmarkedKept' /\ RefusalExplained'
    BY DEF IInv, UnmarkedKept, RefusalExplained
  <1> QED
    BY <1>2, <1>3, <1>4, <1>5 DEF IInv

LEMMA v2IInv == IInv /\ run_v2_lab => IInv'
  <1> SUFFICES ASSUME IInv, run_v2_lab PROVE IInv'
    OBVIOUS
  <1>1. pc \in Lab /\ pc' \in Lab \union {"idle"} /\ outcome' # "refused"
    <2>1. outcome # "refused" \/ pc = "idle"
      BY DEF IInv, Places
    <2>2. CASE CreateTable \/ InsertFirst \/ InsertMore \/ UpdateOne \/ DeleteTwo
      BY <2>1, <2>2 DEF CreateTable, InsertFirst, InsertMore, UpdateOne,
                        DeleteTwo, Sql, Run, Stop, Lab
    <2>3. CASE Merge
      BY <2>1, <2>3 DEF Merge, Sql, Run, Stop, Lab
    <2>4. CASE RenameAmount \/ AddPartitionField \/ InsertSeven
      BY <2>1, <2>4 DEF RenameAmount, AddPartitionField, InsertSeven, Sql, Run,
                        Stop, Lab
    <2> QED
      BY <2>2, <2>3, <2>4 DEF run_v2_lab
  <1>2. UNCHANGED <<protected, kind, listed, history>>
    <2>1. CASE CreateTable \/ InsertFirst \/ InsertMore \/ UpdateOne \/ DeleteTwo
      BY <2>1 DEF CreateTable, InsertFirst, InsertMore, UpdateOne, DeleteTwo,
                  Sql, Run
    <2>2. CASE Merge
      BY <2>2 DEF Merge, Sql, Run
    <2>3. CASE RenameAmount \/ AddPartitionField \/ InsertSeven
      BY <2>3 DEF RenameAmount, AddPartitionField, InsertSeven, Sql, Run
    <2> QED
      BY <2>1, <2>2, <2>3 DEF run_v2_lab
  <1>3. entries' \in {entries, entries \union {"orders"}}
    <2>1. CASE CreateTable
      BY <2>1 DEF CreateTable
    <2>2. CASE ~CreateTable
      BY <2>2 DEF run_v2_lab, InsertFirst, InsertMore, UpdateOne, DeleteTwo,
                  Merge, RenameAmount, AddPartitionField, InsertSeven, Sql
    <2> QED
      BY <2>1, <2>2
  <1>4. UNCHANGED <<inWindow, torn, lost>>
    BY <1>2 DEF history
  <1> QED
    BY <1>1, <1>2, <1>3, <1>4, LabIInv

LEMMA v3IInv == IInv /\ run_v3_lab => IInv'
  <1> SUFFICES ASSUME IInv, run_v3_lab PROVE IInv'
    OBVIOUS
  <1>1. pc \in Lab /\ pc' \in Lab \union {"idle"} /\ outcome' # "refused"
    BY DEF run_v3_lab, SetFormat, InsertEight, UpdateEight, DeleteFour, Sql,
           Run, Stop, Lab, IInv, Places
  <1>2. /\ UNCHANGED <<protected, kind, listed, inWindow, torn, lost>>
        /\ entries' \in {entries, entries \union {"orders"}}
    BY DEF run_v3_lab, SetFormat, InsertEight, UpdateEight, DeleteFour, Sql,
           Run, history
  <1> QED
    BY <1>1, <1>2, LabIInv

LEMMA FinishIInv == IInv /\ Finish => IInv'
  BY LabIInv DEF Finish, Stop, Lab, directory, history

LEMMA CrashIInv == IInv /\ Crash => IInv'
  <1> SUFFICES ASSUME IInv, Crash PROVE IInv'
    OBVIOUS
  <1>1. /\ pc # "idle" /\ pc' = "idle" /\ outcome' = "crashed"
        /\ torn' = (torn \/ pc = "rmtree") /\ listed' = {}
        /\ UNCHANGED <<protected, kind, entries, inWindow, lost>>
    BY DEF Crash, Stop
  <1> QED
    BY <1>1 DEF IInv, Places, Marked, Foreign, UnmarkedKept, RefusalExplained, Lab

-----------------------------------------------------------------------------
(* main() up to Spark *)

LEMMA StartIInv == IInv /\ Start => IInv'
  BY DEF Start, directory, history, IInv, Places, Marked, Foreign, UnmarkedKept,
         RefusalExplained, Lab

LEMMA GuardIInv == IInv /\ Guard => IInv'
  <1> SUFFICES ASSUME IInv, Guard PROVE IInv'
    OBVIOUS
  <1>1. /\ pc = "guard"
        /\ UNCHANGED <<protected, kind, entries, listed, inWindow, torn, lost>>
    BY DEF Guard, directory, history
  <1>2. CASE Acceptable
    <2>1. pc' = "empty" /\ outcome' = outcome
      BY <1>2 DEF Guard
    <2>2. "marker" \in entries \/ entries = {}
      BY <1>2 DEF Acceptable, IInv, Places
    <2>3. Places' /\ Marked' /\ UnmarkedKept' /\ RefusalExplained'
      BY <1>1, <2>1 DEF IInv, Places, Marked, UnmarkedKept, RefusalExplained, Lab
    <2>4. ~inWindow' => Foreign'
      BY <1>1, <2>1, <2>2 DEF IInv, Foreign
    <2> QED
      BY <2>3, <2>4 DEF IInv
  <1>3. CASE ~Acceptable
    <2>1. pc' = "idle" /\ outcome' = "refused"
      BY <1>3 DEF Guard, Stop
    <2>2. RefusalExplained'
      <3>1. SUFFICES ASSUME ~protected, kind # "file", ~torn
                     PROVE  "theirs" \in entries
        BY <1>1, <2>1 DEF RefusalExplained
      <3>2. entries # {} /\ "marker" \notin entries
        BY <1>3, <3>1 DEF Acceptable, IInv, Places
      <3>3. entries \subseteq {"theirs"}
        BY <1>1, <3>1, <3>2 DEF IInv, Marked
      <3> QED
        BY <3>2, <3>3
    <2>3. Places' /\ Marked' /\ UnmarkedKept' /\ (~inWindow' => Foreign')
      BY <1>1, <2>1 DEF IInv, Places, Marked, Foreign, UnmarkedKept, Lab
    <2> QED
      BY <2>2, <2>3 DEF IInv
  <1> QED
    BY <1>2, <1>3

LEMMA StartEmptyingIInv == IInv /\ StartEmptying => IInv'
  <1> SUFFICES ASSUME IInv, StartEmptying PROVE IInv'
    OBVIOUS
  <1>1. /\ pc = "empty"
        /\ UNCHANGED <<outcome, protected, kind, entries, inWindow, torn, lost>>
        /\ \/ pc' = "rmtree" /\ kind = "directory" /\ listed' = entries
           \/ pc' = "mkdir" /\ listed' = listed
    BY DEF StartEmptying, history
  <1>2. Places'
    BY <1>1 DEF IInv, Places, Lab
  <1>3. Marked'
    BY <1>1 DEF IInv, Marked, Lab
  <1>4. ~inWindow' => Foreign'
    BY <1>1 DEF IInv, Foreign
  <1>5. UnmarkedKept' /\ RefusalExplained'
    BY <1>1 DEF IInv, UnmarkedKept, RefusalExplained
  <1> QED
    BY <1>2, <1>3, <1>4, <1>5 DEF IInv

LEMMA RemoveEntryIInv ==
  ASSUME IInv, NEW e \in Entry, RemoveEntry(e)
  PROVE  IInv'
  <1>1. /\ pc = "rmtree" /\ e \in listed
        /\ listed' = listed \ {e} /\ entries' = entries \ {e}
        /\ lost' = (lost \/ e = "theirs")
        /\ UNCHANGED <<pc, outcome, protected, kind, inWindow, torn>>
    BY DEF RemoveEntry
  <1>2. Places'
    BY <1>1 DEF IInv, Places
  <1>3. Marked'
    BY <1>1 DEF IInv, Marked, Lab
  <1>4. ~inWindow' => Foreign'
    BY <1>1 DEF IInv, Foreign
  <1>5. UnmarkedKept'
    BY <1>1 DEF IInv, Foreign, UnmarkedKept
  <1>6. RefusalExplained'
    BY <1>1 DEF IInv, Places, RefusalExplained
  <1> QED
    BY <1>2, <1>3, <1>4, <1>5, <1>6 DEF IInv

LEMMA RemoveIInv ==
  ASSUME IInv, TearTable \/ (\E e \in Entry : RemoveEntry(e)) \/ RemoveDirectory
  PROVE  IInv'
  <1>1. CASE TearTable
    BY <1>1 DEF TearTable, directory, history, IInv, Places, Marked, Foreign,
                UnmarkedKept, RefusalExplained, Lab
  <1>2. CASE \E e \in Entry : RemoveEntry(e)
    BY <1>2, RemoveEntryIInv
  <1>3. CASE RemoveDirectory
    BY <1>3 DEF RemoveDirectory, Stop, IInv, Places, Marked, Foreign,
                UnmarkedKept, RefusalExplained, Lab
  <1> QED
    BY <1>1, <1>2, <1>3

LEMMA MkdirIInv == IInv /\ mkdir => IInv'
  <1> SUFFICES ASSUME IInv, mkdir PROVE IInv'
    OBVIOUS
  <1>1. /\ pc = "mkdir" /\ pc' = "touch" /\ kind' = "directory"
        /\ UNCHANGED <<outcome, protected, entries, listed, inWindow, torn, lost>>
    BY DEF mkdir, history
  <1> QED
    BY <1>1 DEF IInv, Places, Marked, Foreign, UnmarkedKept, RefusalExplained, Lab

LEMMA TouchIInv == IInv /\ touch => IInv'
  <1> SUFFICES ASSUME IInv, touch PROVE IInv'
    OBVIOUS
  <1>1. /\ pc = "touch" /\ pc' = "create table"
        /\ entries' = entries \union {"marker"}
        /\ UNCHANGED <<outcome, protected, kind, listed, inWindow, torn, lost>>
    BY DEF touch, history
  <1>2. Places'
    BY <1>1 DEF IInv, Places, Lab, Entry
  <1>3. Marked'
    BY <1>1 DEF IInv, Marked
  <1>4. ~inWindow' => Foreign'
    BY <1>1 DEF IInv, Foreign
  <1>5. UnmarkedKept' /\ RefusalExplained'
    BY <1>1 DEF IInv, Places, UnmarkedKept, RefusalExplained
  <1> QED
    BY <1>2, <1>3, <1>4, <1>5 DEF IInv

-----------------------------------------------------------------------------
(* The theorems *)

LEMMA NextIInv == IInv /\ [Next]_vars => IInv'
  <1> SUFFICES ASSUME IInv, [Next]_vars PROVE IInv'
    OBVIOUS
  <1>1. CASE UNCHANGED vars
    BY <1>1 DEF vars, directory, history, IInv, Places, Marked, Foreign,
                UnmarkedKept, RefusalExplained
  <1>2. CASE main
    BY <1>2, StartIInv, GuardIInv, StartEmptyingIInv, RemoveIInv, MkdirIInv,
             TouchIInv DEF main
  <1> QED
    BY <1>1, <1>2, v2IInv, v3IInv, FinishIInv, CrashIInv, PutIInv DEF Next

LEMMA Invariance == Spec => []IInv
  BY InitIInv, NextIInv, PTL DEF Spec

(* Nothing that lay in the directory before the lab marked it is removed by
   this or any later run, whenever runs die, unless another program wrote
   between the guard and the marker. *)
THEOREM UnmarkedAreKept == Spec => []UnmarkedKept
  <1>1. IInv => UnmarkedKept
    BY DEF IInv
  <1> QED
    BY <1>1, Invariance, PTL

(* A refusal has a reason the user can see or a torn removal behind it: no
   other death of the lab locks it out of its own directory. *)
THEOREM RefusalsExplained == Spec => []RefusalExplained
  <1>1. IInv => RefusalExplained
    BY DEF IInv
  <1> QED
    BY <1>1, Invariance, PTL
-----------------------------------------------------------------------------
(* What the statements do to the table *)

(* Values a statement may write: at most one for an id. *)
Entered ==
  {values \in SUBSET (Id \X {"pending", "paid", "shipped"} \X Nat) :
     \A v, w \in values : v[1] = w[1] => v = w}

(* u is t with one more snapshot, rows, which is what it shows; nothing else
   changes but the deletion vectors and the row-id counter. *)
OneMore(t, u, rows) ==
  /\ u \in TableType
  /\ Rows(u) = rows
  /\ u.format = t.format /\ u.spec = t.spec /\ u.fields = t.fields
  /\ Len(u.snapshots) = Len(t.snapshots) + 1
  /\ \A i \in 1 .. Len(t.snapshots) : u.snapshots[i] = t.snapshots[i]

LEMMA RowsType == ASSUME NEW t \in TableType PROVE Rows(t) \in Snapshot
  <1>1. t.snapshots \in Seq(Snapshot)
    BY DEF TableType
  <1>2. CASE t.snapshots = <<>>
    <2>1. Rows(t) = <<>>
      BY <1>2 DEF Rows
    <2>2. <<>> \in [{} -> RowType] /\ {} \in SUBSET Id
      OBVIOUS
    <2> QED
      BY <2>1, <2>2 DEF Snapshot
  <1>3. CASE t.snapshots # <<>>
    BY <1>1, <1>3 DEF Rows, Last
  <1> QED
    BY <1>2, <1>3

LEMMA SnapshotIs ==
  ASSUME NEW rows
  PROVE  rows \in Snapshot <=> /\ rows = [id \in DOMAIN rows |-> rows[id]]
                               /\ DOMAIN rows \subseteq Id
                               /\ \A id \in DOMAIN rows : rows[id] \in RowType
  BY DEF Snapshot

LEMMA AppendIs ==
  ASSUME NEW t \in TableType, NEW u \in TableType, NEW rows \in Snapshot,
         u.snapshots = Append(t.snapshots, rows),
         u.format = t.format, u.spec = t.spec, u.fields = t.fields
  PROVE  OneMore(t, u, rows)
  <1>1. t.snapshots \in Seq(Snapshot)
    BY DEF TableType
  <1>2. /\ Len(u.snapshots) = Len(t.snapshots) + 1
        /\ Len(u.snapshots) \in Nat
        /\ u.snapshots # <<>>
        /\ u.snapshots[Len(u.snapshots)] = rows
        /\ \A i \in 1 .. Len(t.snapshots) : u.snapshots[i] = t.snapshots[i]
    BY <1>1
  <1>3. Rows(u) = rows
    BY <1>2 DEF Rows, Last
  <1> QED
    BY <1>2, <1>3 DEF OneMore

LEMMA NewRowType ==
  ASSUME NEW t \in TableType, NEW status \in {"pending", "paid", "shipped"},
         NEW amount \in Nat
  PROVE  /\ NewRow(t, status, amount) \in RowType
         /\ NewRow(t, status, amount).status = status
         /\ NewRow(t, status, amount).amount = amount
         /\ NewRow(t, status, amount).spec = t.spec
  <1>1. t.spec \in Nat /\ t.rowIds \in Nat /\ Len(t.snapshots) + 1 \in Nat
    BY DEF TableType
  <1> QED
    BY <1>1 DEF NewRow, RowType

LEMMA WrittenIs ==
  ASSUME NEW t \in TableType, NEW values \in Entered, NEW v \in values
  PROVE  /\ v[1] \in Ids(values)
         /\ Written(t, values, v[1]) = NewRow(t, v[2], v[3])
         /\ Written(t, values, v[1]) \in RowType
         /\ Written(t, values, v[1]).status = v[2]
         /\ Written(t, values, v[1]).amount = v[3]
         /\ Written(t, values, v[1]).spec = t.spec
  <1>1. /\ (CHOOSE w \in values : w[1] = v[1]) \in values
        /\ (CHOOSE w \in values : w[1] = v[1])[1] = v[1]
    OBVIOUS
  <1>2. (CHOOSE w \in values : w[1] = v[1]) = v
    BY <1>1 DEF Entered
  <1>3. v[2] \in {"pending", "paid", "shipped"} /\ v[3] \in Nat
    BY DEF Entered
  <1>4. v[1] \in Ids(values) /\ Written(t, values, v[1]) = NewRow(t, v[2], v[3])
    BY <1>2 DEF Ids, Written
  <1> QED
    BY <1>3, <1>4, NewRowType

LEMMA IdsAre ==
  ASSUME NEW values \in Entered
  PROVE  /\ Ids(values) \subseteq Id
         /\ \A id \in Ids(values) : \E v \in values : v[1] = id
  BY DEF Entered, Ids

LEMMA InsertedIs ==
  ASSUME NEW t \in TableType, NEW values \in Entered, IsFiniteSet(values)
  PROVE  LET u == Inserted(t, values) IN
         /\ OneMore(t, u, Rows(u))
         /\ u.vectors = t.vectors
         /\ DOMAIN Rows(u) = Ids(values) \union DOMAIN Rows(t)
         /\ \A id \in DOMAIN Rows(u) :
              Rows(u)[id] = IF id \in Ids(values) THEN Written(t, values, id)
                            ELSE Rows(t)[id]
  <1> DEFINE rows == [id \in Ids(values) \union DOMAIN Rows(t) |->
                        IF id \in Ids(values) THEN Written(t, values, id)
                        ELSE Rows(t)[id]]
             u == Inserted(t, values)
  <1>1. \A id \in Ids(values) : Written(t, values, id) \in RowType
    BY IdsAre, WrittenIs
  <1>2. /\ DOMAIN Rows(t) \subseteq Id
        /\ \A id \in DOMAIN Rows(t) : Rows(t)[id] \in RowType
    BY RowsType, SnapshotIs
  <1>3. rows \in Snapshot
    BY <1>1, <1>2, IdsAre, SnapshotIs
  <1>4. Cardinality(values) \in Nat
    BY FS_CardinalityType
  <1>5. /\ u \in TableType
        /\ u.snapshots = Append(t.snapshots, rows)
        /\ u.format = t.format /\ u.spec = t.spec /\ u.fields = t.fields
        /\ u.vectors = t.vectors
    <2> HIDE DEF rows
    <2>1. Append(t.snapshots, rows) \in Seq(Snapshot)
      BY <1>3 DEF TableType
    <2>2. t.rowIds + Cardinality(values) \in Nat
      BY <1>4 DEF TableType
    <2>3. u = [t EXCEPT !.snapshots = Append(t.snapshots, rows),
                        !.rowIds = t.rowIds + Cardinality(values)]
      BY DEF Inserted, Commit, TableType, rows
    <2> HIDE DEF u
    <2> QED
      BY <2>1, <2>2, <2>3 DEF TableType
  <1>6. OneMore(t, u, rows) /\ Rows(u) = rows
    <2> HIDE DEF rows, u
    <2> QED
      BY <1>3, <1>5, AppendIs DEF OneMore
  <1> HIDE DEF u
  <1>7. QED
    BY <1>5, <1>6 DEF u

LEMMA UpdatedIs ==
  ASSUME NEW t \in TableType, NEW values \in Entered,
         Ids(values) \subseteq DOMAIN Rows(t)
  PROVE  LET u == Updated(t, values) IN
         /\ OneMore(t, u, Rows(u))
         /\ DOMAIN Rows(u) = DOMAIN Rows(t)
         /\ \A id \in DOMAIN Rows(u) :
              Rows(u)[id] = IF id \notin Ids(values) THEN Rows(t)[id]
                            ELSE [Written(t, values, id)
                                  EXCEPT !.row_id = Rows(t)[id].row_id]
  <1> DEFINE rows == [id \in DOMAIN Rows(t) |->
                        IF id \notin Ids(values) THEN Rows(t)[id]
                        ELSE [Written(t, values, id)
                              EXCEPT !.row_id = Rows(t)[id].row_id]]
             u == Updated(t, values)
  <1>1. \A id \in Ids(values) : Written(t, values, id) \in RowType
    BY IdsAre, WrittenIs
  <1>2. /\ DOMAIN Rows(t) \subseteq Id
        /\ \A id \in DOMAIN Rows(t) : Rows(t)[id] \in RowType
    BY RowsType, SnapshotIs
  <1>3. \A id \in DOMAIN rows : rows[id] \in RowType
    BY <1>1, <1>2 DEF RowType
  <1>4. rows \in Snapshot
    BY <1>2, <1>3, SnapshotIs
  <1>5. /\ u \in TableType
        /\ u.snapshots = Append(t.snapshots, rows)
        /\ u.format = t.format /\ u.spec = t.spec /\ u.fields = t.fields
    <2> HIDE DEF rows
    <2>1. Append(t.snapshots, rows) \in Seq(Snapshot)
      BY <1>4 DEF TableType
    <2>2. u = [t EXCEPT !.snapshots = Append(t.snapshots, rows),
                        !.vectors = IF t.format = 3
                                    THEN t.vectors \union Ids(values)
                                    ELSE t.vectors]
      BY DEF Updated, Commit, TableType, rows
    <2> HIDE DEF u
    <2> QED
      BY IdsAre, <2>1, <2>2 DEF TableType
  <1>6. OneMore(t, u, rows) /\ Rows(u) = rows
    <2> HIDE DEF rows, u
    <2> QED
      BY <1>4, <1>5, AppendIs DEF OneMore
  <1> HIDE DEF u
  <1>7. QED
    BY <1>6 DEF u, OneMore

LEMMA DeletedIs ==
  ASSUME NEW t \in TableType, NEW id \in Id
  PROVE  LET u == Deleted(t, id) IN
         /\ OneMore(t, u, Rows(u))
         /\ u.vectors = IF t.format = 3 THEN t.vectors \union {id} ELSE t.vectors
         /\ DOMAIN Rows(u) = DOMAIN Rows(t) \ {id}
         /\ \A i \in DOMAIN Rows(u) : Rows(u)[i] = Rows(t)[i]
  <1> DEFINE rows == Restrict(Rows(t), DOMAIN Rows(t) \ {id})
             u == Deleted(t, id)
  <1>1. /\ DOMAIN rows = DOMAIN Rows(t) \ {id}
        /\ rows = [i \in DOMAIN rows |-> rows[i]]
        /\ \A i \in DOMAIN rows : rows[i] = Rows(t)[i]
    BY DEF Restrict
  <1>2. rows \in Snapshot
    <2>1. /\ DOMAIN Rows(t) \subseteq Id
          /\ \A i \in DOMAIN Rows(t) : Rows(t)[i] \in RowType
      BY RowsType, SnapshotIs
    <2> HIDE DEF rows
    <2> QED
      BY <1>1, <2>1, SnapshotIs
  <1>3. u = [t EXCEPT !.snapshots = Append(@, rows),
                      !.vectors = IF t.format = 3 THEN @ \union {id} ELSE @]
    BY DEF Deleted, Commit, TableType
  <1>4. /\ u \in TableType
        /\ u.snapshots = Append(t.snapshots, rows)
        /\ u.format = t.format /\ u.spec = t.spec /\ u.fields = t.fields
        /\ u.vectors = IF t.format = 3 THEN t.vectors \union {id} ELSE t.vectors
    <2> HIDE DEF rows
    <2>1. Append(t.snapshots, rows) \in Seq(Snapshot)
      BY <1>2 DEF TableType
    <2>2. u = [t EXCEPT !.snapshots = Append(t.snapshots, rows),
                        !.vectors = IF t.format = 3 THEN t.vectors \union {id}
                                    ELSE t.vectors]
      BY <1>3 DEF TableType
    <2> HIDE DEF u
    <2> QED
      BY <2>1, <2>2 DEF TableType
  <1>5. OneMore(t, u, rows) /\ Rows(u) = rows
    <2> HIDE DEF rows, u
    <2> QED
      BY <1>2, <1>4, AppendIs DEF OneMore
  <1> HIDE DEF rows, u
  <1>6. QED
    BY <1>1, <1>4, <1>5 DEF u

-----------------------------------------------------------------------------
(* What the statements leave *)

Statements == Lab \ {"create table"}

Holds(t, id, status, amount) ==
  /\ id \in DOMAIN Rows(t)
  /\ Rows(t)[id].status = status /\ Rows(t)[id].amount = amount

Shape(t, snapshots, ids) ==
  Len(t.snapshots) = snapshots /\ DOMAIN Rows(t) = ids

(* Where a run is in its script says what the table holds, as far as an
   assertion still to come depends on it. *)
ScriptAt(at, t, f, s) ==
  /\ at \in Statements => t \in TableType
  /\ at = "insert 1" => t = NewTable
  /\ at \in {"insert 4", "update 1", "delete 2", "merge", "rename"} =>
       t.fields = NewTable.fields
  /\ at \in {"insert 4", "update 1", "delete 2", "merge", "rename", "add field",
             "insert 7"} =>
       /\ f = 1 /\ DOMAIN t.snapshots[1] = 1 .. 3
       /\ t.spec = IF at = "insert 7" THEN 1 ELSE 0
       /\ \A id \in DOMAIN Rows(t) : Rows(t)[id].spec = 0
  /\ at = "insert 4" => Shape(t, 1, 1 .. 3)
  /\ at = "update 1" =>
       /\ Shape(t, 2, 1 .. 5)
       /\ Holds(t, 4, "pending", 80) /\ Holds(t, 5, "paid", 300)
  /\ at = "delete 2" =>
       /\ Shape(t, 3, 1 .. 5) /\ Holds(t, 1, "paid", 110)
       /\ Holds(t, 4, "pending", 80) /\ Holds(t, 5, "paid", 300)
  /\ at = "merge" =>
       /\ Shape(t, 4, {1, 3, 4, 5}) /\ Holds(t, 1, "paid", 110)
       /\ Holds(t, 4, "pending", 80) /\ Holds(t, 5, "paid", 300)
  /\ at \in {"rename", "add field", "insert 7"} => Shape(t, 5, {1, 3, 4, 5, 6})
  /\ at \in {"insert 8", "update 8", "delete 4"} => t.format = 3
  /\ at = "update 8" =>
       /\ 8 \in DOMAIN Rows(t) /\ s = Rows(t)[8]
       /\ s.updated \in 1 .. Len(t.snapshots)

Script == ScriptAt(pc, table, first, seen)

LEMMA FewAreFinite ==
  ASSUME NEW a, NEW b, NEW c
  PROVE  IsFiniteSet({a}) /\ IsFiniteSet({a, b}) /\ IsFiniteSet({a, b, c})
  <1>1. IsFiniteSet({a})
    <2>1. IsFiniteSet({} \union {a})
      BY FS_EmptySet, FS_AddElement
    <2> QED
      BY <2>1
  <1>2. IsFiniteSet({a, b})
    <2>1. IsFiniteSet({a} \union {b})
      BY <1>1, FS_AddElement
    <2> QED
      BY <2>1, Zenon
  <1>3. IsFiniteSet({a, b, c})
    <2>1. IsFiniteSet({a, b} \union {c})
      BY <1>2, FS_AddElement
    <2> QED
      BY <2>1
  <1> QED
    BY <1>1, <1>2, <1>3

LEMMA FirstInsert ==
  ASSUME Script, InsertFirst
  PROVE  Script' /\ pc' = "insert 4"
  <1> DEFINE new == {<<1, "pending", 100>>, <<2, "pending", 200>>,
                     <<3, "paid", 150>>}
             t == Inserted(table, new)
  <1>1. pc = "insert 1" /\ table' = t /\ first' = Len(table'.snapshots)
    BY DEF InsertFirst, Sql, Run
  <1>2. table = NewTable /\ table \in TableType
    BY <1>1 DEF Script, ScriptAt, Statements, Lab
  <1>3. new \in Entered /\ IsFiniteSet(new)
    <2>1. new \in SUBSET (Id \X {"pending", "paid", "shipped"} \X Nat)
      BY DEF Id
    <2>2. IsFiniteSet(new)
      BY FewAreFinite
    <2> QED
      BY <2>1, <2>2 DEF Entered
  <1>4. Ids(new) = 1 .. 3
    BY DEF Ids
  <1>5. table.snapshots = <<>> /\ Rows(table) = <<>> /\ table.spec = 0
    BY <1>2 DEF NewTable, Rows
  <1>6. /\ OneMore(table, t, Rows(t))
        /\ DOMAIN Rows(t) = Ids(new) \union DOMAIN Rows(table)
        /\ \A id \in DOMAIN Rows(t) :
             Rows(t)[id] = IF id \in Ids(new) THEN Written(table, new, id)
                           ELSE Rows(table)[id]
    <2> HIDE DEF new
    <2> QED
      BY <1>2, <1>3, InsertedIs
  <1>7. \A v \in new : /\ Written(table, new, v[1]).status = v[2]
                       /\ Written(table, new, v[1]).spec = 0
    BY <1>2, <1>3, <1>5, WrittenIs
  <1> HIDE DEF t
  <1>8. DOMAIN Rows(t) = 1 .. 3
    BY <1>4, <1>5, <1>6
  <1>9. /\ Rows(t)[1].status = "pending" /\ Rows(t)[1].spec = 0
        /\ Rows(t)[2].status = "pending" /\ Rows(t)[2].spec = 0
        /\ Rows(t)[3].status = "paid" /\ Rows(t)[3].spec = 0
    BY <1>4, <1>6, <1>7, <1>8
  <1>10. Statuses(t) = {<<1, "pending">>, <<2, "pending">>, <<3, "paid">>}
    BY <1>8, <1>9 DEF Statuses
  <1>11. pc' = "insert 4"
    BY <1>1, <1>10 DEF InsertFirst, Sql, Run
  <1>12. /\ t \in TableType /\ Len(t.snapshots) = 1 /\ t.snapshots[1] = Rows(t)
         /\ t.fields = NewTable.fields /\ t.spec = 0
    BY <1>2, <1>5, <1>6 DEF OneMore, Rows, Last
  <1> QED
    <2>1. table' = t /\ first' = 1 /\ pc' = "insert 4"
      BY <1>1, <1>11, <1>12
    <2>2. \A id \in DOMAIN Rows(t) : Rows(t)[id].spec = 0
      BY <1>8, <1>9
    <2> HIDE DEF new
    <2> QED
      BY <1>8, <1>12, <2>1, <2>2 DEF Script, ScriptAt, Shape

LEMMA MoreInserted ==
  ASSUME Script, InsertMore
  PROVE  Script' /\ pc' = "update 1"
  <1> DEFINE new == {<<4, "pending", 80>>, <<5, "paid", 300>>}
             t == Inserted(table, new)
  <1>1. /\ pc = "insert 4" /\ pc' = "update 1" /\ table' = t /\ first' = first
    BY DEF InsertMore, Sql, Run
  <1>2. /\ table \in TableType /\ first = 1 /\ DOMAIN table.snapshots[1] = 1 .. 3
        /\ table.spec = 0
        /\ \A id \in DOMAIN Rows(table) : Rows(table)[id].spec = 0
        /\ Len(table.snapshots) = 1 /\ DOMAIN Rows(table) = 1 .. 3
        /\ table.fields = NewTable.fields
    BY <1>1 DEF Script, ScriptAt, Statements, Lab, Shape
  <1>3. new \in Entered /\ IsFiniteSet(new)
    <2>1. new \in SUBSET (Id \X {"pending", "paid", "shipped"} \X Nat)
      BY DEF Id
    <2>2. IsFiniteSet(new)
      BY FewAreFinite
    <2> QED
      BY <2>1, <2>2 DEF Entered
  <1>4. Ids(new) = {4, 5}
    BY DEF Ids
  <1>5. /\ OneMore(table, t, Rows(t))
        /\ DOMAIN Rows(t) = Ids(new) \union DOMAIN Rows(table)
        /\ \A id \in DOMAIN Rows(t) :
             Rows(t)[id] = IF id \in Ids(new) THEN Written(table, new, id)
                           ELSE Rows(table)[id]
    <2> HIDE DEF new
    <2> QED
      BY <1>2, <1>3, InsertedIs
  <1>6. \A v \in new : /\ Written(table, new, v[1]).status = v[2]
                       /\ Written(table, new, v[1]).amount = v[3]
                       /\ Written(table, new, v[1]).spec = 0
    BY <1>2, <1>3, WrittenIs
  <1> HIDE DEF t
  <1>7. DOMAIN Rows(t) = 1 .. 5
    BY <1>2, <1>4, <1>5
  <1>8. /\ Rows(t)[4].status = "pending" /\ Rows(t)[4].amount = 80
        /\ Rows(t)[5].status = "paid" /\ Rows(t)[5].amount = 300
        /\ Rows(t)[4].spec = 0 /\ Rows(t)[5].spec = 0
    BY <1>4, <1>5, <1>6, <1>7
  <1>9. \A id \in DOMAIN Rows(t) : Rows(t)[id].spec = 0
    BY <1>2, <1>4, <1>5, <1>8
  <1>10. /\ t \in TableType /\ t.fields = NewTable.fields /\ t.spec = 0
         /\ Len(t.snapshots) = 2 /\ DOMAIN t.snapshots[1] = 1 .. 3
    BY <1>2, <1>5 DEF OneMore
  <1> HIDE DEF new
  <1>11. Holds(t, 4, "pending", 80) /\ Holds(t, 5, "paid", 300)
    BY <1>7, <1>8 DEF Holds
  <1> QED
    BY <1>1, <1>2, <1>7, <1>9, <1>10, <1>11 DEF Script, ScriptAt, Shape

LEMMA OneUpdated ==
  ASSUME Script, UpdateOne
  PROVE  Script' /\ pc' = "delete 2"
  <1> DEFINE new == {<<1, "paid", 110>>}
             t == Updated(table, new)
  <1>1. pc = "update 1" /\ pc' = "delete 2" /\ table' = t /\ first' = first
    BY DEF UpdateOne, Sql, Run
  <1>2. /\ table \in TableType /\ first = 1 /\ DOMAIN table.snapshots[1] = 1 .. 3
        /\ table.spec = 0
        /\ \A id \in DOMAIN Rows(table) : Rows(table)[id].spec = 0
        /\ Len(table.snapshots) = 2 /\ DOMAIN Rows(table) = 1 .. 5
        /\ table.fields = NewTable.fields
        /\ Holds(table, 4, "pending", 80) /\ Holds(table, 5, "paid", 300)
    BY <1>1 DEF Script, ScriptAt, Statements, Lab, Shape
  <1>3. new \in Entered
    BY DEF Entered, Id
  <1>4. Ids(new) = {1}
    BY DEF Ids
  <1>5. /\ OneMore(table, t, Rows(t))
        /\ DOMAIN Rows(t) = DOMAIN Rows(table)
        /\ \A id \in DOMAIN Rows(t) :
             Rows(t)[id] = IF id \notin Ids(new) THEN Rows(table)[id]
                           ELSE [Written(table, new, id)
                                 EXCEPT !.row_id = Rows(table)[id].row_id]
    <2>1. Ids(new) \subseteq DOMAIN Rows(table)
      BY <1>2, <1>4
    <2> HIDE DEF new
    <2> QED
      BY <1>2, <1>3, <2>1, UpdatedIs
  <1>6. /\ Written(table, new, 1) \in RowType
        /\ Written(table, new, 1).status = "paid"
        /\ Written(table, new, 1).amount = 110
        /\ Written(table, new, 1).spec = 0
    <2>1. <<1, "paid", 110>> \in new
      OBVIOUS
    <2> HIDE DEF new
    <2> QED
      BY <1>2, <1>3, <2>1, WrittenIs
  <1> HIDE DEF t, new
  <1>7. DOMAIN Rows(t) = 1 .. 5
    BY <1>2, <1>5
  <1>8. /\ Rows(t)[1].status = "paid" /\ Rows(t)[1].amount = 110
        /\ Rows(t)[1].spec = 0
        /\ \A id \in 2 .. 5 : Rows(t)[id] = Rows(table)[id]
    BY <1>4, <1>5, <1>6, <1>7 DEF RowType
  <1>9. /\ \A id \in DOMAIN Rows(t) : Rows(t)[id].spec = 0
        /\ Rows(t)[4].status = "pending" /\ Rows(t)[4].amount = 80
        /\ Rows(t)[5].status = "paid" /\ Rows(t)[5].amount = 300
    BY <1>2, <1>7, <1>8 DEF Holds
  <1>10. /\ t \in TableType /\ t.fields = NewTable.fields /\ t.spec = 0
         /\ Len(t.snapshots) = 3 /\ DOMAIN t.snapshots[1] = 1 .. 3
    BY <1>2, <1>5 DEF OneMore
  <1>11. /\ Holds(t, 1, "paid", 110) /\ Holds(t, 4, "pending", 80)
         /\ Holds(t, 5, "paid", 300)
    BY <1>7, <1>8, <1>9 DEF Holds
  <1> QED
    BY <1>1, <1>2, <1>7, <1>9, <1>10, <1>11 DEF Script, ScriptAt, Shape

LEMMA TwoDeleted ==
  ASSUME Script, DeleteTwo
  PROVE  Script' /\ pc' = "merge"
  <1> DEFINE t == Deleted(table, 2)
  <1>1. pc = "delete 2" /\ pc' = "merge" /\ table' = t /\ first' = first
    BY DEF DeleteTwo, Sql, Run
  <1>2. /\ table \in TableType /\ first = 1 /\ DOMAIN table.snapshots[1] = 1 .. 3
        /\ table.spec = 0
        /\ \A id \in DOMAIN Rows(table) : Rows(table)[id].spec = 0
        /\ Len(table.snapshots) = 3 /\ DOMAIN Rows(table) = 1 .. 5
        /\ table.fields = NewTable.fields
        /\ Holds(table, 1, "paid", 110) /\ Holds(table, 4, "pending", 80)
        /\ Holds(table, 5, "paid", 300)
    BY <1>1 DEF Script, ScriptAt, Statements, Lab, Shape
  <1>3. /\ OneMore(table, t, Rows(t))
        /\ DOMAIN Rows(t) = DOMAIN Rows(table) \ {2}
        /\ \A id \in DOMAIN Rows(t) : Rows(t)[id] = Rows(table)[id]
    <2>1. 2 \in Id
      BY DEF Id
    <2> QED
      BY <1>2, <2>1, DeletedIs
  <1> HIDE DEF t
  <1>4. DOMAIN Rows(t) = {1, 3, 4, 5}
    BY <1>2, <1>3
  <1>5. /\ t \in TableType /\ t.fields = NewTable.fields /\ t.spec = 0
        /\ Len(t.snapshots) = 4 /\ DOMAIN t.snapshots[1] = 1 .. 3
    BY <1>2, <1>3 DEF OneMore
  <1>6. \A id \in DOMAIN Rows(t) : Rows(t)[id].spec = 0
    BY <1>2, <1>3
  <1>7. /\ Holds(t, 1, "paid", 110) /\ Holds(t, 4, "pending", 80)
        /\ Holds(t, 5, "paid", 300)
    BY <1>2, <1>3, <1>4 DEF Holds
  <1> QED
    BY <1>1, <1>2, <1>4, <1>5, <1>6, <1>7 DEF Script, ScriptAt, Shape

(* The matched row is updated, the other one inserted, in one snapshot. *)
LEMMA Merged ==
  ASSUME Script, Merge
  PROVE  Script' /\ pc' = "rename"
  <1> DEFINE source == {<<3, "shipped", 175>>, <<6, "pending", 120>>}
             matched == {v \in source : v[1] \in DOMAIN Rows(table)}
             old == {<<3, "shipped", 175>>}
             new == {<<6, "pending", 120>>}
             a == Updated(table, old)
             both == Inserted(a, new)
             t == [both EXCEPT !.snapshots = Append(table.snapshots, Rows(both))]
  <1>1. pc = "merge"
    BY DEF Merge, Sql, Run
  <1>2. /\ table \in TableType /\ first = 1 /\ DOMAIN table.snapshots[1] = 1 .. 3
        /\ table.spec = 0
        /\ \A id \in DOMAIN Rows(table) : Rows(table)[id].spec = 0
        /\ Len(table.snapshots) = 4 /\ DOMAIN Rows(table) = {1, 3, 4, 5}
        /\ table.fields = NewTable.fields
        /\ Holds(table, 1, "paid", 110) /\ Holds(table, 4, "pending", 80)
        /\ Holds(table, 5, "paid", 300)
    BY <1>1 DEF Script, ScriptAt, Statements, Lab, Shape
  <1>3. matched = old /\ source \ matched = new
    BY <1>2
  <1>4. table' = t
    BY <1>3 DEF Merge, Sql, Run
  <1>5. old \in Entered /\ new \in Entered /\ IsFiniteSet(new)
    <2>1. old \in Entered /\ new \in Entered
      BY DEF Entered, Id
    <2>2. IsFiniteSet(new)
      BY FewAreFinite
    <2> QED
      BY <2>1, <2>2
  <1>6. Ids(old) = {3} /\ Ids(new) = {6}
    BY DEF Ids
  <1>7. <<3, "shipped", 175>> \in old /\ <<6, "pending", 120>> \in new
    OBVIOUS
  <1> HIDE DEF source, matched, old, new
  <1>8. /\ OneMore(table, a, Rows(a))
        /\ DOMAIN Rows(a) = DOMAIN Rows(table)
        /\ \A id \in DOMAIN Rows(a) :
             Rows(a)[id] = IF id \notin Ids(old) THEN Rows(table)[id]
                           ELSE [Written(table, old, id)
                                 EXCEPT !.row_id = Rows(table)[id].row_id]
    <2>1. Ids(old) \subseteq DOMAIN Rows(table)
      BY <1>2, <1>6
    <2> QED
      BY <1>2, <1>5, <2>1, UpdatedIs
  <1>9. /\ Written(table, old, 3) \in RowType
        /\ Written(table, old, 3).status = "shipped"
        /\ Written(table, old, 3).amount = 175
        /\ Written(table, old, 3).spec = 0
    BY <1>2, <1>5, <1>7, WrittenIs
  <1> HIDE DEF a
  <1>10. a \in TableType /\ a.spec = 0 /\ a.fields = NewTable.fields
    BY <1>2, <1>8 DEF OneMore
  <1>11. /\ OneMore(a, both, Rows(both))
         /\ DOMAIN Rows(both) = Ids(new) \union DOMAIN Rows(a)
         /\ \A id \in DOMAIN Rows(both) :
              Rows(both)[id] = IF id \in Ids(new) THEN Written(a, new, id)
                               ELSE Rows(a)[id]
    BY <1>5, <1>10, InsertedIs
  <1>12. /\ Written(a, new, 6).status = "pending"
         /\ Written(a, new, 6).amount = 120
         /\ Written(a, new, 6).spec = 0
    BY <1>5, <1>7, <1>10, WrittenIs
  <1> HIDE DEF both
  <1>13. /\ both \in TableType /\ Rows(both) \in Snapshot
         /\ both.spec = 0 /\ both.fields = NewTable.fields
    BY <1>10, <1>11, RowsType DEF OneMore
  <1>14. /\ t \in TableType /\ t.format = both.format
         /\ t.snapshots = Append(table.snapshots, Rows(both))
         /\ t.spec = 0 /\ t.fields = NewTable.fields
    <2>1. Append(table.snapshots, Rows(both)) \in Seq(Snapshot)
      BY <1>2, <1>13 DEF TableType
    <2> QED
      BY <1>13, <2>1 DEF TableType
  <1> HIDE DEF t
  <1>15. /\ Rows(t) = Rows(both)
         /\ Len(t.snapshots) = 5 /\ DOMAIN t.snapshots[1] = 1 .. 3
    <2>1. /\ t.format = table.format /\ t.spec = table.spec
          /\ t.fields = table.fields
      BY <1>2, <1>8, <1>11, <1>14 DEF OneMore
    <2>2. OneMore(table, t, Rows(both))
      BY <1>2, <1>13, <1>14, <2>1, AppendIs
    <2> QED
      BY <1>2, <2>2 DEF OneMore
  <1>16. DOMAIN Rows(t) = {1, 3, 4, 5, 6}
    BY <1>2, <1>6, <1>8, <1>11, <1>15
  <1>17. /\ Rows(t)[1] = Rows(table)[1] /\ Rows(t)[4] = Rows(table)[4]
         /\ Rows(t)[5] = Rows(table)[5] /\ Rows(t)[3] = Rows(a)[3]
         /\ Rows(t)[6] = Written(a, new, 6)
    BY <1>2, <1>6, <1>8, <1>11, <1>15
  <1>18. /\ Rows(t)[3].status = "shipped" /\ Rows(t)[3].amount = 175
         /\ Rows(t)[3].spec = 0
    BY <1>2, <1>6, <1>8, <1>9, <1>17 DEF RowType
  <1>19. \A id \in DOMAIN Rows(t) : Rows(t)[id].spec = 0
    BY <1>2, <1>12, <1>16, <1>17, <1>18
  <1>20. /\ Rows(t)[1].status = "paid" /\ Rows(t)[1].amount = 110
         /\ Rows(t)[4].status = "pending" /\ Rows(t)[4].amount = 80
         /\ Rows(t)[5].status = "paid" /\ Rows(t)[5].amount = 300
         /\ Rows(t)[6].status = "pending" /\ Rows(t)[6].amount = 120
    BY <1>2, <1>12, <1>17 DEF Holds
  <1>21. Contents(t) =
           {<<1, "paid", 110>>, <<3, "shipped", 175>>, <<4, "pending", 80>>,
            <<5, "paid", 300>>, <<6, "pending", 120>>}
    BY <1>16, <1>18, <1>20 DEF Contents
  <1>22. pc' = "rename" /\ first' = first
    BY <1>4, <1>21 DEF Merge, Sql, Run
  <1> QED
    BY <1>2, <1>4, <1>14, <1>15, <1>16, <1>19, <1>22 DEF Script, ScriptAt, Shape

LEMMA AmountRenamed ==
  ASSUME Script, RenameAmount
  PROVE  Script' /\ pc' = "add field"
  <1> DEFINE t == Renamed(table, "amount", "total_amount")
  <1>1. pc = "rename" /\ table' = t /\ first' = first
    BY DEF RenameAmount, Sql, Run
  <1>2. /\ table \in TableType /\ first = 1 /\ DOMAIN table.snapshots[1] = 1 .. 3
        /\ table.spec = 0
        /\ \A id \in DOMAIN Rows(table) : Rows(table)[id].spec = 0
        /\ Len(table.snapshots) = 5 /\ DOMAIN Rows(table) = {1, 3, 4, 5, 6}
        /\ table.fields = NewTable.fields
    BY <1>1 DEF Script, ScriptAt, Statements, Lab, Shape
  <1> DEFINE columns == (DOMAIN table.fields \ {"amount"}) \union {"total_amount"}
             fields == [f \in columns |-> IF f = "total_amount"
                                          THEN table.fields["amount"]
                                          ELSE table.fields[f]]
  <1>3. /\ DOMAIN table.fields =
             {"id", "customer", "status", "amount", "ordered_at"}
        /\ \A f \in DOMAIN table.fields : table.fields[f] \in Nat
    BY <1>2 DEF NewTable
  <1>4. t = [table EXCEPT !.fields = fields]
    BY <1>2 DEF Renamed, TableType
  <1>5. fields \in UNION {[cs -> Nat] : cs \in SUBSET Column}
    <2>1. columns \in SUBSET Column
      BY <1>3 DEF Column
    <2>2. fields \in [columns -> Nat]
      BY <1>3
    <2> HIDE DEF columns, fields
    <2> QED
      BY <2>1, <2>2
  <1>6. /\ "amount" \notin DOMAIN fields
        /\ fields["total_amount"] = table.fields["amount"]
    BY <1>3
  <1> HIDE DEF fields
  <1>7. /\ t \in TableType /\ t.fields = fields
        /\ t.snapshots = table.snapshots /\ t.spec = 0
    BY <1>2, <1>4, <1>5 DEF TableType
  <1> HIDE DEF t
  <1>8. pc' = "add field"
    BY <1>1, <1>6, <1>7 DEF RenameAmount, Sql, Run
  <1>9. Rows(t) = Rows(table)
    BY <1>7 DEF Rows
  <1> QED
    BY <1>1, <1>2, <1>7, <1>8, <1>9 DEF Script, ScriptAt, Shape

LEMMA FieldAdded ==
  ASSUME Script, AddPartitionField
  PROVE  Script' /\ pc' = "insert 7"
  <1> DEFINE t == [table EXCEPT !.spec = @ + 1]
  <1>1. /\ pc = "add field" /\ pc' = "insert 7" /\ table' = t /\ first' = first
    BY DEF AddPartitionField, Sql, Run
  <1>2. /\ table \in TableType /\ first = 1 /\ DOMAIN table.snapshots[1] = 1 .. 3
        /\ table.spec = 0
        /\ \A id \in DOMAIN Rows(table) : Rows(table)[id].spec = 0
        /\ Len(table.snapshots) = 5 /\ DOMAIN Rows(table) = {1, 3, 4, 5, 6}
    BY <1>1 DEF Script, ScriptAt, Statements, Lab, Shape
  <1>3. /\ t \in TableType /\ t.snapshots = table.snapshots /\ t.spec = 1
    <2>1. t = [table EXCEPT !.spec = 1] /\ 1 \in Nat
      BY <1>2 DEF TableType
    <2> HIDE DEF t
    <2> QED
      BY <1>2, <2>1 DEF TableType
  <1> HIDE DEF t
  <1>4. Rows(t) = Rows(table)
    BY <1>3 DEF Rows
  <1>5. /\ first' = 1 /\ DOMAIN t.snapshots[1] = 1 .. 3
        /\ \A id \in DOMAIN Rows(t) : Rows(t)[id].spec = 0
        /\ Shape(t, 5, {1, 3, 4, 5, 6})
    BY <1>1, <1>2, <1>3, <1>4 DEF Shape
  <1> QED
    BY <1>1, <1>3, <1>5 DEF Script, ScriptAt

(* Two partition specs are in use: the old rows' and the new row's. *)
LEMMA SevenInserted ==
  ASSUME Script, InsertSeven
  PROVE  Script' /\ pc' = "format 3"
  <1> DEFINE new == {<<7, "paid", 70>>}
             t == Inserted(table, new)
  <1>1. pc = "insert 7" /\ table' = t /\ first' = first
    BY DEF InsertSeven, Sql, Run
  <1>2. /\ table \in TableType /\ first = 1 /\ DOMAIN table.snapshots[1] = 1 .. 3
        /\ table.spec = 1
        /\ \A id \in DOMAIN Rows(table) : Rows(table)[id].spec = 0
        /\ Len(table.snapshots) = 5 /\ DOMAIN Rows(table) = {1, 3, 4, 5, 6}
    BY <1>1 DEF Script, ScriptAt, Statements, Lab, Shape
  <1>3. new \in Entered /\ IsFiniteSet(new)
    <2>1. new \in Entered
      BY DEF Entered, Id
    <2>2. IsFiniteSet(new)
      BY FewAreFinite
    <2> QED
      BY <2>1, <2>2
  <1>4. Ids(new) = {7} /\ <<7, "paid", 70>> \in new
    BY DEF Ids
  <1> HIDE DEF new
  <1>5. /\ OneMore(table, t, Rows(t))
        /\ DOMAIN Rows(t) = Ids(new) \union DOMAIN Rows(table)
        /\ \A id \in DOMAIN Rows(t) :
             Rows(t)[id] = IF id \in Ids(new) THEN Written(table, new, id)
                           ELSE Rows(table)[id]
    BY <1>2, <1>3, InsertedIs
  <1>6. Written(table, new, 7).spec = 1
    BY <1>2, <1>3, <1>4, WrittenIs
  <1> HIDE DEF t
  <1>7. DOMAIN Rows(t) = {1, 3, 4, 5, 6, 7}
    BY <1>2, <1>4, <1>5
  <1>8. Rows(t)[7].spec = 1 /\ \A id \in {1, 3, 4, 5, 6} : Rows(t)[id].spec = 0
    BY <1>2, <1>4, <1>5, <1>6, <1>7
  <1>9. {r.spec : r \in Range(Rows(t))} = {0, 1}
    BY <1>7, <1>8 DEF Range
  <1>10. Cardinality({0, 1}) = 2
    <2>1. /\ IsFiniteSet({} \union {0})
          /\ Cardinality({} \union {0}) = 1
      BY FS_EmptySet, FS_AddElement
    <2>2. IsFiniteSet({0}) /\ Cardinality({0}) = 1
      BY <2>1
    <2>3. Cardinality({0} \union {1}) = 2
      BY <2>2, FS_AddElement
    <2> QED
      BY <2>3
  <1>11. /\ t \in TableType /\ Len(t.snapshots) = 6
         /\ DOMAIN t.snapshots[first] = 1 .. 3
    BY <1>2, <1>5 DEF OneMore
  <1>12. /\ Cardinality({r.spec : r \in Range(Rows(t))}) >= 2
         /\ DOMAIN t.snapshots[first] = 1 .. 3
         /\ Len(t.snapshots) >= 6
    <2> DEFINE specs == {r.spec : r \in Range(Rows(t))}
    <2>1. specs = {0, 1}
      BY <1>9
    <2> HIDE DEF specs
    <2>2. Cardinality(specs) >= 2
      BY <1>10, <2>1
    <2> QED
      BY <1>11, <2>2 DEF specs
  <1>13. pc' = "format 3"
    BY <1>12 DEF InsertSeven, Sql, Run, t, new
  <1> QED
    BY <1>1, <1>11, <1>13 DEF Script, ScriptAt

LEMMA FormatSet ==
  ASSUME Script, SetFormat
  PROVE  Script' /\ pc' = "insert 8"
  <1> DEFINE t == [table EXCEPT !.format = 3]
  <1>1. pc = "format 3" /\ table' = t
    BY DEF SetFormat, Sql, Run
  <1>2. table \in TableType
    BY <1>1 DEF Script, ScriptAt, Statements, Lab
  <1>3. t \in TableType /\ t.format = 3
    BY <1>2 DEF TableType
  <1> HIDE DEF t
  <1>4. pc' = "insert 8"
    BY <1>1, <1>3 DEF SetFormat, Sql, Run
  <1> QED
    BY <1>1, <1>3, <1>4 DEF Script, ScriptAt

(* Lineage of a new row: a row id of its own and the snapshot it came with. *)
LEMMA EightInserted ==
  ASSUME Script, InsertEight
  PROVE  Script' /\ pc' = "update 8"
  <1> DEFINE new == {<<8, "pending", 88>>}
             t == Inserted(table, new)
  <1>1. pc = "insert 8" /\ table' = t /\ seen' = Rows(table')[8]
    BY DEF InsertEight, Sql, Run
  <1>2. table \in TableType /\ table.format = 3
    BY <1>1 DEF Script, ScriptAt, Statements, Lab
  <1>3. new \in Entered /\ IsFiniteSet(new)
    <2>1. new \in Entered
      BY DEF Entered, Id
    <2>2. IsFiniteSet(new)
      BY FewAreFinite
    <2> QED
      BY <2>1, <2>2
  <1>4. Ids(new) = {8} /\ <<8, "pending", 88>> \in new
    BY DEF Ids
  <1> HIDE DEF new
  <1>5. /\ OneMore(table, t, Rows(t))
        /\ DOMAIN Rows(t) = Ids(new) \union DOMAIN Rows(table)
        /\ \A id \in DOMAIN Rows(t) :
             Rows(t)[id] = IF id \in Ids(new) THEN Written(table, new, id)
                           ELSE Rows(table)[id]
    BY <1>2, <1>3, InsertedIs
  <1>6. Written(table, new, 8) = NewRow(table, "pending", 88)
    BY <1>2, <1>3, <1>4, WrittenIs
  <1> HIDE DEF t
  <1>7. 8 \in DOMAIN Rows(t) /\ Rows(t)[8] = NewRow(table, "pending", 88)
    BY <1>4, <1>5, <1>6
  <1>8. /\ Rows(t)[8].row_id = table.rowIds
        /\ Rows(t)[8].updated = Len(table.snapshots) + 1
    BY <1>2, <1>7 DEF NewRow
  <1>9. /\ t \in TableType /\ t.format = 3
        /\ Len(t.snapshots) = Len(table.snapshots) + 1
        /\ Len(table.snapshots) \in Nat /\ table.rowIds \in Nat
    BY <1>2, <1>5 DEF OneMore, TableType
  <1>10. /\ Rows(t)[8].row_id # None /\ Rows(t)[8].updated # None
         /\ Rows(t)[8].updated \in 1 .. Len(t.snapshots)
    BY <1>8, <1>9, NoneAssumption
  <1>11. pc' = "update 8"
    BY <1>1, <1>10 DEF InsertEight, Sql, Run
  <1> QED
    BY <1>1, <1>7, <1>9, <1>10, <1>11 DEF Script, ScriptAt

(* An update keeps the row's id and moves on when it was last updated. *)
LEMMA EightUpdated ==
  ASSUME Script, UpdateEight
  PROVE  Script' /\ pc' = "delete 4"
  <1> DEFINE new == {<<8, "paid", 88>>}
             t == Updated(table, new)
  <1>1. pc = "update 8" /\ table' = t
    BY DEF UpdateEight, Sql, Run
  <1>2. /\ table \in TableType /\ table.format = 3
        /\ 8 \in DOMAIN Rows(table) /\ seen = Rows(table)[8]
        /\ seen.updated \in 1 .. Len(table.snapshots)
    BY <1>1 DEF Script, ScriptAt, Statements, Lab
  <1>3. new \in Entered
    BY DEF Entered, Id
  <1>4. Ids(new) = {8} /\ <<8, "paid", 88>> \in new
    BY DEF Ids
  <1> HIDE DEF new
  <1>5. /\ OneMore(table, t, Rows(t))
        /\ DOMAIN Rows(t) = DOMAIN Rows(table)
        /\ \A id \in DOMAIN Rows(t) :
             Rows(t)[id] = IF id \notin Ids(new) THEN Rows(table)[id]
                           ELSE [Written(table, new, id)
                                 EXCEPT !.row_id = Rows(table)[id].row_id]
    <2>1. Ids(new) \subseteq DOMAIN Rows(table)
      BY <1>2, <1>4
    <2> QED
      BY <1>2, <1>3, <2>1, UpdatedIs
  <1>6. Written(table, new, 8) = NewRow(table, "paid", 88)
    BY <1>2, <1>3, <1>4, WrittenIs
  <1> HIDE DEF t
  <1>7. Rows(t)[8] = [NewRow(table, "paid", 88)
                      EXCEPT !.row_id = Rows(table)[8].row_id]
    BY <1>2, <1>4, <1>5, <1>6
  <1>8. /\ Rows(t)[8].row_id = seen.row_id
        /\ Rows(t)[8].updated = Len(table.snapshots) + 1
    BY <1>2, <1>7 DEF NewRow
  <1>9. t \in TableType /\ t.format = 3 /\ Len(table.snapshots) \in Nat
    BY <1>2, <1>5 DEF OneMore, TableType
  <1>10. Rows(t)[8].updated > seen.updated
    BY <1>2, <1>8, <1>9
  <1>11. pc' = "delete 4"
    BY <1>1, <1>8, <1>10 DEF UpdateEight, Sql, Run
  <1> QED
    BY <1>1, <1>9, <1>11 DEF Script, ScriptAt

LEMMA FourDeleted ==
  ASSUME Script, DeleteFour
  PROVE  Script' /\ pc' = "stop"
  <1> DEFINE t == Deleted(table, 4)
  <1>1. pc = "delete 4" /\ table' = t
    BY DEF DeleteFour, Sql, Run
  <1>2. table \in TableType /\ table.format = 3
    BY <1>1 DEF Script, ScriptAt, Statements, Lab
  <1>3. /\ OneMore(table, t, Rows(t))
        /\ t.vectors = table.vectors \union {4}
        /\ DOMAIN Rows(t) = DOMAIN Rows(table) \ {4}
    <2>1. 4 \in Id
      BY DEF Id
    <2> QED
      BY <1>2, <2>1, DeletedIs
  <1> HIDE DEF t
  <1>4. t \in TableType /\ 4 \notin DOMAIN Rows(t) /\ t.vectors # {}
    BY <1>3 DEF OneMore
  <1>5. pc' = "stop"
    BY <1>1, <1>4 DEF DeleteFour, Sql, Run
  <1> QED
    BY <1>1, <1>4, <1>5 DEF Script, ScriptAt

-----------------------------------------------------------------------------
(* The table and its directory.  Remains without a table are what a torn
   removal leaves, and a run without --keep comes to CREATE TABLE with none. *)

Orders ==
  /\ table \in TableType \union {None}
  /\ table # None => "orders" \in entries
  /\ table = None /\ "orders" \in entries => torn \/ pc = "rmtree"
  /\ pc \in {"mkdir", "touch", "create table"} /\ ~keep => "orders" \notin entries
  /\ pc = "empty" => kind # "file"
  /\ listed \subseteq entries

Simple ==
  /\ outcome \in {"none", "refused", "OSError", "failed", "passed", "crashed"}
  /\ keep \in BOOLEAN /\ protected \in BOOLEAN
  /\ listed \subseteq Entry
  /\ first \in Nat /\ runs \in 0 .. MaxRuns /\ puts \in 0 .. MaxPuts
  /\ pc # "rmtree" => listed = {}

Whole == IInv /\ Orders /\ Simple /\ Script /\ AssertionsHold

LEMMA NewTableIs == NewTable \in TableType
  <1>1. NewTable.fields \in
          [{"id", "customer", "status", "amount", "ordered_at"} -> Nat]
    BY DEF NewTable
  <1>2. {"id", "customer", "status", "amount", "ordered_at"} \in SUBSET Column
    BY DEF Column
  <1>3. NewTable.fields \in UNION {[cs -> Nat] : cs \in SUBSET Column}
    BY <1>1, <1>2
  <1> QED
    BY <1>3 DEF NewTable, TableType

LEMMA InitWhole == Init => Whole
  <1> SUFFICES ASSUME Init PROVE Whole
    OBVIOUS
  <1>1. /\ pc = "idle" /\ outcome = "none" /\ table = None /\ listed = {}
        /\ "orders" \notin entries
    BY DEF Init
  <1>2. Simple
    <2>1. 0 \in 0 .. MaxRuns /\ 0 \in 0 .. MaxPuts
      BY BoundAssumption
    <2> QED
      BY <2>1 DEF Init, Simple
  <1>3. Script
    BY <1>1 DEF Script, ScriptAt, Statements, Lab
  <1>4. Orders /\ AssertionsHold
    BY <1>1 DEF Orders, AssertionsHold
  <1> QED
    BY <1>2, <1>3, <1>4, InitIInv DEF Whole

(* Outside the statements the script asks for nothing, so a step that stays
   there keeps Script. *)
LEMMA OffScript ==
  ASSUME pc' \notin Statements
  PROVE  Script'
  BY DEF Script, ScriptAt, Statements, Lab

LEMMA OnScript ==
  ASSUME Script, UNCHANGED <<pc, table, first, seen>>
  PROVE  Script'
  <1>1. pc' = pc /\ table' = table /\ first' = first /\ seen' = seen
    OBVIOUS
  <1> QED
    BY <1>1 DEF Script

(* The other program, and main() around the statements. *)
LEMMA PutWhole == Whole /\ Put => Orders' /\ Simple' /\ Script' /\ AssertionsHold'
  <1> SUFFICES ASSUME Whole, Put
               PROVE  Orders' /\ Simple' /\ Script' /\ AssertionsHold'
    OBVIOUS
  <1>1. /\ UNCHANGED <<pc, outcome, keep, protected, listed, table, first, seen,
                       runs, torn>>
        /\ kind # "file" /\ kind' = "directory"
        /\ entries \subseteq entries'
        /\ "orders" \in entries' <=> "orders" \in entries
        /\ puts < MaxPuts /\ puts' = puts + 1
    BY DEF Put, lab
  <1>2. Orders'
    BY <1>1 DEF Whole, Orders
  <1>3. Simple'
    BY <1>1, BoundAssumption DEF Whole, Simple
  <1>4. Script' /\ AssertionsHold'
    BY <1>1, OnScript DEF Whole, AssertionsHold
  <1> QED
    BY <1>2, <1>3, <1>4

LEMMA StartWhole ==
  Whole /\ Start => Orders' /\ Simple' /\ Script' /\ AssertionsHold'
  <1> SUFFICES ASSUME Whole, Start
               PROVE  Orders' /\ Simple' /\ Script' /\ AssertionsHold'
    OBVIOUS
  <1>1. /\ pc = "idle" /\ pc' = "guard" /\ outcome' = "none" /\ keep' \in BOOLEAN
        /\ runs < MaxRuns /\ runs' = runs + 1
        /\ UNCHANGED <<protected, kind, entries, listed, table, first, seen,
                       puts, torn>>
    BY DEF Start, directory, lab, history
  <1>2. Orders' /\ AssertionsHold'
    BY <1>1 DEF Whole, Orders, AssertionsHold
  <1>3. Simple'
    BY <1>1, BoundAssumption DEF Whole, Simple
  <1>4. Script'
    BY <1>1, OffScript DEF Statements, Lab
  <1> QED
    BY <1>2, <1>3, <1>4

LEMMA GuardWhole ==
  Whole /\ Guard => Orders' /\ Simple' /\ Script' /\ AssertionsHold'
  <1> SUFFICES ASSUME Whole, Guard
               PROVE  Orders' /\ Simple' /\ Script' /\ AssertionsHold'
    OBVIOUS
  <1>1. /\ pc = "guard"
        /\ \/ pc' = "empty" /\ outcome' = outcome /\ kind # "file"
           \/ pc' = "idle" /\ outcome' = "refused"
        /\ UNCHANGED <<keep, protected, kind, entries, listed, table, first,
                       seen, runs, puts, torn>>
    BY DEF Guard, Acceptable, Stop, directory, lab, counters, history
  <1>2. Orders' /\ AssertionsHold'
    BY <1>1 DEF Whole, Orders, AssertionsHold
  <1>3. Simple'
    BY <1>1 DEF Whole, Simple
  <1>4. Script'
    BY <1>1, OffScript DEF Statements, Lab
  <1> QED
    BY <1>2, <1>3, <1>4

LEMMA StartEmptyingWhole ==
  Whole /\ StartEmptying => Orders' /\ Simple' /\ Script' /\ AssertionsHold'
  <1> SUFFICES ASSUME Whole, StartEmptying
               PROVE  Orders' /\ Simple' /\ Script' /\ AssertionsHold'
    OBVIOUS
  <1>1. /\ pc = "empty"
        /\ \/ pc' = "rmtree" /\ listed' = entries
           \/ pc' = "mkdir" /\ listed' = listed /\ (kind # "directory" \/ keep)
        /\ UNCHANGED <<outcome, keep, protected, kind, entries, table, first,
                       seen, runs, puts, torn>>
    BY DEF StartEmptying, lab, counters, history, Whole, Simple
  <1>2. kind # "directory" => entries = {}
    BY DEF Whole, IInv, Places
  <1>3. entries \subseteq Entry
    BY DEF Whole, IInv, Places
  <1>4. Orders' /\ AssertionsHold'
    BY <1>1, <1>2 DEF Whole, Orders, AssertionsHold
  <1>5. Simple'
    BY <1>1, <1>3 DEF Whole, Simple
  <1>6. Script'
    BY <1>1, OffScript DEF Statements, Lab
  <1> QED
    BY <1>4, <1>5, <1>6

LEMMA RemoveWhole ==
  ASSUME Whole, TearTable \/ (\E e \in Entry : RemoveEntry(e)) \/ RemoveDirectory
  PROVE  Orders' /\ Simple' /\ Script' /\ AssertionsHold'
  <1>1. CASE TearTable
    <2>1. /\ pc = "rmtree" /\ pc' = pc /\ table' = None
          /\ UNCHANGED <<outcome, keep, protected, kind, entries, listed, first,
                         seen, runs, puts, torn>>
      BY <1>1 DEF TearTable, directory, counters, history
    <2>2. Orders' /\ AssertionsHold'
      BY <2>1 DEF Whole, Orders, AssertionsHold
    <2>3. Simple'
      BY <2>1 DEF Whole, Simple
    <2>4. Script'
      BY <2>1, OffScript DEF Statements, Lab
    <2> QED
      BY <2>2, <2>3, <2>4
  <1>2. ASSUME NEW e \in Entry, RemoveEntry(e)
        PROVE  Orders' /\ Simple' /\ Script' /\ AssertionsHold'
    <2>1. /\ pc = "rmtree" /\ pc' = pc
          /\ e = "orders" => table = None
          /\ listed' = listed \ {e} /\ entries' = entries \ {e}
          /\ UNCHANGED <<outcome, keep, protected, kind, table, first, seen,
                         runs, puts, torn>>
      BY <1>2 DEF RemoveEntry, lab, counters
    <2>2. Orders' /\ AssertionsHold'
      BY <2>1 DEF Whole, Orders, AssertionsHold
    <2>3. Simple'
      BY <2>1 DEF Whole, Simple
    <2>4. Script'
      BY <2>1, OffScript DEF Statements, Lab
    <2> QED
      BY <2>2, <2>3, <2>4
  <1>3. CASE RemoveDirectory
    <2>1. /\ pc = "rmtree" /\ listed = {} /\ listed' = listed
          /\ \/ /\ entries = {} /\ pc' = "mkdir"
                /\ outcome' = outcome /\ torn' = torn
             \/ pc' = "idle" /\ outcome' = "OSError" /\ torn' = TRUE
          /\ UNCHANGED <<keep, protected, entries, table, first, seen, runs,
                         puts>>
      BY <1>3 DEF RemoveDirectory, Stop, lab, counters
    <2>2. Orders' /\ AssertionsHold'
      BY <2>1 DEF Whole, Orders, AssertionsHold
    <2>3. Simple'
      BY <2>1 DEF Whole, Simple
    <2>4. Script'
      BY <2>1, OffScript DEF Statements, Lab
    <2> QED
      BY <2>2, <2>3, <2>4
  <1> QED
    BY <1>1, <1>2, <1>3

LEMMA MarkWhole ==
  ASSUME Whole, mkdir \/ touch
  PROVE  Orders' /\ Simple' /\ Script' /\ AssertionsHold'
  <1>1. /\ \/ pc = "mkdir" /\ pc' = "touch"
           \/ pc = "touch" /\ pc' = "create table"
        /\ entries \subseteq entries'
        /\ "orders" \in entries' <=> "orders" \in entries
        /\ UNCHANGED <<outcome, keep, protected, listed, table, first, seen,
                       runs, puts, torn>>
    BY DEF mkdir, touch, lab, counters, history
  <1>2. Orders' /\ AssertionsHold'
    BY <1>1 DEF Whole, Orders, AssertionsHold
  <1>3. Simple'
    BY <1>1 DEF Whole, Simple
  <1>4. Script'
    BY <1>1, OffScript DEF Statements, Lab
  <1> QED
    BY <1>2, <1>3, <1>4

LEMMA EndWhole ==
  ASSUME Whole, Finish \/ Crash
  PROVE  Orders' /\ Simple' /\ Script' /\ AssertionsHold'
  <1>1. /\ pc' = "idle" /\ outcome' \in {"passed", "crashed"}
        /\ (torn \/ pc = "rmtree" => torn') /\ listed' = {}
        /\ UNCHANGED <<keep, protected, kind, entries, table, first, seen,
                       runs, puts>>
    <2>1. CASE Finish
      BY <2>1 DEF Finish, Stop, directory, lab, counters, history, Whole, Simple
    <2>2. CASE Crash
      BY <2>2 DEF Crash, Stop, lab, counters
    <2> QED
      BY <2>1, <2>2
  <1>2. Orders' /\ AssertionsHold'
    BY <1>1 DEF Whole, Orders, AssertionsHold
  <1>3. Simple'
    BY <1>1 DEF Whole, Simple
  <1>4. Script'
    BY <1>1, OffScript DEF Statements, Lab
  <1> QED
    BY <1>2, <1>3, <1>4

(* DROP and CREATE fail only over remains, which the run then met with --keep. *)
LEMMA CreateTableWhole ==
  Whole /\ CreateTable => Orders' /\ Simple' /\ Script' /\ AssertionsHold'
  <1> SUFFICES ASSUME Whole, CreateTable
               PROVE  Orders' /\ Simple' /\ Script' /\ AssertionsHold'
    OBVIOUS
  <1>1. /\ pc = "create table"
        /\ entries' = entries \union {"orders"}
        /\ \/ table' = NewTable /\ pc' = "insert 1" /\ outcome' = outcome
           \/ /\ "orders" \in entries /\ table = None
              /\ table' = None /\ pc' = "idle" /\ outcome' = "failed"
        /\ UNCHANGED <<keep, protected, kind, listed, first, seen, runs,
                       puts, torn>>
    BY DEF CreateTable, Run, Stop, counters, history
  <1>2. NewTable \in TableType /\ NewTable # None
    BY NewTableIs, NoneAssumption
  <1>3. Orders' /\ AssertionsHold'
    BY <1>1, <1>2 DEF Whole, Orders, AssertionsHold
  <1>4. Simple'
    BY <1>1 DEF Whole, Simple
  <1>5. CASE pc' = "insert 1"
    <2>1. table' = NewTable
      BY <1>1, <1>5
    <2>2. Script'
      BY <1>2, <1>5, <2>1 DEF Script, ScriptAt
    <2> QED
      BY <1>3, <1>4, <2>2
  <1>6. CASE pc' = "idle"
    BY <1>3, <1>4, <1>6, OffScript DEF Statements, Lab
  <1> QED
    BY <1>1, <1>5, <1>6

(* Every other statement succeeds. *)
LEMMA SqlWhole ==
  ASSUME Whole, NEW at \in Statements, NEW next \in Statements, NEW t, NEW holds,
         Sql(at, next, t, holds), Script', pc' = next, first' \in Nat
  PROVE  Orders' /\ Simple' /\ Script' /\ AssertionsHold'
  <1>1. /\ pc = at /\ next # "idle"
        /\ UNCHANGED <<keep, protected, kind, entries, listed, runs, puts, torn>>
    BY DEF Sql, Run, counters, history, Statements, Lab
  <1>2. outcome' = outcome
    BY <1>1 DEF Sql, Run, Stop
  <1>3. /\ table \in TableType /\ table' \in TableType
        /\ table # None /\ table' # None
        /\ "orders" \in entries
    BY <1>1, NoneAssumption DEF Whole, Orders, Script, ScriptAt
  <1>4. Orders'
    BY <1>1, <1>3 DEF Whole, Orders, Statements, Lab
  <1>5. Simple' /\ AssertionsHold'
    BY <1>1, <1>2 DEF Whole, Simple, AssertionsHold, Statements, Lab
  <1> QED
    BY <1>4, <1>5

LEMMA StatementWhole ==
  ASSUME Whole, ~CreateTable, run_v2_lab \/ run_v3_lab
  PROVE  Orders' /\ Simple' /\ Script' /\ AssertionsHold'
  <1> USE DEF Statements, Lab
  <1>1. Script /\ first \in Nat
    BY DEF Whole, Simple
  <1>2. CASE InsertFirst
    <2>1. Script' /\ pc' = "insert 4"
      BY <1>1, <1>2, FirstInsert
    <2>2. first' = 1
      BY <2>1, Zenon DEF Script, ScriptAt
    <2> QED
      <3>1. first' \in Nat
        BY <2>2
      <3> QED
        BY <1>2, <2>1, <3>1, SqlWhole DEF InsertFirst
  <1>3. CASE InsertMore
    BY <1>1, <1>3, MoreInserted, SqlWhole DEF InsertMore
  <1>4. CASE UpdateOne
    BY <1>1, <1>4, OneUpdated, SqlWhole DEF UpdateOne
  <1>5. CASE DeleteTwo
    BY <1>1, <1>5, TwoDeleted, SqlWhole DEF DeleteTwo
  <1>6. CASE Merge
    <2>1. \E t, holds : Sql("merge", "rename", t, holds)
      BY <1>6 DEF Merge
    <2>2. Script' /\ pc' = "rename" /\ first' \in Nat
      BY <1>1, <1>6, Merged DEF Merge
    <2> QED
      BY <2>1, <2>2, SqlWhole
  <1>7. CASE RenameAmount
    BY <1>1, <1>7, AmountRenamed, SqlWhole DEF RenameAmount
  <1>8. CASE AddPartitionField
    BY <1>1, <1>8, FieldAdded, SqlWhole DEF AddPartitionField
  <1>9. CASE InsertSeven
    BY <1>1, <1>9, SevenInserted, SqlWhole DEF InsertSeven
  <1>10. CASE SetFormat
    BY <1>1, <1>10, FormatSet, SqlWhole DEF SetFormat
  <1>11. CASE InsertEight
    BY <1>1, <1>11, EightInserted, SqlWhole DEF InsertEight
  <1>12. CASE UpdateEight
    BY <1>1, <1>12, EightUpdated, SqlWhole DEF UpdateEight
  <1>13. CASE DeleteFour
    BY <1>1, <1>13, FourDeleted, SqlWhole DEF DeleteFour
  <1> QED
    BY <1>2, <1>3, <1>4, <1>5, <1>6, <1>7, <1>8, <1>9, <1>10, <1>11, <1>12,
       <1>13 DEF run_v2_lab, run_v3_lab

LEMMA NextWhole == Whole /\ [Next]_vars => Whole'
  <1> SUFFICES ASSUME Whole, [Next]_vars PROVE Whole'
    OBVIOUS
  <1>1. IInv'
    BY NextIInv DEF Whole
  <1>2. CASE UNCHANGED vars
    <2>1. UNCHANGED <<pc, outcome, keep, protected, kind, entries, listed, table,
                      first, seen, runs, puts, torn>>
      BY <1>2 DEF vars, directory, lab, counters, history
    <2>2. Orders' /\ Simple' /\ AssertionsHold'
      BY <2>1 DEF Whole, Orders, Simple, AssertionsHold
    <2> QED
      BY <1>1, <2>1, <2>2, OnScript DEF Whole
  <1>3. CASE Next
    <2>1. Orders' /\ Simple' /\ Script' /\ AssertionsHold'
      <3>1. CASE main
        BY <3>1, StartWhole, GuardWhole, StartEmptyingWhole, RemoveWhole,
           MarkWhole DEF main
      <3>2. CASE run_v2_lab \/ run_v3_lab
        BY <3>2, CreateTableWhole, StatementWhole
      <3> QED
        BY <1>3, <3>1, <3>2, EndWhole, PutWhole DEF Next
    <2> QED
      BY <1>1, <2>1 DEF Whole
  <1> QED
    BY <1>2, <1>3

LEMMA WholeInvariance == Spec => []Whole
  BY InitWhole, NextWhole, PTL DEF Spec

(* Every variable keeps its type, the rows of every snapshot included. *)
THEOREM TypeCorrect == Spec => []TypeOK
  <1>1. Whole => TypeOK
    <2> SUFFICES ASSUME Whole PROVE TypeOK
      OBVIOUS
    <2>1. ASSUME table # None
          PROVE  /\ table.format \in {2, 3}
                 /\ \A s \in Range(table.snapshots) : Range(s) \subseteq RowType
      <3>1. table \in TableType
        BY <2>1 DEF Whole, Orders
      <3>2. table.format \in {2, 3} /\ table.snapshots \in Seq(Snapshot)
        BY <3>1 DEF TableType
      <3>3. \A s \in Range(table.snapshots) : s \in Snapshot
        BY <3>2 DEF Range
      <3>4. \A s \in Snapshot : Range(s) \subseteq RowType
        BY SnapshotIs DEF Range
      <3> QED
        BY <3>2, <3>3, <3>4
    <2> QED
      BY <2>1 DEF TypeOK, Whole, IInv, Places, Lab, Orders, Simple
  <1> QED
    BY <1>1, WholeInvariance, PTL

(* A run that gets past the guard passes every assertion of both labs, over
   whatever an earlier run or a death left, unless --keep leaves it the remains
   of a table whose removal was cut short. *)
THEOREM AssertionsPass == Spec => []AssertionsHold
  <1>1. Whole => AssertionsHold
    BY DEF Whole
  <1> QED
    BY <1>1, WholeInvariance, PTL
=============================================================================
