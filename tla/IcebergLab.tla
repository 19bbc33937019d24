----------------------------- MODULE IcebergLab -----------------------------
(***************************************************************************)
(* learning/apache-iceberg/examples/iceberg_local_lab.py: main() looks at  *)
(* the warehouse directory, empties it unless --keep is given, marks it,   *)
(* and runs the v2 and v3 labs, whose assertions judge a table that each   *)
(* run drops and creates.  It is run again and again over one directory,   *)
(* may die between any two steps, and is not alone: another program may    *)
(* create the directory or put files into it.                              *)
(*                                                                         *)
(* External: Spark and Iceberg, whose statements each commit whole, add a  *)
(* snapshot when they change rows and never change an earlier one; and the *)
(* other program, which never creates the marker and removes nothing.      *)
(* Customers and order times are left out.                                 *)
(***************************************************************************)
EXTENDS Integers, Sequences, FiniteSets, Functions, SequencesExt

CONSTANTS
  MaxRuns,   (* how often the lab is started                *)
  MaxPuts,   (* how often the other program writes a file   *)
  None

ASSUME BoundAssumption == MaxRuns \in Nat /\ MaxPuts \in Nat

VARIABLES
  pc, outcome,   (* "none" while a run is under way                        *)
  keep,          (* --keep                                                 *)
  protected,     (* the path is /, the home or the current directory       *)
  kind, entries, (* of the warehouse path, and what the directory holds    *)
  listed,        (* rmtree: what it found and has not removed              *)
  table,         (* local.lab.orders as Iceberg loads it, or None          *)
  first,         (* first_snapshot                                         *)
  seen,          (* what a run read from the table to compare it later     *)
  runs, puts,
  (* history *)
  inWindow,      (* the other program wrote where the guard did not look   *)
  torn,          (* a run ended inside rmtree, by a crash or an OSError      *)
  lost           (* a file was removed that lay in an unmarked directory   *)

directory == <<kind, entries, listed>>
lab == <<table, first, seen>>
counters == <<runs, puts>>
history == <<inWindow, torn, lost>>
vars == <<pc, outcome, keep, protected, directory, lab, counters, history>>

(* "theirs" came into an unmarked directory, "guest" into a marked one;
   "orders" is the directory of the table. *)
Entry == {"marker", "orders", "theirs", "guest"}

Init ==
  /\ pc = "idle" /\ outcome = "none" /\ keep = FALSE
  /\ protected \in BOOLEAN
  /\ \/ kind \in {"absent", "file", "directory"} /\ entries = {}
     \/ kind = "directory" /\ entries = {"theirs"}
  /\ listed = {}
  /\ table = None /\ first = 0 /\ seen = None
  /\ runs = 0 /\ puts = 0
  /\ inWindow = FALSE /\ torn = FALSE /\ lost = FALSE

Stop(how) == pc' = "idle" /\ outcome' = how

-----------------------------------------------------------------------------
(* The other program *)

Put ==
  /\ puts < MaxPuts /\ kind # "file"
  /\ kind' = "directory"
  /\ entries' = entries \union
       {IF "marker" \in entries THEN "guest" ELSE "theirs"}
  /\ puts' = puts + 1
  /\ inWindow' = \/ inWindow
                 \/ /\ pc \in {"empty", "mkdir", "touch"}
                    /\ "marker" \notin entries
  /\ UNCHANGED <<pc, outcome, keep, protected, listed, lab, runs, torn, lost>>

-----------------------------------------------------------------------------
(* main() up to Spark *)

Start ==
  /\ pc = "idle" /\ runs < MaxRuns
  /\ pc' = "guard" /\ outcome' = "none"
  /\ keep' \in BOOLEAN
  /\ runs' = runs + 1
  /\ UNCHANGED <<protected, directory, lab, puts, history>>

(* Faulty: what a directory without marker holds is not looked at. *)
AcceptableIfDirectory == ~protected /\ kind # "file"

Acceptable ==
  /\ ~protected
  /\ \/ kind = "absent"
     \/ kind = "directory" /\ (entries = {} \/ "marker" \in entries)

(* Nothing the code reads here can change back before its last read. *)
Guard ==
  /\ pc = "guard"
  /\ IF Acceptable THEN pc' = "empty" /\ UNCHANGED outcome ELSE Stop("refused")
  /\ UNCHANGED <<keep, protected, directory, lab, counters, history>>

(* The second exists(), and the listing rmtree starts with. *)
StartEmptying ==
  /\ pc = "empty"
  /\ IF kind = "directory" /\ ~keep
     THEN pc' = "rmtree" /\ listed' = entries
     ELSE pc' = "mkdir" /\ UNCHANGED listed
  /\ UNCHANGED <<outcome, keep, protected, kind, entries, lab, counters,
                 history>>

(* Something inside the table's directory goes first. *)
TearTable ==
  /\ pc = "rmtree" /\ "orders" \in listed /\ table # None
  /\ table' = None
  /\ UNCHANGED <<pc, outcome, keep, protected, directory, first, seen,
                 counters, history>>

RemoveEntry(e) ==
  /\ pc = "rmtree" /\ e \in listed
  /\ e = "orders" => table = None
  /\ listed' = listed \ {e} /\ entries' = entries \ {e}
  /\ lost' = (lost \/ e = "theirs")
  /\ UNCHANGED <<pc, outcome, keep, protected, kind, lab, counters, inWindow,
                 torn>>

(* rmdir, which fails when something has come into the directory. *)
RemoveDirectory ==
  /\ pc = "rmtree" /\ listed = {}
  /\ IF entries = {}
     THEN pc' = "mkdir" /\ kind' = "absent" /\ UNCHANGED <<outcome, torn>>
     ELSE Stop("OSError") /\ torn' = TRUE /\ UNCHANGED kind
  /\ UNCHANGED <<keep, protected, entries, listed, lab, counters, inWindow,
                 lost>>

(* Faulty: the directory was made before it was emptied. *)
MkdirTooEarly ==
  /\ pc = "mkdir" /\ pc' = "touch"
  /\ UNCHANGED <<outcome, keep, protected, directory, lab, counters, history>>

mkdir ==
  /\ pc = "mkdir"
  /\ pc' = "touch" /\ kind' = "directory"
  /\ UNCHANGED <<outcome, keep, protected, entries, listed, lab, counters,
                 history>>

(* Faulty: the marker is left out. *)
TouchNothing ==
  /\ pc = "touch" /\ pc' = "create table"
  /\ UNCHANGED <<outcome, keep, protected, directory, lab, counters, history>>

touch ==
  /\ pc = "touch"
  /\ pc' = "create table"
  /\ entries' = entries \union {"marker"}
  /\ UNCHANGED <<outcome, keep, protected, kind, listed, lab, counters,
                 history>>

Crash ==
  /\ pc # "idle"
  /\ Stop("crashed")
  /\ torn' = (torn \/ pc = "rmtree") /\ listed' = {}
  /\ UNCHANGED <<keep, protected, kind, entries, lab, counters, inWindow,
                 lost>>

-----------------------------------------------------------------------------
(* The table, external *)

(* A row: its columns, the partition spec it was written under, and the
   lineage format 3 keeps (None before). *)
RowType ==
  [status : {"pending", "paid", "shipped"}, amount : Nat, spec : Nat,
   row_id : Nat \union {None}, updated : Nat \union {None}]

Id == 1 .. 8
Column == {"id", "customer", "status", "amount", "total_amount", "ordered_at"}

Snapshot == UNION {[ids -> RowType] : ids \in SUBSET Id}

TableType ==
  [format : {2, 3}, spec : Nat, snapshots : Seq(Snapshot), rowIds : Nat,
   vectors : SUBSET Id, fields : UNION {[cs -> Nat] : cs \in SUBSET Column}]

ASSUME NoneAssumption == None \notin Nat \union TableType

Rows(t) == IF t.snapshots = <<>> THEN <<>> ELSE Last(t.snapshots)

Commit(t, rows) == [t EXCEPT !.snapshots = Append(@, rows)]

NewRow(t, status, amount) ==
  [status |-> status, amount |-> amount, spec |-> t.spec,
   row_id |-> IF t.format = 3 THEN t.rowIds ELSE None,
   updated |-> IF t.format = 3 THEN Len(t.snapshots) + 1 ELSE None]

(* Values are a set of <<id, status, amount>>, one for an id. *)
Ids(values) == {v[1] : v \in values}

Written(t, values, id) ==
  LET v == CHOOSE w \in values : w[1] = id IN NewRow(t, v[2], v[3])

(* INSERT INTO *)
Inserted(t, values) ==
  [Commit(t, [id \in Ids(values) \union DOMAIN Rows(t) |->
                IF id \in Ids(values) THEN Written(t, values, id)
                ELSE Rows(t)[id]])
   EXCEPT !.rowIds = @ + Cardinality(values)]

(* UPDATE of some rows, merge on read: the row is deleted where it lies, which
   takes a deletion vector in format 3, and written under the current spec. *)
Updated(t, values) ==
  [Commit(t, [id \in DOMAIN Rows(t) |->
                IF id \notin Ids(values) THEN Rows(t)[id]
                ELSE [Written(t, values, id)
                      EXCEPT !.row_id = Rows(t)[id].row_id]])
   EXCEPT !.vectors = IF t.format = 3 THEN @ \union Ids(values) ELSE @]

Deleted(t, id) ==
  [Commit(t, Restrict(Rows(t), DOMAIN Rows(t) \ {id}))
   EXCEPT !.vectors = IF t.format = 3 THEN @ \union {id} ELSE @]

(* CREATE TABLE: field ids count from one. *)
NewTable ==
  [format |-> 2, spec |-> 0, snapshots |-> <<>>, rowIds |-> 0, vectors |-> {},
   fields |-> [id |-> 1, customer |-> 2, status |-> 3, amount |-> 4,
               ordered_at |-> 5]]

Renamed(t, old, new) ==
  [t EXCEPT !.fields = [f \in (DOMAIN @ \ {old}) \union {new} |->
                          IF f = new THEN @[old] ELSE @[f]]]

Statuses(t) == {<<id, Rows(t)[id].status>> : id \in DOMAIN Rows(t)}

Contents(t) ==
  {<<id, Rows(t)[id].status, Rows(t)[id].amount>> : id \in DOMAIN Rows(t)}

-----------------------------------------------------------------------------
(* run_v2_lab: one action per change, with the checks that follow it *)

Run(at, next, t, holds) ==
  /\ pc = at
  /\ table' = t
  /\ IF holds THEN pc' = next /\ UNCHANGED outcome ELSE Stop("failed")
  /\ UNCHANGED <<keep, protected, kind, listed, counters, history>>

(* Faulty: the table of an earlier run is not dropped. *)
CreateTableIfNotExists ==
  /\ entries' = entries \union {"orders"}
  /\ Run("create table", "insert 1", IF table = None THEN NewTable ELSE table,
         TRUE)
  /\ UNCHANGED <<first, seen>>

(* DROP TABLE IF EXISTS drops what Iceberg can load; creating a table where
   the remains of another one lie may fail. *)
CreateTable ==
  /\ entries' = entries \union {"orders"}
  /\ \E works \in BOOLEAN :
       /\ works \/ ("orders" \in entries /\ table = None)
       /\ Run("create table", "insert 1", IF works THEN NewTable ELSE None,
              works)
  /\ UNCHANGED <<first, seen>>

(* A statement and the assertions about what it leaves. *)
Sql(at, next, t, holds) == Run(at, next, t, holds) /\ UNCHANGED entries

InsertFirst ==
  /\ Sql("insert 1", "insert 4",
         Inserted(table, {<<1, "pending", 100>>, <<2, "pending", 200>>,
                          <<3, "paid", 150>>}),
         Statuses(table') =
           {<<1, "pending">>, <<2, "pending">>, <<3, "paid">>})
  /\ first' = Len(table'.snapshots)
  /\ UNCHANGED seen

InsertMore ==
  /\ Sql("insert 4", "update 1",
         Inserted(table, {<<4, "pending", 80>>, <<5, "paid", 300>>}), TRUE)
  /\ UNCHANGED <<first, seen>>

UpdateOne ==
  /\ Sql("update 1", "delete 2", Updated(table, {<<1, "paid", 110>>}), TRUE)
  /\ UNCHANGED <<first, seen>>

DeleteTwo ==
  /\ Sql("delete 2", "merge", Deleted(table, 2), TRUE)
  /\ UNCHANGED <<first, seen>>

(* MERGE INTO is one snapshot: the matched row and the new one. *)
Merge ==
  LET source == {<<3, "shipped", 175>>, <<6, "pending", 120>>}
      matched == {v \in source : v[1] \in DOMAIN Rows(table)}
      both == Inserted(Updated(table, matched), source \ matched)
      one == [both EXCEPT !.snapshots = Append(table.snapshots, Rows(both))]
  IN /\ Sql("merge", "rename", one,
            Contents(table') =
              {<<1, "paid", 110>>, <<3, "shipped", 175>>, <<4, "pending", 80>>,
               <<5, "paid", 300>>, <<6, "pending", 120>>})
     /\ UNCHANGED <<first, seen>>

RenameAmount ==
  /\ Sql("rename", "add field", Renamed(table, "amount", "total_amount"),
         /\ "amount" \notin DOMAIN table'.fields
         /\ table'.fields["total_amount"] = table.fields["amount"])
  /\ UNCHANGED <<first, seen>>

AddPartitionField ==
  /\ Sql("add field", "insert 7", [table EXCEPT !.spec = @ + 1], TRUE)
  /\ UNCHANGED <<first, seen>>

(* The rows lie in files of two specs, the first snapshot is what it was, and
   no snapshot is gone. *)
InsertSeven ==
  LET t == Inserted(table, {<<7, "paid", 70>>}) IN
  /\ Sql("insert 7", "format 3", t,
         /\ Cardinality({r.spec : r \in Range(Rows(t))}) >= 2
         /\ DOMAIN t.snapshots[first] = 1 .. 3
         /\ Len(t.snapshots) >= 6)
  /\ UNCHANGED <<first, seen>>

-----------------------------------------------------------------------------
(* run_v3_lab *)

SetFormat ==
  /\ Sql("format 3", "insert 8", [table EXCEPT !.format = 3],
         table'.format = 3)
  /\ UNCHANGED <<first, seen>>

InsertEight ==
  /\ Sql("insert 8", "update 8", Inserted(table, {<<8, "pending", 88>>}),
         Rows(table')[8].row_id # None /\ Rows(table')[8].updated # None)
  /\ seen' = Rows(table')[8]
  /\ UNCHANGED first

UpdateEight ==
  /\ Sql("update 8", "delete 4", Updated(table, {<<8, "paid", 88>>}),
         /\ Rows(table')[8].row_id = seen.row_id
         /\ Rows(table')[8].updated > seen.updated)
  /\ UNCHANGED <<first, seen>>

DeleteFour ==
  /\ Sql("delete 4", "stop", Deleted(table, 4),
         4 \notin DOMAIN Rows(table') /\ table'.vectors # {})
  /\ UNCHANGED <<first, seen>>

Finish ==
  /\ pc = "stop"
  /\ Stop("passed")
  /\ UNCHANGED <<keep, protected, directory, lab, counters, history>>

main ==
  \/ Start \/ Guard \/ StartEmptying \/ TearTable \/ \E e \in Entry : RemoveEntry(e)
  \/ RemoveDirectory \/ mkdir \/ touch

run_v2_lab ==
  \/ CreateTable \/ InsertFirst \/ InsertMore \/ UpdateOne \/ DeleteTwo \/ Merge
  \/ RenameAmount \/ AddPartitionField \/ InsertSeven

run_v3_lab == SetFormat \/ InsertEight \/ UpdateEight \/ DeleteFour

Next == main \/ run_v2_lab \/ run_v3_lab \/ Finish \/ Crash \/ Put

Spec == Init /\ [][Next]_vars

-----------------------------------------------------------------------------
(* Properties *)

TypeOK ==
  /\ pc \in {"idle", "guard", "empty", "rmtree", "mkdir", "touch",
             "create table", "insert 1", "insert 4", "update 1", "delete 2",
             "merge", "rename", "add field", "insert 7", "format 3",
             "insert 8", "update 8", "delete 4", "stop"}
  /\ outcome \in {"none", "refused", "OSError", "failed", "passed", "crashed"}
  /\ keep \in BOOLEAN /\ protected \in BOOLEAN
  /\ kind \in {"absent", "file", "directory"}
  /\ entries \subseteq Entry /\ listed \subseteq entries
  /\ kind # "directory" => entries = {}
  /\ table # None =>
       /\ "orders" \in entries
       /\ table.format \in {2, 3}
       /\ \A s \in Range(table.snapshots) : Range(s) \subseteq RowType
  /\ first \in Nat /\ runs \in 0 .. MaxRuns /\ puts \in 0 .. MaxPuts

(* What lay in a directory before the lab marked it is never removed, in
   whatever order runs die and the directory is made; files that another
   program wrote between the guard and the marker are left to the next
   property. *)
UnmarkedKept == ~inWindow => ~lost

(* The lab's guide, 09-local-lab.md:60: the default run empties only a
   directory that has the marker. *)
OnlyMarkedEmptied == ~lost

(* A run that gets past the guard passes every assertion, also over what an
   earlier run left: only the remains of a table that a run died removing,
   and that --keep leaves there, can fail it. *)
AssertionsHold == outcome = "failed" => keep /\ torn

(* The lab never locks itself out of its own directory: it refuses one that
   somebody else filled, or one whose removal was cut short after the marker
   had gone, which no later run can tell from the former. *)
RefusalExplained ==
  outcome = "refused" =>
    protected \/ kind = "file" \/ "theirs" \in entries \/ torn
=============================================================================
