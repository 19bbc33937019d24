------------------------------ MODULE TxStore ------------------------------
(***************************************************************************)
(* The store that mvcc_model.py and wal_recovery_model.py (both in         *)
(* learning/databases-query-engines/examples) describe from two sides: the *)
(* versions of one item and which of them a snapshot sees, and the page    *)
(* the item lies on with the log that brings it up to date after a crash.  *)
(*                                                                         *)
(* visible and recover are the code.  External: the transactions, which    *)
(* run side by side under first-updater-wins, log before they write, and   *)
(* commit or abort; and the buffer pool, which may write the page back at  *)
(* any time.  A crash leaves the page as it lies on disk and the log.      *)
(***************************************************************************)
EXTENDS Integers, FiniteSets

CONSTANTS Xid, MaxWrites, None

Initial == 0     (* the transaction, log position and value of the load *)

ASSUME XidAssumption ==
  Xid \subseteq Nat \ {Initial} /\ None \notin Xid /\ MaxWrites \in Nat

VARIABLES
  status, snapshot,   (* of each transaction              *)
  versions,           (* of the item: [value, creator, ended] *)
  wal,                (* [txid, lsn, value]               *)
  disk,               (* the page: [value, page_lsn]      *)
  expected            (* history: what each transaction has to read *)

vars == <<status, snapshot, versions, wal, disk, expected>>

Committed == {Initial} \union {x \in Xid : status[x] = "committed"}

Init ==
  /\ status = [x \in Xid |-> "none"]
  /\ snapshot = [x \in Xid |-> {}]
  /\ versions = {[value |-> Initial, creator |-> Initial, ended |-> None]}
  /\ wal = {} /\ disk = [value |-> Initial, page_lsn |-> Initial]
  /\ expected = [x \in Xid |-> None]

-----------------------------------------------------------------------------
(* mvcc_model.py *)

Sees(xid, x) == xid = x \/ xid \in snapshot[x]

(* Faulty: a version that anybody has ended is gone. *)
visible_if_not_ended(version, x) ==
  Sees(version.creator, x) /\ version.ended = None

visible(version, x) ==
  /\ Sees(version.creator, x)
  /\ version.ended = None \/ ~Sees(version.ended, x)

Seen(x) == {v \in versions : visible(v, x)}

-----------------------------------------------------------------------------
(* wal_recovery_model.py *)

Redo(page, record) == [value |-> record.value, page_lsn |-> record.lsn]

(* The records in the order of their positions, each applied if the page, as
   the records before it have left it, is older. *)
Redone(page, records) ==
  LET after[n \in 0 .. MaxWrites] ==
        IF n = 0 THEN page
        ELSE LET due == {r \in records :
                           r.lsn = n /\ r.lsn > after[n - 1].page_lsn}
             IN IF due = {} THEN after[n - 1]
                ELSE Redo(after[n - 1], CHOOSE r \in due : TRUE)
  IN after[MaxWrites]

(* Faulty: what has not been committed is applied too. *)
recover_all(page, records, committed) == Redone(page, records)

recover(page, records, committed) ==
  Redone(page, {r \in records : r.txid \in committed})

-----------------------------------------------------------------------------
(* Transactions and buffer pool, external *)

LastCommitted ==
  CHOOSE v \in {v.value : v \in {v \in versions : v.creator \in Committed}} :
    \A w \in versions : w.creator \in Committed => w.value <= v

(* Faulty: whatever is not in progress counts as committed. *)
BeginNotInProgress(x) ==
  /\ status[x] = "none"
  /\ status' = [status EXCEPT ![x] = "active"]
  /\ snapshot' = [snapshot EXCEPT ![x] =
       Committed \union {y \in Xid : status[y] = "aborted"}]
  /\ expected' = [expected EXCEPT ![x] = LastCommitted]
  /\ UNCHANGED <<versions, wal, disk>>

Begin(x) ==
  /\ status[x] = "none"
  /\ status' = [status EXCEPT ![x] = "active"]
  /\ snapshot' = [snapshot EXCEPT ![x] = Committed]
  /\ expected' = [expected EXCEPT ![x] = LastCommitted]
  /\ UNCHANGED <<versions, wal, disk>>

(* A version is ended by one transaction that sees it, unless another one has
   done so and not aborted; the log gets the new value first. *)
Write(x) ==
  LET value == Cardinality(wal) + 1 IN
  /\ status[x] = "active" /\ value <= MaxWrites
  /\ \E v \in Seen(x) :
       /\ v.ended \in {None} \union {y \in Xid : status[y] = "aborted"}
       /\ versions' = (versions \ {v})
            \union {[v EXCEPT !.ended = x],
                    [value |-> value, creator |-> x, ended |-> None]}
  /\ wal' = wal \union {[txid |-> x, lsn |-> value, value |-> value]}
  /\ expected' = [expected EXCEPT ![x] = value]
  /\ UNCHANGED <<status, snapshot, disk>>

Finish(x, how) ==
  /\ status[x] = "active"
  /\ status' = [status EXCEPT ![x] = how]
  /\ UNCHANGED <<snapshot, versions, wal, disk, expected>>

(* The page in memory holds what was written last, committed or not. *)
WriteBack ==
  /\ \E r \in wal :
       /\ \A s \in wal : s.lsn <= r.lsn
       /\ disk' = Redo(disk, r)
  /\ UNCHANGED <<status, snapshot, versions, wal, expected>>

Next ==
  \/ \E x \in Xid :
       Begin(x) \/ Write(x) \/ Finish(x, "committed") \/ Finish(x, "aborted")
  \/ WriteBack

Spec == Init /\ [][Next]_vars
-----------------------------------------------------------------------------
(* Properties *)

(* As long as a transaction runs it sees exactly one version, and the same one
   as when it began unless it has written itself: whoever commits, aborts or
   ends versions beside it, and however often it writes. *)
SeesOneVersion ==
  \A x \in Xid : status[x] = "active" =>
    \E v \in versions : Seen(x) = {v} /\ v.value = expected[x]

(* The page on disk has a value that nobody committed and no committed record
   comes after. *)
Stolen ==
  LET above == {r \in wal : r.lsn >= disk.page_lsn} IN
  disk.page_lsn # Initial /\ \A r \in above : r.txid \notin Committed

(* A crash at any moment is recovered to the last committed value, and also
   when an earlier recovery was cut short after some of the records.  The one
   exception is exact: redo has nothing to take back a stolen page with. *)
RecoveryExact ==
  LET result == recover(disk, wal, Committed) IN
  /\ result.value = LastCommitted <=> ~Stolen
  /\ \A n \in 0 .. MaxWrites :
       recover(recover(disk, {r \in wal : r.lsn <= n}, Committed),
               wal, Committed) = result
=============================================================================
