--------------------------- MODULE TxStoreProofs ---------------------------
(***************************************************************************)
(* Proofs about TxStore for any transactions and any number of writes: a   *)
(* running transaction sees one version, the one it has to.                *)
(*                                                                         *)
(* A view is a set of transactions whose work is taken for done: that of a *)
(* running transaction is its snapshot and itself, and there is the view   *)
(* of everything committed so far.  Each shows one version (Views, Tip).   *)
(* What keeps the second one so when a transaction commits is that a       *)
(* running transaction that has written is the one that has ended the      *)
(* version the committed view shows, so that there is at most one of them, *)
(* and that the committed view together with it shows its last version     *)
(* (Writers).                                                              *)
(***************************************************************************)
EXTENDS TxStore, FiniteSetTheorems, NaturalsInduction, TLAPS

ShownOf(V, S) == {v \in V : v.creator \in S /\ (v.ended = None \/ v.ended \notin S)}

Shown(S) == ShownOf(versions, S)

Active(x) == status[x] = "active"

Wrote(x) == \E v \in versions : v.creator = x \/ v.ended = x

(* Every version and log record is older than the next one to come. *)
Typed ==
  /\ status \in [Xid -> {"none", "active", "committed", "aborted"}]
  /\ snapshot \in [Xid -> SUBSET Committed]
  /\ versions \subseteq [value : Nat, creator : Xid \union {Initial},
                          ended : Xid \union {None}]
  /\ expected \in [Xid -> Nat \union {None}]
  /\ IsFiniteSet(wal)
  /\ \A r \in wal : r.lsn \in Nat /\ r.lsn <= Cardinality(wal)
  /\ \A v \in versions : v.value <= Cardinality(wal)

(* Whoever has not begun has left no trace. *)
Fresh == \A x \in Xid : status[x] = "none" => ~ Wrote(x)

(* Version w is the last one that the transactions of S made. *)
Latest(w, S) ==
  /\ Shown(S) = {w}
  /\ \A v \in versions : v.creator \in S => v.value <= w.value

Tip == \E w \in versions : Latest(w, Committed)

Views ==
  \A x \in Xid : Active(x) =>
    \E w \in versions : Shown(snapshot[x] \union {x}) = {w} /\ w.value = expected[x]

Writers ==
  \A x \in Xid : Active(x) /\ Wrote(x) =>
    /\ \A w \in Shown(Committed) : w.ended = x
    /\ \E w \in versions : Latest(w, Committed \union {x})

IInv == Typed /\ Fresh /\ Tip /\ Views /\ Writers

-----------------------------------------------------------------------------
(* Views *)

(* In a view that has the writer, the new version takes the place of the one
   it ended. *)
LEMMA WriteWithin ==
  ASSUME NEW V, NEW S, NEW v \in V, NEW x \in S, x # None, NEW mark, NEW new,
         NEW W, W = (V \ {v}) \union {mark, new},
         mark.ended = x, new.creator = x, new.ended = None,
         ShownOf(V, S) \subseteq {v}
  PROVE  ShownOf(W, S) = {new}
  BY DEF ShownOf

LEMMA SeenShown == \A x \in Xid : Seen(x) = Shown(snapshot[x] \union {x})
  BY DEF Seen, visible, Sees, Shown, ShownOf

LEMMA LastIs ==
  ASSUME Typed, NEW w \in versions, Latest(w, Committed)
  PROVE  LastCommitted = w.value
  <1> DEFINE values == {v.value : v \in {v \in versions : v.creator \in Committed}}
             Newest(n) == \A v \in versions : v.creator \in Committed => v.value <= n
  <1>1. w.creator \in Committed
    BY DEF Latest, Shown, ShownOf
  <1>2. w.value \in values /\ Newest(w.value)
    BY <1>1 DEF Latest
  <1>3. \A n \in values : n \in Nat
    BY DEF Typed
  <1>4. ASSUME NEW n \in values, Newest(n) PROVE n = w.value
    <2>1. n <= w.value
      BY <1>2
    <2>2. w.value <= n
      BY <1>1, <1>4
    <2> QED
      BY <1>2, <1>3, <2>1, <2>2
  <1>5. LastCommitted = CHOOSE n \in values : Newest(n)
    BY DEF LastCommitted
  <1> HIDE DEF values, Newest
  <1> QED
    BY <1>2, <1>4, <1>5

-----------------------------------------------------------------------------
(* Init, Begin *)

LEMMA InitIInv == Init => IInv
  <1> SUFFICES ASSUME Init PROVE IInv
    OBVIOUS
  <1> DEFINE load == [value |-> Initial, creator |-> Initial, ended |-> None]
  <1>1. /\ versions = {load} /\ wal = {} /\ Committed = {Initial}
        /\ \A x \in Xid : status[x] = "none" /\ x # Initial
    BY XidAssumption DEF Init, Committed
  <1>2. Typed
    <2>1. IsFiniteSet(wal) /\ Cardinality(wal) = 0
      BY <1>1, FS_EmptySet
    <2> QED
      BY <1>1, <2>1 DEF Init, Typed, Initial
  <1>3. Fresh
    BY <1>1, XidAssumption DEF Fresh, Wrote
  <1>4. Latest(load, Committed)
    BY <1>1 DEF Latest, Shown, ShownOf, Initial
  <1>5. Tip /\ Views /\ Writers
    BY <1>1, <1>4 DEF Tip, Views, Writers, Active
  <1> QED
    BY <1>2, <1>3, <1>5 DEF IInv

LEMMA BeginIInv ==
  ASSUME IInv, NEW x \in Xid, Begin(x)
  PROVE  IInv'
  <1> USE DEF IInv
  <1>1. /\ versions' = versions /\ wal' = wal /\ Committed' = Committed
        /\ status[x] = "none" /\ ~ Wrote(x)
        /\ status'[x] = "active" /\ snapshot'[x] = Committed
        /\ expected'[x] = LastCommitted
        /\ \A y \in Xid : y # x => /\ status'[y] = status[y]
                                   /\ snapshot'[y] = snapshot[y]
                                   /\ expected'[y] = expected[y]
    BY DEF Begin, Typed, Committed, Fresh
  <1>2. PICK w \in versions : Latest(w, Committed)
    BY DEF Tip
  <1>3. w.value = LastCommitted /\ w.value \in Nat
    BY <1>2, LastIs DEF Typed
  <1>4. Typed'
    <2>1. snapshot' \in [Xid -> SUBSET Committed']
      BY <1>1 DEF Begin, Typed
    <2>2. status' \in [Xid -> {"none", "active", "committed", "aborted"}]
      BY DEF Begin, Typed
    <2>3. expected' \in [Xid -> Nat \union {None}]
      BY <1>3 DEF Begin, Typed
    <2> QED
      BY <1>1, <2>1, <2>2, <2>3 DEF Typed
  <1>5. Fresh'
    BY <1>1 DEF Fresh, Wrote
  <1>6. Tip'
    BY <1>1, <1>2 DEF Tip, Latest, Shown
  <1>7. Views'
    <2> SUFFICES ASSUME NEW y \in Xid, status'[y] = "active"
                 PROVE  \E u \in versions : /\ ShownOf(versions, snapshot'[y] \union {y}) = {u}
                                            /\ u.value = expected'[y]
      BY <1>1 DEF Views, Active, Shown
    <2>1. CASE y = x
      <3>1. ShownOf(versions, Committed \union {x}) = ShownOf(versions, Committed)
        BY <1>1 DEF ShownOf, Wrote
      <3>2. ShownOf(versions, Committed) = {w}
        BY <1>2 DEF Latest, Shown
      <3> QED
        BY <1>1, <1>3, <2>1, <3>1, <3>2
    <2>2. CASE y # x
      BY <1>1, <2>2 DEF Views, Active, Shown
    <2> QED
      BY <2>1, <2>2
  <1>8. Writers'
    <2>1. \A y \in Xid : status'[y] = "active" /\ Wrote(y) => Active(y)
      BY <1>1 DEF Active
    <2> QED
      BY <1>1, <2>1 DEF Writers, Wrote, Active, Latest, Shown
  <1> QED
    BY <1>4, <1>5, <1>6, <1>7, <1>8

-----------------------------------------------------------------------------
(* Finish *)

LEMMA AbortIInv ==
  ASSUME IInv, NEW x \in Xid, Finish(x, "aborted")
  PROVE  IInv'
  <1> USE DEF IInv
  <1>1. /\ versions' = versions /\ wal' = wal /\ snapshot' = snapshot
        /\ expected' = expected
        /\ status[x] = "active" /\ status'[x] = "aborted"
        /\ \A y \in Xid : y # x => status'[y] = status[y]
    BY DEF Finish, Typed
  <1>2. Committed' = Committed
    BY <1>1 DEF Committed
  <1>3. Typed'
    <2>1. status' \in [Xid -> {"none", "active", "committed", "aborted"}]
      BY DEF Finish, Typed
    <2> QED
      BY <1>1, <1>2, <2>1 DEF Typed
  <1>4. \A y \in Xid : Active(y)' => Active(y)
    BY <1>1 DEF Active
  <1>5. Fresh'
    BY <1>1 DEF Fresh, Wrote
  <1>6. Tip'
    BY <1>1, <1>2 DEF Tip, Latest, Shown
  <1>7. Views'
    BY <1>1, <1>4 DEF Views, Shown
  <1>8. Writers'
    BY <1>1, <1>2, <1>4 DEF Writers, Wrote, Latest, Shown
  <1> QED
    BY <1>3, <1>5, <1>6, <1>7, <1>8

LEMMA CommitIInv ==
  ASSUME IInv, NEW x \in Xid, Finish(x, "committed")
  PROVE  IInv'
  <1> USE DEF IInv
  <1>1. /\ versions' = versions /\ wal' = wal /\ snapshot' = snapshot
        /\ expected' = expected
        /\ status[x] = "active" /\ status'[x] = "committed"
        /\ \A y \in Xid : y # x => status'[y] = status[y]
    BY DEF Finish, Typed
  <1>2. Committed' = Committed \union {x}
    BY <1>1 DEF Committed
  <1>3. Typed'
    <2>1. status' \in [Xid -> {"none", "active", "committed", "aborted"}]
      BY DEF Finish, Typed
    <2>2. snapshot' \in [Xid -> SUBSET Committed']
      BY <1>1, <1>2 DEF Typed
    <2> QED
      BY <1>1, <2>1, <2>2 DEF Typed
  <1>4. \A y \in Xid : Active(y)' => Active(y) /\ y # x
    BY <1>1 DEF Active
  <1>5. Fresh'
    BY <1>1 DEF Fresh, Wrote
  <1>6. Views'
    BY <1>1, <1>4 DEF Views, Shown
  <1>7. CASE Wrote(x)
    <2>1. /\ \A w \in Shown(Committed) : w.ended = x
          /\ \E w \in versions : Latest(w, Committed \union {x})
      BY <1>1, <1>7 DEF Writers, Active
    <2>2. Tip'
      BY <1>1, <1>2, <2>1 DEF Tip, Latest, Shown
    <2>3. Shown(Committed) # {}
      BY DEF Tip, Latest
    <2>4. ASSUME NEW y \in Xid, Active(y)' PROVE ~ Wrote(y)
      <3>1. Wrote(y) => \A w \in Shown(Committed) : w.ended = y
        BY <1>4, <2>4 DEF Writers
      <3> QED
        BY <1>4, <2>1, <2>3, <2>4, <3>1
    <2>5. Writers'
      BY <1>1, <2>4 DEF Writers, Wrote
    <2> QED
      BY <1>3, <1>5, <1>6, <2>2, <2>5
  <1>8. CASE ~ Wrote(x)
    <2>1. \A S : ShownOf(versions, S \union {x}) = ShownOf(versions, S)
      BY <1>8 DEF ShownOf, Wrote
    <2>2. \A S, w : Latest(w, S) => Latest(w, S \union {x})
      BY <1>8, <2>1 DEF Latest, Shown, Wrote
    <2>3. Tip'
      BY <1>1, <1>2, <2>2 DEF Tip, Latest, Shown
    <2>4. Writers'
      <3> SUFFICES ASSUME NEW y \in Xid, Active(y)', Wrote(y)
                   PROVE  /\ \A w \in Shown(Committed \union {x}) : w.ended = y
                          /\ \E w \in versions : Latest(w, (Committed \union {x}) \union {y})
        BY <1>1, <1>2 DEF Writers, Wrote, Latest, Shown
      <3>1. /\ \A w \in Shown(Committed) : w.ended = y
            /\ \E w \in versions : Latest(w, Committed \union {y})
        BY <1>4 DEF Writers
      <3>2. (Committed \union {x}) \union {y} = (Committed \union {y}) \union {x}
        OBVIOUS
      <3> QED
        BY <2>1, <2>2, <3>1, <3>2 DEF Shown
    <2> QED
      BY <1>3, <1>5, <1>6, <2>3, <2>4
  <1> QED
    BY <1>7, <1>8

-----------------------------------------------------------------------------
(* Write *)

LEMMA WriteIInv ==
  ASSUME IInv, NEW x \in Xid, Write(x)
  PROVE  IInv'
  <1> USE DEF IInv
  <1> DEFINE value == Cardinality(wal) + 1
             new == [value |-> value, creator |-> x, ended |-> None]
             record == [txid |-> x, lsn |-> value, value |-> value]
  <1>1. PICK v \in Seen(x) :
          /\ v.ended \in {None} \union {y \in Xid : status[y] = "aborted"}
          /\ versions' = (versions \ {v}) \union {[v EXCEPT !.ended = x], new}
    BY DEF Write
  <1> DEFINE mark == [v EXCEPT !.ended = x]
             after == (versions \ {v}) \union {mark, new}
  <1>2. /\ status[x] = "active" /\ status' = status /\ snapshot' = snapshot
        /\ wal' = wal \union {record} /\ expected'[x] = value
        /\ \A y \in Xid : y # x => expected'[y] = expected[y]
        /\ Committed' = Committed
    BY DEF Write, Typed, Committed
  <1>3. /\ v \in versions /\ v.value \in Nat /\ v.creator \in Xid \union {Initial}
        /\ v = [value |-> v.value, creator |-> v.creator, ended |-> v.ended]
        /\ v.ended \in Xid \union {None}
    BY <1>1 DEF Seen, Typed
  <1>4. /\ mark = [value |-> v.value, creator |-> v.creator, ended |-> x]
        /\ mark.value = v.value /\ mark.creator = v.creator /\ mark.ended = x
        /\ new.value = value /\ new.creator = x /\ new.ended = None
    BY <1>3
  <1>5. Cardinality(wal) \in Nat /\ value \in Nat
    BY FS_CardinalityType DEF Typed
  <1>6. x # None /\ x # Initial /\ x \notin Committed
    BY <1>2, XidAssumption DEF Committed
  <1>7. versions' = after
    BY <1>1
  <1> HIDE DEF mark, new, value
  <1>8. \A u \in versions : u.value \in Nat /\ u.value < value /\ u.value <= value
    BY <1>5 DEF Typed, value
  <1>9. Typed'
    <2>1. versions' \subseteq [value : Nat, creator : Xid \union {Initial},
                                ended : Xid \union {None}]
      BY <1>3, <1>4, <1>5, <1>7 DEF Typed, new
    <2>2. IsFiniteSet(wal') /\ Cardinality(wal') = value
      <3>1. record \notin wal
        BY <1>5 DEF Typed, value
      <3> QED
        BY <1>2, <3>1, FS_AddElement DEF Typed, value
    <2>3. \A r \in wal' : r.lsn \in Nat /\ r.lsn <= Cardinality(wal')
      <3>1. \A r \in wal : r.lsn \in Nat /\ r.lsn <= value
        BY <1>5 DEF Typed, value
      <3> QED
        BY <1>2, <1>5, <2>2, <3>1
    <2>4. \A u \in versions' : u.value <= Cardinality(wal')
      BY <1>3, <1>4, <1>5, <1>7, <1>8, <2>2
    <2>5. expected' \in [Xid -> Nat \union {None}]
      <3>1. expected' = [expected EXCEPT ![x] = value]
        BY DEF Write, value
      <3> QED
        BY <1>5, <3>1 DEF Typed
    <2> QED
      BY <1>2, <2>1, <2>2, <2>3, <2>4, <2>5 DEF Typed
  <1>10. ASSUME NEW y \in Xid, y # x, Wrote(y)' PROVE Wrote(y)
    <2>1. PICK u \in after : u.creator = y \/ u.ended = y
      BY <1>7, <1>10 DEF Wrote
    <2>2. CASE u \in versions
      BY <2>1, <2>2 DEF Wrote
    <2>3. CASE u = mark
      BY <1>3, <1>4, <1>10, <2>1, <2>3 DEF Wrote
    <2>4. CASE u = new
      BY <1>4, <1>10, <2>1, <2>4, XidAssumption
    <2> QED
      BY <2>2, <2>3, <2>4
  <1>11. Fresh'
    BY <1>2, <1>10 DEF Fresh
  <1>12. v.ended = None \/ v.ended \notin Committed
    BY <1>1, <1>3, XidAssumption DEF Committed
  (* A view without the writer shows the same value as before. *)
  <1>13. ASSUME NEW S, x \notin S, NEW w \in versions, ShownOf(versions, S) = {w},
                v.ended = None \/ v.ended \notin S
         PROVE  \E u \in after : /\ ShownOf(after, S) = {u} /\ u.value = w.value
                                 /\ u = w \/ u.ended = x
    <2>1. v \in ShownOf(versions, S) <=> v.creator \in S
      BY <1>3, <1>4, <1>13 DEF ShownOf
    <2>2. mark \in ShownOf(after, S) <=> v.creator \in S
      BY <1>3, <1>4, <1>13 DEF ShownOf
    <2>3. new \notin ShownOf(after, S)
      BY <1>3, <1>4, <1>13 DEF ShownOf
    <2>4. CASE w = v
      <3>1. v.creator \in S
        BY <1>13, <2>1, <2>4
      <3>2. ASSUME NEW u \in versions \ {v} PROVE u \notin ShownOf(after, S) \/ u = mark
        BY <1>13, <2>4 DEF ShownOf
      <3>3. ShownOf(after, S) = {mark}
        BY <2>2, <2>3, <3>1, <3>2 DEF ShownOf
      <3> QED
        BY <1>4, <1>13, <2>4, <3>3
    <2>5. CASE w # v
      <3>1. v.creator \notin S
        BY <1>13, <2>1, <2>5
      <3>2. \A u \in versions \ {v} : u \in ShownOf(after, S) <=> u = w
        BY <1>13, <2>5 DEF ShownOf
      <3>3. w \in versions \ {v}
        BY <1>13, <2>5 DEF ShownOf
      <3>4. ShownOf(after, S) = {w}
        BY <2>2, <2>3, <3>1, <3>2, <3>3 DEF ShownOf
      <3> QED
        BY <3>3, <3>4
    <2> QED
      BY <2>4, <2>5
  <1>14. ASSUME NEW S, NEW w \in versions, w.value \in Nat,
                \A u \in versions : u.creator \in S => u.value <= w.value, x \notin S
         PROVE  \A u \in after : u.creator \in S => u.value <= w.value
    BY <1>3, <1>4, <1>14
  (* In one that has it, the new version takes the place of the ended one. *)
  <1>15. ASSUME NEW S, x \in S, ShownOf(versions, S) \subseteq {v}
         PROVE  ShownOf(after, S) = {new}
    <2>1. after = (versions \ {v}) \union {mark, new}
      OBVIOUS
    <2> HIDE DEF after
    <2> QED
      BY <1>3, <1>4, <1>6, <1>15, <2>1, WriteWithin
  <1>16. \A u \in after : u.value <= value
    BY <1>3, <1>4, <1>5, <1>8
  <1>17. new \in after
    OBVIOUS
  <1>18. v \notin after \/ v = mark \/ v = new
    OBVIOUS
  <1> HIDE DEF after
  <1>19. PICK tip \in versions : Latest(tip, Committed)
    BY DEF Tip
  <1>20. PICK tip2 \in after : /\ ShownOf(after, Committed) = {tip2}
                               /\ tip2.value = tip.value
                               /\ tip2 = tip \/ tip2.ended = x
    BY <1>6, <1>12, <1>13, <1>19 DEF Latest, Shown
  <1>21. Tip'
    <2>1. \A u \in after : u.creator \in Committed => u.value <= tip.value
      BY <1>6, <1>8, <1>14, <1>19 DEF Latest
    <2> QED
      BY <1>2, <1>7, <1>20, <2>1 DEF Tip, Latest, Shown
  <1>22. PICK seen \in versions : Shown(snapshot[x] \union {x}) = {seen}
    BY <1>2 DEF Views, Active
  <1>23. seen = v
    BY <1>1, <1>22, SeenShown
  <1>24. Views'
    <2> SUFFICES ASSUME NEW y \in Xid, Active(y)'
                 PROVE  \E u \in after : /\ ShownOf(after, snapshot[y] \union {y}) = {u}
                                         /\ u.value = expected'[y]
      BY <1>2, <1>7 DEF Views, Shown
    <2>1. CASE y = x
      <3>1. ShownOf(after, snapshot[x] \union {x}) = {new}
        BY <1>22, <1>23, <1>15 DEF Shown
      <3> QED
        BY <1>2, <1>4, <1>17, <2>1, <3>1
    <2>2. CASE y # x
      <3>1. PICK w \in versions : /\ ShownOf(versions, snapshot[y] \union {y}) = {w}
                                  /\ w.value = expected[y]
        BY <1>2 DEF Views, Active, Shown
      <3>2. snapshot[y] \subseteq Committed
        BY DEF Typed
      <3>3. x \notin snapshot[y] \union {y}
        BY <1>6, <2>2, <3>2
      <3>4. v.ended = None \/ v.ended \notin snapshot[y] \union {y}
        <4>1. v.ended # y \/ v.ended = None
          BY <1>1, <1>2 DEF Active
        <4> QED
          BY <1>12, <3>2, <4>1
      <3>5. \E u \in after : /\ ShownOf(after, snapshot[y] \union {y}) = {u}
                             /\ u.value = w.value
        <4> DEFINE view == snapshot[y] \union {y}
        <4>1. /\ x \notin view /\ ShownOf(versions, view) = {w}
              /\ v.ended = None \/ v.ended \notin view
          BY <3>1, <3>3, <3>4
        <4> HIDE DEF view
        <4>2. \E u \in after : ShownOf(after, view) = {u} /\ u.value = w.value
          BY <1>13, <4>1
        <4> QED
          BY <4>2 DEF view
      <3> QED
        BY <1>2, <2>2, <3>1, <3>5
    <2> QED
      BY <2>1, <2>2
  <1>25. snapshot[x] \subseteq Committed
    BY DEF Typed
  (* The writer has ended the committed version, now or before. *)
  <1>26. tip2.ended = x /\ Shown(Committed \union {x}) \subseteq {v}
    <2>1. CASE Wrote(x)
      <3>1. tip.ended = x
        BY <1>2, <1>19, <2>1 DEF Writers, Active, Latest
      <3>2. PICK w \in versions : Latest(w, Committed \union {x})
        BY <1>2, <2>1 DEF Writers, Active
      <3>3. /\ Shown(Committed \union {x}) = {w}
            /\ w.creator \in Committed \union {x}
            /\ w.ended = None \/ w.ended \notin Committed \union {x}
        BY <3>2 DEF Latest, Shown, ShownOf
      <3>4. w.creator = x
        <4>1. SUFFICES ASSUME w.creator \in Committed PROVE FALSE
          BY <3>3
        <4>2. w \in Shown(Committed)
          BY <3>3, <4>1 DEF Shown, ShownOf
        <4>3. w.ended = x
          BY <1>2, <2>1, <4>2 DEF Writers, Active
        <4> QED
          BY <1>6, <3>3, <4>3
      <3>5. w \in Shown(snapshot[x] \union {x})
        BY <1>25, <3>3, <3>4 DEF Shown, ShownOf
      <3>6. w = v
        BY <1>22, <1>23, <3>5
      <3> QED
        BY <1>20, <3>1, <3>3, <3>6
    <2>2. CASE ~ Wrote(x)
      <3>1. v.creator # x /\ v.creator \in snapshot[x] \union {x}
        BY <1>3, <1>22, <1>23, <2>2 DEF Wrote, Shown, ShownOf
      <3>2. v \in Shown(Committed)
        BY <1>3, <1>12, <1>25, <3>1 DEF Shown, ShownOf
      <3>3. tip = v
        BY <1>19, <3>2 DEF Latest
      <3>4. Shown(Committed \union {x}) \subseteq Shown(Committed)
        BY <2>2 DEF Shown, ShownOf, Wrote
      <3>5. tip2.ended = x
        <4>1. v.ended # x
          BY <1>3, <2>2 DEF Wrote
        <4>2. v # mark /\ v # new
          BY <1>4, <3>1, <4>1
        <4> QED
          BY <1>20, <1>18, <3>3, <4>2
      <3> QED
        BY <1>19, <3>3, <3>4, <3>5 DEF Latest
    <2> QED
      BY <2>1, <2>2
  <1>27. Writers'
    <2> SUFFICES ASSUME NEW y \in Xid, Active(y)', Wrote(y)'
                 PROVE  /\ \A w \in ShownOf(after, Committed) : w.ended = y
                        /\ \E w \in after :
                             /\ ShownOf(after, Committed \union {y}) = {w}
                             /\ \A u \in after : u.creator \in Committed \union {y}
                                                => u.value <= w.value
      BY <1>2, <1>7 DEF Writers, Latest, Shown
    <2>1. CASE y = x
      <3>1. ShownOf(after, Committed \union {x}) = {new}
        BY <1>26, <1>15 DEF Shown
      <3>2. \A u \in after : u.value <= new.value
        BY <1>4, <1>16
      <3>3. \A w \in ShownOf(after, Committed) : w.ended = x
        <4>1. ShownOf(after, Committed) = {tip2}
          BY <1>20
        <4>2. tip2.ended = x
          BY <1>26
        <4> QED
          BY <4>1, <4>2
      <3> QED
        BY <1>17, <2>1, <3>1, <3>2, <3>3
    <2>2. CASE y # x
      <3>1. Wrote(y) /\ Active(y)
        BY <1>2, <1>10, <2>2 DEF Active
      <3>2. tip.ended = y
        BY <1>19, <3>1 DEF Writers, Latest
      <3>3. \A w \in Shown(Committed) : w.ended = y
        BY <3>1 DEF Writers
      <3>4. v # tip
        <4>1. y # None /\ y \notin {z \in Xid : status[z] = "aborted"}
          BY <3>1, XidAssumption DEF Active
        <4> QED
          BY <1>1, <3>2, <4>1
      <3>5. v.creator = x
        <4>1. SUFFICES ASSUME v.creator # x PROVE FALSE
          OBVIOUS
        <4>2. v.creator \in Committed
          BY <1>22, <1>23, <1>25, <4>1 DEF Shown, ShownOf
        <4>3. v \in Shown(Committed)
          BY <1>3, <1>12, <4>2 DEF Shown, ShownOf
        <4> QED
          BY <1>19, <3>4, <4>3 DEF Latest
      <3>6. Wrote(x)
        BY <1>3, <3>5 DEF Wrote
      <3>7. tip.ended = x
        BY <1>2, <1>19, <3>6 DEF Writers, Active, Latest
      <3> QED
        BY <2>2, <3>2, <3>7
    <2> QED
      BY <2>1, <2>2
  <1> QED
    BY <1>9, <1>11, <1>21, <1>24, <1>27

-----------------------------------------------------------------------------
(* Redo *)

Page == [value : Nat, page_lsn : Nat]

Record == [txid : Xid, lsn : 1 .. MaxWrites, value : Nat]

LEMMA SetInduction ==
  ASSUME NEW T, 0 \in T, \A n \in Nat : n \in T => n + 1 \in T
  PROVE  Nat \subseteq T
  <1>1. SUFFICES ASSUME Nat \ T # {} PROVE FALSE
    OBVIOUS
  <1>2. PICK n \in Nat \ T : \A m \in Nat \ T : <<m, n>> \notin OpToRel(<, Nat)
    BY <1>1, NatLessThanWellFounded, WFMin
  <1>3. \A m \in Nat \ T : ~ (m < n)
    BY <1>2 DEF OpToRel
  <1>4. n # 0 /\ n - 1 \in T
    BY <1>3
  <1> QED
    BY <1>4

Due(records, n, page) == {r \in records : r.lsn = n /\ r.lsn > page.page_lsn}

Applied(records, n, page) ==
  IF Due(records, n, page) = {} THEN page
  ELSE Redo(page, CHOOSE r \in Due(records, n, page) : TRUE)

After(page, records, N, f) ==
  f = [n \in 0 .. N |-> IF n = 0 THEN page ELSE Applied(records, n, f[n - 1])]

LEMMA AfterExists ==
  ASSUME NEW page, NEW records, NEW N \in Nat
  PROVE  \E f : After(page, records, N, f)
  <1> DEFINE T == {k \in Nat : \E f : After(page, records, k, f)}
  <1>1. 0 \in T
    <2> DEFINE f == [n \in 0 .. 0 |-> page]
    <2>1. After(page, records, 0, f)
      BY DEF After
    <2> QED
      BY <2>1
  <1>2. ASSUME NEW k \in Nat, k \in T PROVE k + 1 \in T
    <2>1. PICK f : After(page, records, k, f)
      BY <1>2
    <2> DEFINE g == [n \in 0 .. k + 1 |->
                       IF n = k + 1 THEN Applied(records, k + 1, f[k]) ELSE f[n]]
    <2>2. \A n \in 0 .. k : g[n] = f[n]
      OBVIOUS
    <2>3. \A n \in 0 .. k :
            f[n] = IF n = 0 THEN page ELSE Applied(records, n, f[n - 1])
      BY <2>1 DEF After
    <2>4. ASSUME NEW n \in 0 .. k + 1
          PROVE  g[n] = IF n = 0 THEN page ELSE Applied(records, n, g[n - 1])
      <3>1. CASE n = k + 1
        <4>1. g[n - 1] = f[k]
          BY <3>1, <2>2
        <4> QED
          BY <3>1, <4>1
      <3>2. CASE n # k + 1
        <4>1. n \in 0 .. k /\ (n # 0 => n - 1 \in 0 .. k)
          BY <3>2
        <4>2. g[n] = f[n] /\ (n # 0 => g[n - 1] = f[n - 1])
          BY <4>1, <2>2
        <4> QED
          BY <4>1, <4>2, <2>3
      <3> QED
        BY <3>1, <3>2
    <2>5. After(page, records, k + 1, g)
      <3>1. g = [n \in 0 .. k + 1 |->
                   IF n = 0 THEN page ELSE Applied(records, n, g[n - 1])]
        BY <2>4
      <3> QED
        BY <3>1 DEF After
    <2> QED
      BY <2>5
  <1> QED
    BY <1>1, <1>2, SetInduction

LEMMA RedoneIs ==
  ASSUME NEW page, NEW records
  PROVE  \E f : After(page, records, MaxWrites, f) /\ Redone(page, records) = f[MaxWrites]
  <1> DEFINE Upto(f) ==
               f = [n \in 0 .. MaxWrites |->
                      IF n = 0 THEN page
                      ELSE LET due == {r \in records :
                                         r.lsn = n /\ r.lsn > f[n - 1].page_lsn}
                           IN IF due = {} THEN f[n - 1]
                              ELSE Redo(f[n - 1], CHOOSE r \in due : TRUE)]
             after == CHOOSE f : Upto(f)
  <1>1. \A f : Upto(f) <=> After(page, records, MaxWrites, f)
    BY DEF After, Applied, Due
  <1>2. Redone(page, records) = after[MaxWrites]
    BY DEF Redone
  <1> HIDE DEF Upto
  <1>3. \E f : Upto(f)
    BY <1>1, AfterExists, XidAssumption
  <1> QED
    BY <1>1, <1>2, <1>3

(* Redo leaves the page or puts a record of the log on it, one that no record
   comes after. *)
LEMMA RedoneLast ==
  ASSUME NEW page \in Page, NEW records, records \subseteq Record
  PROVE  /\ Redone(page, records) \in Page
         /\ \/ Redone(page, records) = page
            \/ \E r \in records : /\ r.lsn > page.page_lsn
                                  /\ Redone(page, records) = Redo(page, r)
         /\ Redone(page, records).page_lsn >= page.page_lsn
         /\ \A r \in records : Redone(page, records).page_lsn >= r.lsn
  <1>1. PICK f : /\ After(page, records, MaxWrites, f)
                 /\ Redone(page, records) = f[MaxWrites]
    BY RedoneIs
  <1>2. \A n \in 0 .. MaxWrites :
          f[n] = IF n = 0 THEN page ELSE Applied(records, n, f[n - 1])
    BY <1>1 DEF After
  <1> DEFINE Good(n) ==
               /\ f[n] \in Page
               /\ \/ f[n] = page
                  \/ \E r \in records : r.lsn > page.page_lsn /\ f[n] = Redo(page, r)
               /\ f[n].page_lsn >= page.page_lsn
               /\ \A r \in records : r.lsn <= n => f[n].page_lsn >= r.lsn
             T == {n \in Nat : n <= MaxWrites => Good(n)}
  <1>3. 0 \in T
    <2>1. f[0] = page
      BY <1>2, XidAssumption
    <2>2. \A r \in records : ~ (r.lsn <= 0)
      BY XidAssumption DEF Record
    <2> QED
      BY <2>1, <2>2 DEF Page
  <1>4. ASSUME NEW n \in Nat, n \in T PROVE n + 1 \in T
    <2> SUFFICES ASSUME n + 1 <= MaxWrites PROVE Good(n + 1)
      OBVIOUS
    <2>1. Good(n)
      BY <1>4, XidAssumption
    <2>2. f[n + 1] = Applied(records, n + 1, f[n])
      BY <1>2, XidAssumption
    <2> DEFINE due == Due(records, n + 1, f[n])
    <2>3. CASE due = {}
      <3>1. f[n + 1] = f[n]
        BY <2>2, <2>3 DEF Applied
      <3>2. \A r \in records : r.lsn = n + 1 => ~ (n + 1 > f[n].page_lsn)
        BY <2>3 DEF Due
      <3>3. \A r \in records : r.lsn \in Nat /\ (r.lsn <= n + 1 <=> r.lsn <= n \/ r.lsn = n + 1)
        BY XidAssumption DEF Record
      <3>4. f[n].page_lsn \in Nat
        BY <2>1 DEF Page
      <3> QED
        BY <2>1, <3>1, <3>2, <3>3, <3>4
    <2>4. CASE due # {}
      <3>1. PICK r \in due : f[n + 1] = Redo(f[n], r)
        BY <2>2, <2>4 DEF Applied
      <3>2. r \in records /\ r.lsn = n + 1 /\ n + 1 > f[n].page_lsn
        BY <3>1 DEF Due
      <3>3. /\ f[n + 1] = Redo(page, r) /\ f[n + 1] \in Page
            /\ f[n + 1].page_lsn = n + 1
        BY <3>1, <3>2 DEF Redo, Page, Record
      <3>4. r.lsn > page.page_lsn /\ n + 1 >= page.page_lsn
        BY <2>1, <3>2 DEF Page
      <3>5. \A q \in records : q.lsn <= n + 1 => n + 1 >= q.lsn
        BY DEF Record
      <3> QED
        BY <3>2, <3>3, <3>4, <3>5
    <2> QED
      BY <2>3, <2>4
  <1>5. Good(MaxWrites)
    <2> HIDE DEF Good
    <2>1. Nat \subseteq T
      <3> HIDE DEF T
      <3> QED
        BY <1>3, <1>4, SetInduction
    <2> QED
      BY <2>1, XidAssumption
  <1>6. \A r \in records : r.lsn <= MaxWrites
    BY XidAssumption DEF Record
  <1> QED
    BY <1>1, <1>5, <1>6

-----------------------------------------------------------------------------
(* Versions, log and page *)

(* The log has a record of every version but the load, its position being the
   value, and the page lies on disk as one of them left it. *)
Log ==
  /\ Cardinality(wal) <= MaxWrites
  /\ wal \subseteq Record
  /\ \A r \in wal : r.value = r.lsn
  /\ \A r, s \in wal : r.lsn = s.lsn => r = s
  /\ \A r \in wal : \E v \in versions : v.creator = r.txid /\ v.value = r.lsn
  /\ \A v \in versions : v.creator # Initial =>
       \E r \in wal : r.txid = v.creator /\ r.lsn = v.value
  /\ \A v \in versions : v.creator = Initial => v.value = Initial
  /\ disk \in Page /\ disk.value = disk.page_lsn
  /\ disk.page_lsn # Initial => \E r \in wal : r.lsn = disk.page_lsn

LEMMA InitLog == Init => Log
  <1> SUFFICES ASSUME Init PROVE Log
    OBVIOUS
  <1>1. wal = {} /\ Cardinality(wal) = 0
    BY FS_EmptySet DEF Init
  <1> QED
    BY <1>1, XidAssumption DEF Init, Log, Page, Initial

LEMMA WriteLog ==
  ASSUME IInv, Log, NEW x \in Xid, Write(x)
  PROVE  Log'
  <1> DEFINE value == Cardinality(wal) + 1
             new == [value |-> value, creator |-> x, ended |-> None]
             record == [txid |-> x, lsn |-> value, value |-> value]
  <1>1. PICK v \in Seen(x) :
          versions' = (versions \ {v}) \union {[v EXCEPT !.ended = x], new}
    BY DEF Write
  <1> DEFINE mark == [v EXCEPT !.ended = x]
  <1>2. value <= MaxWrites /\ wal' = wal \union {record} /\ disk' = disk
    BY DEF Write
  <1>3. Cardinality(wal) \in Nat /\ value \in 1 .. MaxWrites
    BY <1>2, FS_CardinalityType, XidAssumption DEF IInv, Typed
  <1>4. \A r \in wal : r.lsn # value
    BY <1>3 DEF IInv, Typed
  <1>5. record \in Record
    BY <1>3 DEF Record
  <1>6. record \notin wal /\ Cardinality(wal') = value
    <2>1. record \notin wal
      BY <1>4
    <2> QED
      BY <1>2, <2>1, FS_AddElement DEF IInv, Typed
  <1>7. v \in versions /\ mark.value = v.value /\ mark.creator = v.creator
    BY <1>1 DEF Seen, IInv, Typed
  <1>8. x # Initial
    BY XidAssumption
  <1>9. /\ record.txid = x /\ record.lsn = value /\ record.value = value
        /\ new.creator = x /\ new.value = value
    OBVIOUS
  <1>10. versions' = (versions \ {v}) \union {mark, new}
    BY <1>1
  <1> HIDE DEF mark, new, record
  <1>11. \A r \in wal' : \E u \in versions' : u.creator = r.txid /\ u.value = r.lsn
    <2> SUFFICES ASSUME NEW r \in wal'
                 PROVE  \E u \in versions' : u.creator = r.txid /\ u.value = r.lsn
      OBVIOUS
    <2>1. CASE r = record
      BY <1>9, <1>10, <2>1
    <2>2. CASE r \in wal
      <3>1. PICK u \in versions : u.creator = r.txid /\ u.value = r.lsn
        BY <2>2 DEF Log
      <3> QED
        BY <1>7, <1>10, <3>1
    <2> QED
      BY <1>2, <2>1, <2>2
  <1>12. ASSUME NEW u \in versions'
         PROVE  /\ u.creator # Initial =>
                     \E r \in wal' : r.txid = u.creator /\ r.lsn = u.value
                /\ u.creator = Initial => u.value = Initial
    <2>1. CASE u = new
      BY <1>2, <1>8, <1>9, <2>1
    <2>2. CASE u = mark
      BY <1>2, <1>7, <2>2 DEF Log
    <2>3. CASE u \in versions
      BY <1>2, <2>3 DEF Log
    <2> QED
      BY <1>10, <2>1, <2>2, <2>3
  <1>13. \A r, s \in wal' : r.lsn = s.lsn => r = s
    BY <1>2, <1>4, <1>9 DEF Log
  <1>14. \A r \in wal' : r \in Record /\ r.value = r.lsn
    BY <1>2, <1>5, <1>9 DEF Log
  <1>15. disk'.page_lsn # Initial => \E r \in wal' : r.lsn = disk'.page_lsn
    BY <1>2 DEF Log
  <1> QED
    BY <1>2, <1>6, <1>11, <1>12, <1>13, <1>14, <1>15 DEF Log

LEMMA NextLog == IInv /\ Log /\ [Next]_vars => Log'
  <1> SUFFICES ASSUME IInv, Log, [Next]_vars PROVE Log'
    OBVIOUS
  <1>1. CASE \E x \in Xid : Write(x)
    BY <1>1, WriteLog
  <1>2. CASE WriteBack
    <2>1. PICK r \in wal : disk' = Redo(disk, r)
      BY <1>2 DEF WriteBack
    <2>2. r \in Record /\ r.value = r.lsn
      BY DEF Log
    <2>3. disk' \in Page /\ disk'.value = r.lsn /\ disk'.page_lsn = r.lsn
      BY <2>1, <2>2 DEF Redo, Record, Page
    <2> QED
      BY <1>2, <2>3 DEF WriteBack, Log
  <1>3. CASE UNCHANGED <<wal, versions, disk>>
    BY <1>3 DEF Log
  <1> QED
    BY <1>1, <1>2, <1>3 DEF Next, Begin, Finish, vars

(* What redo makes of the page is the last record of those committed and its
   own. *)
LEMMA Exact == IInv /\ Log => RecoveryExact
  <1> SUFFICES ASSUME IInv, Log PROVE RecoveryExact
    OBVIOUS
  <1> DEFINE done == {r \in wal : r.txid \in Committed}
             result == recover(disk, wal, Committed)
             Ends(p) == /\ p \in Page /\ p.value = p.page_lsn
                        /\ p.page_lsn >= disk.page_lsn
                        /\ p = disk \/ \E r \in done : p.page_lsn = r.lsn
             Final(p) == Ends(p) /\ \A r \in done : p.page_lsn >= r.lsn
  <1>1. ASSUME NEW page, Ends(page), NEW records, records \subseteq done
        PROVE  /\ Ends(Redone(page, records))
               /\ \A r \in records : Redone(page, records).page_lsn >= r.lsn
    <2> DEFINE p == Redone(page, records)
    <2>1. records \subseteq Record /\ page \in Page
      BY <1>1 DEF Log
    <2>2. /\ p \in Page /\ p.page_lsn >= page.page_lsn
          /\ p = page \/ \E r \in records : p = Redo(page, r)
          /\ \A r \in records : p.page_lsn >= r.lsn
      BY <2>1, RedoneLast
    <2>3. \A r \in done : /\ Redo(page, r).page_lsn = r.lsn
                          /\ Redo(page, r).value = r.lsn
      BY DEF Redo, Log
    <2>4. p.page_lsn >= disk.page_lsn
      BY <1>1, <2>1, <2>2 DEF Page, Log
    <2> HIDE DEF p, done
    <2> QED
      BY <1>1, <2>2, <2>3, <2>4 DEF p
  <1>2. Ends(disk)
    BY DEF Log, Page
  <1>3. ASSUME NEW page, Ends(page) PROVE Final(recover(page, wal, Committed))
    BY <1>1, <1>3 DEF recover
  <1>4. Final(result)
    BY <1>2, <1>3
  <1>5. ASSUME NEW p, NEW q, Final(p), Final(q) PROVE p = q
    <2>1. disk \in Page /\ \A r \in done : r.lsn \in Nat
      BY DEF Log, Record
    <2>2. p.page_lsn = q.page_lsn
      BY <1>5, <2>1 DEF Page
    <2> QED
      BY <1>5, <2>2 DEF Page
  <1>6. ASSUME NEW n \in 0 .. MaxWrites
        PROVE  recover(recover(disk, {r \in wal : r.lsn <= n}, Committed),
                       wal, Committed) = result
    <2> DEFINE early == {r \in {r \in wal : r.lsn <= n} : r.txid \in Committed}
    <2>1. early \subseteq done
      OBVIOUS
    <2>2. Ends(Redone(disk, early))
      BY <1>1, <1>2, <2>1
    <2> QED
      BY <1>3, <1>4, <1>5, <2>2 DEF recover
  <1>7. result.value = LastCommitted <=> ~ Stolen
    <2>1. PICK w \in versions : Latest(w, Committed)
      BY DEF IInv, Tip
    <2>2. /\ LastCommitted = w.value /\ w.creator \in Committed
          /\ \A v \in versions : v.creator \in Committed => v.value <= w.value
      BY <2>1, LastIs DEF IInv, Latest, Shown, ShownOf
    <2>3. w.value = Initial \/ \E r \in done : w.value = r.lsn
      BY <2>2 DEF Log
    <2>4. \A r \in done : r.lsn <= w.value
      BY <2>2 DEF Log
    <2>5. /\ w.value \in Nat /\ disk.page_lsn \in Nat /\ Initial = 0
          /\ \A r \in wal : r.lsn \in Nat /\ r.lsn > 0
      BY XidAssumption DEF IInv, Typed, Log, Page, Record, Initial
    <2>6. Stolen <=> /\ disk.page_lsn # Initial
                     /\ \A r \in done : ~ (r.lsn >= disk.page_lsn)
      BY DEF Stolen
    <2>7. \A r, s \in wal : r.lsn = s.lsn => r = s
      BY DEF Log
    <2>8. disk.page_lsn # Initial => \E r \in wal : r.lsn = disk.page_lsn
      BY DEF Log
    <2>9. /\ result.value = result.page_lsn /\ result.page_lsn \in Nat
          /\ result.page_lsn >= disk.page_lsn
          /\ result.page_lsn = disk.page_lsn \/ \E r \in done : result.page_lsn = r.lsn
          /\ \A r \in done : result.page_lsn >= r.lsn
      BY <1>4 DEF Page
    <2> HIDE DEF result
    <2>10. CASE Stolen
      <3>1. PICK s \in wal : s.lsn = disk.page_lsn /\ s \notin done
        BY <2>5, <2>6, <2>8, <2>10
      <3>2. result.page_lsn = disk.page_lsn
        BY <2>5, <2>6, <2>9, <2>10
      <3>3. w.value # disk.page_lsn
        BY <2>3, <2>6, <2>7, <2>10, <3>1
      <3> QED
        BY <2>2, <2>9, <2>10, <3>2, <3>3
    <2>11. CASE ~ Stolen
      <3>1. result.page_lsn <= w.value
        <4>1. CASE disk.page_lsn = Initial
          BY <2>4, <2>5, <2>9, <4>1
        <4>2. CASE \E r \in done : r.lsn >= disk.page_lsn
          BY <2>4, <2>5, <2>9, <4>2
        <4> QED
          BY <2>6, <2>11, <4>1, <4>2
      <3>2. result.page_lsn >= w.value
        BY <2>3, <2>5, <2>9
      <3> QED
        BY <2>2, <2>5, <2>9, <2>11, <3>1, <3>2
    <2> QED
      BY <2>10, <2>11
  <1> QED
    BY <1>6, <1>7 DEF RecoveryExact

-----------------------------------------------------------------------------
(* The theorems *)

LEMMA NextIInv == IInv /\ [Next]_vars => IInv'
  <1> SUFFICES ASSUME IInv, [Next]_vars PROVE IInv'
    OBVIOUS
  <1>1. ASSUME UNCHANGED <<status, snapshot, versions, wal, expected>> PROVE IInv'
    <2>1. Committed' = Committed
      BY <1>1 DEF Committed
    <2>2. Typed' /\ Fresh'
      BY <1>1, <2>1 DEF IInv, Typed, Fresh, Wrote
    <2>3. Tip' /\ Views' /\ Writers'
      BY <1>1, <2>1 DEF IInv, Tip, Views, Writers, Active, Wrote, Latest, Shown
    <2> QED
      BY <2>2, <2>3 DEF IInv
  <1>2. CASE WriteBack \/ UNCHANGED vars
    BY <1>1, <1>2 DEF WriteBack, vars
  <1>3. CASE \E x \in Xid : Begin(x)
    BY <1>3, BeginIInv
  <1>4. CASE \E x \in Xid : Write(x)
    BY <1>4, WriteIInv
  <1>5. CASE \E x \in Xid : Finish(x, "committed") \/ Finish(x, "aborted")
    BY <1>5, CommitIInv, AbortIInv
  <1> QED
    BY <1>2, <1>3, <1>4, <1>5 DEF Next

LEMMA Invariance == Spec => []IInv
  BY InitIInv, NextIInv, PTL DEF Spec

(* visible shows every running transaction one version of the item, that of
   the last commit before it began or its own last one, for any number of
   transactions and writes and whoever ends, commits or aborts beside it. *)
THEOREM OneVersion == Spec => []SeesOneVersion
  <1>1. IInv => SeesOneVersion
    BY SeenShown DEF IInv, Views, Active, SeesOneVersion
  <1> QED
    BY <1>1, Invariance, PTL

(* However the page was written back and wherever a crash or an earlier
   recovery stopped, redo ends at the last committed value, unless the page had
   a value that nobody committed and no committed record comes after. *)
THEOREM RedoExact == Spec => []RecoveryExact
  <1>1. Spec => []Log
    BY InitLog, NextLog, Invariance, PTL DEF Spec
  <1> QED
    BY <1>1, Invariance, Exact, PTL
=============================================================================
