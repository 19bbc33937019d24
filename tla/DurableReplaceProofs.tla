------------------------ MODULE DurableReplaceProofs ------------------------
(***************************************************************************)
(* Proofs about DurableReplace for every payload length and number of      *)
(* calls.  The inductive invariant says of the sequence of directory       *)
(* states what each file operation relies on: the temporary name never     *)
(* leads to an inode some final name leads to (so truncating it harms no   *)
(* version), versions only grow along the sequence, and every final name   *)
(* leads to a whole payload that is already on disk.                       *)
(***************************************************************************)
EXTENDS DurableReplace, SequenceTheorems, TLAPS

Dir == [temp : Version, final : Version]

(* FinalVersion with the file contents as a parameter. *)
VersionIn(c, d) == IF d.final = 0 THEN 0 ELSE c[d.final].of

(* ds: directory states, c and k: contents in memory and on disk, n: calls
   made, a: version acknowledged. *)
GoodDirs(ds, c, k, n, a) ==
  /\ \A i \in 1 .. Len(ds) :
       /\ ds[i].temp <= n /\ ds[i].final <= n
       /\ a <= VersionIn(c, ds[i]) /\ VersionIn(c, ds[i]) <= n
       /\ ds[i].final # 0 =>
            /\ c[ds[i].final] = Whole(VersionIn(c, ds[i]))
            /\ k[ds[i].final] = c[ds[i].final]
  /\ \A i, j \in 1 .. Len(ds) :
       i <= j =>
         /\ ds[j].temp # 0 => ds[j].temp # ds[i].final
         /\ VersionIn(c, ds[i]) <= VersionIn(c, ds[j])

-----------------------------------------------------------------------------
(* Lemmas about GoodDirs *)

(* What is left of the sequence after a commit, a sync or a crash. *)
LEMMA GoodPart ==
  ASSUME NEW ds, NEW c, NEW k, NEW n, NEW a, GoodDirs(ds, c, k, n, a),
         NEW es, NEW s \in Nat, Len(es) \in Nat,
         \A i \in 1 .. Len(es) : i + s \in 1 .. Len(ds) /\ es[i] = ds[i + s]
  PROVE  GoodDirs(es, c, k, n, a)
  <1>1. \A i, j \in 1 .. Len(es) : i <= j => i + s <= j + s
    OBVIOUS
  <1> QED
    BY <1>1, ZenonT(40) DEF GoodDirs

(* Contents may change where no final name leads. *)
LEMMA GoodContents ==
  ASSUME NEW ds, NEW c, NEW k, NEW n, NEW a, GoodDirs(ds, c, k, n, a),
         NEW c2, NEW k2,
         \A i \in 1 .. Len(ds) : ds[i].final # 0 =>
           c2[ds[i].final] = c[ds[i].final] /\ k2[ds[i].final] = k[ds[i].final]
  PROVE  /\ GoodDirs(ds, c2, k2, n, a)
         /\ \A i \in 1 .. Len(ds) : VersionIn(c2, ds[i]) = VersionIn(c, ds[i])
  <1>1. \A i \in 1 .. Len(ds) : VersionIn(c2, ds[i]) = VersionIn(c, ds[i])
    BY DEF VersionIn
  <1> QED
    BY <1>1 DEF GoodDirs

(* One more directory state. *)
LEMMA GoodAppend ==
  ASSUME NEW ds \in Seq(Dir), ds # <<>>, NEW c, NEW k, NEW n \in Nat,
         NEW a \in Nat, GoodDirs(ds, c, k, n, a),
         \A i \in 1 .. Len(ds) : VersionIn(c, ds[i]) \in Nat,
         NEW d \in Dir,
         d.temp <= n, d.final <= n,
         VersionIn(c, d) \in Nat, VersionIn(c, d) <= n,
         VersionIn(c, d) >= VersionIn(c, ds[Len(ds)]),
         d.final # 0 => /\ c[d.final] = Whole(VersionIn(c, d))
                        /\ k[d.final] = c[d.final],
         d.temp # 0 => /\ d.temp # d.final
                       /\ \A i \in 1 .. Len(ds) : d.temp # ds[i].final
  PROVE  GoodDirs(Append(ds, d), c, k, n, a)
  <1> DEFINE es == Append(ds, d)
             m == Len(ds)
  <1>1. /\ m \in Nat /\ m >= 1 /\ Len(es) = m + 1 /\ es[m + 1] = d
        /\ \A i \in 1 .. m : es[i] = ds[i]
    OBVIOUS
  <1>2. ASSUME NEW i \in 1 .. m
        PROVE  VersionIn(c, ds[i]) <= VersionIn(c, d)
    <2>1. VersionIn(c, ds[i]) <= VersionIn(c, ds[m])
      BY <1>1 DEF GoodDirs
    <2> QED
      BY <1>1, <2>1
  <1>3. a <= VersionIn(c, d)
    <2>1. a <= VersionIn(c, ds[m])
      BY <1>1 DEF GoodDirs
    <2> QED
      BY <1>1, <2>1
  <1>4. ASSUME NEW i \in 1 .. Len(es)
        PROVE  /\ es[i].temp <= n /\ es[i].final <= n
               /\ a <= VersionIn(c, es[i]) /\ VersionIn(c, es[i]) <= n
               /\ es[i].final # 0 =>
                    /\ c[es[i].final] = Whole(VersionIn(c, es[i]))
                    /\ k[es[i].final] = c[es[i].final]
    <2>1. CASE i \in 1 .. m
      BY <1>1, <2>1 DEF GoodDirs
    <2>2. CASE i = m + 1
      BY <1>1, <1>3, <2>2
    <2> QED
      BY <1>1, <2>1, <2>2
  <1>5. ASSUME NEW i \in 1 .. Len(es), NEW j \in 1 .. Len(es), i <= j
        PROVE  /\ es[j].temp # 0 => es[j].temp # es[i].final
               /\ VersionIn(c, es[i]) <= VersionIn(c, es[j])
    <2>1. CASE j \in 1 .. m
      <3>1. i \in 1 .. m
        BY <1>5, <2>1
      <3> QED
        BY <1>1, <1>5, <2>1, <3>1 DEF GoodDirs
    <2>2. CASE j = m + 1 /\ i \in 1 .. m
      BY <1>1, <1>2, <2>2
    <2>3. CASE j = m + 1 /\ i = m + 1
      BY <1>1, <2>3
    <2> QED
      BY <1>1, <2>1, <2>2, <2>3
  <1> HIDE DEF es
  <1> QED
    BY <1>4, <1>5 DEF GoodDirs, es

-----------------------------------------------------------------------------
(* The inductive invariant *)

Writing == {"write", "flush", "fsync", "close", "replace"}

(* The caller's side: while it writes, the temporary name leads to an inode
   that holds what left the buffer; when the rename is due, that inode is
   whole and on disk. *)
Stream ==
  /\ pc \in Writing =>
       /\ Now.temp # 0
       /\ cache[Now.temp] = [of |-> call, chunks |-> 1 .. passed]
       /\ passed <= offset
  /\ pc \in {"flush", "fsync"} => offset = Chunks
  /\ pc = "fsync" => passed = Chunks
  /\ pc = "replace" \/ (pc = "close" /\ raising = FALSE) =>
       /\ offset = Chunks /\ passed = Chunks
       /\ disk[Now.temp] = cache[Now.temp]
  /\ pc \in {"dirsync", "verify"} => FinalVersion(Now) = call
  /\ pc = "verify" /\ dirStatus = "succeeded" =>
       \A k \in 1 .. Len(dirs) : FinalVersion(dirs[k]) = call

IInv ==
  /\ TypeOK
  /\ GoodDirs(dirs, cache, disk, call, acked)
  /\ Stream
  /\ ReturnMeansVisible

LEMMA VersionType ==
  ASSUME TypeOK, NEW d \in Dir
  PROVE  FinalVersion(d) \in Version /\ FinalVersion(d) \in Nat
  BY CallsAssumption DEF TypeOK, FinalVersion, Dir, Inode, Content, Version

LEMMA DirsType ==
  ASSUME TypeOK
  PROVE  /\ dirs \in Seq(Dir) /\ Len(dirs) \in Nat \ {0}
         /\ \A k \in 1 .. Len(dirs) : dirs[k] \in Dir
         /\ Now \in Dir /\ Now.temp \in Version /\ Now.final \in Version
  <1>1. dirs \in Seq(Dir) /\ dirs # <<>>
    BY DEF TypeOK, Dir
  <1>2. Len(dirs) \in Nat \ {0}
    BY <1>1
  <1>3. \A k \in 1 .. Len(dirs) : dirs[k] \in Dir
    BY <1>1
  <1>4. Now \in Dir
    BY <1>2, <1>3 DEF Now
  <1>5. Now.temp \in Version /\ Now.final \in Version
    BY <1>4 DEF Dir
  <1> QED
    BY <1>1, <1>2, <1>3, <1>4, <1>5

LEMMA SameVersion ==
  ASSUME NEW d PROVE FinalVersion(d) = VersionIn(cache, d)
  BY DEF FinalVersion, VersionIn

LEMMA IInvInit == Init => IInv
  <1> SUFFICES ASSUME Init PROVE IInv
    OBVIOUS
  <1>1. 0 \in Version /\ Empty(0) \in Content
    BY CallsAssumption DEF Version, Content, Empty
  <1>2. dirs = <<[temp |-> 0, final |-> 0]>> /\ dirs \in Seq(Dir) /\ dirs # <<>>
    BY <1>1 DEF Init, Dir
  <1>3. TypeOK
    <2>1. cache \in [Inode -> Content] /\ disk \in [Inode -> Content]
      BY <1>1 DEF Init
    <2>2. offset \in 0 .. Chunks /\ passed \in 0 .. Chunks
      BY SizeAssumption DEF Init
    <2>3. call \in Version /\ acked \in Version
      BY <1>1 DEF Init
    <2>4. raising \in BOOLEAN
      BY DEF Init
    <2>5. /\ pc = "idle" /\ dirStatus = "none" /\ outcome = "none"
      BY DEF Init
    <2> QED
      BY <1>2, <2>1, <2>2, <2>3, <2>4, <2>5 DEF TypeOK, Dir
  <1>4. GoodDirs(dirs, cache, disk, call, acked)
    BY <1>2 DEF Init, GoodDirs, VersionIn
  <1>5. Stream /\ ReturnMeansVisible
    BY DEF Init, Stream, Writing, ReturnMeansVisible
  <1> QED
    BY <1>3, <1>4, <1>5 DEF IInv

(* The temporary inode is no final name's, and neither is a new one. *)
LEMMA TempApart ==
  ASSUME IInv, Now.temp # 0
  PROVE  \A k \in 1 .. Len(dirs) : dirs[k].final # Now.temp
  BY DirsType DEF IInv, GoodDirs, Now

(* One step of the file system keeps the invariant. *)
LEMMA WritebackKeeps ==
  ASSUME IInv, NEW i \in Inode, Writeback(i)
  PROVE  IInv'
  <1>1. PICK more \in SUBSET cache[i].chunks :
          disk' = [disk EXCEPT ![i] =
            [of |-> cache[i].of,
             chunks |-> (IF disk[i].of = cache[i].of THEN disk[i].chunks ELSE {})
                          \union more]]
    BY DEF Writeback
  <1>2. UNCHANGED <<pc, call, stream, dirStatus, outcome, acked, cache, dirs>>
    BY DEF Writeback
  <1>3. disk' \in [Inode -> Content]
    BY <1>1 DEF IInv, TypeOK, Content
  <1>4. TypeOK'
    BY <1>2, <1>3 DEF IInv, TypeOK, stream
  <1>5. disk[i] # cache[i]
    BY DEF Writeback
  <1>6. \A k \in 1 .. Len(dirs) : dirs[k].final # 0 => dirs[k].final # i
    BY <1>5 DEF IInv, GoodDirs
  <1>7. \A j \in Inode : j # i => disk'[j] = disk[j]
    BY <1>1 DEF IInv, TypeOK
  <1>8. \A k \in 1 .. Len(dirs) : dirs[k].final # 0 =>
          cache[dirs[k].final] = cache[dirs[k].final]
          /\ disk'[dirs[k].final] = disk[dirs[k].final]
    BY <1>6, <1>7, DirsType, CallsAssumption, SMTT(30) DEF IInv, Dir, Inode, Version
  <1>9. GoodDirs(dirs, cache, disk, call, acked)'
    BY <1>2, <1>8, GoodContents DEF IInv
  <1>10. Stream'
    <2>1. pc = "replace" \/ (pc = "close" /\ raising = FALSE) =>
            disk'[Now.temp] = cache[Now.temp]
      <3> SUFFICES ASSUME pc = "replace" \/ (pc = "close" /\ raising = FALSE)
                   PROVE  disk'[Now.temp] = cache[Now.temp]
        OBVIOUS
      <3>1. disk[Now.temp] = cache[Now.temp] /\ Now.temp # 0
        BY DEF IInv, Stream, Writing
      <3>2. Now.temp # i /\ Now.temp \in Inode
        BY <1>5, <3>1, DirsType, CallsAssumption DEF IInv, Inode, Version
      <3> QED
        BY <1>7, <3>1, <3>2
    <2>2. Now' = Now /\ \A d : FinalVersion(d)' = FinalVersion(d)
      BY <1>2 DEF Now, FinalVersion
    <2> QED
      BY <1>2, <2>1, <2>2 DEF IInv, Stream, stream
  <1>11. ReturnMeansVisible'
    BY <1>2 DEF IInv, ReturnMeansVisible, FinalVersion, Now
  <1> QED
    BY <1>4, <1>9, <1>10, <1>11 DEF IInv

LEMMA JournalCommitKeeps ==
  ASSUME IInv, JournalCommit
  PROVE  IInv'
  <1>1. /\ dirs \in Seq(Dir) /\ Len(dirs) \in Nat /\ Len(dirs) > 1
        /\ dirs' = Tail(dirs)
    BY DirsType DEF IInv, JournalCommit
  <1>2. UNCHANGED <<pc, call, offset, passed, raising, dirStatus, outcome,
                    acked, cache, disk>>
    BY DEF JournalCommit, stream, files
  <1>3. /\ dirs' \in Seq(Dir) /\ Len(dirs') = Len(dirs) - 1 /\ dirs' # <<>>
        /\ \A k \in 1 .. Len(dirs') : dirs'[k] = dirs[k + 1]
    BY <1>1
  <1>4. Now' = Now
    BY <1>1, <1>3 DEF Now
  <1>5. TypeOK'
    BY <1>2, <1>3 DEF IInv, TypeOK, Dir
  <1>6. GoodDirs(dirs', cache, disk, call, acked)
    <2>1. \A k \in 1 .. Len(dirs') : k + 1 \in 1 .. Len(dirs) /\ dirs'[k] = dirs[k + 1]
      BY <1>1, <1>3
    <2>2. Len(dirs') \in Nat /\ 1 \in Nat
      BY <1>1, <1>3
    <2>3. GoodDirs(dirs, cache, disk, call, acked)
      BY DEF IInv
    <2> QED
      BY <2>1, <2>2, <2>3, GoodPart
  <1>7. \A d : FinalVersion(d)' = FinalVersion(d)
    BY <1>2 DEF FinalVersion
  <1>8. Stream'
    <2>1. ASSUME pc = "verify", dirStatus = "succeeded",
                 NEW k \in 1 .. Len(dirs')
          PROVE  FinalVersion(dirs'[k]) = call
      BY <1>1, <1>3, <2>1 DEF IInv, Stream
    <2> QED
      BY <1>2, <1>4, <1>7, <2>1 DEF IInv, Stream
  <1>9. ReturnMeansVisible'
    BY <1>2, <1>4, <1>7 DEF IInv, ReturnMeansVisible
  <1> QED
    BY <1>2, <1>5, <1>6, <1>8, <1>9 DEF IInv

LEMMA CrashKeeps ==
  ASSUME IInv, Crash
  PROVE  IInv'
  <1>1. /\ Len(dirs) \in Nat \ {0} /\ dirs[1] \in Dir
        /\ dirs' = <<dirs[1]>> /\ cache' = disk /\ disk' = disk
        /\ pc' = "idle" /\ outcome' = "none"
    BY DirsType DEF IInv, Crash
  <1>2. UNCHANGED <<call, offset, passed, raising, dirStatus, acked>>
    BY DEF Crash, stream
  <1>3. dirs' \in Seq(Dir) /\ dirs' # <<>> /\ Len(dirs') = 1 /\ dirs'[1] = dirs[1]
    BY <1>1
  <1>4. TypeOK'
    BY <1>1, <1>2, <1>3 DEF IInv, TypeOK, Dir
  <1>5. GoodDirs(dirs, disk, disk, call, acked)
    <2>1. \A i \in 1 .. Len(dirs) : dirs[i].final # 0 =>
            disk[dirs[i].final] = cache[dirs[i].final]
      BY DEF IInv, GoodDirs
    <2> QED
      BY <2>1, GoodContents DEF IInv
  <1>6. GoodDirs(dirs', disk, disk, call, acked)
    <2>1. \A k \in 1 .. Len(dirs') : k + 0 \in 1 .. Len(dirs) /\ dirs'[k] = dirs[k + 0]
      BY <1>1, <1>3
    <2>2. Len(dirs') \in Nat /\ 0 \in Nat
      BY <1>3
    <2> QED
      BY <1>5, <2>1, <2>2, GoodPart
  <1>7. Stream' /\ ReturnMeansVisible'
    BY <1>1 DEF Stream, Writing, ReturnMeansVisible
  <1> QED
    BY <1>1, <1>2, <1>4, <1>6, <1>7 DEF IInv

-----------------------------------------------------------------------------
(* Steps of the caller *)

(* A step that touches neither the file system nor the version count. *)
LEMMA CallerKeeps ==
  ASSUME IInv, UNCHANGED <<call, acked, cache, disk, dirs>>
  PROVE  /\ GoodDirs(dirs, cache, disk, call, acked)'
         /\ Now' = Now /\ \A d : FinalVersion(d)' = FinalVersion(d)
  BY DEF IInv, Now, FinalVersion

(* The call is over: nothing is left to say of the stream. *)
LEMMA EndKeeps ==
  ASSUME IInv, UNCHANGED <<call, offset, passed, raising, dirStatus, acked,
                           cache, disk, dirs>>,
         pc' = "idle", outcome' \in {"none", "raised"}
  PROVE  IInv'
  <1>1. TypeOK'
    BY DEF IInv, TypeOK
  <1>2. Stream' /\ ReturnMeansVisible'
    BY DEF Stream, Writing, ReturnMeansVisible
  <1> QED
    BY <1>1, <1>2, CallerKeeps DEF IInv

(* Bytes reaching the temporary inode harm no version. *)
LEMMA PassKeeps ==
  ASSUME IInv, pc \in Writing, NEW upTo \in 0 .. Chunks, Pass(upTo),
         UNCHANGED <<call, acked, disk, dirs>>
  PROVE  /\ GoodDirs(dirs, cache, disk, call, acked)'
         /\ cache' \in [Inode -> Content]
         /\ cache'[Now.temp] = [of |-> call, chunks |-> 1 .. upTo]
         /\ Now' = Now /\ Now.temp # 0
         /\ \A k \in 1 .. Len(dirs) : FinalVersion(dirs[k])' = FinalVersion(dirs[k])
  <1>1. /\ Now.temp # 0
        /\ cache[Now.temp] = [of |-> call, chunks |-> 1 .. passed]
    BY DEF IInv, Stream
  <1>2. Now.temp \in Inode
    BY <1>1, DirsType, CallsAssumption DEF IInv, Inode, Version
  <1>3. cache' = [cache EXCEPT ![Now.temp].chunks = 1 .. upTo]
    BY DEF Pass
  <1>4. cache \in [Inode -> Content] /\ call \in Version
    BY DEF IInv, TypeOK
  <1>5. cache'[Now.temp] = [cache[Now.temp] EXCEPT !.chunks = 1 .. upTo]
    BY <1>2, <1>3, <1>4
  <1>6. cache'[Now.temp] = [of |-> call, chunks |-> 1 .. upTo]
    BY <1>1, <1>5
  <1>7. [of |-> call, chunks |-> 1 .. upTo] \in Content
    <2>1. 1 .. upTo \in SUBSET (1 .. Chunks)
      BY SizeAssumption
    <2> QED
      BY <1>4, <2>1 DEF Content
  <1>8. \A i \in Inode : i # Now.temp => cache'[i] = cache[i]
    BY <1>3, <1>4
  <1>9. cache' \in [Inode -> Content]
    BY <1>3, <1>4, <1>5, <1>6, <1>7
  <1>10. \A k \in 1 .. Len(dirs) : dirs[k].final # 0 =>
           /\ cache'[dirs[k].final] = cache[dirs[k].final]
           /\ disk[dirs[k].final] = disk[dirs[k].final]
    <2> SUFFICES ASSUME NEW k \in 1 .. Len(dirs), dirs[k].final # 0
                 PROVE  cache'[dirs[k].final] = cache[dirs[k].final]
      OBVIOUS
    <2>1. dirs[k].final \in Inode
      BY DirsType, CallsAssumption DEF IInv, Dir, Inode, Version
    <2>2. dirs[k].final # Now.temp
      BY <1>1, TempApart
    <2> QED
      BY <1>8, <2>1, <2>2
  <1>11. /\ GoodDirs(dirs, cache', disk, call, acked)
         /\ \A k \in 1 .. Len(dirs) : VersionIn(cache', dirs[k]) = VersionIn(cache, dirs[k])
    BY <1>10, GoodContents DEF IInv
  <1>12. \A k \in 1 .. Len(dirs) : FinalVersion(dirs[k])' = FinalVersion(dirs[k])
    BY <1>11 DEF FinalVersion, VersionIn
  <1>13. Now' = Now
    BY DEF Now
  <1>14. GoodDirs(dirs, cache, disk, call, acked)'
    BY <1>11
  <1> QED
    BY <1>1, <1>6, <1>9, <1>12, <1>13, <1>14

(* It also truncates no version: a second conclusion, for the refinement. *)
LEMMA OpenKeeps ==
  ASSUME IInv, Open
  PROVE  /\ IInv'
         /\ \A k \in 1 .. Len(dirs) : VersionIn(cache', dirs[k]) = VersionIn(cache, dirs[k])
  <1> DEFINE i == IF Now.temp = 0 THEN call + 1 ELSE Now.temp
             n == call + 1
  <1>1. /\ call \in Version /\ call \in Nat /\ call < MaxCalls
        /\ n \in Version /\ n \in Nat /\ i \in Inode /\ i \in Version /\ i # 0
    BY DirsType, CallsAssumption DEF IInv, TypeOK, Open, Version, Inode
  <1>2. /\ cache' = [cache EXCEPT ![i] = Empty(n)] /\ call' = n
        /\ dirs' = IF Now.temp = 0 THEN Append(dirs, [Now EXCEPT !.temp = i])
                                   ELSE dirs
    BY DEF Open
  <1>3. /\ offset' = 0 /\ passed' = 0 /\ raising' = FALSE
        /\ dirStatus' = "none" /\ outcome' = "none" /\ pc' = "write"
        /\ acked' = acked /\ disk' = disk
    BY DEF Open
  <1>4. /\ dirs \in Seq(Dir) /\ dirs # <<>> /\ Len(dirs) \in Nat \ {0}
        /\ \A k \in 1 .. Len(dirs) : dirs[k] \in Dir
        /\ Now \in Dir /\ Now = dirs[Len(dirs)]
    BY DirsType DEF IInv, TypeOK, Now
  <1> HIDE DEF i, n
  <1>5. Empty(n) \in Content
    BY <1>1 DEF Empty, Content
  <1>6. /\ cache' \in [Inode -> Content] /\ cache'[i] = Empty(n)
        /\ \A j \in Inode : j # i => cache'[j] = cache[j]
    BY <1>1, <1>2, <1>5 DEF IInv, TypeOK
  <1>7. \A k \in 1 .. Len(dirs) : dirs[k].final # i
    <2>1. CASE Now.temp = 0
      <3>1. \A k \in 1 .. Len(dirs) : dirs[k].final <= call /\ dirs[k].final \in Nat
        BY <1>4, CallsAssumption DEF IInv, GoodDirs, Dir, Version
      <3> QED
        BY <1>1, <2>1, <3>1 DEF i
    <2>2. CASE Now.temp # 0
      BY <2>2, TempApart DEF i
    <2> QED
      BY <2>1, <2>2
  <1>8. \A k \in 1 .. Len(dirs) : dirs[k].final # 0 =>
          /\ cache'[dirs[k].final] = cache[dirs[k].final]
          /\ disk[dirs[k].final] = disk[dirs[k].final]
    BY <1>4, <1>6, <1>7, CallsAssumption DEF Dir, Inode, Version
  <1>9. /\ GoodDirs(dirs, cache', disk, call, acked)
        /\ \A k \in 1 .. Len(dirs) : VersionIn(cache', dirs[k]) = VersionIn(cache, dirs[k])
    <2>1. GoodDirs(dirs, cache, disk, call, acked)
      BY DEF IInv
    <2>2. \A k \in 1 .. Len(dirs) : dirs[k].final # 0 =>
            /\ cache'[dirs[k].final] = cache[dirs[k].final]
            /\ disk[dirs[k].final] = disk[dirs[k].final]
      BY <1>8, Zenon
    <2>3. \A k \in 1 .. Len(dirs) : VersionIn(cache', dirs[k]) = VersionIn(cache, dirs[k])
      BY <2>2 DEF VersionIn
    <2>4. GoodDirs(dirs, cache', disk, call, acked)
      BY <2>1, <2>2, <2>3 DEF GoodDirs
    <2> QED
      BY <2>3, <2>4
  <1>10. \A k \in 1 .. Len(dirs) :
           /\ VersionIn(cache', dirs[k]) \in Nat
           /\ VersionIn(cache', dirs[k]) <= call
           /\ dirs[k].temp \in Nat /\ dirs[k].final \in Nat
           /\ dirs[k].temp <= call /\ dirs[k].final <= call
    <2>1. TypeOK
      BY DEF IInv
    <2>2. \A k \in 1 .. Len(dirs) : VersionIn(cache, dirs[k]) \in Nat
      BY <1>4, <2>1, VersionType, SameVersion
    <2>3. \A k \in 1 .. Len(dirs) : dirs[k].temp \in Nat /\ dirs[k].final \in Nat
      BY <1>4, CallsAssumption DEF Dir, Version
    <2> QED
      BY <1>9, <2>2, <2>3 DEF GoodDirs
  <1>11. GoodDirs(dirs, cache', disk, n, acked)
    <2>1. \A k \in 1 .. Len(dirs) :
            /\ VersionIn(cache', dirs[k]) <= n
            /\ dirs[k].temp <= n /\ dirs[k].final <= n
      BY <1>1, <1>10 DEF n
    <2> QED
      BY <1>9, <2>1 DEF GoodDirs
  <1>12. /\ GoodDirs(dirs', cache', disk, n, acked)
         /\ dirs' \in Seq(Dir) /\ dirs' # <<>> /\ Now'.temp = i
    <2>1. CASE Now.temp # 0
      BY <1>2, <1>4, <1>11, <2>1 DEF i, Now
    <2>2. CASE Now.temp = 0
      <3> DEFINE d == [Now EXCEPT !.temp = i]
      <3>1. d \in Dir /\ d.temp = i /\ d.final = Now.final
        BY <1>1, <1>4 DEF Dir
      <3>2. i = n
        BY <2>2 DEF i, n
      <3>3. dirs' = Append(dirs, d)
        BY <1>2, <2>2
      <3> HIDE DEF d
      <3>4. VersionIn(cache', d) = VersionIn(cache', dirs[Len(dirs)])
        BY <1>4, <3>1 DEF VersionIn
      <3>5. Len(dirs) \in 1 .. Len(dirs)
        BY <1>4
      <3>6. /\ VersionIn(cache', d) \in Nat /\ VersionIn(cache', d) <= n
            /\ VersionIn(cache', d) >= VersionIn(cache', dirs[Len(dirs)])
            /\ d.temp <= n /\ d.final <= n
        BY <1>1, <1>4, <1>10, <3>1, <3>2, <3>4, <3>5 DEF n
      <3>7. d.final # 0 => /\ cache'[d.final] = Whole(VersionIn(cache', d))
                           /\ disk[d.final] = cache'[d.final]
        BY <1>4, <1>11, <3>1, <3>4, <3>5 DEF GoodDirs
      <3>8. d.temp # d.final /\ \A k \in 1 .. Len(dirs) : d.temp # dirs[k].final
        BY <1>4, <1>7, <3>1, <3>5
      <3>9. acked \in Nat
        BY CallsAssumption DEF IInv, TypeOK, Version
      <3>10. GoodDirs(Append(dirs, d), cache', disk, n, acked)
        <4>1. \A k \in 1 .. Len(dirs) : VersionIn(cache', dirs[k]) \in Nat
          BY <1>10
        <4> QED
          BY <1>1, <1>4, <1>11, <3>1, <3>6, <3>7, <3>8, <3>9, <4>1, GoodAppend
      <3>11. /\ dirs' \in Seq(Dir) /\ dirs' # <<>> /\ dirs'[Len(dirs')] = d
        BY <1>4, <3>1, <3>3
      <3> QED
        BY <3>1, <3>3, <3>10, <3>11 DEF Now
    <2> QED
      BY <2>1, <2>2
  <1>13. TypeOK'
    <2>1. 0 \in 0 .. Chunks
      BY SizeAssumption
    <2> QED
      BY <1>1, <1>2, <1>3, <1>6, <1>12, <2>1 DEF IInv, TypeOK, Dir
  <1>14. Stream'
    <2>1. 1 .. passed' = {}
      BY <1>3
    <2>2. cache'[Now'.temp] = [of |-> call', chunks |-> 1 .. passed']
      BY <1>2, <1>6, <1>12, <2>1 DEF Empty
    <2>3. Now'.temp # 0 /\ passed' <= offset'
      BY <1>1, <1>3, <1>12
    <2> QED
      BY <1>3, <2>2, <2>3 DEF Stream
  <1>15. ReturnMeansVisible'
    BY <1>3 DEF ReturnMeansVisible
  <1> QED
    BY <1>2, <1>3, <1>9, <1>12, <1>13, <1>14, <1>15 DEF IInv

LEMMA OpenFailsKeeps ==
  ASSUME IInv, OpenFails
  PROVE  IInv'
  <1>1. /\ pc = "idle" /\ call < MaxCalls /\ call' = call + 1 /\ outcome' = "raised"
        /\ UNCHANGED <<pc, offset, passed, raising, dirStatus, acked, cache, disk, dirs>>
    BY DEF OpenFails, stream, files
  <1>2. call \in Nat /\ call' \in Version /\ call' > call
    BY <1>1, CallsAssumption DEF IInv, TypeOK, Version
  <1>3. TypeOK'
    BY <1>1, <1>2 DEF IInv, TypeOK
  <1>4. \A k \in 1 .. Len(dirs) :
          VersionIn(cache, dirs[k]) \in Nat /\ dirs[k].temp \in Nat /\ dirs[k].final \in Nat
    <2>1. TypeOK
      BY DEF IInv
    <2> QED
      BY <2>1, DirsType, VersionType, SameVersion, CallsAssumption DEF Dir, Version
  <1>5. GoodDirs(dirs, cache, disk, call', acked)
    <2>1. \A k \in 1 .. Len(dirs) :
            /\ VersionIn(cache, dirs[k]) <= call'
            /\ dirs[k].temp <= call' /\ dirs[k].final <= call'
      <3>1. \A k \in 1 .. Len(dirs) :
              /\ VersionIn(cache, dirs[k]) <= call
              /\ dirs[k].temp <= call /\ dirs[k].final <= call
        BY DEF IInv, GoodDirs
      <3>2. call' \in Nat
        BY <1>1, <1>2
      <3> QED
        BY <1>2, <1>4, <3>1, <3>2
    <2> QED
      BY <2>1 DEF IInv, GoodDirs
  <1>6. Stream' /\ ReturnMeansVisible'
    BY <1>1 DEF Stream, Writing, ReturnMeansVisible
  <1> QED
    BY <1>1, <1>3, <1>5, <1>6 DEF IInv

LEMMA WriteKeeps ==
  ASSUME IInv, Write
  PROVE  IInv'
  <1>1. PICK written \in 0 .. (Chunks - offset) :
          /\ offset' = offset + written
          /\ \E upTo \in passed .. (offset + written) : Pass(upTo)
          /\ IF written = 0 THEN raising' = TRUE /\ pc' = "close"
                            ELSE UNCHANGED <<raising, pc>>
    BY DEF Write
  <1>2. PICK upTo \in passed .. (offset + written) : Pass(upTo)
    BY <1>1
  <1>3. /\ pc = "write" /\ offset < Chunks
        /\ UNCHANGED <<call, dirStatus, outcome, acked, disk, dirs>>
    BY DEF Write
  <1>4. offset \in 0 .. Chunks /\ passed \in 0 .. Chunks /\ outcome' = outcome
    BY <1>3 DEF IInv, TypeOK
  <1>5. /\ offset' \in 0 .. Chunks /\ upTo \in 0 .. Chunks /\ passed' = upTo
        /\ passed' <= offset'
    BY <1>1, <1>2, <1>4, SizeAssumption DEF Pass
  <1>6. /\ GoodDirs(dirs, cache, disk, call, acked)'
        /\ cache' \in [Inode -> Content]
        /\ cache'[Now.temp] = [of |-> call, chunks |-> 1 .. upTo]
        /\ Now' = Now /\ Now.temp # 0
        /\ \A k \in 1 .. Len(dirs) : FinalVersion(dirs[k])' = FinalVersion(dirs[k])
    BY <1>2, <1>3, <1>5, PassKeeps DEF Writing
  <1>7. (pc' = "write" /\ raising' = raising) \/ (pc' = "close" /\ raising' = TRUE)
    BY <1>1, <1>3
  <1>8. TypeOK'
    <2>1. pc' \in {"write", "close"} /\ raising' \in BOOLEAN
      BY <1>7 DEF IInv, TypeOK
    <2> QED
      BY <1>3, <1>5, <1>6, <2>1 DEF IInv, TypeOK
  <1>9. Stream'
    BY <1>3, <1>5, <1>6, <1>7 DEF Stream, Writing
  <1>10. ReturnMeansVisible'
    BY <1>3, <1>6, DirsType DEF IInv, ReturnMeansVisible, Now
  <1> QED
    BY <1>6, <1>8, <1>9, <1>10 DEF IInv

LEMMA BodyRaisesKeeps ==
  ASSUME IInv, BodyRaises
  PROVE  IInv'
  <1>1. PICK upTo \in passed .. offset : Pass(upTo)
    BY DEF BodyRaises
  <1>2. /\ pc \in {"write", "flush", "fsync"} /\ pc' = "close" /\ raising' = TRUE
        /\ UNCHANGED <<call, offset, dirStatus, outcome, acked, disk, dirs>>
    BY DEF BodyRaises
  <1>3. offset \in 0 .. Chunks /\ passed \in 0 .. Chunks
    BY DEF IInv, TypeOK
  <1>4. upTo \in 0 .. Chunks /\ passed' = upTo /\ passed' <= offset'
    BY <1>1, <1>2, <1>3, SizeAssumption DEF Pass
  <1>5. /\ GoodDirs(dirs, cache, disk, call, acked)'
        /\ cache' \in [Inode -> Content]
        /\ cache'[Now.temp] = [of |-> call, chunks |-> 1 .. upTo]
        /\ Now' = Now /\ Now.temp # 0
        /\ \A k \in 1 .. Len(dirs) : FinalVersion(dirs[k])' = FinalVersion(dirs[k])
    BY <1>1, <1>2, <1>4, PassKeeps DEF Writing
  <1>6. TypeOK'
    BY <1>2, <1>3, <1>4, <1>5 DEF IInv, TypeOK
  <1>7. Stream'
    BY <1>2, <1>4, <1>5 DEF Stream, Writing
  <1>8. ReturnMeansVisible'
    BY <1>2, <1>5, DirsType DEF IInv, ReturnMeansVisible, Now
  <1> QED
    BY <1>5, <1>6, <1>7, <1>8 DEF IInv

LEMMA WriteDoneKeeps ==
  ASSUME IInv, WriteDone
  PROVE  IInv'
  <1>1. /\ pc = "write" /\ pc' = "flush" /\ offset = Chunks
        /\ UNCHANGED <<call, offset, passed, raising, dirStatus, outcome, acked,
                       cache, disk, dirs>>
    BY DEF WriteDone, stream, files
  <1>2. TypeOK'
    BY <1>1 DEF IInv, TypeOK
  <1>3. Stream'
    BY <1>1, CallerKeeps DEF IInv, Stream, Writing
  <1>4. ReturnMeansVisible'
    BY <1>1, CallerKeeps DEF IInv, ReturnMeansVisible
  <1> QED
    BY <1>1, <1>2, <1>3, <1>4, CallerKeeps DEF IInv

LEMMA FlushKeeps ==
  ASSUME IInv, Flush
  PROVE  IInv'
  <1>1. /\ pc = "flush" /\ pc' = "fsync" /\ Pass(offset)
        /\ UNCHANGED <<call, offset, raising, dirStatus, outcome, acked, disk, dirs>>
    BY DEF Flush
  <1>2. offset \in 0 .. Chunks /\ offset = Chunks /\ passed' = offset
    BY <1>1 DEF IInv, TypeOK, Stream, Pass
  <1>3. /\ GoodDirs(dirs, cache, disk, call, acked)'
        /\ cache' \in [Inode -> Content]
        /\ cache'[Now.temp] = [of |-> call, chunks |-> 1 .. offset]
        /\ Now' = Now /\ Now.temp # 0
        /\ \A k \in 1 .. Len(dirs) : FinalVersion(dirs[k])' = FinalVersion(dirs[k])
    BY <1>1, <1>2, PassKeeps DEF Writing
  <1>4. TypeOK'
    BY <1>1, <1>2, <1>3 DEF IInv, TypeOK
  <1>5. Stream'
    BY <1>1, <1>2, <1>3, SizeAssumption DEF Stream, Writing
  <1>6. ReturnMeansVisible'
    BY <1>1, <1>3, DirsType DEF IInv, ReturnMeansVisible, Now
  <1> QED
    BY <1>3, <1>4, <1>5, <1>6 DEF IInv

LEMMA FsyncKeeps ==
  ASSUME IInv, Fsync
  PROVE  IInv'
  <1>1. /\ pc = "fsync" /\ pc' = "close" /\ disk' = [disk EXCEPT ![Now.temp] = cache[Now.temp]]
        /\ UNCHANGED <<call, offset, passed, raising, dirStatus, outcome, acked, cache, dirs>>
    BY DEF Fsync, stream
  <1>2. /\ Now.temp # 0 /\ offset = Chunks /\ passed = Chunks /\ passed <= offset
        /\ cache[Now.temp] = [of |-> call, chunks |-> 1 .. passed]
    BY <1>1 DEF IInv, Stream, Writing
  <1>3. Now.temp \in Inode
    BY <1>2, DirsType, CallsAssumption DEF IInv, Inode, Version
  <1>4. /\ disk' \in [Inode -> Content] /\ disk'[Now.temp] = cache[Now.temp]
        /\ \A j \in Inode : j # Now.temp => disk'[j] = disk[j]
    BY <1>1, <1>3 DEF IInv, TypeOK
  <1>5. TypeOK'
    BY <1>1, <1>4 DEF IInv, TypeOK
  <1>6. \A k \in 1 .. Len(dirs) : dirs[k].final # 0 =>
          /\ cache[dirs[k].final] = cache[dirs[k].final]
          /\ disk'[dirs[k].final] = disk[dirs[k].final]
    <2> SUFFICES ASSUME NEW k \in 1 .. Len(dirs), dirs[k].final # 0
                 PROVE  disk'[dirs[k].final] = disk[dirs[k].final]
      OBVIOUS
    <2>1. dirs[k].final \in Inode
      BY DirsType, CallsAssumption DEF IInv, Dir, Inode, Version
    <2>2. dirs[k].final # Now.temp
      BY <1>2, TempApart
    <2> QED
      BY <1>4, <2>1, <2>2
  <1>7. GoodDirs(dirs, cache, disk', call, acked)
    BY <1>6, GoodContents DEF IInv
  <1>8. Now' = Now /\ \A d : FinalVersion(d)' = FinalVersion(d)
    BY <1>1 DEF Now, FinalVersion
  <1>9. Stream'
    BY <1>1, <1>2, <1>4, <1>8 DEF Stream, Writing
  <1>10. ReturnMeansVisible'
    BY <1>1, <1>8 DEF IInv, ReturnMeansVisible
  <1> QED
    BY <1>1, <1>5, <1>7, <1>9, <1>10 DEF IInv

LEMMA CloseKeeps ==
  ASSUME IInv, Close \/ CloseFails
  PROVE  IInv'
  <1>1. PICK upTo \in passed .. offset : Pass(upTo) /\ (Close => upTo = offset)
    <2>1. offset \in Nat /\ passed \in Nat /\ (pc = "close" => passed <= offset)
      BY SizeAssumption DEF IInv, TypeOK, Stream, Writing
    <2> QED
      BY <2>1 DEF Close, CloseFails
  <1>2. /\ pc = "close"
        /\ UNCHANGED <<call, offset, raising, dirStatus, acked, disk, dirs>>
        /\ \/ pc' = "idle" /\ outcome' = "raised"
           \/ pc' = "replace" /\ outcome' = outcome /\ raising = FALSE /\ Close
    <2>1. raising \in BOOLEAN
      BY DEF IInv, TypeOK
    <2> QED
      BY <2>1 DEF Close, CloseFails
  <1>3. offset \in 0 .. Chunks /\ passed \in 0 .. Chunks
    BY DEF IInv, TypeOK
  <1>4. upTo \in 0 .. Chunks /\ passed' = upTo
    BY <1>1, <1>3, SizeAssumption DEF Pass
  <1>5. /\ GoodDirs(dirs, cache, disk, call, acked)'
        /\ cache' \in [Inode -> Content]
        /\ cache'[Now.temp] = [of |-> call, chunks |-> 1 .. upTo]
        /\ Now' = Now /\ Now.temp # 0
        /\ \A k \in 1 .. Len(dirs) : FinalVersion(dirs[k])' = FinalVersion(dirs[k])
    BY <1>1, <1>2, <1>4, PassKeeps DEF Writing
  <1>6. TypeOK'
    BY <1>2, <1>3, <1>4, <1>5 DEF IInv, TypeOK
  <1>7. ASSUME pc' = "replace"
        PROVE  Stream' /\ ReturnMeansVisible'
    <2>1. /\ offset = Chunks /\ passed = Chunks /\ disk[Now.temp] = cache[Now.temp]
          /\ raising = FALSE /\ outcome' = outcome
      BY <1>2, <1>7 DEF IInv, Stream
    <2>2. upTo = Chunks /\ cache[Now.temp] = [of |-> call, chunks |-> 1 .. Chunks]
      BY <1>1, <1>2, <1>7, <2>1 DEF IInv, Stream, Writing
    <2>3. Stream'
      BY <1>2, <1>4, <1>5, <1>7, <2>1, <2>2, SizeAssumption DEF Stream, Writing
    <2>4. ReturnMeansVisible'
      BY <1>2, <1>5, <2>1, DirsType DEF IInv, ReturnMeansVisible, Now
    <2> QED
      BY <2>3, <2>4
  <1>8. ASSUME pc' = "idle"
        PROVE  Stream' /\ ReturnMeansVisible'
    BY <1>2, <1>8 DEF Stream, Writing, ReturnMeansVisible
  <1> QED
    BY <1>2, <1>5, <1>6, <1>7, <1>8 DEF IInv

LEMMA ReplaceKeeps ==
  ASSUME IInv, Replace
  PROVE  IInv'
  <1> DEFINE d == [temp |-> 0, final |-> Now.temp]
  <1>1. /\ pc = "replace" /\ pc' = "dirsync" /\ dirs' = Append(dirs, d)
        /\ UNCHANGED <<call, offset, passed, raising, dirStatus, outcome, acked,
                       cache, disk>>
    BY DEF Replace, stream, files
  <1>2. /\ Now.temp # 0 /\ cache[Now.temp] = Whole(call)
        /\ disk[Now.temp] = cache[Now.temp]
    BY <1>1 DEF IInv, Stream, Writing, Whole
  <1>3. /\ dirs \in Seq(Dir) /\ dirs # <<>> /\ Len(dirs) \in Nat \ {0}
        /\ \A k \in 1 .. Len(dirs) : dirs[k] \in Dir
        /\ Now \in Dir /\ Now = dirs[Len(dirs)]
    BY DirsType DEF IInv, TypeOK, Now
  <1>4. d \in Dir /\ d.temp = 0 /\ d.final = Now.temp
    BY <1>3, CallsAssumption DEF Dir, Version
  <1> HIDE DEF d
  <1>5. VersionIn(cache, d) = call
    BY <1>2, <1>4 DEF VersionIn, Whole
  <1>6. call \in Nat /\ acked \in Nat
    BY CallsAssumption DEF IInv, TypeOK, Version
  <1>7. \A k \in 1 .. Len(dirs) : VersionIn(cache, dirs[k]) \in Nat
    <2>1. TypeOK
      BY DEF IInv
    <2> QED
      BY <1>3, <2>1, VersionType, SameVersion
  <1>8. Len(dirs) \in 1 .. Len(dirs)
    BY <1>3
  <1>9. /\ VersionIn(cache, dirs[Len(dirs)]) <= call /\ Now.temp <= call
        /\ Now.temp \in Nat
    BY <1>3, <1>8, CallsAssumption DEF IInv, GoodDirs, Dir, Version
  <1>10. GoodDirs(Append(dirs, d), cache, disk, call, acked)
    <2>1. GoodDirs(dirs, cache, disk, call, acked)
      BY DEF IInv
    <2>2. /\ d.temp <= call /\ d.final <= call
          /\ VersionIn(cache, d) \in Nat /\ VersionIn(cache, d) <= call
          /\ VersionIn(cache, d) >= VersionIn(cache, dirs[Len(dirs)])
      BY <1>4, <1>5, <1>6, <1>7, <1>8, <1>9
    <2>3. d.final # 0 => /\ cache[d.final] = Whole(VersionIn(cache, d))
                         /\ disk[d.final] = cache[d.final]
      BY <1>2, <1>4, <1>5
    <2> QED
      BY <1>3, <1>4, <1>6, <1>7, <2>1, <2>2, <2>3, GoodAppend
  <1>11. dirs' \in Seq(Dir) /\ dirs' # <<>> /\ dirs'[Len(dirs')] = d
    BY <1>1, <1>3, <1>4
  <1>12. TypeOK'
    BY <1>1, <1>11 DEF IInv, TypeOK, Dir
  <1>13. FinalVersion(Now)' = call
    BY <1>1, <1>5, <1>11 DEF FinalVersion, VersionIn, Now
  <1>14. Stream' /\ ReturnMeansVisible'
    BY <1>1, <1>13 DEF Stream, Writing, ReturnMeansVisible
  <1> QED
    BY <1>1, <1>10, <1>12, <1>14 DEF IInv

LEMMA DirectoryFsyncKeeps ==
  ASSUME IInv, DirectoryFsync
  PROVE  IInv'
  <1>1. /\ pc = "dirsync" /\ pc' = "verify"
        /\ \/ dirs' = <<Now>> /\ dirStatus' = "succeeded"
           \/ dirs' = dirs /\ dirStatus' = "unknown_not_tested"
        /\ UNCHANGED <<call, offset, passed, raising, outcome, acked, cache, disk>>
    BY DEF DirectoryFsync, stream, files
  <1>2. FinalVersion(Now) = call
    BY <1>1 DEF IInv, Stream
  <1>3. /\ dirs \in Seq(Dir) /\ dirs # <<>> /\ Len(dirs) \in Nat \ {0}
        /\ Now \in Dir /\ Now = dirs[Len(dirs)]
    BY DirsType DEF IInv, TypeOK, Now
  <1>4. \A d : FinalVersion(d)' = FinalVersion(d)
    BY <1>1 DEF FinalVersion
  <1>5. CASE dirs' = <<Now>> /\ dirStatus' = "succeeded"
    <2>1. dirs' \in Seq(Dir) /\ dirs' # <<>> /\ Len(dirs') = 1 /\ dirs'[1] = Now
      BY <1>3, <1>5
    <2>2. \A k \in 1 .. Len(dirs') :
            k + (Len(dirs) - 1) \in 1 .. Len(dirs) /\ dirs'[k] = dirs[k + (Len(dirs) - 1)]
      BY <1>3, <2>1
    <2>3. GoodDirs(dirs', cache, disk, call, acked)
      <3>1. Len(dirs') \in Nat /\ Len(dirs) - 1 \in Nat
        BY <1>3, <2>1
      <3>2. GoodDirs(dirs, cache, disk, call, acked)
        BY DEF IInv
      <3> QED
        BY <2>2, <3>1, <3>2, GoodPart
    <2>4. TypeOK'
      BY <1>1, <1>5, <2>1 DEF IInv, TypeOK, Dir
    <2>5. Now' = Now
      BY <2>1 DEF Now
    <2>6. \A k \in 1 .. Len(dirs') : FinalVersion(dirs'[k]) = call
      BY <1>2, <2>1
    <2>7. Stream'
      BY <1>1, <1>2, <1>4, <2>5, <2>6 DEF Stream, Writing
    <2>8. ReturnMeansVisible'
      BY <1>1, <1>2, <1>4, <2>5 DEF ReturnMeansVisible
    <2> QED
      BY <1>1, <2>3, <2>4, <2>7, <2>8 DEF IInv
  <1>6. CASE dirs' = dirs /\ dirStatus' = "unknown_not_tested"
    <2>1. TypeOK'
      BY <1>1, <1>6 DEF IInv, TypeOK
    <2>2. Stream' /\ ReturnMeansVisible'
      BY <1>1, <1>2, <1>6, CallerKeeps DEF Stream, Writing, ReturnMeansVisible
    <2> QED
      BY <1>1, <1>6, <2>1, <2>2, CallerKeeps DEF IInv
  <1> QED
    BY <1>1, <1>5, <1>6

LEMMA VerifyKeeps ==
  ASSUME IInv, Verify
  PROVE  IInv'
  <1>1. CASE ~hash_match
    BY <1>1, EndKeeps DEF Verify, Raise, stream, files
  <1>2. CASE hash_match
    <2>1. /\ pc = "verify" /\ pc' = "idle" /\ outcome' = dirStatus
          /\ acked' = IF dirStatus = "succeeded" THEN call ELSE acked
          /\ UNCHANGED <<call, offset, passed, raising, dirStatus, cache, disk, dirs>>
      BY <1>2 DEF Verify, stream, files
    <2>2. FinalVersion(Now) = call
      BY <2>1 DEF IInv, Stream
    <2>3. Now' = Now /\ \A d : FinalVersion(d)' = FinalVersion(d)
      BY <2>1 DEF Now, FinalVersion
    <2>4. TypeOK'
      BY <2>1 DEF IInv, TypeOK
    <2>5. Stream' /\ ReturnMeansVisible'
      BY <2>1, <2>2, <2>3 DEF Stream, Writing, ReturnMeansVisible
    <2>6. GoodDirs(dirs, cache, disk, call, acked')
      <3>1. CASE dirStatus = "succeeded"
        <4>1. \A k \in 1 .. Len(dirs) : VersionIn(cache, dirs[k]) = call
          BY <2>1, <3>1, SameVersion DEF IInv, Stream
        <4>2. call \in Nat /\ acked' = call
          BY <2>1, <3>1, CallsAssumption DEF IInv, TypeOK, Version
        <4>3. \A k \in 1 .. Len(dirs) : acked' <= VersionIn(cache, dirs[k])
          BY <4>1, <4>2
        <4> QED
          BY <4>3 DEF IInv, GoodDirs
      <3>2. CASE dirStatus # "succeeded"
        BY <2>1, <3>2 DEF IInv
      <3> QED
        BY <3>1, <3>2
    <2> QED
      BY <2>1, <2>4, <2>5, <2>6 DEF IInv
  <1> QED
    BY <1>1, <1>2

-----------------------------------------------------------------------------
(* The theorems *)

LEMMA IInvNext == IInv /\ [Next]_vars => IInv'
  <1> SUFFICES ASSUME IInv, [Next]_vars PROVE IInv'
    OBVIOUS
  <1>1. CASE TailRaises
    BY <1>1, EndKeeps DEF TailRaises, Raise, stream, files
  <1>2. CASE Kill
    BY <1>2, EndKeeps DEF Kill, stream, files
  <1>3. CASE CallStep
    BY <1>1, <1>3, WriteKeeps, BodyRaisesKeeps, WriteDoneKeeps, FlushKeeps,
       FsyncKeeps, CloseKeeps, ReplaceKeeps, DirectoryFsyncKeeps, VerifyKeeps
       DEF CallStep
  <1>4. CASE \E i \in Inode : Writeback(i)
    BY <1>4, WritebackKeeps
  <1>5. CASE UNCHANGED vars
    <2>1. UNCHANGED <<pc, call, offset, passed, raising, dirStatus, outcome, acked,
                      cache, disk, dirs>>
      BY <1>5 DEF vars, stream, files
    <2>2. TypeOK'
      BY <2>1 DEF IInv, TypeOK
    <2>3. Stream' /\ ReturnMeansVisible'
      BY <2>1, CallerKeeps DEF IInv, Stream, ReturnMeansVisible
    <2> QED
      BY <2>1, <2>2, <2>3, CallerKeeps DEF IInv
  <1> QED
    BY <1>2, <1>3, <1>4, <1>5, OpenKeeps, OpenFailsKeeps, JournalCommitKeeps,
       CrashKeeps DEF Next

LEMMA Inductive == Spec => []IInv
  BY IInvInit, IInvNext, PTL DEF Spec

(* Every variable of write_replace_verify and of the file system under it
   keeps its type. *)
THEOREM TypeCorrect == Spec => []TypeOK
  <1>1. IInv => TypeOK
    BY DEF IInv
  <1> QED
    BY Inductive, <1>1, PTL

(* In every directory state a crash can leave behind, the final name leads to
   one whole payload that is on disk. *)
THEOREM NeverTorn == Spec => []FinalNeverTorn
  <1>1. IInv => FinalNeverTorn
    <2> SUFFICES ASSUME IInv, NEW k \in DOMAIN dirs, dirs[k].final # 0
                 PROVE  /\ cache[dirs[k].final] = Whole(FinalVersion(dirs[k]))
                        /\ disk[dirs[k].final] = cache[dirs[k].final]
      BY DEF FinalNeverTorn
    <2>1. k \in 1 .. Len(dirs)
      BY DirsType DEF IInv
    <2> QED
      BY <2>1, SameVersion DEF IInv, GoodDirs
  <1> QED
    BY Inductive, <1>1, PTL

(* No crash takes back a version whose directory_fsync was reported as
   "succeeded". *)
THEOREM AcknowledgedSurvives == Spec => []AckSurvives
  <1>1. IInv => AckSurvives
    <2> SUFFICES ASSUME IInv, NEW k \in DOMAIN dirs
                 PROVE  acked <= FinalVersion(dirs[k])
      BY DEF AckSurvives
    <2>1. k \in 1 .. Len(dirs)
      BY DirsType DEF IInv
    <2> QED
      BY <2>1, SameVersion DEF IInv, GoodDirs
  <1> QED
    BY Inductive, <1>1, PTL

(* A call that returned left its own payload under the final name. *)
THEOREM ReturnedIsVisible == Spec => []ReturnMeansVisible
  <1>1. IInv => ReturnMeansVisible
    BY DEF IInv
  <1> QED
    BY Inductive, <1>1, PTL

-----------------------------------------------------------------------------
(* Refinement *)

History == [k \in DOMAIN dirs |-> FinalVersion(dirs[k])]

HistoryOf(ds, c) == [k \in DOMAIN ds |-> VersionIn(c, ds[k])]

LEMMA HistoryOfType ==
  ASSUME NEW ds \in Seq(Dir), ds # <<>>, NEW c \in [Inode -> Content]
  PROVE  /\ HistoryOf(ds, c) \in Seq(Version) /\ Len(HistoryOf(ds, c)) = Len(ds)
         /\ Len(ds) \in Nat \ {0}
         /\ \A k \in 1 .. Len(ds) :
              /\ HistoryOf(ds, c)[k] = VersionIn(c, ds[k])
              /\ HistoryOf(ds, c)[k] \in Version
  <1>1. /\ DOMAIN ds = 1 .. Len(ds) /\ Len(ds) \in Nat \ {0}
        /\ \A k \in 1 .. Len(ds) : ds[k] \in Dir
    OBVIOUS
  <1>2. \A d \in Dir : VersionIn(c, d) \in Version
    BY CallsAssumption DEF VersionIn, Dir, Inode, Content, Version
  <1>3. HistoryOf(ds, c) = [k \in 1 .. Len(ds) |-> VersionIn(c, ds[k])]
    BY <1>1 DEF HistoryOf
  <1>4. HistoryOf(ds, c) \in [1 .. Len(ds) -> Version]
    BY <1>1, <1>2, <1>3
  <1>5. HistoryOf(ds, c) \in Seq(Version) /\ Len(HistoryOf(ds, c)) = Len(ds)
    BY <1>1, <1>4
  <1>6. \A k \in 1 .. Len(ds) : HistoryOf(ds, c)[k] = VersionIn(c, ds[k])
    BY <1>3
  <1> QED
    BY <1>1, <1>2, <1>5, <1>6

LEMMA HistoryType ==
  ASSUME TypeOK
  PROVE  /\ History \in Seq(Version) /\ Len(History) = Len(dirs)
         /\ Len(dirs) \in Nat \ {0}
         /\ \A k \in 1 .. Len(dirs) :
              History[k] = FinalVersion(dirs[k]) /\ History[k] \in Version
         /\ History[Len(dirs)] = FinalVersion(Now)
  <1>1. dirs \in Seq(Dir) /\ dirs # <<>> /\ cache \in [Inode -> Content]
    BY DEF TypeOK, Dir
  <1>2. History = HistoryOf(dirs, cache)
    BY DEF History, HistoryOf, FinalVersion, VersionIn
  <1>3. \A k \in 1 .. Len(dirs) : VersionIn(cache, dirs[k]) = FinalVersion(dirs[k])
    BY SameVersion
  <1> QED
    BY <1>1, <1>2, <1>3, HistoryOfType DEF Now

LEMMA HistoryTypeNext ==
  ASSUME TypeOK'
  PROVE  /\ History' \in Seq(Version) /\ Len(History') = Len(dirs')
         /\ Len(dirs') \in Nat \ {0}
         /\ \A k \in 1 .. Len(dirs') :
              History'[k] = FinalVersion(dirs[k])' /\ History'[k] \in Version
         /\ History'[Len(dirs')] = FinalVersion(Now)'
  <1>1. dirs' \in Seq(Dir) /\ dirs' # <<>> /\ cache' \in [Inode -> Content]
    BY DEF TypeOK, Dir
  <1>2. History' = HistoryOf(dirs', cache')
    BY DEF History, HistoryOf, FinalVersion, VersionIn
  <1>3. \A k \in 1 .. Len(dirs') : VersionIn(cache', dirs'[k]) = FinalVersion(dirs[k])'
    BY DEF FinalVersion, VersionIn
  <1> QED
    BY <1>1, <1>2, <1>3, HistoryOfType DEF Now

(* Steps that show a reader nothing new. *)
LEMMA HistorySame ==
  ASSUME TypeOK, TypeOK', dirs' = dirs,
         \A k \in 1 .. Len(dirs) : FinalVersion(dirs[k])' = FinalVersion(dirs[k])
  PROVE  History' = History
  <1>1. DOMAIN dirs = 1 .. Len(dirs)
    BY DirsType
  <1>2. DOMAIN dirs' = 1 .. Len(dirs)
    BY <1>1
  <1>3. \A k \in DOMAIN dirs : FinalVersion(dirs[k])' = FinalVersion(dirs[k])
    BY <1>1
  <1> QED
    BY <1>1, <1>2, <1>3 DEF History

(* The rename, and a new name for the temporary file, add a directory state. *)
LEMMA HistoryAppend ==
  ASSUME TypeOK, TypeOK', Len(dirs') = Len(dirs) + 1,
         \A k \in 1 .. Len(dirs) : FinalVersion(dirs[k])' = FinalVersion(dirs[k]),
         \A k \in 1 .. Len(dirs) : dirs'[k] = dirs[k],
         FinalVersion(Now)' >= FinalVersion(Now)
  PROVE  \E v \in Version : v >= History[Len(History)] /\ History' = Append(History, v)
  <1> DEFINE v == FinalVersion(Now)'
             extended == Append(History, v)
  <1>1. /\ History \in Seq(Version) /\ Len(History) = Len(dirs)
        /\ \A k \in 1 .. Len(dirs) : History[k] = FinalVersion(dirs[k])
        /\ History[Len(dirs)] = FinalVersion(Now) /\ Len(dirs) \in Nat
    BY HistoryType
  <1>2. /\ History' \in Seq(Version) /\ Len(History') = Len(dirs) + 1
        /\ \A k \in 1 .. Len(dirs) + 1 :
             History'[k] = FinalVersion(dirs[k])' /\ History'[k] \in Version
        /\ History'[Len(dirs) + 1] = v
    BY HistoryTypeNext
  <1>3. v \in Version
    BY <1>1, <1>2
  <1> HIDE DEF v
  <1>4. /\ extended \in Seq(Version) /\ Len(extended) = Len(dirs) + 1
        /\ \A k \in 1 .. Len(dirs) : extended[k] = History[k]
        /\ extended[Len(dirs) + 1] = v
    BY <1>1, <1>3
  <1> HIDE DEF extended
  <1>5. ASSUME NEW k \in 1 .. Len(History') PROVE History'[k] = extended[k]
    <2>1. k \in 1 .. Len(dirs) \/ k = Len(dirs) + 1
      BY <1>1, <1>2
    <2> QED
      BY <1>1, <1>2, <1>4, <2>1
  <1>6. History' = extended
    BY <1>2, <1>4, <1>5, SeqEqual
  <1>7. v >= History[Len(History)]
    BY <1>1 DEF v
  <1> QED
    BY <1>3, <1>6, <1>7 DEF extended

(* A commit or a directory fsync drops the oldest directory states. *)
LEMMA HistoryDrop ==
  ASSUME TypeOK, TypeOK', NEW j \in 1 .. Len(dirs),
         Len(dirs') = Len(dirs) - j + 1,
         \A k \in 1 .. Len(dirs') : FinalVersion(dirs[k])' = FinalVersion(dirs[k + j - 1])
  PROVE  History' = SubSeq(History, j, Len(History))
  <1> DEFINE rest == SubSeq(History, j, Len(History))
  <1>1. /\ History \in Seq(Version) /\ Len(History) = Len(dirs)
        /\ \A k \in 1 .. Len(dirs) :
             History[k] = FinalVersion(dirs[k]) /\ History[k] \in Version
        /\ Len(dirs) \in Nat
    BY HistoryType
  <1>2. /\ History' \in Seq(Version) /\ Len(History') = Len(dirs')
        /\ \A k \in 1 .. Len(dirs') : History'[k] = FinalVersion(dirs[k])'
    BY HistoryTypeNext
  <1>3. \A k \in j .. Len(History) : History[k] \in Version
    BY <1>1
  <1>4. /\ rest \in Seq(Version) /\ Len(rest) = Len(dirs) - j + 1
        /\ \A k \in 1 .. Len(dirs) - j + 1 : rest[k] = History[j + k - 1]
    BY <1>1, <1>3, SubSeqProperties
  <1> HIDE DEF rest
  <1>5. ASSUME NEW k \in 1 .. Len(History') PROVE History'[k] = rest[k]
    <2>1. k \in 1 .. Len(dirs) - j + 1 /\ k \in 1 .. Len(dirs')
          /\ j + k - 1 \in 1 .. Len(dirs) /\ j + k - 1 = k + j - 1
      BY <1>1, <1>2
    <2> QED
      BY <1>1, <1>2, <1>4, <2>1
  <1>6. History' = rest
    BY <1>2, <1>4, <1>5, SeqEqual
  <1> QED
    BY <1>6 DEF rest

(* What leaves the buffer changes no inode's version. *)
LEMMA PassVersion ==
  ASSUME TypeOK, NEW upTo, Pass(upTo), NEW d \in Dir
  PROVE  VersionIn(cache', d) = VersionIn(cache, d)
  <1>1. cache \in [Inode -> Content] /\ cache' = [cache EXCEPT ![Now.temp].chunks = 1 .. upTo]
    BY DEF TypeOK, Pass
  <1>2. ASSUME NEW i \in Inode PROVE cache'[i].of = cache[i].of
    <2>1. CASE i # Now.temp
      BY <1>1, <2>1
    <2>2. CASE i = Now.temp
      <3>1. cache'[i] = [cache[i] EXCEPT !.chunks = 1 .. upTo] /\ cache[i] \in Content
        BY <1>1, <2>2
      <3> QED
        BY <3>1 DEF Content
    <2> QED
      BY <2>1, <2>2
  <1>3. d.final # 0 => d.final \in Inode
    BY CallsAssumption DEF Dir, Version, Inode
  <1> QED
    BY <1>2, <1>3 DEF VersionIn

LEMMA StepRefines ==
  ASSUME IInv, IInv', [Next]_vars
  PROVE  [File!Next]_<<History, acked>>
  <1>1. TypeOK /\ TypeOK' /\ Version' = Version
    BY DEF IInv, Version
  <1>2. /\ dirs \in Seq(Dir) /\ dirs # <<>> /\ Len(dirs) \in Nat \ {0}
        /\ \A k \in 1 .. Len(dirs) : dirs[k] \in Dir
        /\ Now \in Dir /\ Now = dirs[Len(dirs)]
    BY <1>1, DirsType DEF TypeOK, Now
  <1>3. /\ History \in Seq(Version) /\ Len(History) = Len(dirs)
        /\ \A k \in 1 .. Len(dirs) :
             History[k] = FinalVersion(dirs[k]) /\ History[k] \in Version
    BY <1>1, HistoryType
  <1>4. ASSUME NEW d PROVE FinalVersion(d) = VersionIn(cache, d)
    BY SameVersion
  <1>5. ASSUME NEW k PROVE FinalVersion(dirs[k])' = VersionIn(cache', dirs'[k])
    BY DEF FinalVersion, VersionIn
  (* Steps that leave the directory alone and no inode's version changed. *)
  <1>6. ASSUME dirs' = dirs, acked' = acked,
               cache' = cache \/ (\E upTo : Pass(upTo))
        PROVE  UNCHANGED <<History, acked>>
    <2>1. \A k \in 1 .. Len(dirs) : VersionIn(cache', dirs[k]) = VersionIn(cache, dirs[k])
      BY <1>1, <1>2, <1>6, PassVersion
    <2>2. \A k \in 1 .. Len(dirs) : FinalVersion(dirs[k])' = FinalVersion(dirs[k])
      BY <1>4, <1>5, <1>6, <2>1
    <2> QED
      BY <1>1, <1>6, <2>2, HistorySame
  <1>7. CASE Open
    <2>1. acked' = acked
      BY <1>7 DEF Open
    <2>2. \A k \in 1 .. Len(dirs) : FinalVersion(dirs[k])' = VersionIn(cache', dirs'[k])
      BY <1>5
    <2>3. \A k \in 1 .. Len(dirs) : VersionIn(cache', dirs[k]) = VersionIn(cache, dirs[k])
      BY <1>7, OpenKeeps
    <2>4. CASE Now.temp # 0
      <3>1. dirs' = dirs
        BY <1>7, <2>4 DEF Open
      <3>2. \A k \in 1 .. Len(dirs) : FinalVersion(dirs[k])' = FinalVersion(dirs[k])
        BY <1>4, <2>2, <2>3, <3>1
      <3> QED
        BY <1>1, <2>1, <3>1, <3>2, HistorySame
    <2>5. CASE Now.temp = 0
      <3> DEFINE d == [Now EXCEPT !.temp = call + 1]
      <3>1. dirs' = Append(dirs, d) /\ d.final = Now.final
        BY <1>2, <1>7, <2>5 DEF Open, Dir
      <3> HIDE DEF d
      <3>2. /\ Len(dirs') = Len(dirs) + 1 /\ dirs'[Len(dirs')] = d
            /\ \A k \in 1 .. Len(dirs) : dirs'[k] = dirs[k]
        BY <1>2, <3>1
      <3>3. \A k \in 1 .. Len(dirs) : FinalVersion(dirs[k])' = FinalVersion(dirs[k])
        BY <1>4, <2>2, <2>3, <3>2
      <3>4. FinalVersion(Now)' = VersionIn(cache', d)
        BY <3>2 DEF FinalVersion, VersionIn, Now
      <3>5. VersionIn(cache', d) = VersionIn(cache', Now)
        BY <3>1 DEF VersionIn
      <3>6. VersionIn(cache', Now) = VersionIn(cache, Now)
        BY <1>2, <2>3
      <3>7. FinalVersion(Now)' >= FinalVersion(Now)
        <4>1. FinalVersion(Now) \in Nat
          BY <1>1, <1>2, VersionType
        <4> QED
          BY <1>4, <3>4, <3>5, <3>6, <4>1
      <3>8. File!Publish
        BY <1>1, <2>1, <3>2, <3>3, <3>7, HistoryAppend DEF File!Publish, History
      <3> QED
        BY <3>8 DEF File!Next
    <2> QED
      BY <2>4, <2>5
  <1>8. CASE OpenFails \/ WriteDone \/ TailRaises \/ Kill
    BY <1>6, <1>8 DEF OpenFails, WriteDone, TailRaises, Raise, Kill, files
  <1>9. CASE Write \/ BodyRaises \/ Flush \/ Close \/ CloseFails
    BY <1>6, <1>9 DEF Write, BodyRaises, Flush, Close, CloseFails
  <1>10. CASE Fsync \/ (\E i \in Inode : Writeback(i))
    BY <1>6, <1>10 DEF Fsync, Writeback
  <1>11. CASE Replace
    <2> DEFINE d == [temp |-> 0, final |-> Now.temp]
    <2>1. /\ dirs' = Append(dirs, d) /\ cache' = cache /\ acked' = acked
          /\ pc = "replace" /\ pc' = "dirsync" /\ call' = call
      BY <1>11 DEF Replace, files
    <2> HIDE DEF d
    <2>2. /\ Len(dirs') = Len(dirs) + 1
          /\ \A k \in 1 .. Len(dirs) : dirs'[k] = dirs[k]
      BY <1>2, <2>1
    <2>3. \A k \in 1 .. Len(dirs) : FinalVersion(dirs[k])' = FinalVersion(dirs[k])
      BY <1>4, <1>5, <2>1, <2>2
    <2>4. FinalVersion(Now)' = call
      BY <2>1 DEF IInv, Stream
    <2>5. FinalVersion(Now) <= call
      BY <1>2, <1>4 DEF IInv, GoodDirs
    <2>6. call \in Nat /\ FinalVersion(Now) \in Nat
      <3>1. call \in Version
        BY <1>1 DEF TypeOK
      <3>2. FinalVersion(Now) \in Nat
        BY <1>1, <1>2, VersionType
      <3> QED
        BY <3>1, <3>2, CallsAssumption DEF Version
    <2>7. FinalVersion(Now)' >= FinalVersion(Now)
      BY <2>4, <2>5, <2>6
    <2>8. File!Publish
      BY <1>1, <2>1, <2>2, <2>3, <2>7, HistoryAppend DEF File!Publish, History
    <2> QED
      BY <2>8 DEF File!Next
  <1>12. CASE JournalCommit
    <2>1. dirs' = Tail(dirs) /\ Len(dirs) > 1 /\ cache' = cache /\ acked' = acked
      BY <1>12 DEF JournalCommit, files
    <2>2. /\ Len(dirs') = Len(dirs) - 2 + 1
          /\ \A k \in 1 .. Len(dirs') : dirs'[k] = dirs[k + 2 - 1]
      BY <1>2, <2>1
    <2>3. \A k \in 1 .. Len(dirs') : FinalVersion(dirs[k])' = FinalVersion(dirs[k + 2 - 1])
      BY <1>4, <1>5, <2>1, <2>2
    <2>4. 2 \in 1 .. Len(dirs) /\ 2 \in 2 .. Len(History)
      BY <1>2, <1>3, <2>1
    <2>5. History' = SubSeq(History, 2, Len(History))
      BY <1>1, <2>2, <2>3, <2>4, HistoryDrop
    <2>6. File!Persist
      BY <2>1, <2>4, <2>5 DEF File!Persist, History
    <2> QED
      BY <2>6 DEF File!Next
  <1>13. CASE Crash
    <2>1. dirs' = <<dirs[1]>> /\ cache' = disk /\ acked' = acked
      BY <1>13 DEF Crash
    <2>2. 1 \in 1 .. Len(dirs)
      BY <1>2
    <2>3. VersionIn(disk, dirs[1]) = VersionIn(cache, dirs[1])
      BY <2>2 DEF IInv, GoodDirs, VersionIn
    <2>4. Len(dirs') = 1 /\ dirs'[1] = dirs[1]
      BY <2>1
    <2>5. FinalVersion(dirs[1])' = History[1]
      BY <1>3, <1>4, <1>5, <2>1, <2>2, <2>3, <2>4
    <2>6. /\ History' \in Seq(Version) /\ Len(History') = 1
          /\ History'[1] = FinalVersion(dirs[1])'
      BY <1>1, <2>4, HistoryTypeNext
    <2>7. History' = <<History[1]>>
      BY <2>5, <2>6
    <2>8. File!Crash
      BY <2>1, <2>7 DEF File!Crash, History
    <2> QED
      BY <2>8 DEF File!Next
  <1>14. CASE DirectoryFsync
    <2>1. /\ cache' = cache /\ acked' = acked
          /\ dirs' = <<Now>> \/ dirs' = dirs
      BY <1>14 DEF DirectoryFsync, files
    <2>2. CASE dirs' = dirs
      BY <1>6, <2>1, <2>2
    <2>3. CASE dirs' = <<Now>> /\ Len(dirs) = 1
      <3>1. dirs' = dirs
        BY <1>2, <2>3
      <3> QED
        BY <1>6, <2>1, <3>1
    <2>4. CASE dirs' = <<Now>> /\ Len(dirs) > 1
      <3> DEFINE j == Len(dirs)
      <3>1. /\ j \in 1 .. Len(dirs) /\ j \in 2 .. Len(History)
            /\ Len(dirs') = Len(dirs) - j + 1
            /\ \A k \in 1 .. Len(dirs') : dirs'[k] = dirs[k + j - 1]
        BY <1>2, <1>3, <2>4
      <3>2. \A k \in 1 .. Len(dirs') : FinalVersion(dirs[k])' = FinalVersion(dirs[k + j - 1])
        BY <1>4, <1>5, <2>1, <3>1
      <3>3. History' = SubSeq(History, j, Len(History))
        BY <1>1, <3>1, <3>2, HistoryDrop
      <3>4. File!Persist
        BY <2>1, <3>1, <3>3 DEF File!Persist, History
      <3> QED
        BY <3>4 DEF File!Next
    <2> QED
      BY <1>2, <2>1, <2>2, <2>3, <2>4
  <1>15. CASE Verify
    <2>1. dirs' = dirs /\ cache' = cache
      BY <1>15 DEF Verify, Raise, files
    <2>2. CASE acked' = acked
      BY <1>6, <2>1, <2>2
    <2>3. CASE acked' # acked
      <3>1. pc = "verify" /\ dirStatus = "succeeded" /\ acked' = call
        BY <1>15, <2>3 DEF Verify, Raise
      <3>2. 1 \in 1 .. Len(dirs)
        BY <1>2
      <3>3. History[1] = call
        BY <1>3, <3>1, <3>2 DEF IInv, Stream
      <3>4. acked <= History[1] /\ acked \in Nat /\ History[1] \in Nat
        <4>1. acked <= VersionIn(cache, dirs[1])
          BY <3>2 DEF IInv, GoodDirs
        <4>2. VersionIn(cache, dirs[1]) = History[1]
          BY <1>3, <1>4, <3>2
        <4>3. acked \in Version /\ History[1] \in Version
          BY <1>1, <1>3, <3>2 DEF TypeOK
        <4> QED
          BY <4>1, <4>2, <4>3, CallsAssumption DEF Version
      <3>5. \A k \in 1 .. Len(dirs) : FinalVersion(dirs[k])' = FinalVersion(dirs[k])
        BY <1>4, <1>5, <2>1
      <3>6. History' = History
        BY <1>1, <2>1, <3>5, HistorySame
      <3>7. acked' \in acked .. History[1]
        BY <3>1, <3>3, <3>4
      <3>8. File!Acknowledge
        BY <3>6, <3>7 DEF File!Acknowledge, History
      <3> QED
        BY <3>8 DEF File!Next
    <2> QED
      BY <2>2, <2>3
  <1>16. CASE UNCHANGED vars
    BY <1>6, <1>16 DEF vars, files
  <1> QED
    BY <1>7, <1>8, <1>9, <1>10, <1>11, <1>12, <1>13, <1>14, <1>15, <1>16
       DEF Next, CallStep

(* write_replace_verify, with its failures, kills and crashes, implements an
   atomic file: every step shows a reader a whole version, an older one only
   after a crash, and nothing behind what was acknowledged. *)
THEOREM RefinesAtomicFile == Spec => ImplementsAtomicFile
  <1>1. Init => File!Init
    <2> SUFFICES ASSUME Init PROVE History = <<0>> /\ acked = 0
      BY DEF File!Init, History
    <2>1. IInv
      BY IInvInit
    <2>2. dirs = <<[temp |-> 0, final |-> 0]>>
      BY DEF Init
    <2>3. Len(dirs) = 1 /\ dirs[1].final = 0
      BY <2>2
    <2>4. /\ History \in Seq(Version) /\ Len(History) = Len(dirs)
          /\ \A k \in 1 .. Len(dirs) : History[k] = FinalVersion(dirs[k])
      BY <2>1, HistoryType DEF IInv
    <2>5. History[1] = 0
      BY <2>3, <2>4 DEF FinalVersion
    <2> QED
      BY <2>3, <2>4, <2>5 DEF Init
  <1>2. IInv /\ IInv' /\ [Next]_vars => [File!Next]_File!vars
    BY StepRefines DEF File!vars, History
  <1> QED
    BY <1>1, <1>2, Inductive, PTL DEF Spec, ImplementsAtomicFile, File!Spec
=============================================================================
