--------------------------- MODULE CheckerProofs ---------------------------
(***************************************************************************)
(* Proofs about the two checkers.  LessonCheck, for all files: how the     *)
(* scan compares with the document validator's, which errors it reports,   *)
(* what exit code 0 means, and what a block that ran out of time leaves    *)
(* behind.  DocsCheck, for any documentation: which headings it accepts,   *)
(* what its exit code 0 means and what its errors mean.                    *)
(***************************************************************************)
EXTENDS LessonCheck, DocsCheck, FiniteSetTheorems, SequenceTheorems,
        NaturalsInduction, TLAPS

LEMMA SetInduction ==
  ASSUME NEW T, 0 \in T, \A n \in Nat : n \in T => n + 1 \in T
  PROVE  Nat \subseteq T
  <1>1. SUFFICES ASSUME Nat \ T # {} PROVE FALSE
    OBVIOUS
  <1>2. PICK n \in Nat \ T : \A m \in Nat \ T : <<m, n>> \notin OpToRel(<, Nat)
    BY <1>1, NatLessThanWellFounded, WFMin
  <1>3. \A m \in Nat \ T : ~ (m < n)
    BY <1>2 DEF OpToRel
  <1>4. n # 0 /\ n - 1 \in T
    BY <1>3
  <1> QED
    BY <1>4

-----------------------------------------------------------------------------
(* The validator's reading of a file: the fences form one function, which
   follows the lines one by one. *)

Follows(l, f) ==
  IF f = None THEN Marker(l) ELSE IF Closes(l, f) THEN None ELSE f

FencesUpto(source, N, f) ==
  f = [n \in 0 .. N |-> IF n = 0 THEN None ELSE Follows(source[n], f[n - 1])]

LEMMA FencesExist ==
  ASSUME NEW source, NEW N \in Nat
  PROVE  \E f : FencesUpto(source, N, f)
  <1> DEFINE T == {k \in Nat : \E f : FencesUpto(source, k, f)}
  <1>1. 0 \in T
    <2> DEFINE f == [n \in 0 .. 0 |-> None]
    <2>1. FencesUpto(source, 0, f)
      BY DEF FencesUpto
    <2> QED
      BY <2>1
  <1>2. ASSUME NEW k \in Nat, k \in T PROVE k + 1 \in T
    <2>1. PICK f : FencesUpto(source, k, f)
      BY <1>2
    <2> DEFINE g == [n \in 0 .. k + 1 |->
                       IF n = k + 1 THEN Follows(source[k + 1], f[k]) ELSE f[n]]
    <2>2. \A n \in 0 .. k : g[n] = f[n]
      OBVIOUS
    <2>3. \A n \in 0 .. k :
            f[n] = IF n = 0 THEN None ELSE Follows(source[n], f[n - 1])
      BY <2>1 DEF FencesUpto
    <2>4. ASSUME NEW n \in 0 .. k + 1
          PROVE  g[n] = IF n = 0 THEN None ELSE Follows(source[n], g[n - 1])
      <3>1. CASE n = k + 1
        <4>1. g[n - 1] = f[k]
          BY <3>1, <2>2
        <4> QED
          BY <3>1, <4>1
      <3>2. CASE n # k + 1
        <4>1. n \in 0 .. k /\ (n # 0 => n - 1 \in 0 .. k)
          BY <3>2
        <4>2. g[n] = f[n] /\ (n # 0 => g[n - 1] = f[n - 1])
          BY <4>1, <2>2
        <4> QED
          BY <4>1, <4>2, <2>3
      <3> QED
        BY <3>1, <3>2
    <2>5. FencesUpto(source, k + 1, g)
      <3>1. g = [n \in 0 .. k + 1 |->
                   IF n = 0 THEN None ELSE Follows(source[n], g[n - 1])]
        BY <2>4
      <3> QED
        BY <3>1 DEF FencesUpto
    <2> QED
      BY <2>5
  <1> QED
    BY <1>1, <1>2, SetInduction

LEMMA FencesFollow ==
  ASSUME NEW source \in Seq(Line)
  PROVE  /\ fences(source)[0] = None
         /\ \A n \in 1 .. Len(source) :
              fences(source)[n] = Follows(source[n], fences(source)[n - 1])
  <1> DEFINE N == Len(source)
             Rule(f, n) ==
               IF n = 0 THEN None
               ELSE IF f[n - 1] = None THEN Marker(source[n])
               ELSE IF /\ source[n].char = f[n - 1].char
                       /\ source[n].len >= f[n - 1].len
                       /\ source[n].info = ""
                    THEN None
               ELSE f[n - 1]
             Upto(f) == f = [n \in 0 .. N |-> Rule(f, n)]
  <1>1. ASSUME NEW f, NEW n \in 0 .. N
        PROVE  Rule(f, n) = IF n = 0 THEN None ELSE Follows(source[n], f[n - 1])
    BY DEF Follows, Closes
  <1> HIDE DEF Rule
  <1>2. \E f : Upto(f)
    <2>1. PICK f : FencesUpto(source, N, f)
      <3>1. N \in Nat
        OBVIOUS
      <3> HIDE DEF N
      <3> QED
        BY <3>1, FencesExist
    <2>2. [n \in 0 .. N |-> Rule(f, n)]
            = [n \in 0 .. N |-> IF n = 0 THEN None ELSE Follows(source[n], f[n - 1])]
      BY <1>1
    <2> QED
      BY <2>1, <2>2 DEF FencesUpto
  <1>3. fences(source) = CHOOSE f : Upto(f)
    BY DEF fences, Rule
  <1>4. Upto(fences(source))
    BY <1>2, <1>3
  <1> QED
    BY <1>1, <1>4

-----------------------------------------------------------------------------
(* Tables *)

(* A block is opened at line n. *)
Opens(source, n) ==
  n \in 1 .. Len(source) /\ fences(source)[n - 1] = None /\ source[n].char # None

TableRows(source) == {n \in prose_lines(source) : source[n].cells # None}

(* The table that line n belongs to begins at line m. *)
Begins(source, m, n) ==
  /\ m \in 1 .. n /\ m .. n \subseteq TableRows(source)
  /\ m - 1 \notin TableRows(source)

(* w is the width that a row after line n is compared with. *)
WidthAt(source, n, w) ==
  IF n \in TableRows(source)
  THEN \E m \in 1 .. n : Begins(source, m, n) /\ w = source[m].cells
  ELSE w = None

LEMMA TableRowsAre ==
  ASSUME NEW source
  PROVE  /\ prose_lines(source) \subseteq 1 .. Len(source)
         /\ UnevenRows(source) \subseteq TableRows(source)
         /\ TableRows(source) \subseteq prose_lines(source)
  BY DEF prose_lines, TableRows, UnevenRows

(* A table begins at one line only. *)
LEMMA BeginsOnce ==
  ASSUME NEW source \in Seq(Line), NEW n \in 1 .. Len(source), NEW m, NEW l,
         Begins(source, m, n), Begins(source, l, n)
  PROVE  m = l
  <1>1. m \in 1 .. n /\ l \in 1 .. n
    BY DEF Begins
  <1>2. ~ (m < l)
    <2>1. SUFFICES ASSUME m < l PROVE FALSE
      OBVIOUS
    <2>2. l - 1 \in m .. n
      BY <1>1, <2>1
    <2> QED
      BY <2>2 DEF Begins
  <1>3. ~ (l < m)
    <2>1. SUFFICES ASSUME l < m PROVE FALSE
      OBVIOUS
    <2>2. m - 1 \in l .. n
      BY <1>1, <2>1
    <2> QED
      BY <2>2 DEF Begins
  <1> QED
    BY <1>1, <1>2, <1>3

(* The next row belongs to the table of the one before it. *)
LEMMA BeginsNext ==
  ASSUME NEW source, NEW n \in Nat, n + 1 \in TableRows(source)
  PROVE  /\ n \notin TableRows(source) => Begins(source, n + 1, n + 1)
         /\ \A m : Begins(source, m, n) => Begins(source, m, n + 1)
  <1>1. ASSUME n \notin TableRows(source)
        PROVE  Begins(source, n + 1, n + 1)
    <2>1. (n + 1) .. (n + 1) = {n + 1} /\ n + 1 \in 1 .. n + 1 /\ (n + 1) - 1 = n
      OBVIOUS
    <2> QED
      BY <1>1, <2>1 DEF Begins
  <1>2. ASSUME NEW m, Begins(source, m, n)
        PROVE  Begins(source, m, n + 1)
    <2>1. m \in 1 .. n /\ m .. n \subseteq TableRows(source)
          /\ m - 1 \notin TableRows(source)
      BY <1>2 DEF Begins
    <2>2. m .. n + 1 = (m .. n) \union {n + 1} /\ m \in 1 .. n + 1
      BY <2>1
    <2> QED
      BY <2>1, <2>2 DEF Begins
  <1> QED
    BY <1>1, <1>2

LEMMA WidthNext ==
  ASSUME NEW source \in Seq(Line), NEW n \in Nat, n + 1 \in prose_lines(source),
         NEW w, WidthAt(source, n, w)
  PROVE  WidthAt(source, n + 1, IF source[n + 1].cells = None \/ w = None
                                THEN source[n + 1].cells ELSE w)
  <1> DEFINE cells == source[n + 1].cells
  <1>1. CASE cells = None
    <2>1. n + 1 \notin TableRows(source)
      BY <1>1 DEF TableRows
    <2> QED
      BY <1>1, <2>1 DEF WidthAt
  <1>2. CASE cells # None
    <2>1. n + 1 \in TableRows(source)
      BY <1>2 DEF TableRows
    <2>2. CASE n \in TableRows(source)
      <3>1. PICK m \in 1 .. n : Begins(source, m, n) /\ w = source[m].cells
        BY <2>2 DEF WidthAt
      <3>2. m \in TableRows(source) /\ m \in 1 .. n + 1
        BY <3>1 DEF Begins
      <3>3. w # None
        BY <3>1, <3>2 DEF TableRows
      <3>4. Begins(source, m, n + 1)
        BY <2>1, <3>1, BeginsNext
      <3> QED
        BY <1>2, <2>1, <3>1, <3>2, <3>3, <3>4 DEF WidthAt
    <2>3. CASE n \notin TableRows(source)
      <3>1. w = None /\ Begins(source, n + 1, n + 1) /\ n + 1 \in 1 .. n + 1
        BY <2>1, <2>3, BeginsNext DEF WidthAt
      <3> QED
        BY <1>2, <2>1, <3>1 DEF WidthAt
    <2> QED
      BY <2>2, <2>3
  <1> QED
    BY <1>1, <1>2

(* A row is uneven exactly if it is compared with another width. *)
LEMMA UnevenAt ==
  ASSUME NEW source \in Seq(Line), NEW n \in Nat, n + 1 \in prose_lines(source),
         NEW w, WidthAt(source, n, w)
  PROVE  n + 1 \in UnevenRows(source)
           <=> source[n + 1].cells # None /\ w \notin {None, source[n + 1].cells}
  <1> DEFINE cells == source[n + 1].cells
  <1>1. n + 1 \in 1 .. Len(source)
    BY TableRowsAre
  <1>2. n + 1 \in UnevenRows(source)
          <=> /\ n + 1 \in TableRows(source)
              /\ \E m \in 1 .. n + 1 : /\ Begins(source, m, n + 1)
                                       /\ cells # source[m].cells
    BY DEF UnevenRows, Begins, TableRows
  <1>3. CASE cells = None
    BY <1>2, <1>3 DEF TableRows
  <1>4. CASE cells # None
    <2>1. n + 1 \in TableRows(source)
      BY <1>4 DEF TableRows
    <2>2. CASE n \in TableRows(source)
      <3>1. PICK m \in 1 .. n : Begins(source, m, n) /\ w = source[m].cells
        BY <2>2 DEF WidthAt
      <3>2. m \in TableRows(source) /\ m \in 1 .. n + 1
        BY <3>1 DEF Begins
      <3>3. w # None
        BY <3>1, <3>2 DEF TableRows
      <3>4. Begins(source, m, n + 1)
        BY <2>1, <3>1, BeginsNext
      <3>5. \A l : Begins(source, l, n + 1) => l = m
        BY <1>1, <3>4, BeginsOnce
      <3> QED
        BY <1>2, <1>4, <2>1, <3>1, <3>2, <3>3, <3>4, <3>5
    <2>3. CASE n \notin TableRows(source)
      <3>1. w = None /\ Begins(source, n + 1, n + 1)
        BY <2>1, <2>3, BeginsNext DEF WidthAt
      <3>2. \A l : Begins(source, l, n + 1) => l = n + 1
        BY <1>1, <3>1, BeginsOnce
      <3> QED
        BY <1>2, <3>1, <3>2
    <2> QED
      BY <2>2, <2>3
  <1> QED
    BY <1>3, <1>4

(* The errors due when the scan has come to line n of file f. *)
Due(ps, f, n) ==
  UNION {{[file |-> g, line |-> m, what |-> "table width"] :
            m \in {m \in UnevenRows(ps[g]) : g < f \/ m <= n}}
         : g \in (1 .. Len(ps)) \intersect (1 .. f)}

DueAt(g, m) == [file |-> g, line |-> m, what |-> "table width"]

LEMMA DueAre ==
  ASSUME NEW ps, NEW f \in Nat, NEW n, Len(ps) \in Nat, NEW e
  PROVE  e \in Due(ps, f, n)
           <=> \E g \in 1 .. Len(ps) : \E m \in UnevenRows(ps[g]) :
                 (g < f \/ (g = f /\ m <= n)) /\ e = DueAt(g, m)
  <1> DEFINE G == (1 .. Len(ps)) \intersect (1 .. f)
             In(g) == {m \in UnevenRows(ps[g]) : g < f \/ m <= n}
             Of(g) == {DueAt(g, m) : m \in In(g)}
  <1>1. Due(ps, f, n) = UNION {Of(g) : g \in G}
    BY DEF Due, DueAt
  <1>2. \A g : e \in Of(g) <=> \E m \in In(g) : e = DueAt(g, m)
    OBVIOUS
  <1>3. \A g : g \in G <=> g \in 1 .. Len(ps) /\ (g < f \/ g = f)
    OBVIOUS
  <1>4. e \in UNION {Of(g) : g \in G} <=> \E g \in G : e \in Of(g)
    <2> HIDE DEF G, Of
    <2> QED
      OBVIOUS
  <1> HIDE DEF G, Of
  <1> QED
    BY <1>1, <1>2, <1>3, <1>4

LEMMA DueNextLine ==
  ASSUME NEW ps, Len(ps) \in Nat, NEW f \in 1 .. Len(ps), NEW n \in Nat
  PROVE  Due(ps, f, n + 1)
           = Due(ps, f, n) \union
             (IF n + 1 \in UnevenRows(ps[f]) THEN {DueAt(f, n + 1)} ELSE {})
  <1>1. \A g \in 1 .. Len(ps) : \A m \in UnevenRows(ps[g]) : m \in Nat
    BY TableRowsAre
  <1>2. \A m \in Nat : m <= n + 1 <=> m <= n \/ m = n + 1
    OBVIOUS
  <1>3. ASSUME NEW e
        PROVE  e \in Due(ps, f, n + 1)
                 <=> \/ e \in Due(ps, f, n)
                     \/ n + 1 \in UnevenRows(ps[f]) /\ e = DueAt(f, n + 1)
    <2>1. e \in Due(ps, f, n + 1)
            <=> \E g \in 1 .. Len(ps) : \E m \in UnevenRows(ps[g]) :
                  (g < f \/ (g = f /\ m <= n + 1)) /\ e = DueAt(g, m)
      BY DueAre
    <2>2. e \in Due(ps, f, n)
            <=> \E g \in 1 .. Len(ps) : \E m \in UnevenRows(ps[g]) :
                  (g < f \/ (g = f /\ m <= n)) /\ e = DueAt(g, m)
      BY DueAre
    <2> QED
      BY <1>1, <1>2, <2>1, <2>2
  <1> QED
    BY <1>3

LEMMA DueNextFile ==
  ASSUME NEW ps \in Seq(Seq(Line)), NEW f \in 1 .. Len(ps)
  PROVE  Due(ps, f + 1, 0) = Due(ps, f, Len(ps[f]))
  <1>1. \A g \in 1 .. Len(ps) : \A m \in UnevenRows(ps[g]) :
          m \in Nat /\ ~ (m <= 0) /\ m <= Len(ps[g])
    BY TableRowsAre
  <1>2. Len(ps) \in Nat /\ f + 1 \in Nat
    OBVIOUS
  <1>3. ASSUME NEW e
        PROVE  e \in Due(ps, f + 1, 0) <=> e \in Due(ps, f, Len(ps[f]))
    <2>1. \A g \in 1 .. Len(ps) : g < f + 1 <=> g < f \/ g = f
      OBVIOUS
    <2>2. e \in Due(ps, f + 1, 0)
            <=> \E g \in 1 .. Len(ps) : \E m \in UnevenRows(ps[g]) :
                  (g < f + 1 \/ (g = f + 1 /\ m <= 0)) /\ e = DueAt(g, m)
      BY <1>2, DueAre
    <2>3. e \in Due(ps, f, Len(ps[f]))
            <=> \E g \in 1 .. Len(ps) : \E m \in UnevenRows(ps[g]) :
                  (g < f \/ (g = f /\ m <= Len(ps[f]))) /\ e = DueAt(g, m)
      BY DueAre
    <2> QED
      BY <1>1, <2>1, <2>2, <2>3
  <1> QED
    BY <1>3

-----------------------------------------------------------------------------
(* The inductive invariant *)

Typed ==
  /\ pc \in {"scan", "run", "wait", "drain", "cleanup", "report", "raised",
             "exited"}
  /\ paths \in Paths /\ run_python \in BOOLEAN
  /\ file \in 1 .. Len(paths) + 1 /\ number \in Nat
  /\ file <= Len(paths) => number <= Len(lines)
  /\ pc \notin {"scan", "raised"} => file = Len(paths) + 1

(* The line last looked at belongs to the first f files or to line n of the
   file after them. *)
Behind(f, n) == f < file \/ (f = file /\ n <= number)

(* The scan carries with it what the validator computes for the whole file. *)
Scanned ==
  /\ file <= Len(paths) =>
       /\ fence = fences(lines)[number]
       /\ prose = prose_lines(lines) \intersect 1 .. number
       /\ fence # None =>
            /\ start \in 1 .. number
            /\ Opens(lines, start)
            /\ language = lines[start].info
  /\ file > Len(paths) => fence = None

(* Inside a block the width is stale, and forgotten at its end. *)
Widths ==
  file <= Len(paths) /\ fence = None => WidthAt(lines, number, width)

(* No fault of what lies behind is without an error. *)
Faultless ==
  errors = {} =>
    /\ \A f \in 1 .. Len(paths) : f < file =>
         fences(paths[f])[Len(paths[f])] = None
    /\ \A f \in 1 .. Len(paths) : \A n \in prose_lines(paths[f]) :
         Behind(f, n) => paths[f][n].faults = {}

Snippet == [file : Nat, start : Nat]

Collected == {snippets[i] : i \in 1 .. Len(snippets)}

Open(b) == fence # None /\ b.file = file /\ b.start = start

(* Every Python block behind is collected, once, but for the open one. *)
Blocks ==
  /\ snippets \in Seq(Snippet)
  /\ IsFiniteSet(Collected) /\ Cardinality(Collected) = Len(snippets)
  /\ \A b \in Collected : /\ Behind(b.file, b.start)
                          /\ fence # None /\ b.file = file => b.start < start
  /\ errors = {} =>
       Collected = {b \in PythonBlocks : Behind(b.file, b.start) /\ ~Open(b)}

(* Without an error every block so far has passed. *)
Counted ==
  /\ at \in 0 .. Len(snippets)
  /\ pc = "scan" => at = 0 /\ passed = 0
  /\ pc \in {"wait", "drain"} => at > 0
  /\ errors = {} => passed = IF pc \in {"wait", "drain"} THEN at - 1 ELSE at
  /\ pc = "report" /\ run_python /\ errors = {} => at = Len(snippets)
  /\ exit = 0 =>
       /\ pc = "exited" /\ errors = {}
       /\ run_python => at = Len(snippets)

(* After the kill only what escaped is left, and it cannot grow. *)
Killed ==
  /\ pc = "drain" => leader # "alive" /\ \A c \in children : c.escaped
  /\ TimedOutGone

IInv ==
  Typed /\ Scanned /\ Widths /\ TablesByBlock /\ Faultless /\ Blocks /\ Counted
  /\ Killed

-----------------------------------------------------------------------------
(* The scan *)

LEMMA InitIInv == Init => IInv
  <1> SUFFICES ASSUME Init PROVE IInv
    OBVIOUS
  <1>1. /\ paths \in Paths /\ run_python \in BOOLEAN
        /\ pc = "scan" /\ file = 1 /\ number = 0 /\ fence = None /\ width = None
        /\ prose = {} /\ snippets = <<>> /\ errors = {} /\ at = 0
        /\ leftover = {} /\ passed = 0 /\ exit = None
    BY DEF Init
  <1>2. paths \in Seq(Seq(Line)) /\ None \notin Nat
    BY <1>1, PathsAssumption, NoneAssumption
  <1>3. Len(paths) >= 1 => lines \in Seq(Line)
    BY <1>1, <1>2 DEF lines
  <1>4. Typed
    BY <1>1, <1>2, <1>3 DEF Typed
  <1>5. Scanned
    BY <1>1, <1>2, <1>3, FencesFollow DEF Scanned
  <1>6. Widths
    BY <1>1, <1>2, <1>3, TableRowsAre DEF Widths, WidthAt
  <1>7. TablesByBlock
    <2>1. \A g \in 1 .. Len(paths) : \A m \in UnevenRows(paths[g]) :
            m \in Nat /\ ~ (m <= 0)
      BY TableRowsAre
    <2>2. Len(paths) \in Nat
      BY <1>2
    <2>3. \A e : e \notin Due(paths, 1, 0)
      BY <2>1, <2>2, DueAre
    <2>4. {e \in errors : e.what = "table width"} = {}
      BY <1>1
    <2>5. TablesByBlock
            <=> {e \in errors : e.what = "table width"} = Due(paths, file, number)
      BY DEF TablesByBlock, Due
    <2> QED
      BY <1>1, <2>3, <2>4, <2>5
  <1>8. Faultless
    <2>1. \A f \in 1 .. Len(paths) : ~ (f < file)
      BY <1>1
    <2>2. \A f \in 1 .. Len(paths) : \A n \in prose_lines(paths[f]) : ~ (n <= number)
      BY <1>1, <1>2, TableRowsAre
    <2> QED
      BY <2>1, <2>2 DEF Faultless, Behind
  <1>9. Blocks
    <2>1. Collected = {} /\ snippets \in Seq(Snippet)
      BY <1>1 DEF Collected
    <2>2. \A b \in PythonBlocks : ~ Behind(b.file, b.start)
      <3>1. \A b \in PythonBlocks : b.file \in Nat \ {0} /\ b.start \in Nat \ {0}
        BY <1>2 DEF PythonBlocks
      <3> QED
        BY <1>1, <3>1 DEF Behind
    <2>3. Len(snippets) = 0
      BY <1>1
    <2> QED
      BY <2>1, <2>2, <2>3, FS_EmptySet DEF Blocks
  <1>10. Counted /\ Killed
    BY <1>1, <1>2 DEF Counted, Killed, TimedOutGone
  <1> QED
    BY <1>4, <1>5, <1>6, <1>7, <1>8, <1>9, <1>10 DEF IInv

(* What holds before every line. *)
LEMMA Reading ==
  ASSUME IInv, NextLine
  PROVE  /\ paths \in Seq(Seq(Line)) /\ file \in 1 .. Len(paths)
         /\ Len(paths) \in Nat
         /\ lines \in Seq(Line) /\ number \in Nat /\ number + 1 \in 1 .. Len(lines)
         /\ line = lines[number + 1] /\ line \in Line
         /\ fences(lines)[number + 1] = Follows(line, fence)
         /\ number + 1 \in prose_lines(lines) <=> fence = None /\ line.char = None
         /\ Opens(lines, number + 1) <=> fence = None /\ line.char # None
         /\ number' = number + 1 /\ paths' = paths /\ file' = file
         /\ lines' = lines /\ pc = "scan" /\ pc' = "scan"
  <1>1. /\ pc = "scan" /\ file <= Len(paths) /\ number < Len(lines)
        /\ number' = number + 1 /\ pc' = pc /\ paths' = paths /\ file' = file
    BY DEF NextLine, input
  <1>2. /\ paths \in Seq(Seq(Line)) /\ file \in 1 .. Len(paths) /\ number \in Nat
        /\ Len(paths) \in Nat
    BY <1>1, PathsAssumption DEF IInv, Typed
  <1>3. lines \in Seq(Line)
    BY <1>2 DEF lines
  <1>4. number + 1 \in 1 .. Len(lines) /\ line = lines[number + 1] /\ line \in Line
    BY <1>1, <1>2, <1>3 DEF line
  <1>5. fence = fences(lines)[number]
    BY <1>1 DEF IInv, Scanned
  <1>6. (number + 1) - 1 = number
    BY <1>2
  <1>7. fences(lines)[number + 1] = Follows(line, fence)
    BY <1>3, <1>4, <1>5, <1>6, FencesFollow
  <1>8. number + 1 \in prose_lines(lines) <=> fence = None /\ line.char = None
    BY <1>4, <1>5, <1>6 DEF prose_lines
  <1>9. Opens(lines, number + 1) <=> fence = None /\ line.char # None
    BY <1>4, <1>5, <1>6 DEF Opens
  <1>10. lines' = lines
    BY <1>1 DEF lines
  <1> QED
    BY <1>1, <1>2, <1>3, <1>4, <1>7, <1>8, <1>9, <1>10

LEMMA BehindNext ==
  ASSUME IInv, NextLine
  PROVE  \A f, n \in Nat : Behind(f, n)' <=> Behind(f, n) \/ (f = file /\ n = number + 1)
  <1>1. \A n \in Nat : n <= number + 1 <=> n <= number \/ n = number + 1
    BY Reading
  <1> QED
    BY <1>1, Reading DEF Behind

(* Of a line's step these conjuncts need only what it does to the errors. *)
LEMMA LineKept ==
  ASSUME IInv, NextLine, errors \subseteq errors'
  PROVE  Typed' /\ Killed'
  <1>1. Typed'
    BY Reading DEF IInv, Typed, NextLine, input
  <1>2. Killed'
    BY Reading DEF IInv, Killed, TimedOutGone, NextLine, running, block
  <1> QED
    BY <1>1, <1>2

LEMMA CountedNext ==
  ASSUME IInv, NextLine, errors \subseteq errors',
         snippets' \in Seq(Snippet)
  PROVE  Counted'
  <1>1. at = 0 /\ passed = 0 /\ at' = at /\ passed' = passed /\ exit' = exit
    BY Reading DEF IInv, Counted, NextLine, running
  <1>2. exit # 0
    BY Reading DEF IInv, Counted
  <1> QED
    BY <1>1, <1>2, Reading DEF Counted

(* A line adds the one error that is due, or none. *)
LEMMA TablesNext ==
  ASSUME IInv, NextLine,
         {e \in errors' : e.what = "table width"}
           = {e \in errors : e.what = "table width"} \union
             (IF number + 1 \in UnevenRows(lines) THEN {DueAt(file, number + 1)} ELSE {})
  PROVE  TablesByBlock'
  <1>1. {e \in errors : e.what = "table width"} = Due(paths, file, number)
    BY DEF IInv, TablesByBlock, Due
  <1>2. Due(paths, file, number + 1)
          = Due(paths, file, number) \union
            (IF number + 1 \in UnevenRows(lines) THEN {DueAt(file, number + 1)} ELSE {})
    <2>1. Len(paths) \in Nat /\ file \in 1 .. Len(paths) /\ number \in Nat
      BY Reading, Zenon
    <2>2. UnevenRows(lines) = UnevenRows(paths[file])
      BY DEF lines
    <2> QED
      BY <2>1, <2>2, DueNextLine
  <1>3. {e \in errors' : e.what = "table width"} = Due(paths', file', number')
    BY <1>1, <1>2, Reading
  <1> QED
    BY <1>3 DEF TablesByBlock, Due

(* Nor does a line without a fault of its own bring one that goes unreported. *)
LEMMA FaultlessNext ==
  ASSUME IInv, NextLine, errors \subseteq errors',
         errors' = {} /\ number + 1 \in prose_lines(lines) => line.faults = {}
  PROVE  Faultless'
  <1>1. SUFFICES ASSUME errors' = {} PROVE Faultless'
    BY DEF Faultless
  <1>2. errors = {}
    BY <1>1
  <1>3. \A f \in 1 .. Len(paths) : f < file => fences(paths[f])[Len(paths[f])] = None
    BY <1>2 DEF IInv, Faultless
  <1>4. ASSUME NEW f \in 1 .. Len(paths), NEW n \in prose_lines(paths[f]), Behind(f, n)'
        PROVE  paths[f][n].faults = {}
    <2>1. f \in Nat /\ n \in Nat
      BY TableRowsAre
    <2>2. CASE Behind(f, n)
      BY <1>2, <2>2 DEF IInv, Faultless
    <2>3. CASE f = file /\ n = number + 1
      BY <1>1, <2>3, Reading DEF lines
    <2> QED
      BY <1>4, <2>1, <2>2, <2>3, BehindNext
  <1> QED
    BY <1>3, <1>4, Reading DEF Faultless

LEMMA ScannedNext ==
  ASSUME IInv, NextLine, fence' = Follows(line, fence),
         prose' = prose \union (IF number + 1 \in prose_lines(lines)
                                THEN {number + 1} ELSE {}),
         fence' # None =>
           \/ fence # None /\ start' = start /\ language' = language
           \/ /\ Opens(lines, number + 1)
              /\ start' = number + 1 /\ language' = line.info
  PROVE  Scanned'
  <1>1. prose' = prose_lines(lines) \intersect 1 .. number + 1
    <2>1. prose = prose_lines(lines) \intersect 1 .. number
      BY Reading DEF IInv, Scanned
    <2>2. 1 .. number + 1 = (1 .. number) \union {number + 1}
      BY Reading
    <2> QED
      BY <2>1, <2>2
  <1>2. fence' = fences(lines)[number + 1]
    BY Reading
  <1>3. ASSUME fence' # None
        PROVE  /\ start' \in 1 .. number + 1
               /\ Opens(lines, start') /\ language' = lines[start'].info
    <2>1. CASE fence # None /\ start' = start /\ language' = language
      BY <2>1, Reading DEF IInv, Scanned
    <2>2. CASE /\ Opens(lines, number + 1)
               /\ start' = number + 1 /\ language' = line.info
      BY <2>2, Reading
    <2> QED
      BY <1>3, <2>1, <2>2
  <1> QED
    BY <1>1, <1>2, <1>3, Reading DEF Scanned

LEMMA PythonBlocksAre ==
  ASSUME NEW b
  PROVE  b \in PythonBlocks
           <=> \E f \in 1 .. Len(paths) : \E n \in 1 .. Len(paths[f]) :
                 /\ Opens(paths[f], n) /\ paths[f][n].info = "python"
                 /\ b = [file |-> f, start |-> n]
  <1> DEFINE In(f) == {n \in 1 .. Len(paths[f]) :
                         /\ fences(paths[f])[n - 1] = None
                         /\ paths[f][n].char # None /\ paths[f][n].info = "python"}
             Of(f) == {[file |-> f, start |-> n] : n \in In(f)}
  <1>1. PythonBlocks = UNION {Of(f) : f \in 1 .. Len(paths)}
    BY DEF PythonBlocks
  <1>2. \A f : b \in Of(f) <=> \E n \in In(f) : b = [file |-> f, start |-> n]
    OBVIOUS
  <1>3. b \in PythonBlocks <=> \E f \in 1 .. Len(paths) : b \in Of(f)
    <2> HIDE DEF Of
    <2> QED
      BY <1>1
  <1>4. \A f, n : n \in In(f) <=> /\ n \in 1 .. Len(paths[f])
                                  /\ Opens(paths[f], n) /\ paths[f][n].info = "python"
    BY DEF Opens
  <1> HIDE DEF In, Of
  <1> QED
    BY <1>2, <1>3, <1>4

(* A Python block that opens at the next line is the only one new. *)
LEMMA BlocksBehind ==
  ASSUME IInv, NextLine, NEW b \in PythonBlocks
  PROVE  /\ b.file \in Nat /\ b.start \in Nat
         /\ Behind(b.file, b.start)' <=>
              \/ Behind(b.file, b.start)
              \/ b = [file |-> file, start |-> number + 1]
         /\ b = [file |-> file, start |-> number + 1] =>
              Opens(lines, number + 1) /\ ~ Behind(b.file, b.start)
  <1>1. PICK f \in 1 .. Len(paths) : \E n \in 1 .. Len(paths[f]) :
          Opens(paths[f], n) /\ b = [file |-> f, start |-> n]
    BY PythonBlocksAre
  <1>2. PICK n \in 1 .. Len(paths[f]) :
          Opens(paths[f], n) /\ b = [file |-> f, start |-> n]
    BY <1>1
  <1>3. f \in Nat /\ n \in Nat /\ b.file = f /\ b.start = n
    BY <1>2
  <1>4. b = [file |-> file, start |-> number + 1] <=> f = file /\ n = number + 1
    BY <1>2
  <1> QED
    BY <1>2, <1>3, <1>4, BehindNext, Reading DEF Behind, lines

LEMMA PythonBlocksKept == paths' = paths => PythonBlocks' = PythonBlocks
  BY DEF PythonBlocks

LEMMA CollectedType ==
  ASSUME snippets \in Seq(Snippet)
  PROVE  \A b \in Collected : b.file \in Nat /\ b.start \in Nat
  <1>1. \A i \in 1 .. Len(snippets) : snippets[i] \in Snippet
    OBVIOUS
  <1> QED
    BY <1>1 DEF Collected, Snippet

(* While no block closes, a step moves the open block and no other. *)
LEMMA BlocksNext ==
  ASSUME IInv, NextLine, errors \subseteq errors', snippets' = snippets,
         fence # None => fence' # None /\ start' = start,
         fence = None /\ fence' # None => start' = number + 1,
         Opens(lines, number + 1) => fence = None /\ fence' # None
  PROVE  Blocks'
  <1>1. /\ snippets \in Seq(Snippet)
        /\ IsFiniteSet(Collected) /\ Cardinality(Collected) = Len(snippets)
        /\ \A b \in Collected : /\ Behind(b.file, b.start)
                                /\ fence # None /\ b.file = file => b.start < start
    BY DEF IInv, Blocks
  <1>2. Collected' = Collected
    BY DEF Collected
  <1>3. \A b \in Collected : b.file \in Nat /\ b.start \in Nat
    BY <1>1, CollectedType
  <1>4. \A b \in Collected : Behind(b.file, b.start)'
    BY <1>1, <1>3, BehindNext
  <1>5. ASSUME NEW b \in Collected, fence' # None, b.file = file
        PROVE  b.start < start'
    <2>1. CASE fence # None
      BY <1>1, <1>5, <2>1
    <2>2. CASE fence = None
      <3>1. start' = number + 1 /\ b.start <= number
        BY <1>1, <1>5, <2>2, Reading DEF Behind
      <3> QED
        BY <1>3, <3>1, Reading
    <2> QED
      BY <2>1, <2>2
  <1>6. ASSUME errors' = {}
        PROVE  Collected = {b \in PythonBlocks : Behind(b.file, b.start)' /\ ~ Open(b)'}
    <2>1. Collected = {b \in PythonBlocks : Behind(b.file, b.start) /\ ~ Open(b)}
      BY <1>6 DEF IInv, Blocks
    <2>2. ASSUME NEW b \in PythonBlocks
          PROVE  Behind(b.file, b.start) /\ ~ Open(b)
                   <=> Behind(b.file, b.start)' /\ ~ Open(b)'
      <3>1. CASE fence # None
        BY <3>1, BlocksBehind, Reading DEF Open
      <3>2. CASE fence = None /\ fence' = None
        BY <3>2, BlocksBehind, Reading DEF Open
      <3>3. CASE fence = None /\ fence' # None
        <4>1. \E f, n : b = [file |-> f, start |-> n]
          BY PythonBlocksAre
        <4>2. Open(b)' <=> b = [file |-> file, start |-> number + 1]
          BY <3>3, <4>1, Reading DEF Open
        <4>3. ~ Open(b)
          BY <3>3 DEF Open
        <4> QED
          BY <4>2, <4>3, BlocksBehind
      <3> QED
        BY <3>1, <3>2, <3>3
    <2> QED
      BY <2>1, <2>2
  <1> QED
    BY <1>1, <1>2, <1>4, <1>5, <1>6, PythonBlocksKept, Reading DEF Blocks

LEMMA ErrorIs == \A n, fault : ErrorAt(n, fault).what = fault
  BY DEF ErrorAt

LEMMA BodyLineIInv == IInv /\ BodyLine => IInv'
  <1> SUFFICES ASSUME IInv, BodyLine PROVE IInv'
    OBVIOUS
  <1>1. /\ NextLine /\ fence # None /\ ~ Closes(line, fence)
        /\ fence' = fence /\ language' = language /\ start' = start
        /\ prose' = prose /\ snippets' = snippets /\ errors' = errors
    BY DEF BodyLine
  <1>2. number + 1 \notin prose_lines(lines) /\ ~ Opens(lines, number + 1)
    BY <1>1, Reading
  <1>3. Typed' /\ Killed'
    BY <1>1, LineKept
  <1>4. Scanned'
    BY <1>1, <1>2, ScannedNext DEF Follows
  <1>5. Widths'
    BY <1>1 DEF Widths
  <1>6. TablesByBlock'
    BY <1>1, <1>2, TablesNext, TableRowsAre
  <1>7. Faultless'
    BY <1>1, <1>2, FaultlessNext
  <1>8. Blocks'
    BY <1>1, <1>2, BlocksNext
  <1>9. Counted'
    BY <1>1, CountedNext DEF IInv, Blocks
  <1> QED
    BY <1>3, <1>4, <1>5, <1>6, <1>7, <1>8, <1>9 DEF IInv

LEMMA OpenFenceIInv == IInv /\ OpenFence => IInv'
  <1> SUFFICES ASSUME IInv, OpenFence PROVE IInv'
    OBVIOUS
  <1>1. /\ NextLine /\ fence = None /\ line.char # None
        /\ fence' = Marker(line) /\ language' = line.info /\ start' = number + 1
        /\ prose' = prose /\ snippets' = snippets /\ errors' = errors
    BY DEF OpenFence, Marker
  <1>2. number + 1 \notin prose_lines(lines) /\ Opens(lines, number + 1)
    BY <1>1, Reading
  <1>3. fence' # None
    <2>1. line.char \in {"backtick", "tilde"} /\ line.len \in Nat
      BY <1>1, Reading DEF Line
    <2> QED
      BY <1>1, <2>1, NoneAssumption DEF Marker
  <1>4. Typed' /\ Killed'
    BY <1>1, LineKept
  <1>5. Scanned'
    BY <1>1, <1>2, ScannedNext DEF Follows
  <1>6. Widths'
    BY <1>3 DEF Widths
  <1>7. TablesByBlock'
    BY <1>1, <1>2, TablesNext, TableRowsAre
  <1>8. Faultless'
    BY <1>1, <1>2, FaultlessNext
  <1>9. Blocks'
    BY <1>1, <1>2, <1>3, BlocksNext
  <1>10. Counted'
    BY <1>1, CountedNext DEF IInv, Blocks
  <1> QED
    BY <1>4, <1>5, <1>6, <1>7, <1>8, <1>9, <1>10 DEF IInv

LEMMA ProseLineIInv == IInv /\ ProseLine => IInv'
  <1> SUFFICES ASSUME IInv, ProseLine PROVE IInv'
    OBVIOUS
  <1> DEFINE faulty == {ErrorAt(number + 1, fault) : fault \in line.faults}
  <1>1. /\ NextLine /\ fence = None /\ line.char = None
        /\ fence' = fence /\ prose' = prose \union {number + 1}
        /\ snippets' = snippets /\ errors' = errors \union WidthErrors \union faulty
        /\ width' = IF line.cells = None \/ width = None THEN line.cells ELSE width
    BY DEF ProseLine
  <1>2. number + 1 \in prose_lines(lines) /\ ~ Opens(lines, number + 1)
    BY <1>1, Reading
  <1>3. WidthAt(lines, number, width)
    BY <1>1, Reading DEF IInv, Widths
  <1>4. Typed' /\ Killed'
    BY <1>1, LineKept
  <1>5. Scanned'
    BY <1>1, <1>2, ScannedNext DEF Follows, Marker
  <1>6. Widths'
    <2>1. WidthAt(lines, number + 1, width')
      BY <1>1, <1>2, <1>3, Reading, WidthNext
    <2> QED
      BY <2>1, Reading, <1>1 DEF Widths
  <1>7. TablesByBlock'
    <2>1. WidthErrors = IF number + 1 \in UnevenRows(lines)
                        THEN {DueAt(file, number + 1)} ELSE {}
      <3>1. number + 1 \in UnevenRows(lines)
              <=> line.cells # None /\ width \notin {None, line.cells}
        BY <1>1, <1>2, <1>3, Reading, UnevenAt
      <3> QED
        BY <3>1 DEF WidthErrors, ErrorAt, DueAt
    <2>2. \A e \in WidthErrors : e.what = "table width"
      <3>1. \A e \in WidthErrors : e = ErrorAt(number + 1, "table width")
        BY DEF WidthErrors
      <3> QED
        BY <3>1, ErrorIs
    <2>3. \A e \in faulty : e.what # "table width"
      <3>1. line.faults \subseteq {"trailing whitespace", "missing link"}
        BY <1>1, Reading DEF Line
      <3>2. "table width" \notin line.faults
        BY <3>1
      <3>3. \A e \in faulty : e.what \in line.faults
        BY ErrorIs
      <3> QED
        BY <3>2, <3>3
    <2>4. {e \in errors' : e.what = "table width"}
            = {e \in errors : e.what = "table width"} \union WidthErrors
      <3> HIDE DEF faulty
      <3> QED
        BY <1>1, <2>2, <2>3
    <2> QED
      BY <1>1, <2>1, <2>4, TablesNext
  <1>8. Faultless'
    <2>1. errors' = {} => line.faults = {}
      BY <1>1
    <2> QED
      BY <1>1, <2>1, FaultlessNext
  <1>9. Blocks'
    BY <1>1, <1>2, BlocksNext
  <1>10. Counted'
    BY <1>1, CountedNext DEF IInv, Blocks
  <1> QED
    BY <1>4, <1>5, <1>6, <1>7, <1>8, <1>9, <1>10 DEF IInv

LEMMA AppendElements ==
  ASSUME NEW S, NEW s \in Seq(S), NEW e \in S
  PROVE  /\ Append(s, e) \in Seq(S) /\ Len(Append(s, e)) = Len(s) + 1
         /\ {Append(s, e)[i] : i \in 1 .. Len(s) + 1}
              = {s[i] : i \in 1 .. Len(s)} \union {e}
  <1>1. /\ Append(s, e) \in Seq(S) /\ Len(Append(s, e)) = Len(s) + 1
        /\ Len(s) \in Nat
    OBVIOUS
  <1>2. \A i \in 1 .. Len(s) + 1 :
          Append(s, e)[i] = IF i = Len(s) + 1 THEN e ELSE s[i]
    OBVIOUS
  <1>3. 1 .. Len(s) + 1 = (1 .. Len(s)) \union {Len(s) + 1}
    BY <1>1
  <1>4. Len(s) + 1 \notin 1 .. Len(s)
    BY <1>1
  <1> QED
    BY <1>1, <1>2, <1>3, <1>4

(* The open block is a Python block of the file exactly if it says so. *)
LEMMA OpenIs ==
  ASSUME IInv, NextLine, fence # None, NEW b \in PythonBlocks
  PROVE  /\ Open(b) <=> b = [file |-> file, start |-> start]
         /\ Open(b) => language = "python" /\ Behind(b.file, b.start)
  <1>1. PICK f \in 1 .. Len(paths) : \E n \in 1 .. Len(paths[f]) :
          paths[f][n].info = "python" /\ b = [file |-> f, start |-> n]
    BY PythonBlocksAre
  <1>2. PICK n \in 1 .. Len(paths[f]) :
          paths[f][n].info = "python" /\ b = [file |-> f, start |-> n]
    BY <1>1
  <1>3. start \in 1 .. number /\ language = lines[start].info
    BY Reading DEF IInv, Scanned
  <1> QED
    BY <1>2, <1>3, Reading DEF Open, Behind, lines

LEMMA CloseFenceBlocks ==
  ASSUME IInv, CloseFence
  PROVE  Blocks' /\ Counted'
  <1> DEFINE new == [file |-> file, start |-> start]
             fresh == language = "python" /\ CodeParses
  <1>1. /\ NextLine /\ fence # None /\ fence' = None
        /\ errors' = IF language \in {"python", "bash"} /\ ~ CodeParses
                     THEN errors \union {ErrorAt(start, "syntax")} ELSE errors
        /\ snippets' = IF fresh THEN Append(snippets, new) ELSE snippets
    BY DEF CloseFence, JudgeCode
  <1>2. /\ snippets \in Seq(Snippet)
        /\ IsFiniteSet(Collected) /\ Cardinality(Collected) = Len(snippets)
        /\ \A b \in Collected : /\ Behind(b.file, b.start)
                                /\ b.file = file => b.start < start
    BY <1>1 DEF IInv, Blocks
  <1>3. start \in 1 .. number /\ Opens(lines, start) /\ language = lines[start].info
    BY <1>1, Reading DEF IInv, Scanned
  <1>4. new \in Snippet /\ new.file = file /\ new.start = start
    BY <1>1, <1>3, Reading DEF Snippet
  <1>5. new \notin Collected
    <2>1. SUFFICES ASSUME new \in Collected PROVE FALSE
      OBVIOUS
    <2>2. start < start
      BY <1>2, <1>4, <2>1
    <2> QED
      BY <1>1, <1>3, <2>2, Reading
  <1> HIDE DEF new
  <1>6. /\ snippets' \in Seq(Snippet)
        /\ Collected' = IF fresh THEN Collected \union {new} ELSE Collected
        /\ IsFiniteSet(Collected') /\ Cardinality(Collected') = Len(snippets')
    <2>1. CASE fresh
      <3>1. /\ snippets' = Append(snippets, new)
            /\ snippets' \in Seq(Snippet) /\ Len(snippets') = Len(snippets) + 1
            /\ Collected' = Collected \union {new}
        <4>1. snippets' = Append(snippets, new)
          BY <1>1, <2>1 DEF new
        <4>2. /\ Append(snippets, new) \in Seq(Snippet)
              /\ Len(Append(snippets, new)) = Len(snippets) + 1
              /\ {Append(snippets, new)[i] : i \in 1 .. Len(snippets) + 1}
                   = {snippets[i] : i \in 1 .. Len(snippets)} \union {new}
          BY <1>2, <1>4, AppendElements
        <4> QED
          BY <4>1, <4>2 DEF Collected
      <3> QED
        BY <1>2, <1>5, <2>1, <3>1, FS_AddElement
    <2>2. CASE ~ fresh
      <3>1. snippets' = snippets
        BY <1>1, <2>2
      <3>2. Collected' = Collected
        BY <3>1 DEF Collected
      <3> QED
        BY <1>2, <2>2, <3>1, <3>2
    <2> QED
      BY <2>1, <2>2
  <1>7. \A b \in Collected' : Behind(b.file, b.start)'
    <2>1. \A b \in Collected : Behind(b.file, b.start)'
      BY <1>1, <1>2, CollectedType, BehindNext
    <2>2. Behind(file, start)
      BY <1>1, <1>3, Reading DEF Behind
    <2>3. \A f, n \in Nat : f = file /\ n = start => Behind(f, n)'
      BY <1>1, <2>2, BehindNext
    <2>4. \A b \in {new} : Behind(b.file, b.start)'
      BY <1>1, <1>3, <1>4, <2>3, Reading
    <2> QED
      BY <1>6, <2>1, <2>4
  <1>8. ASSUME errors' = {}
        PROVE  Collected' = {b \in PythonBlocks : Behind(b.file, b.start)'}
    <2>1. errors = {} /\ (language = "python" => CodeParses)
      BY <1>1, <1>8
    <2>2. Collected = {b \in PythonBlocks : Behind(b.file, b.start) /\ ~ Open(b)}
      BY <2>1 DEF IInv, Blocks
    <2>3. ~ Opens(lines, number + 1)
      BY <1>1, Reading
    <2>4. \A b \in PythonBlocks : /\ Behind(b.file, b.start)' <=> Behind(b.file, b.start)
                                  /\ Open(b) <=> b = new
                                  /\ Open(b) => fresh /\ Behind(b.file, b.start)
      BY <1>1, <2>1, <2>3, BlocksBehind, OpenIs DEF new
    <2>5. fresh => new \in PythonBlocks
      <3>1. Opens(paths[file], start) /\ paths[file][start].info = language
        BY <1>3 DEF lines
      <3>2. start \in 1 .. Len(paths[file])
        BY <3>1 DEF Opens
      <3> QED
        BY <1>1, <3>1, <3>2, PythonBlocksAre, Reading DEF new
    <2> QED
      BY <1>6, <2>2, <2>4, <2>5
  <1>9. \A b : ~ Open(b)'
    BY <1>1 DEF Open
  <1>10. Blocks'
    BY <1>1, <1>6, <1>7, <1>8, <1>9, PythonBlocksKept, Reading DEF Blocks
  <1> QED
    BY <1>1, <1>6, <1>10, CountedNext

(* A block that closes is collected when it parses and reported when it does
   not. *)
LEMMA CloseFenceIInv == IInv /\ CloseFence => IInv'
  <1> SUFFICES ASSUME IInv, CloseFence PROVE IInv'
    OBVIOUS
  <1>1. /\ NextLine /\ fence # None /\ Closes(line, fence)
        /\ fence' = None /\ width' = None /\ prose' = prose
        /\ errors' = IF language \in {"python", "bash"} /\ ~ CodeParses
                     THEN errors \union {ErrorAt(start, "syntax")} ELSE errors
    BY DEF CloseFence, JudgeCode
  <1>2. number + 1 \notin prose_lines(lines) /\ ~ Opens(lines, number + 1)
    BY <1>1, Reading
  <1>3. errors \subseteq errors'
    BY <1>1
  <1>4. Typed' /\ Killed'
    BY <1>1, <1>3, LineKept
  <1>5. Scanned'
    BY <1>1, <1>2, ScannedNext DEF Follows
  <1>6. Widths'
    <2>1. number + 1 \notin TableRows(lines)
      BY <1>2, TableRowsAre
    <2> QED
      BY <1>1, <2>1, Reading DEF Widths, WidthAt
  <1>7. TablesByBlock'
    <2>1. {e \in errors' : e.what = "table width"}
            = {e \in errors : e.what = "table width"}
      BY <1>1, ErrorIs
    <2> QED
      BY <1>1, <1>2, <2>1, TablesNext, TableRowsAre
  <1>8. Faultless'
    BY <1>1, <1>2, <1>3, FaultlessNext
  <1>9. Blocks' /\ Counted'
    BY CloseFenceBlocks
  <1> QED
    BY <1>4, <1>5, <1>6, <1>7, <1>8, <1>9 DEF IInv

(* At the end of a file the scan knows of it what it has to know. *)
LEMMA EndFileIInv == IInv /\ EndFile => IInv'
  <1> SUFFICES ASSUME IInv, EndFile PROVE IInv'
    OBVIOUS
  <1> DEFINE unclosed == IF fence # None THEN {ErrorAt(start, "unclosed fence")} ELSE {}
             details == IF Unbalanced(lines) THEN {ErrorAt(0, "details")} ELSE {}
  <1>1. /\ pc = "scan" /\ file <= Len(paths) /\ number = Len(lines)
        /\ file' = file + 1 /\ number' = 0 /\ fence' = None /\ width' = None
        /\ prose' = {} /\ snippets' = snippets /\ pc' = pc
        /\ paths' = paths /\ run_python' = run_python
        /\ UNCHANGED <<at, leader, children, leftover, passed, exit>>
    BY DEF EndFile, input, running, block
  <1>0. errors' = errors \union unclosed \union details
    BY DEF EndFile
  <1>6. errors' = {} => errors = {} /\ fence = None
    BY <1>0
  <1>15. \A e \in unclosed \union details : e.what # "table width"
    <2>1. \A e \in unclosed : e = ErrorAt(start, "unclosed fence")
      OBVIOUS
    <2>2. \A e \in details : e = ErrorAt(0, "details")
      OBVIOUS
    <2>3. /\ ErrorAt(start, "unclosed fence").what = "unclosed fence"
          /\ ErrorAt(0, "details").what = "details"
      BY ErrorIs, Zenon
    <2> HIDE DEF unclosed, details
    <2> QED
      BY <2>1, <2>2, <2>3
  <1> HIDE DEF unclosed, details
  <1>2. /\ paths \in Seq(Seq(Line)) /\ Len(paths) \in Nat
        /\ file \in 1 .. Len(paths) /\ number \in Nat
    BY <1>1, PathsAssumption DEF IInv, Typed
  <1>3. lines \in Seq(Line) /\ lines = paths[file]
    BY <1>2 DEF lines
  <1>4. file + 1 <= Len(paths) => lines' \in Seq(Line) /\ lines' = paths[file + 1]
    BY <1>1, <1>2 DEF lines
  <1>5. \A f \in 1 .. Len(paths) : \A n \in 1 .. Len(paths[f]) :
          Behind(f, n)' <=> Behind(f, n)
    BY <1>1, <1>2, <1>3 DEF Behind
  <1>7. Typed'
    BY <1>1, <1>2, <1>4 DEF IInv, Typed
  <1>8. Scanned'
    BY <1>1, <1>4, FencesFollow DEF Scanned
  <1>9. Widths'
    BY <1>1, <1>4, TableRowsAre DEF Widths, WidthAt
  <1>10. TablesByBlock'
    <2>1. {e \in errors : e.what = "table width"} = Due(paths, file, number)
      BY DEF IInv, TablesByBlock, Due
    <2>3. {e \in errors' : e.what = "table width"}
            = {e \in errors : e.what = "table width"}
      BY <1>0, <1>15
    <2>4. Due(paths, file + 1, 0) = Due(paths, file, number)
      BY <1>1, <1>2, <1>3, DueNextFile
    <2>5. {e \in errors' : e.what = "table width"} = Due(paths', file', number')
      BY <1>1, <2>1, <2>3, <2>4
    <2> QED
      BY <2>5 DEF TablesByBlock, Due
  <1>11. Faultless'
    <2>1. SUFFICES ASSUME errors' = {} PROVE Faultless'
      BY DEF Faultless
    <2>2. errors = {} /\ fence = None
      BY <1>6, <2>1
    <2>3. fences(lines)[Len(lines)] = None
      BY <1>1, <2>2 DEF IInv, Scanned
    <2>4. ASSUME NEW f \in 1 .. Len(paths), f < file + 1
          PROVE  fences(paths[f])[Len(paths[f])] = None
      BY <1>2, <1>3, <2>2, <2>3, <2>4 DEF IInv, Faultless
    <2>5. ASSUME NEW f \in 1 .. Len(paths), NEW n \in prose_lines(paths[f]), Behind(f, n)'
          PROVE  paths[f][n].faults = {}
      BY <1>5, <2>2, <2>5, TableRowsAre DEF IInv, Faultless
    <2> QED
      BY <1>1, <2>4, <2>5 DEF Faultless
  <1>12. Blocks'
    <2>1. /\ snippets \in Seq(Snippet)
          /\ IsFiniteSet(Collected) /\ Cardinality(Collected) = Len(snippets)
          /\ \A b \in Collected : Behind(b.file, b.start)
      BY DEF IInv, Blocks
    <2>2. Collected' = Collected
      BY <1>1 DEF Collected
    <2>3. \A b \in Collected : Behind(b.file, b.start)'
      BY <1>1, <1>2, <2>1, CollectedType DEF Behind
    <2>4. \A b : ~ Open(b)'
      BY <1>1 DEF Open
    <2>5. ASSUME errors' = {}
          PROVE  Collected = {b \in PythonBlocks : Behind(b.file, b.start)'}
      <3>1. Collected = {b \in PythonBlocks : Behind(b.file, b.start)}
        BY <1>6, <2>5 DEF IInv, Blocks, Open
      <3>2. \A b \in PythonBlocks : Behind(b.file, b.start)' <=> Behind(b.file, b.start)
        BY <1>5, PythonBlocksAre
      <3> QED
        BY <3>1, <3>2
    <2>6. PythonBlocks' = PythonBlocks
      BY <1>1, PythonBlocksKept
    <2> QED
      BY <1>1, <2>1, <2>2, <2>3, <2>4, <2>5, <2>6 DEF Blocks
  <1>13. Counted'
    BY <1>1, <1>6 DEF IInv, Counted
  <1>14. Killed'
    BY <1>1 DEF IInv, Killed, TimedOutGone
  <1> QED
    BY <1>7, <1>8, <1>9, <1>10, <1>11, <1>12, <1>13, <1>14 DEF IInv

-----------------------------------------------------------------------------
(* After the scan *)

LEMMA FileBound == IInv /\ file > Len(paths) => file = Len(paths) + 1
  <1> SUFFICES ASSUME IInv, file > Len(paths) PROVE file = Len(paths) + 1
    OBVIOUS
  <1>1. paths \in Seq(Seq(Line)) /\ file \in 1 .. Len(paths) + 1
    BY PathsAssumption DEF IInv, Typed
  <1>2. Len(paths) \in Nat
    BY <1>1
  <1> QED
    BY <1>1, <1>2

LEMMA ScanKept ==
  ASSUME IInv, UNCHANGED <<input, scanning>>,
         pc' = pc \/ pc' \in {"run", "wait", "drain", "cleanup", "report",
                              "raised", "exited"},
         pc' \notin {pc, "raised"} => file > Len(paths),
         errors \subseteq errors',
         {e \in errors' : e.what = "table width"}
           = {e \in errors : e.what = "table width"}
  PROVE  Typed' /\ Scanned' /\ Widths' /\ TablesByBlock' /\ Faultless' /\ Blocks'
  <1>1. UNCHANGED <<paths, run_python, file, number, fence, language, start,
                    width, prose, snippets>>
    BY DEF input, scanning
  <1>2. lines' = lines
    BY <1>1 DEF lines
  <1>3. errors' = {} => errors = {}
    OBVIOUS
  <1>4. Typed'
    <2>1. /\ pc' \notin {"scan", "raised"} => file = Len(paths) + 1
          /\ pc' \in {"scan", "run", "wait", "drain", "cleanup", "report",
                      "raised", "exited"}
      <3>1. file > Len(paths) => file = Len(paths) + 1
        BY FileBound
      <3> QED
        BY <3>1 DEF IInv, Typed
    <2> QED
      BY <1>1, <1>2, <2>1 DEF IInv, Typed
  <1>5. Scanned' /\ Widths'
    BY <1>1, <1>2 DEF IInv, Scanned, Widths
  <1>6. TablesByBlock'
    <2>1. {e \in errors : e.what = "table width"} = Due(paths, file, number)
      BY DEF IInv, TablesByBlock, Due
    <2>2. {e \in errors' : e.what = "table width"} = Due(paths', file', number')
      BY <1>1, <2>1
    <2> QED
      BY <2>2 DEF TablesByBlock, Due
  <1>7. Faultless'
    BY <1>1, <1>3 DEF IInv, Faultless, Behind
  <1>8. Blocks'
    <2>1. snippets' = snippets /\ paths' = paths
      BY <1>1
    <2>2. Collected' = Collected
      BY <2>1 DEF Collected
    <2>3. PythonBlocks' = PythonBlocks
      BY <2>1, PythonBlocksKept
    <2> QED
      BY <1>1, <1>3, <2>2, <2>3 DEF IInv, Blocks, Behind, Open
  <1> QED
    BY <1>4, <1>5, <1>6, <1>7, <1>8

LEMMA ErrorsKept ==
  ASSUME IInv, NEW what \in {"exit", "timeout"}, errors' = SnippetError(what)
  PROVE  /\ errors \subseteq errors' /\ errors' # {}
         /\ {e \in errors' : e.what = "table width"}
              = {e \in errors : e.what = "table width"}
  <1> DEFINE new == [file |-> snippets[at].file, line |-> snippets[at].start,
                     what |-> what]
  <1>1. errors' = errors \union {new} /\ new.what # "table width"
    BY DEF SnippetError
  <1> HIDE DEF new
  <1> QED
    BY <1>1

LEMMA EndScanIInv == IInv /\ EndScan => IInv'
  <1> SUFFICES ASSUME IInv, EndScan PROVE IInv'
    OBVIOUS
  <1>1. /\ pc = "scan" /\ file > Len(paths)
        /\ pc' = IF run_python /\ errors = {} THEN "run" ELSE "report"
        /\ errors' = errors /\ UNCHANGED <<input, scanning>>
    BY DEF EndScan
  <1>2. /\ UNCHANGED <<at, leftover, passed, exit, snippets>>
        /\ run_python' = run_python
    BY DEF EndScan, running, input, scanning
  <1>3. Typed' /\ Scanned' /\ Widths' /\ TablesByBlock' /\ Faultless' /\ Blocks'
    BY <1>1, ScanKept
  <1>4. Counted'
    BY <1>1, <1>2 DEF IInv, Counted
  <1>5. Killed'
    BY <1>1, <1>2 DEF IInv, Killed, TimedOutGone
  <1> QED
    BY <1>3, <1>4, <1>5 DEF IInv

LEMMA BashTimesOutIInv == IInv /\ BashTimesOut => IInv'
  <1> SUFFICES ASSUME IInv, BashTimesOut PROVE IInv'
    OBVIOUS
  <1>1. /\ pc = "scan" /\ pc' = "raised" /\ exit' = 1
        /\ errors' = errors /\ UNCHANGED <<input, scanning>>
    BY DEF BashTimesOut
  <1>2. /\ UNCHANGED <<at, leftover, passed, snippets>>
        /\ run_python' = run_python
    BY DEF BashTimesOut, running, input, scanning
  <1>3. Typed' /\ Scanned' /\ Widths' /\ TablesByBlock' /\ Faultless' /\ Blocks'
    BY <1>1, ScanKept
  <1>4. Counted'
    BY <1>1, <1>2 DEF IInv, Counted
  <1>5. Killed'
    BY <1>1, <1>2 DEF IInv, Killed, TimedOutGone
  <1> QED
    BY <1>3, <1>4, <1>5 DEF IInv

(* Steps of the blocks' own processes. *)
LEMMA ProcessIInv ==
  ASSUME IInv, LeaderStep \/ WriteStderr \/ \E c \in Child : ChildEnds(c)
  PROVE  IInv'
  <1>1. /\ pc' = pc /\ errors' = errors /\ UNCHANGED <<input, scanning>>
        /\ UNCHANGED <<at, leftover, passed, exit>>
    BY DEF LeaderStep, WriteStderr, ChildEnds
  <1>2. snippets' = snippets /\ run_python' = run_python
    BY <1>1 DEF scanning, input
  <1>3. Typed' /\ Scanned' /\ Widths' /\ TablesByBlock' /\ Faultless' /\ Blocks'
    BY <1>1, ScanKept
  <1>4. Counted'
    BY <1>1, <1>2 DEF IInv, Counted
  <1>5. Killed'
    <2>1. leader # "alive" => leader' = leader /\ children' \subseteq children
      BY DEF LeaderStep, WriteStderr, ChildEnds
    <2> QED
      BY <1>1, <2>1 DEF IInv, Killed, TimedOutGone
  <1> QED
    BY <1>3, <1>4, <1>5 DEF IInv

(* What a step of the runner shares with the others. *)
LEMMA RunnerKept ==
  ASSUME IInv, pc \notin {"scan", "raised"},
         pc' \in {"run", "wait", "drain", "cleanup", "report", "raised", "exited"},
         UNCHANGED <<input, scanning>>,
         errors' = errors \/ \E what \in {"exit", "timeout"} : errors' = SnippetError(what)
  PROVE  /\ Typed' /\ Scanned' /\ Widths' /\ TablesByBlock' /\ Faultless' /\ Blocks'
         /\ snippets' = snippets /\ run_python' = run_python
         /\ Len(snippets) \in Nat
  <1>1. file > Len(paths)
    <2>1. paths \in Seq(Seq(Line))
      BY PathsAssumption DEF IInv, Typed
    <2>2. Len(paths) \in Nat
      BY <2>1
    <2> QED
      BY <2>2 DEF IInv, Typed
  <1>2. /\ errors \subseteq errors'
        /\ {e \in errors' : e.what = "table width"}
             = {e \in errors : e.what = "table width"}
    BY ErrorsKept
  <1>3. Typed' /\ Scanned' /\ Widths' /\ TablesByBlock' /\ Faultless' /\ Blocks'
    BY <1>1, <1>2, ScanKept
  <1>4. snippets' = snippets /\ run_python' = run_python
    BY DEF input, scanning
  <1>5. Len(snippets) \in Nat
    BY DEF IInv, Blocks
  <1> QED
    BY <1>3, <1>4, <1>5

LEMMA PopenIInv == IInv /\ Popen => IInv'
  <1> SUFFICES ASSUME IInv, Popen PROVE IInv'
    OBVIOUS
  <1>1. /\ pc = "run" /\ at < Len(snippets) /\ at' = at + 1 /\ pc' = "wait"
        /\ errors' = errors /\ UNCHANGED <<input, scanning, leftover, passed, exit>>
    BY DEF Popen
  <1>2. Counted'
    BY <1>1, RunnerKept DEF IInv, Counted
  <1>3. Killed'
    BY <1>1 DEF IInv, Killed, TimedOutGone
  <1> QED
    BY <1>1, <1>2, <1>3, RunnerKept DEF IInv

LEMMA JudgeIInv == IInv /\ Judge => IInv'
  <1> SUFFICES ASSUME IInv, Judge PROVE IInv'
    OBVIOUS
  <1>1. /\ pc = "wait" /\ pc' = "cleanup" /\ at' = at
        /\ UNCHANGED <<input, scanning, leftover, exit>>
        /\ \/ errors' = SnippetError("exit")
           \/ errors' = errors /\ passed' = passed + 1
    BY DEF Judge
  <1>2. errors' = {} => errors = {} /\ passed' = passed + 1
    BY <1>1, ErrorsKept
  <1>3. Counted'
    BY <1>1, <1>2, RunnerKept DEF IInv, Counted
  <1>4. Killed'
    BY <1>1 DEF IInv, Killed, TimedOutGone
  <1> QED
    BY <1>1, <1>3, <1>4, RunnerKept DEF IInv

(* The kill leaves no process of the group, first or other. *)
LEMMA TimeoutIInv == IInv /\ Timeout => IInv'
  <1> SUFFICES ASSUME IInv, Timeout PROVE IInv'
    OBVIOUS
  <1>1. /\ pc = "wait" /\ pc' = "drain" /\ at' = at /\ errors' = errors
        /\ UNCHANGED <<input, scanning, leftover, passed, exit>>
        /\ leader' # "alive" /\ \A c \in children' : c.escaped
    BY DEF Timeout
  <1>2. Counted'
    BY <1>1, RunnerKept DEF IInv, Counted
  <1>3. Killed'
    BY <1>1 DEF IInv, Killed, TimedOutGone
  <1> QED
    BY <1>1, <1>2, <1>3, RunnerKept DEF IInv

LEMMA DrainIInv == IInv /\ Drain => IInv'
  <1> SUFFICES ASSUME IInv, Drain PROVE IInv'
    OBVIOUS
  <1>1. /\ pc = "drain" /\ pc' = "cleanup" /\ at' = at
        /\ errors' = SnippetError("timeout")
        /\ UNCHANGED <<input, scanning, passed, exit>>
        /\ leftover' = leftover \union children /\ \A c \in children : ~ c.holds
    BY DEF Drain, Holding
  <1>2. errors' # {}
    BY <1>1, ErrorsKept
  <1>3. Counted'
    BY <1>1, <1>2, RunnerKept DEF IInv, Counted
  <1>4. Killed'
    BY <1>1 DEF IInv, Killed, TimedOutGone
  <1> QED
    BY <1>1, <1>3, <1>4, RunnerKept DEF IInv

LEMMA CleanupIInv == IInv /\ Cleanup => IInv'
  <1> SUFFICES ASSUME IInv, Cleanup PROVE IInv'
    OBVIOUS
  <1>1. /\ pc = "cleanup" /\ errors' = errors
        /\ UNCHANGED <<input, scanning, at, leftover, passed>>
        /\ \/ pc' = "run" /\ exit' = exit
           \/ pc' = "raised" /\ exit' = 1
    BY DEF Cleanup
  <1>2. Counted'
    BY <1>1, RunnerKept DEF IInv, Counted
  <1>3. Killed'
    BY <1>1 DEF IInv, Killed, TimedOutGone
  <1> QED
    BY <1>1, <1>2, <1>3, RunnerKept DEF IInv

LEMMA ReportIInv == IInv /\ (EndRun \/ main) => IInv'
  <1> SUFFICES ASSUME IInv, EndRun \/ main PROVE IInv'
    OBVIOUS
  <1>1. /\ errors' = errors /\ UNCHANGED <<input, scanning, at, leftover, passed>>
        /\ \/ pc = "run" /\ at = Len(snippets) /\ pc' = "report" /\ exit' = exit
           \/ /\ pc = "report" /\ pc' = "exited"
              /\ exit' = IF errors = {} THEN 0 ELSE 1
    BY DEF EndRun, main, ExitWithErrors, input, running
  <1>2. Counted'
    BY <1>1, RunnerKept DEF IInv, Counted
  <1>3. Killed'
    BY <1>1 DEF IInv, Killed, TimedOutGone
  <1> QED
    BY <1>1, <1>2, <1>3, RunnerKept DEF IInv

-----------------------------------------------------------------------------
(* The theorems *)

LEMMA NextIInv == IInv /\ [Next]_vars => IInv'
  <1> SUFFICES ASSUME IInv, [Next]_vars PROVE IInv'
    OBVIOUS
  <1>1. CASE UNCHANGED vars
    <2>1. /\ pc' = pc /\ errors' = errors /\ UNCHANGED <<input, scanning>>
          /\ UNCHANGED <<at, leader, children, leftover, passed, exit>>
      BY <1>1 DEF vars, running, block
    <2>2. snippets' = snippets /\ run_python' = run_python
      BY <2>1 DEF scanning, input
    <2>3. Typed' /\ Scanned' /\ Widths' /\ TablesByBlock' /\ Faultless' /\ Blocks'
      BY <2>1, ScanKept
    <2>4. Counted' /\ Killed'
      BY <2>1, <2>2 DEF IInv, Counted, Killed, TimedOutGone
    <2> QED
      BY <2>3, <2>4 DEF IInv
  <1>2. CASE check
    BY <1>2, CloseFenceIInv, BashTimesOutIInv, BodyLineIInv, OpenFenceIInv,
       ProseLineIInv, EndFileIInv, EndScanIInv, PopenIInv, JudgeIInv, TimeoutIInv, DrainIInv,
       CleanupIInv, ReportIInv DEF check
  <1> QED
    BY <1>1, <1>2, ProcessIInv, ReportIInv DEF Next

LEMMA Invariance == Spec => []IInv
  BY InitIInv, NextIInv, PTL DEF Spec

(* Whatever the files hold, the lesson checker and the document validator take
   the same lines for prose. *)
THEOREM SameProse == Spec => []ScannersAgree
  <1>1. IInv => ScannersAgree
    BY DEF IInv, Scanned, ScannersAgree
  <1> QED
    BY <1>1, Invariance, PTL

(* Whatever the files hold, exactly the uneven rows are reported. *)
THEOREM UnevenRowsReported == Spec => []TablesByBlock
  <1>1. IInv => TablesByBlock
    BY DEF IInv
  <1> QED
    BY <1>1, Invariance, PTL

(* Nothing of a killed block's process group outlives it. *)
THEOREM GroupGone == Spec => []TimedOutGone
  <1>1. IInv => TimedOutGone
    BY DEF IInv, Killed
  <1> QED
    BY <1>1, Invariance, PTL

(* Exit code 0 means that all of every file was judged and, when asked for,
   that every Python block ran to success. *)
THEOREM ZeroMeansChecked == Spec => []ExitZeroMeansChecked
  <1>1. IInv => ExitZeroMeansChecked
    <2> SUFFICES ASSUME IInv, exit = 0
                 PROVE  /\ \A f \in 1 .. Len(paths) :
                             /\ fences(paths[f])[Len(paths[f])] = None
                             /\ UnevenRows(paths[f]) = {}
                             /\ \A n \in prose_lines(paths[f]) : paths[f][n].faults = {}
                        /\ Collected = PythonBlocks
                        /\ run_python => passed = Cardinality(PythonBlocks)
      BY DEF ExitZeroMeansChecked, Collected
    <2>1. pc = "exited" /\ errors = {}
      BY DEF IInv, Counted
    <2>2. paths \in Seq(Seq(Line)) /\ file = Len(paths) + 1
      BY <2>1, PathsAssumption DEF IInv, Typed
    <2>3. \A f \in 1 .. Len(paths) : f < file
      BY <2>2
    <2>4. \A f \in 1 .. Len(paths) : \A n : Behind(f, n)
      BY <2>3 DEF Behind
    <2>5. \A f \in 1 .. Len(paths) :
            /\ fences(paths[f])[Len(paths[f])] = None
            /\ \A n \in prose_lines(paths[f]) : paths[f][n].faults = {}
      BY <2>1, <2>3, <2>4 DEF IInv, Faultless
    <2>6. ASSUME NEW f \in 1 .. Len(paths), NEW n \in UnevenRows(paths[f])
          PROVE  FALSE
      <3>1. Len(paths) \in Nat /\ file \in Nat
        BY <2>2
      <3>2. DueAt(f, n) \in Due(paths, file, number)
        BY <2>3, <3>1, DueAre
      <3>3. {e \in errors : e.what = "table width"} = Due(paths, file, number)
        BY DEF IInv, TablesByBlock, Due
      <3> QED
        BY <2>1, <3>2, <3>3
    <2>7. Collected = PythonBlocks
      <3>1. \A b \in PythonBlocks : Behind(b.file, b.start)
        BY <2>4, PythonBlocksAre
      <3>2. \A b : ~ Open(b)
        BY <2>2 DEF IInv, Scanned, Open
      <3> QED
        BY <2>1, <3>1, <3>2 DEF IInv, Blocks
    <2>8. run_python => passed = Len(snippets) /\ Len(snippets) = Cardinality(PythonBlocks)
      BY <2>1, <2>7 DEF IInv, Counted, Blocks
    <2> QED
      BY <2>5, <2>6, <2>7, <2>8
  <1> QED
    BY <1>1, Invariance, PTL

-----------------------------------------------------------------------------
(* The document validator *)

LEMMA LeastNatural ==
  ASSUME NEW T \in SUBSET Nat, T # {}
  PROVE  \E n \in T : \A m \in T : n <= m
  <1>1. PICK n \in T : \A m \in T : <<m, n>> \notin OpToRel(<, Nat)
    BY NatLessThanWellFounded, WFMin
  <1>2. \A m \in T : ~ (m < n)
    BY <1>1 DEF OpToRel
  <1>3. \A m \in T : n <= m
    BY <1>2
  <1> QED
    BY <1>3

-----------------------------------------------------------------------------
(* Ids of headings *)

(* Two ids are the same when slug and number are, or when one slug is the
   other with its number. *)
LEMMA SameId ==
  ASSUME NEW s \in Slug, NEW t \in Slug, NEW j \in Nat, NEW k \in Nat,
         Id(s, j) = Id(t, k)
  PROVE  \/ s = t /\ j = k
         \/ j = 0 /\ k # 0 /\ s = Append(t, k) /\ s # t
         \/ k = 0 /\ j # 0 /\ t = Append(s, j) /\ s # t
  <1> DEFINE E == Word \union Nat
  <1>1. s \in Seq(E) /\ t \in Seq(E) /\ j \in E /\ k \in E
    BY DEF Slug
  <1> HIDE DEF E
  <1>2. Len(Append(s, j)) = Len(s) + 1 /\ Len(Append(t, k)) = Len(t) + 1
    BY <1>1, AppendProperties
  <1>3. Append(s, j) # s /\ Append(t, k) # t
    BY <1>1, <1>2
  <1>4. Append(s, j) = Append(t, k) <=> s = t /\ j = k
    BY <1>1, AppendInjective
  <1> QED
    BY <1>3, <1>4 DEF Id

(* Among one more number than ids are taken there is a least free one. *)
LEMMA FreeNumber ==
  ASSUME NEW s \in Slug, NEW n \in Nat, NEW taken, IsFiniteSet(taken),
         Cardinality(taken) <= n
  PROVE  \E k \in 0 .. n : /\ Id(s, k) \notin taken
                           /\ \A j \in 0 .. k - 1 : Id(s, j) \in taken
  <1> DEFINE free == {k \in 0 .. n : Id(s, k) \notin taken}
  <1>1. SUFFICES ASSUME free = {} PROVE FALSE
    <2>1. CASE free # {}
      <3>1. PICK k \in free : \A m \in free : k <= m
        <4>1. free \in SUBSET Nat
          OBVIOUS
        <4> HIDE DEF free
        <4> QED
          BY <2>1, <4>1, LeastNatural
      <3>2. \A j \in 0 .. k - 1 : j \in 0 .. n /\ j \notin free
        BY <3>1
      <3> QED
        BY <3>1, <3>2
    <2> QED
      BY <2>1
  <1>2. IsFiniteSet(0 .. n) /\ Cardinality(0 .. n) = n + 1
    <2>1. 0 \in Int /\ n \in Int /\ ~ (0 > n)
      OBVIOUS
    <2>2. /\ IsFiniteSet(0 .. n)
          /\ Cardinality(0 .. n) = IF 0 > n THEN 0 ELSE n - 0 + 1
      BY <2>1, FS_Interval
    <2> QED
      BY <2>1, <2>2
  <1>3. Cardinality(taken) \in Nat
    BY FS_CardinalityType
  <1>4. \A k \in 0 .. n : Id(s, k) \in taken
    BY <1>1
  <1> DEFINE f == [k \in 0 .. n |-> Id(s, k)]
  <1>5. f \in [0 .. n -> taken]
    BY <1>4
  <1>6. PICK j, k \in 0 .. n : j # k /\ f[j] = f[k]
    <2>1. Cardinality(taken) < Cardinality(0 .. n)
      BY <1>2, <1>3
    <2> HIDE DEF f
    <2> QED
      BY <1>2, <1>5, <2>1, FS_PigeonHole
  <1>7. Id(s, j) = Id(s, k) /\ j \in Nat /\ k \in Nat
    BY <1>6
  <1> QED
    BY <1>6, <1>7, SameId

LEMMA FreeIdIs ==
  ASSUME NEW s \in Slug, NEW n \in Nat, NEW taken, IsFiniteSet(taken),
         Cardinality(taken) <= n
  PROVE  \E k \in 0 .. n : /\ FreeId(s, n, taken) = Id(s, k)
                           /\ Id(s, k) \notin taken
                           /\ \A j \in 0 .. k - 1 : Id(s, j) \in taken
  <1> DEFINE P(k) == /\ Id(s, k) \notin taken
                     /\ \A j \in 0 .. k - 1 : Id(s, j) \in taken
             c == CHOOSE k \in 0 .. n : P(k)
  <1>1. \E k \in 0 .. n : P(k)
    BY FreeNumber
  <1> HIDE DEF P
  <1>2. c \in 0 .. n /\ P(c)
    BY <1>1
  <1>3. FreeId(s, n, taken) = Id(s, c)
    BY DEF FreeId, P
  <1> HIDE DEF c
  <1> QED
    BY <1>2, <1>3 DEF P

-----------------------------------------------------------------------------
(* The headings before a line that have a given slug *)

Earlier(page, n, s) == {m \in Headings(page) : m < n /\ page.lines[m].slug = s}

HeadingId(page, n) ==
  Id(page.lines[n].slug, Cardinality(Earlier(page, n, page.lines[n].slug)))

LEMMA NumberedIdsAre ==
  ASSUME NEW page
  PROVE  NumberedIds(page) = {HeadingId(page, n) : n \in Headings(page)}
  <1>1. \A n : counts(page, n) = Cardinality(Earlier(page, n, page.lines[n].slug))
    BY DEF counts, Earlier
  <1> QED
    BY <1>1 DEF NumberedIds, HeadingId

LEMMA PageLines ==
  ASSUME NEW page \in PageType
  PROVE  /\ Len(page.lines) \in Nat
         /\ \A n \in 1 .. Len(page.lines) : page.lines[n] \in PageLine
         /\ \A n \in Headings(page) :
              n \in 1 .. Len(page.lines) /\ page.lines[n].slug \in Slug
  <1>1. page.lines \in Seq(PageLine)
    BY DEF PageType
  <1>2. /\ Len(page.lines) \in Nat
        /\ \A n \in 1 .. Len(page.lines) : page.lines[n] \in PageLine
    <2> HIDE DEF PageLine
    <2> QED
      BY <1>1
  <1>3. ASSUME NEW l \in PageLine, l.slug # None PROVE l.slug \in Slug
    <2> HIDE DEF Slug
    <2> QED
      BY <1>3 DEF PageLine
  <1> QED
    BY <1>2, <1>3 DEF Headings

LEMMA EarlierFinite ==
  ASSUME NEW page \in PageType, NEW n \in Nat \ {0}, NEW s
  PROVE  /\ IsFiniteSet(Earlier(page, n, s))
         /\ Cardinality(Earlier(page, n, s)) \in 0 .. n - 1
  <1>1. Earlier(page, n, s) \subseteq 1 .. n - 1
    BY PageLines DEF Earlier
  <1>2. IsFiniteSet(1 .. n - 1) /\ Cardinality(1 .. n - 1) = n - 1
    <2>1. 1 \in Int /\ n - 1 \in Int
      OBVIOUS
    <2>2. /\ IsFiniteSet(1 .. n - 1)
          /\ Cardinality(1 .. n - 1) = IF 1 > n - 1 THEN 0 ELSE (n - 1) - 1 + 1
      BY <2>1, FS_Interval
    <2> QED
      BY <2>2
  <1>3. /\ IsFiniteSet(Earlier(page, n, s))
        /\ Cardinality(Earlier(page, n, s)) <= Cardinality(1 .. n - 1)
    BY <1>1, <1>2, FS_Subset
  <1>4. Cardinality(Earlier(page, n, s)) \in Nat
    BY <1>3, FS_CardinalityType
  <1> QED
    BY <1>2, <1>3, <1>4

LEMMA EarlierNext ==
  ASSUME NEW page \in PageType, NEW n \in Nat \ {0}, NEW s
  PROVE  Cardinality(Earlier(page, n + 1, s))
           = IF n \in Headings(page) /\ page.lines[n].slug = s
             THEN Cardinality(Earlier(page, n, s)) + 1
             ELSE Cardinality(Earlier(page, n, s))
  <1>1. \A m \in Headings(page) : m \in Nat /\ (m < n + 1 <=> m < n \/ m = n)
    BY PageLines
  <1>2. CASE n \in Headings(page) /\ page.lines[n].slug = s
    <2>1. Earlier(page, n + 1, s) = Earlier(page, n, s) \union {n}
      BY <1>1, <1>2 DEF Earlier
    <2>2. n \notin Earlier(page, n, s)
      BY DEF Earlier
    <2> QED
      BY <1>2, <2>1, <2>2, EarlierFinite, FS_AddElement
  <1>3. CASE ~ (n \in Headings(page) /\ page.lines[n].slug = s)
    <2>1. Earlier(page, n + 1, s) = Earlier(page, n, s)
      BY <1>1, <1>3 DEF Earlier
    <2> QED
      BY <1>3, <2>1
  <1> QED
    BY <1>2, <1>3

-----------------------------------------------------------------------------
(* The rendered ids form one function, which follows the lines one by one. *)

Taken(page, n, ids) ==
  IF n \notin Headings(page) THEN ids
  ELSE ids \union {FreeId(page.lines[n].slug, n, ids)}

IdsUpto(page, N, f) ==
  f = [n \in 0 .. N |-> IF n = 0 THEN {} ELSE Taken(page, n, f[n - 1])]

LEMMA IdsExist ==
  ASSUME NEW page, NEW N \in Nat
  PROVE  \E f : IdsUpto(page, N, f)
  <1> DEFINE T == {k \in Nat : \E f : IdsUpto(page, k, f)}
  <1>1. 0 \in T
    <2> DEFINE f == [n \in 0 .. 0 |-> {}]
    <2>1. IdsUpto(page, 0, f)
      BY DEF IdsUpto
    <2> QED
      BY <2>1
  <1>2. ASSUME NEW k \in Nat, k \in T PROVE k + 1 \in T
    <2>1. PICK f : IdsUpto(page, k, f)
      BY <1>2
    <2> DEFINE g == [n \in 0 .. k + 1 |->
                       IF n = k + 1 THEN Taken(page, k + 1, f[k]) ELSE f[n]]
    <2>2. \A n \in 0 .. k : g[n] = f[n]
      OBVIOUS
    <2>3. \A n \in 0 .. k :
            f[n] = IF n = 0 THEN {} ELSE Taken(page, n, f[n - 1])
      BY <2>1 DEF IdsUpto
    <2>4. ASSUME NEW n \in 0 .. k + 1
          PROVE  g[n] = IF n = 0 THEN {} ELSE Taken(page, n, g[n - 1])
      <3>1. CASE n = k + 1
        <4>1. g[n - 1] = f[k]
          BY <3>1, <2>2
        <4> QED
          BY <3>1, <4>1
      <3>2. CASE n # k + 1
        <4>1. n \in 0 .. k /\ (n # 0 => n - 1 \in 0 .. k)
          BY <3>2
        <4>2. g[n] = f[n] /\ (n # 0 => g[n - 1] = f[n - 1])
          BY <4>1, <2>2
        <4> QED
          BY <4>1, <4>2, <2>3
      <3> QED
        BY <3>1, <3>2
    <2>5. IdsUpto(page, k + 1, g)
      <3>1. g = [n \in 0 .. k + 1 |->
                   IF n = 0 THEN {} ELSE Taken(page, n, g[n - 1])]
        BY <2>4
      <3> QED
        BY <3>1 DEF IdsUpto
    <2> QED
      BY <2>5
  <1> QED
    BY <1>1, <1>2, SetInduction

LEMMA IdsFollow ==
  ASSUME NEW page \in PageType
  PROVE  \E ids : /\ ids[0] = {}
                  /\ \A n \in 1 .. Len(page.lines) :
                       ids[n] = Taken(page, n, ids[n - 1])
                  /\ GivenIds(page) = ids[Len(page.lines)]
  <1> DEFINE N == Len(page.lines)
             Rule(f, n) ==
               IF n = 0 THEN {}
               ELSE IF n \notin Headings(page) THEN f[n - 1]
               ELSE f[n - 1] \union {FreeId(page.lines[n].slug, n, f[n - 1])}
             Upto(f) == f = [n \in 0 .. N |-> Rule(f, n)]
  <1>1. ASSUME NEW f, NEW n \in 0 .. N
        PROVE  Rule(f, n) = IF n = 0 THEN {} ELSE Taken(page, n, f[n - 1])
    BY DEF Taken
  <1> HIDE DEF Rule
  <1>2. \E f : Upto(f)
    <2>1. PICK f : IdsUpto(page, N, f)
      <3>1. N \in Nat
        BY PageLines
      <3> HIDE DEF N
      <3> QED
        BY <3>1, IdsExist
    <2>2. [n \in 0 .. N |-> Rule(f, n)]
            = [n \in 0 .. N |-> IF n = 0 THEN {} ELSE Taken(page, n, f[n - 1])]
      BY <1>1
    <2> QED
      BY <2>1, <2>2 DEF IdsUpto
  <1> DEFINE ids == CHOOSE f : Upto(f)
  <1>3. GivenIds(page) = ids[N]
    BY DEF GivenIds, Rule
  <1>4. Upto(ids)
    BY <1>2
  <1> HIDE DEF ids
  <1>5. \A n \in 0 .. N : ids[n] = IF n = 0 THEN {} ELSE Taken(page, n, ids[n - 1])
    BY <1>1, <1>4
  <1>6. N \in Nat
    BY PageLines
  <1> QED
    BY <1>3, <1>5, <1>6

-----------------------------------------------------------------------------
(* What the validator accepts is what is rendered *)

LEMMA LaterCountsMore ==
  ASSUME NEW page \in PageType, NEW m \in Headings(page), NEW n \in Nat, m < n
  PROVE  Cardinality(Earlier(page, m, page.lines[m].slug))
           < Cardinality(Earlier(page, n, page.lines[m].slug))
  <1> DEFINE s == page.lines[m].slug
             before == Earlier(page, m, s)
  <1>1. m \in Nat \ {0}
    BY PageLines
  <1>2. IsFiniteSet(before) /\ Cardinality(before) \in Nat
    BY <1>1, EarlierFinite
  <1>3. m \notin before
    BY <1>1 DEF Earlier
  <1>4. before \union {m} \subseteq Earlier(page, n, s)
    <2>1. \A x \in before : x \in Nat /\ x < m /\ x \in Headings(page)
      BY PageLines DEF Earlier
    <2>2. \A x \in before : x < n
      BY <1>1, <2>1
    <2> QED
      BY <2>1, <2>2 DEF Earlier
  <1>5. IsFiniteSet(Earlier(page, n, s)) /\ Cardinality(Earlier(page, n, s)) \in Nat
    BY <1>1, EarlierFinite
  <1> HIDE DEF before, s
  <1>6. Cardinality(before \union {m}) = Cardinality(before) + 1
    BY <1>2, <1>3, FS_AddElement
  <1>7. Cardinality(before \union {m}) <= Cardinality(Earlier(page, n, s))
    BY <1>4, <1>5, FS_Subset
  <1>8. Cardinality(before) < Cardinality(Earlier(page, n, s))
    BY <1>2, <1>5, <1>6, <1>7
  <1> QED
    BY <1>8 DEF before, s

(* After line n: every number that a slug has been given in the validator's
   count is taken. *)
Covered(page, n, taken) ==
  /\ IsFiniteSet(taken) /\ Cardinality(taken) <= n
  /\ \A s \in Slug : \A j \in Nat :
       j < Cardinality(Earlier(page, n + 1, s)) => Id(s, j) \in taken

LEMMA CoveredFirst ==
  ASSUME NEW page \in PageType
  PROVE  Covered(page, 0, {})
  <1>1. IsFiniteSet({}) /\ Cardinality({}) = 0
    BY FS_EmptySet
  <1>2. ASSUME NEW s PROVE Cardinality(Earlier(page, 1, s)) = 0
    BY EarlierFinite
  <1> QED
    BY <1>1, <1>2 DEF Covered

LEMMA CoveredNext ==
  ASSUME NEW page \in PageType, NEW n \in 1 .. Len(page.lines), NEW taken,
         Covered(page, n - 1, taken)
  PROVE  Covered(page, n, Taken(page, n, taken))
  <1>1. Len(page.lines) \in Nat /\ n \in Nat \ {0} /\ n - 1 + 1 = n
    BY PageLines
  <1>2. /\ IsFiniteSet(taken) /\ Cardinality(taken) <= n - 1
        /\ \A s \in Slug : \A j \in Nat :
             j < Cardinality(Earlier(page, n, s)) => Id(s, j) \in taken
    BY <1>1 DEF Covered
  <1>3. Cardinality(taken) \in Nat
    BY <1>2, FS_CardinalityType
  <1>4. CASE n \notin Headings(page)
    <2>1. \A s : Cardinality(Earlier(page, n + 1, s)) = Cardinality(Earlier(page, n, s))
      BY <1>1, <1>4, EarlierNext
    <2>2. Cardinality(taken) <= n
      BY <1>1, <1>2, <1>3
    <2> QED
      BY <1>2, <1>4, <2>1, <2>2 DEF Covered, Taken
  <1>5. CASE n \in Headings(page)
    <2> DEFINE s == page.lines[n].slug
               c == Cardinality(Earlier(page, n, s))
               new == Taken(page, n, taken)
    <2>1. s \in Slug
      BY <1>5, PageLines
    <2>2. c \in Nat
      BY <1>1, EarlierFinite
    <2>3. PICK k \in 0 .. n : /\ FreeId(s, n, taken) = Id(s, k)
                              /\ Id(s, k) \notin taken
                              /\ \A j \in 0 .. k - 1 : Id(s, j) \in taken
      <3>1. Cardinality(taken) <= n
        BY <1>1, <1>2, <1>3
      <3> HIDE DEF s
      <3> QED
        BY <1>1, <1>2, <2>1, <3>1, FreeIdIs
    <2>4. new = taken \union {Id(s, k)}
      BY <1>5, <2>3 DEF Taken
    <2>5. IsFiniteSet(new) /\ Cardinality(new) <= n
      <3> HIDE DEF new, s
      <3>1. Cardinality(taken) + 1 <= n
        BY <1>1, <1>2, <1>3
      <3>2. IsFiniteSet(new) /\ Cardinality(new) = Cardinality(taken) + 1
        BY <1>2, <2>3, <2>4, FS_AddElement
      <3> QED
        BY <3>1, <3>2
    <2>6. Id(s, c) \in new
      <3> HIDE DEF s, c, new
      <3>1. ~ (c > k) => c = k \/ c \in 0 .. k - 1
        BY <2>2
      <3>2. ~ (c > k)
        <4>1. \A j \in Nat : j < c => Id(s, j) \in taken
          BY <1>2, <2>1 DEF c
        <4> QED
          BY <2>3, <4>1
      <3> QED
        BY <2>3, <2>4, <3>1, <3>2
    <2>7. ASSUME NEW t \in Slug, NEW j \in Nat,
                 j < Cardinality(Earlier(page, n + 1, t))
          PROVE  Id(t, j) \in new
      <3>1. Cardinality(Earlier(page, n + 1, t))
              = IF s = t THEN Cardinality(Earlier(page, n, t)) + 1
                ELSE Cardinality(Earlier(page, n, t))
        BY <1>1, <1>5, EarlierNext
      <3> HIDE DEF new
      <3>2. CASE j < Cardinality(Earlier(page, n, t))
        BY <1>2, <2>4, <3>2
      <3>3. CASE ~ (j < Cardinality(Earlier(page, n, t)))
        <4>1. s = t /\ j = c
          <5>1. Cardinality(Earlier(page, n, t)) \in Nat
            BY <1>1, EarlierFinite
          <5> QED
            BY <2>7, <3>1, <3>3, <5>1
        <4> QED
          BY <2>6, <4>1
      <3> QED
        BY <3>2, <3>3
    <2> QED
      BY <2>5, <2>7 DEF Covered
  <1> QED
    BY <1>4, <1>5

LEMMA CoveredAlways ==
  ASSUME NEW page \in PageType, NEW ids, ids[0] = {},
         \A n \in 1 .. Len(page.lines) : ids[n] = Taken(page, n, ids[n - 1])
  PROVE  \A n \in 0 .. Len(page.lines) : Covered(page, n, ids[n])
  <1> DEFINE N == Len(page.lines)
             T == {n \in Nat : n <= N => Covered(page, n, ids[n])}
  <1>1. N \in Nat
    BY PageLines
  <1>2. 0 \in T
    BY CoveredFirst
  <1>3. ASSUME NEW n \in Nat, n \in T PROVE n + 1 \in T
    <2>1. CASE n + 1 <= N
      <3>1. n + 1 \in 1 .. N /\ (n + 1) - 1 = n /\ n <= N
        BY <1>1, <2>1
      <3>2. Covered(page, (n + 1) - 1, ids[n])
        BY <1>3, <3>1
      <3>3. ids[n + 1] = Taken(page, n + 1, ids[n])
        BY <3>1
      <3> QED
        BY <3>1, <3>2, <3>3, CoveredNext
    <2> QED
      BY <2>1
  <1>4. Nat \subseteq T
    <2> HIDE DEF T
    <2> QED
      BY <1>2, <1>3, SetInduction
  <1> QED
    BY <1>1, <1>4

(* Every id the validator accepts for a heading is on the rendered page. *)
LEMMA AcceptedIsRendered ==
  ASSUME NEW page \in PageType
  PROVE  NumberedIds(page) \subseteq GivenIds(page)
  <1> DEFINE N == Len(page.lines)
  <1>1. PICK ids : /\ ids[0] = {}
                   /\ \A n \in 1 .. N : ids[n] = Taken(page, n, ids[n - 1])
                   /\ GivenIds(page) = ids[N]
    BY IdsFollow
  <1>2. N \in Nat
    BY PageLines
  <1>3. Covered(page, N, ids[N])
    BY <1>1, <1>2, CoveredAlways
  <1>4. ASSUME NEW m \in Headings(page) PROVE HeadingId(page, m) \in ids[N]
    <2> DEFINE s == page.lines[m].slug
               c == Cardinality(Earlier(page, m, s))
    <2>1. m \in Nat \ {0} /\ m < N + 1 /\ s \in Slug
      BY <1>2, PageLines
    <2>2. c \in Nat
      BY <2>1, EarlierFinite
    <2>3. c < Cardinality(Earlier(page, N + 1, s))
      BY <1>2, <2>1, LaterCountsMore
    <2> QED
      BY <1>3, <2>1, <2>2, <2>3 DEF Covered, HeadingId
  <1> QED
    BY <1>1, <1>4, NumberedIdsAre

(* As long as no heading spells the numbered id of another, the rendered ids
   after line n are those the validator has counted. *)
CountedUpto(page, n) ==
  {HeadingId(page, m) : m \in {m \in Headings(page) : m <= n}}

LEMMA NewIdIsFree ==
  ASSUME NEW page \in PageType, ~ Clash(page), NEW n \in Headings(page),
         NEW m \in Headings(page), m < n
  PROVE  HeadingId(page, m) # HeadingId(page, n)
  <1> DEFINE s == page.lines[m].slug
             t == page.lines[n].slug
             j == Cardinality(Earlier(page, m, s))
             k == Cardinality(Earlier(page, n, t))
  <1>1. /\ Len(page.lines) \in Nat /\ s \in Slug /\ t \in Slug
        /\ m \in 1 .. Len(page.lines) /\ n \in 1 .. Len(page.lines)
    BY PageLines
  <1>2. j \in 0 .. m - 1 /\ k \in 0 .. n - 1
    BY <1>1, EarlierFinite
  <1>3. j \in 0 .. Len(page.lines) /\ k \in 0 .. Len(page.lines)
    BY <1>1, <1>2
  <1>4. s = t => j < k
    <2>1. j < Cardinality(Earlier(page, n, s))
      BY <1>1, LaterCountsMore
    <2> QED
      BY <2>1
  <1>5. ASSUME NEW i \in 1 .. Len(page.lines) PROVE s # Append(t, i) /\ t # Append(s, i)
    BY DEF Clash
  <1>6. HeadingId(page, m) = Id(s, j) /\ HeadingId(page, n) = Id(t, k)
    BY DEF HeadingId
  <1> HIDE DEF s, t, j, k
  <1>7. ASSUME Id(s, j) = Id(t, k) PROVE FALSE
    <2>1. j \in Nat /\ k \in Nat
      BY <1>3
    <2>2. \/ s = t /\ j = k
          \/ j = 0 /\ k # 0 /\ s = Append(t, k) /\ s # t
          \/ k = 0 /\ j # 0 /\ t = Append(s, j) /\ s # t
      BY <1>1, <1>7, <2>1, SameId
    <2>3. (k # 0 => k \in 1 .. Len(page.lines)) /\ (j # 0 => j \in 1 .. Len(page.lines))
      BY <1>1, <1>3
    <2> QED
      BY <1>4, <1>5, <2>1, <2>2, <2>3
  <1> QED
    BY <1>6, <1>7

LEMMA IdsCountedNext ==
  ASSUME NEW page \in PageType, ~ Clash(page), NEW n \in 1 .. Len(page.lines),
         Covered(page, n - 1, CountedUpto(page, n - 1))
  PROVE  Taken(page, n, CountedUpto(page, n - 1)) = CountedUpto(page, n)
  <1> DEFINE taken == CountedUpto(page, n - 1)
  <1>1. \A m \in Headings(page) : m \in Nat \ {0}
    BY PageLines
  <1>2. \A m \in Headings(page) : m <= n <=> m <= n - 1 \/ m = n
    BY <1>1
  <1>3. CASE n \notin Headings(page)
    <2>1. {m \in Headings(page) : m <= n} = {m \in Headings(page) : m <= n - 1}
      BY <1>2, <1>3
    <2> QED
      BY <1>3, <2>1 DEF Taken, CountedUpto
  <1>4. CASE n \in Headings(page)
    <2> DEFINE s == page.lines[n].slug
               c == Cardinality(Earlier(page, n, s))
    <2>1. s \in Slug /\ n \in Nat \ {0} /\ n - 1 + 1 = n
      BY <1>1, <1>4, PageLines
    <2>2. /\ IsFiniteSet(taken) /\ Cardinality(taken) <= n - 1
          /\ \A j \in Nat : j < c => Id(s, j) \in taken
      BY <2>1 DEF Covered
    <2>3. c \in 0 .. n - 1 /\ HeadingId(page, n) = Id(s, c)
      BY <2>1, EarlierFinite DEF HeadingId
    <2>4. Id(s, c) \notin taken
      <3>1. ASSUME NEW m \in Headings(page), m <= n - 1
            PROVE  HeadingId(page, m) # HeadingId(page, n)
        <4>1. m < n
          BY <1>1, <2>1, <3>1
        <4> QED
          BY <1>4, <4>1, NewIdIsFree
      <3> QED
        BY <2>3, <3>1 DEF CountedUpto
    <2> HIDE DEF s, c, taken
    <2>5. Cardinality(taken) <= n
      <3>1. Cardinality(taken) \in Nat
        BY <2>2, FS_CardinalityType
      <3> QED
        BY <2>1, <2>2, <3>1
    <2>6. PICK k \in 0 .. n : /\ FreeId(s, n, taken) = Id(s, k)
                              /\ Id(s, k) \notin taken
                              /\ \A j \in 0 .. k - 1 : Id(s, j) \in taken
      BY <2>1, <2>2, <2>5, FreeIdIs
    <2>7. k = c
      <3>1. ~ (k < c)
        BY <2>2, <2>6
      <3>2. ~ (c < k)
        <4>1. c < k => c \in 0 .. k - 1
          BY <2>3
        <4> QED
          BY <2>4, <2>6, <4>1
      <3> QED
        BY <2>1, <2>3, <3>1, <3>2
    <2>8. Taken(page, n, taken) = taken \union {HeadingId(page, n)}
      BY <1>4, <2>3, <2>6, <2>7 DEF Taken, s
    <2>9. {m \in Headings(page) : m <= n}
            = {m \in Headings(page) : m <= n - 1} \union {n}
      BY <1>2, <1>4
    <2> QED
      BY <2>8, <2>9 DEF CountedUpto, taken
  <1> QED
    BY <1>3, <1>4

LEMMA CountedAlways ==
  ASSUME NEW page \in PageType, ~ Clash(page), NEW ids, ids[0] = {},
         \A n \in 1 .. Len(page.lines) : ids[n] = Taken(page, n, ids[n - 1])
  PROVE  \A n \in 0 .. Len(page.lines) : ids[n] = CountedUpto(page, n)
  <1> DEFINE N == Len(page.lines)
             T == {n \in Nat : n <= N => ids[n] = CountedUpto(page, n)}
  <1>1. N \in Nat
    BY PageLines
  <1>2. 0 \in T
    <2>1. \A m \in Headings(page) : ~ (m <= 0)
      BY PageLines
    <2>2. CountedUpto(page, 0) = {}
      BY <2>1 DEF CountedUpto
    <2> QED
      BY <2>2
  <1>3. ASSUME NEW n \in Nat, n \in T PROVE n + 1 \in T
    <2>1. CASE n + 1 <= N
      <3>1. n + 1 \in 1 .. N /\ (n + 1) - 1 = n /\ n \in 0 .. N
        BY <1>1, <2>1
      <3>2. ids[n] = CountedUpto(page, n) /\ ids[n + 1] = Taken(page, n + 1, ids[n])
        BY <1>3, <3>1
      <3>3. Covered(page, (n + 1) - 1, CountedUpto(page, (n + 1) - 1))
        BY <3>1, <3>2, CoveredAlways
      <3>4. Taken(page, n + 1, CountedUpto(page, (n + 1) - 1)) = CountedUpto(page, n + 1)
        BY <3>1, <3>3, IdsCountedNext
      <3> QED
        BY <3>1, <3>2, <3>4
    <2> QED
      BY <2>1
  <1>4. Nat \subseteq T
    <2> HIDE DEF T
    <2> QED
      BY <1>2, <1>3, SetInduction
  <1> QED
    BY <1>1, <1>4

(* Without a clash the validator accepts every id that a heading is given. *)
LEMMA RenderedIsAccepted ==
  ASSUME NEW page \in PageType, ~ Clash(page)
  PROVE  GivenIds(page) = NumberedIds(page)
  <1> DEFINE N == Len(page.lines)
  <1>1. PICK ids : /\ ids[0] = {}
                   /\ \A n \in 1 .. N : ids[n] = Taken(page, n, ids[n - 1])
                   /\ GivenIds(page) = ids[N]
    BY IdsFollow
  <1>2. N \in Nat /\ \A m \in Headings(page) : m <= N
    BY PageLines
  <1>3. ids[N] = CountedUpto(page, N)
    BY <1>1, <1>2, CountedAlways
  <1>4. {m \in Headings(page) : m <= N} = Headings(page)
    BY <1>2
  <1> QED
    BY <1>1, <1>3, <1>4, NumberedIdsAre DEF CountedUpto

-----------------------------------------------------------------------------
(* The inductive invariant *)

Late == {"pages", "photos", "report", "exited"}

(* Something is wrong with the documentation, or an id is ambiguous. *)
Faulty == ~ Sound \/ \E p \in Markdown : Clash(p)

Excused == {"book", "exit", "timeout"}

PageClean(i) ==
  /\ LinkErrors(pages[i]) = {}
  /\ pages[i].chapter => pages[i].mermaid
  /\ \A n \in 1 .. Len(pages[i].lines) :
       ~ (pages[i].lines[n].prose /\ pages[i].lines[n].alt)

DocsTyped ==
  /\ docs \in Documentation /\ run_python \in BOOLEAN
  /\ pc \in {"books", "heredocs", "run", "extend", "raised"} \union Late
  /\ at \in 0 .. Len(pages)
  /\ pc \in Late \ {"pages"} => at = Len(pages)
  /\ pc = "raised" => exit = 1
  /\ pc = "exited" => exit = IF errors = {} THEN 0 ELSE 1
  /\ pc \notin {"raised", "exited"} => exit = None

(* Without an error the heredocs that run are all that have an end, and they
   run only if that was asked for. *)
Heredocs ==
  /\ executed \subseteq Closed
  /\ ~ run_python => executed = {}
  /\ pc = "run" => run_python
  /\ pc \notin {"books", "heredocs", "raised"} /\ heredocErrors = {} =>
       \A s \in Closed : pages[s[1]].heredocs[s[2]].parses
  /\ pc = "extend" => ~ run_python \/ heredocErrors # {}
  /\ pc \in Late =>
       /\ heredocErrors \subseteq errors
       /\ run_python /\ heredocErrors = {} => Closed \subseteq executed

(* svg_paths is what the pages read so far link to. *)
Pictures ==
  /\ \A f \in svg_paths :
       \E i \in 1 .. at : \E n \in Links(pages[i]) :
         pages[i].lines[n].target.file = f
  /\ \A i \in 1 .. at : \A n \in Links(pages[i]) :
       pages[i].lines[n].target.file \in SvgNames =>
         pages[i].lines[n].target.file \in svg_paths

(* As long as there is no error, what has been looked at is in order. *)
Clean ==
  errors = {} =>
    /\ \A i \in 1 .. at : PageClean(i)
    /\ pc \in {"photos", "report", "exited"} =>
         \A s \in docs.svgs : s.parses /\ s.described /\ s.name \in svg_paths
    /\ pc \in {"report", "exited"} =>
         \A p \in docs.photos : p.jpeg /\ p.credited

(* Every error has its reason. *)
Caused ==
  \A e \in errors \union heredocErrors : e.what \in Excused \/ Faulty

DocsIInv == DocsTyped /\ Heredocs /\ Pictures /\ Clean /\ Caused

-----------------------------------------------------------------------------
(* Lemmas about the documentation *)

LEMMA DocsAre ==
  ASSUME docs \in Documentation
  PROVE  /\ Len(pages) \in Nat
         /\ \A i \in 1 .. Len(pages) : pages[i] \in PageType
         /\ \A p \in Markdown : p \in PageType
  <1> HIDE DEF PageType
  <1>1. docs.pages \in Seq(PageType) /\ docs.outside \in SUBSET PageType
    BY DEF Documentation
  <1>2. /\ Len(pages) \in Nat
        /\ \A i \in 1 .. Len(pages) : pages[i] \in PageType
    BY <1>1 DEF pages
  <1> QED
    BY <1>1, <1>2 DEF Markdown

LEMMA PageIs ==
  ASSUME docs \in Documentation, NEW name \in PageNames
  PROVE  Page(name) \in Markdown
  <1>1. \E p \in Markdown : p.name = name
    BY DEF PageNames
  <1> QED
    BY <1>1 DEF Page

(* A page with no error about its links has none that leads nowhere. *)
LEMMA CleanLinksLead ==
  ASSUME docs \in Documentation, NEW i \in 1 .. Len(pages),
         LinkErrors(pages[i]) = {},
         NEW n \in Links(pages[i])
  PROVE  Leads(pages[i].lines[n].target)
  <1> DEFINE t == pages[i].lines[n].target
  <1>1. Exists(t.file)
    <2>1. CASE ~ Exists(t.file)
      <3>1. Error("missing target", <<pages[i].name, n>>)
              \in LinkErrors(pages[i])
        BY <2>1 DEF LinkErrors
      <3> QED
        BY <3>1
    <2> QED
      BY <2>1
  <1>2. ASSUME t.file \in PageNames, t.fragment # None
        PROVE  t.fragment \in heading_ids(Page(t.file))
    <2>1. CASE t.fragment \notin heading_ids(Page(t.file))
      <3>1. Error("missing heading", <<pages[i].name, n>>)
              \in LinkErrors(pages[i])
        BY <1>2, <2>1 DEF LinkErrors
      <3> QED
        BY <3>1
    <2> QED
      BY <2>1
  <1>3. ASSUME t.file \in PageNames, t.fragment # None
        PROVE  t.fragment \in RenderedIds(Page(t.file))
    <2>1. Page(t.file) \in PageType
      BY <1>3, PageIs, DocsAre
    <2> QED
      BY <1>2, <1>3, <2>1, AcceptedIsRendered DEF heading_ids, RenderedIds
  <1> QED
    BY <1>1, <1>3 DEF Leads

(* An error about a link means that it leads nowhere, or that two headings
   clash. *)
LEMMA LinkErrorsCaused ==
  ASSUME docs \in Documentation, NEW i \in 1 .. Len(pages),
         NEW e \in LinkErrors(pages[i])
  PROVE  Faulty
  <1>1. PICK n \in Links(pages[i]) :
          LET t == pages[i].lines[n].target IN
          \/ ~ Exists(t.file)
          \/ /\ t.file \in PageNames /\ t.fragment # None
             /\ t.fragment \notin heading_ids(Page(t.file))
    BY DEF LinkErrors
  <1> DEFINE t == pages[i].lines[n].target
  <1>2. CASE ~ Leads(t)
    BY <1>2 DEF Faulty, Sound
  <1>3. CASE Leads(t)
    <2>1. /\ t.file \in PageNames /\ t.fragment # None
          /\ t.fragment \notin heading_ids(Page(t.file))
          /\ t.fragment \in RenderedIds(Page(t.file))
      BY <1>1, <1>3 DEF Leads
    <2>2. Page(t.file) \in Markdown
      BY <2>1, PageIs
    <2>3. Page(t.file) \in PageType
      BY <2>2, DocsAre
    <2>4. Clash(Page(t.file))
      BY <2>1, <2>3, RenderedIsAccepted DEF heading_ids, RenderedIds
    <2> QED
      BY <2>2, <2>4 DEF Faulty
  <1> QED
    BY <1>2, <1>3

(* The heredoc to run next is one of those left. *)
LEMMA FirstIs ==
  ASSUME docs \in Documentation, ToRun # {}
  PROVE  First(ToRun) \in ToRun
  <1>1. \A s \in ToRun : s \in Closed
    BY DEF ToRun
  <1>2. ASSUME NEW s \in Closed
        PROVE  \E p, h \in Nat : s = <<p, h>>
    BY <1>2, DocsAre DEF Closed
  <1> DEFINE P == {p \in Nat : \E h \in Nat : <<p, h>> \in ToRun}
  <1>3. PICK p \in P : \A q \in P : p <= q
    <2>1. P # {} /\ P \in SUBSET Nat
      <3>1. PICK t \in ToRun : TRUE
        OBVIOUS
      <3>2. PICK q, g \in Nat : t = <<q, g>>
        BY <1>1, <1>2
      <3> QED
        BY <3>2
    <2> HIDE DEF P
    <2> QED
      BY <2>1, LeastNatural
  <1> DEFINE H == {h \in Nat : <<p, h>> \in ToRun}
  <1>4. PICK h \in H : \A g \in H : h <= g
    <2>1. H # {} /\ H \in SUBSET Nat
      BY <1>3
    <2> HIDE DEF H
    <2> QED
      BY <2>1, LeastNatural
  <1> DEFINE s == <<p, h>>
  <1>5. s \in ToRun
    BY <1>4
  <1>6. ASSUME NEW t \in ToRun
        PROVE  s[1] < t[1] \/ (s[1] = t[1] /\ s[2] <= t[2])
    <2>1. PICK q, g \in Nat : t = <<q, g>>
      BY <1>1, <1>2
    <2>2. q \in P /\ (q = p => g \in H)
      BY <2>1
    <2>3. p \in Nat /\ p <= q /\ (q = p => h <= g)
      BY <1>3, <1>4, <2>2
    <2> HIDE DEF P, H
    <2> QED
      BY <2>1, <2>3
  <1> HIDE DEF s
  <1>7. \E x \in ToRun : \A t \in ToRun :
          x[1] < t[1] \/ (x[1] = t[1] /\ x[2] <= t[2])
    BY <1>5, <1>6
  <1> QED
    BY <1>7 DEF First

(* Nothing that is said of the documentation changes during a run. *)
LEMMA DocsKept ==
  ASSUME docs' = docs
  PROVE  /\ pages' = pages /\ SvgNames' = SvgNames
         /\ Closed' = Closed
         /\ \A p : LinkErrors(p)' = LinkErrors(p)
         /\ Sound' <=> Sound
         /\ Faulty' <=> Faulty
  <1>1. pages' = pages
    BY DEF pages
  <1>2. SvgNames' = SvgNames
    BY DEF SvgNames
  <1>0. Markdown' = Markdown
    BY <1>1 DEF Markdown
  <1>3. PageNames' = PageNames
    BY <1>0 DEF PageNames
  <1>4. \A name : Page(name)' = Page(name)
    BY <1>0 DEF Page
  <1>5. \A f : Exists(f)' <=> Exists(f)
    BY <1>2, <1>3 DEF Exists
  <1>6. Closed' = Closed
    BY <1>1 DEF Closed
  <1>7. \A p : LinkErrors(p)' = LinkErrors(p)
    BY <1>3, <1>4, <1>5 DEF LinkErrors
  <1>8. \A t : Leads(t)' <=> Leads(t)
    BY <1>3, <1>4, <1>5 DEF Leads
  <1>9. \A s : Linked(s)' <=> Linked(s)
    BY <1>1 DEF Linked
  <1>10. Sound' <=> Sound
    BY <1>1, <1>6, <1>8, <1>9 DEF Sound
  <1>11. Faulty' <=> Faulty
    BY <1>0, <1>10 DEF Faulty
  <1> QED
    BY <1>1, <1>2, <1>6, <1>7, <1>10, <1>11

-----------------------------------------------------------------------------
(* What a step keeps when it leaves the variables of a conjunct alone *)

LEMMA PagesKept ==
  ASSUME docs' = docs
  PROVE  \A i : PageClean(i)' <=> PageClean(i)
  <1>1. pages' = pages /\ \A p : LinkErrors(p)' = LinkErrors(p)
    BY DocsKept
  <1> QED
    BY <1>1 DEF PageClean

LEMMA HeredocsKept ==
  ASSUME Heredocs, docs_input' = docs_input, executed' = executed,
         heredocErrors' = heredocErrors, errors \subseteq errors',
         pc' = pc \/ (pc \in Late /\ pc' \in Late)
  PROVE  Heredocs'
  <1>1. pages' = pages /\ Closed' = Closed /\ run_python' = run_python
    BY DocsKept DEF docs_input
  <1>2. /\ "run" \notin Late /\ "extend" \notin Late
        /\ "books" \notin Late /\ "heredocs" \notin Late /\ "raised" \notin Late
    BY DEF Late
  <1> HIDE DEF Late
  <1>3. pc' \in Late <=> pc \in Late
    OBVIOUS
  <1> QED
    BY <1>1, <1>2, <1>3 DEF Heredocs

LEMMA PicturesKept ==
  ASSUME Pictures, docs_input' = docs_input, at' = at, svg_paths' = svg_paths
  PROVE  Pictures'
  <1>1. pages' = pages /\ SvgNames' = SvgNames
    BY DocsKept DEF docs_input
  <1> QED
    BY <1>1 DEF Pictures

LEMMA CleanKept ==
  ASSUME Clean, docs_input' = docs_input, at' = at, svg_paths' = svg_paths,
         errors \subseteq errors',
         pc' \in {"photos", "report", "exited"} => pc \in {"photos", "report", "exited"},
         pc' \in {"report", "exited"} => pc \in {"report", "exited"}
  PROVE  Clean'
  <1>1. docs' = docs /\ \A i : PageClean(i)' <=> PageClean(i)
    BY PagesKept DEF docs_input
  <1> QED
    BY <1>1 DEF Clean

LEMMA CausedKept ==
  ASSUME Caused, docs_input' = docs_input,
         \A e \in errors' \union heredocErrors' :
           e \in errors \union heredocErrors \/ e.what \in Excused \/ Faulty
  PROVE  Caused'
  <1>1. Faulty' <=> Faulty
    BY DocsKept DEF docs_input
  <1> QED
    BY <1>1 DEF Caused

-----------------------------------------------------------------------------
(* Every step keeps the invariant. *)

LEMMA DocsInitIInv == DocsInit => DocsIInv
  <1> SUFFICES ASSUME DocsInit PROVE DocsIInv
    OBVIOUS
  <1>1. Len(pages) \in Nat /\ docs \in Documentation
    <2>1. docs \in Documentation
      BY InputsAssumption DEF DocsInit
    <2> QED
      BY <2>1, DocsAre
  <1>2. DocsTyped
    BY <1>1 DEF DocsInit, DocsTyped, Late
  <1>3. Heredocs
    BY DEF DocsInit, Heredocs, Late
  <1>4. Pictures /\ Clean /\ Caused
    BY DEF DocsInit, Pictures, Clean, Caused
  <1> QED
    BY <1>2, <1>3, <1>4 DEF DocsIInv

LEMMA CheckBookIInv ==
  ASSUME DocsIInv, CheckBook
  PROVE  DocsIInv'
  <1>1. /\ pc = "books" /\ pc' \in {"books", "heredocs"}
        /\ docs_input' = docs_input /\ at' = at /\ heredocErrors' = heredocErrors
        /\ executed' = executed /\ svg_paths' = svg_paths /\ exit' = exit
    BY DEF CheckBook
  <1>2. errors' \in {errors, errors \union {Error("book", book')}}
    BY DEF CheckBook
  <1>3. /\ docs' = docs /\ run_python' = run_python
        /\ pages' = pages /\ Closed' = Closed
    BY <1>1, DocsKept DEF docs_input
  <1>4. DocsTyped'
    BY <1>1, <1>3 DEF DocsIInv, DocsTyped, Late
  <1>5. Heredocs'
    BY <1>1, <1>3 DEF DocsIInv, Heredocs, Late
  <1>6. Pictures'
    BY <1>1, PicturesKept DEF DocsIInv
  <1>7. Clean'
    BY <1>1, <1>2, CleanKept DEF DocsIInv
  <1>8. Caused'
    <2>1. Error("book", book').what \in Excused
      BY DEF Error, Excused
    <2> QED
      BY <1>1, <1>2, <2>1, CausedKept DEF DocsIInv
  <1> QED
    BY <1>4, <1>5, <1>6, <1>7, <1>8 DEF DocsIInv

LEMMA ScanHeredocsIInv ==
  ASSUME DocsIInv, ScanHeredocs
  PROVE  DocsIInv'
  <1> DEFINE bad == {s \in Closed : ~ pages[s[1]].heredocs[s[2]].parses}
  <1>1. /\ pc = "heredocs" /\ pc' \in {"run", "extend"}
        /\ pc' = IF run_python /\ heredocErrors' = {} THEN "run" ELSE "extend"
        /\ docs_input' = docs_input /\ at' = at /\ errors' = errors
        /\ executed' = executed /\ svg_paths' = svg_paths /\ exit' = exit
    BY DEF ScanHeredocs
  <1>2. heredocErrors' = {Error("heredoc syntax", s) : s \in bad}
    BY DEF ScanHeredocs
  <1>3. /\ docs' = docs /\ run_python' = run_python
        /\ pages' = pages /\ Closed' = Closed
    BY <1>1, DocsKept DEF docs_input
  <1>4. heredocErrors' = {} =>
          \A s \in Closed : pages[s[1]].heredocs[s[2]].parses
    <2>1. heredocErrors' = {} => bad = {}
      BY <1>2
    <2> QED
      BY <2>1
  <1>5. DocsTyped'
    BY <1>1, <1>3 DEF DocsIInv, DocsTyped, Late
  <1>6. Heredocs'
    <2>1. pc' \notin Late
      BY <1>1 DEF Late
    <2> QED
      BY <1>1, <1>3, <1>4, <2>1 DEF DocsIInv, Heredocs
  <1>7. Pictures'
    BY <1>1, PicturesKept DEF DocsIInv
  <1>8. Clean'
    BY <1>1, CleanKept DEF DocsIInv
  <1>9. Caused'
    <2>1. heredocErrors' # {} => Faulty
      BY <1>4, <1>2 DEF Faulty, Sound
    <2> QED
      BY <1>1, <2>1, CausedKept DEF DocsIInv
  <1> QED
    BY <1>5, <1>6, <1>7, <1>8, <1>9 DEF DocsIInv

LEMMA RunHeredocIInv ==
  ASSUME DocsIInv, RunHeredoc
  PROVE  DocsIInv'
  <1>1. /\ pc = "run" /\ pc' = pc /\ ToRun # {}
        /\ docs_input' = docs_input /\ at' = at /\ errors' = errors
        /\ svg_paths' = svg_paths /\ exit' = exit
    BY DEF RunHeredoc
  <1>2. \/ /\ executed' = executed \union {First(ToRun)}
           /\ heredocErrors' = heredocErrors
        \/ /\ executed' = executed
           /\ \E what \in {"exit", "timeout"} :
                heredocErrors' = heredocErrors
                  \union {Error(what, First(ToRun))}
    BY DEF RunHeredoc
  <1>3. /\ docs' = docs /\ run_python' = run_python
        /\ pages' = pages /\ Closed' = Closed
    BY <1>1, DocsKept DEF docs_input
  <1>4. First(ToRun) \in Closed
    <2>1. First(ToRun) \in ToRun
      BY <1>1, FirstIs DEF DocsIInv, DocsTyped
    <2> QED
      BY <2>1 DEF ToRun
  <1>5. DocsTyped'
    BY <1>1, <1>3 DEF DocsIInv, DocsTyped, Late
  <1>6. Heredocs'
    <2>1. pc' \notin Late /\ run_python
      BY <1>1 DEF DocsIInv, Heredocs, Late
    <2>2. heredocErrors' = {} => heredocErrors = {}
      BY <1>2
    <2> QED
      BY <1>1, <1>2, <1>3, <1>4, <2>1, <2>2 DEF DocsIInv, Heredocs
  <1>7. Pictures'
    BY <1>1, PicturesKept DEF DocsIInv
  <1>8. Clean'
    BY <1>1, CleanKept DEF DocsIInv
  <1>9. Caused'
    <2>1. \A what \in {"exit", "timeout"} :
            Error(what, First(ToRun)).what \in Excused
      BY DEF Error, Excused
    <2> QED
      BY <1>1, <1>2, <2>1, CausedKept DEF DocsIInv
  <1> QED
    BY <1>5, <1>6, <1>7, <1>8, <1>9 DEF DocsIInv

LEMMA EndHeredocsIInv ==
  ASSUME DocsIInv, EndHeredocs
  PROVE  DocsIInv'
  <1>1. /\ pc = "extend" \/ (pc = "run" /\ ToRun = {})
        /\ pc' = "pages" /\ errors' = errors \union heredocErrors
        /\ docs_input' = docs_input /\ at' = at /\ heredocErrors' = heredocErrors
        /\ executed' = executed /\ svg_paths' = svg_paths /\ exit' = exit
    BY DEF EndHeredocs
  <1>2. /\ docs' = docs /\ run_python' = run_python
        /\ pages' = pages /\ Closed' = Closed
    BY <1>1, DocsKept DEF docs_input
  <1>3. DocsTyped'
    BY <1>1, <1>2 DEF DocsIInv, DocsTyped, Late
  <1>4. run_python /\ heredocErrors = {} => Closed \subseteq executed
    <2>1. CASE pc = "extend"
      BY <2>1 DEF DocsIInv, Heredocs
    <2>2. CASE pc = "run" /\ ToRun = {} /\ heredocErrors = {}
      BY <2>2 DEF ToRun
    <2> QED
      BY <1>1, <2>1, <2>2
  <1>5. Heredocs'
    <2>1. pc \notin {"books", "heredocs"}
      BY <1>1
    <2> QED
      BY <1>1, <1>2, <1>4, <2>1 DEF DocsIInv, Heredocs
  <1>6. Pictures'
    BY <1>1, PicturesKept DEF DocsIInv
  <1>7. Clean'
    BY <1>1, CleanKept DEF DocsIInv
  <1>8. Caused'
    BY <1>1, CausedKept DEF DocsIInv
  <1> QED
    BY <1>3, <1>5, <1>6, <1>7, <1>8 DEF DocsIInv

LEMMA CheckPageIInv ==
  ASSUME DocsIInv, CheckPage
  PROVE  DocsIInv'
  <1> DEFINE page == pages[at + 1]
             drawn == IF page.chapter /\ ~ page.mermaid
                      THEN {Error("no diagram", page.name)} ELSE {}
             mute == {n \in 1 .. Len(page.lines) :
                        page.lines[n].prose /\ page.lines[n].alt}
             silent == {Error("no text", <<page.name, n>>) : n \in mute}
             files == {page.lines[n].target.file : n \in Links(page)}
  <1>1. /\ pc = "pages" /\ pc' = pc /\ at < Len(pages) /\ at' = at + 1
        /\ docs_input' = docs_input /\ heredocErrors' = heredocErrors
        /\ executed' = executed /\ exit' = exit
    BY DEF CheckPage
  <1>2. /\ errors' = errors \union LinkErrors(page) \union drawn \union silent
        /\ svg_paths' = svg_paths \union (files \intersect SvgNames)
    BY DEF CheckPage
  <1>3. /\ docs' = docs /\ run_python' = run_python /\ pages' = pages
        /\ Closed' = Closed /\ SvgNames' = SvgNames
    BY <1>1, DocsKept DEF docs_input
  <1>4. Len(pages) \in Nat /\ at \in Nat /\ at + 1 \in 1 .. Len(pages)
    BY <1>1, DocsAre DEF DocsIInv, DocsTyped
  <1>5. \A i \in 1 .. at + 1 : i \in 1 .. at \/ i = at + 1
    BY <1>4
  <1>6. errors \subseteq errors'
    BY <1>2
  <1>7. DocsTyped'
    BY <1>1, <1>3, <1>4 DEF DocsIInv, DocsTyped, Late
  <1>8. Heredocs'
    BY <1>1, <1>6, HeredocsKept DEF DocsIInv
  <1>9. Pictures'
    <2> HIDE DEF page
    <2>1. ASSUME NEW f \in svg_paths'
          PROVE  \E i \in 1 .. at + 1 : \E n \in Links(pages[i]) :
                   pages[i].lines[n].target.file = f
      <3>1. CASE f \in svg_paths
        <4>1. \A i \in 1 .. at : i \in 1 .. at + 1
          BY <1>4
        <4> QED
          BY <3>1, <4>1 DEF DocsIInv, Pictures
      <3>2. CASE f \in files
        <4>1. at + 1 \in 1 .. at + 1
          BY <1>4
        <4> QED
          BY <3>2, <4>1 DEF page
      <3> QED
        BY <1>2, <3>1, <3>2
    <2>2. ASSUME NEW i \in 1 .. at + 1, NEW n \in Links(pages[i]),
                 pages[i].lines[n].target.file \in SvgNames
          PROVE  pages[i].lines[n].target.file \in svg_paths'
      <3>1. CASE i \in 1 .. at
        BY <1>2, <2>2, <3>1 DEF DocsIInv, Pictures
      <3>2. CASE i = at + 1
        BY <1>2, <2>2, <3>2 DEF page
      <3> QED
        BY <1>5, <3>1, <3>2
    <2> QED
      BY <1>1, <1>3, <2>1, <2>2 DEF Pictures
  <1>10. Clean'
    <2>1. ASSUME errors' = {} PROVE \A i \in 1 .. at + 1 : PageClean(i)
      <3>1. errors = {} /\ LinkErrors(page) = {} /\ drawn = {} /\ silent = {}
        BY <1>2, <2>1
      <3>2. mute = {} /\ (page.chapter => page.mermaid)
        BY <3>1
      <3>3. PageClean(at + 1)
        BY <3>1, <3>2 DEF PageClean
      <3> QED
        BY <1>5, <3>1, <3>3 DEF DocsIInv, Clean
    <2>2. \A i : PageClean(i)' <=> PageClean(i)
      BY <1>3, PagesKept
    <2>3. pc' \notin {"photos", "report", "exited"} /\ pc' \notin {"report", "exited"}
      BY <1>1
    <2> QED
      BY <1>1, <2>1, <2>2, <2>3 DEF Clean
  <1>11. Caused'
    <2>1. ASSUME NEW e \in LinkErrors(page) PROVE Faulty
      BY <1>4, <2>1, LinkErrorsCaused DEF DocsIInv, DocsTyped
    <2>2. ASSUME NEW e \in drawn PROVE Faulty
      <3>1. page.chapter /\ ~ page.mermaid
        BY <2>2
      <3> QED
        BY <1>4, <3>1 DEF Faulty, Sound
    <2>3. ASSUME NEW e \in silent PROVE Faulty
      <3>1. PICK n \in 1 .. Len(page.lines) : page.lines[n].prose /\ page.lines[n].alt
        BY <2>3
      <3> QED
        BY <1>4, <3>1 DEF Faulty, Sound
    <2> HIDE DEF page, drawn, silent
    <2>4. \A e \in errors' \union heredocErrors' :
            e \in errors \union heredocErrors \/ e.what \in Excused \/ Faulty
      BY <1>1, <1>2, <2>1, <2>2, <2>3
    <2> QED
      BY <1>1, <2>4, CausedKept DEF DocsIInv
  <1> QED
    BY <1>7, <1>8, <1>9, <1>10, <1>11 DEF DocsIInv

LEMMA CheckSvgsIInv ==
  ASSUME DocsIInv, CheckSvgs
  PROVE  DocsIInv'
  <1> DEFINE invalid == {s \in docs.svgs : ~ s.parses}
             undescribed == {s \in docs.svgs : s.parses /\ ~ s.described}
             unlinked == {s \in docs.svgs : s.parses /\ s.name \notin svg_paths}
  <1>1. /\ pc = "pages" /\ pc' = "photos" /\ at = Len(pages) /\ at' = at
        /\ docs_input' = docs_input /\ heredocErrors' = heredocErrors
        /\ executed' = executed /\ svg_paths' = svg_paths /\ exit' = exit
    BY DEF CheckSvgs
  <1>2. errors' = errors
          \union {Error("invalid", s.name) : s \in invalid}
          \union {Error("undescribed", s.name) : s \in undescribed}
          \union {Error("unlinked", s.name) : s \in unlinked}
    BY DEF CheckSvgs
  <1>3. docs' = docs /\ run_python' = run_python /\ pages' = pages
    BY <1>1, DocsKept DEF docs_input
  <1>4. errors \subseteq errors'
    BY <1>2
  <1>5. DocsTyped'
    BY <1>1, <1>3 DEF DocsIInv, DocsTyped, Late
  <1>6. Heredocs'
    <2>1. pc \in Late /\ pc' \in Late
      BY <1>1 DEF Late
    <2> QED
      BY <1>1, <1>4, <2>1, HeredocsKept DEF DocsIInv
  <1>7. Pictures'
    BY <1>1, PicturesKept DEF DocsIInv
  <1>8. Clean'
    <2>1. \A i : PageClean(i)' <=> PageClean(i)
      BY <1>3, PagesKept
    <2>2. ASSUME errors' = {}
          PROVE  \A s \in docs.svgs : s.parses /\ s.described /\ s.name \in svg_paths
      <3>1. invalid = {} /\ undescribed = {} /\ unlinked = {}
        BY <1>2, <2>2
      <3> QED
        BY <3>1
    <2>3. errors' = {} => errors = {}
      BY <1>4
    <2>4. pc' \notin {"report", "exited"}
      BY <1>1
    <2> QED
      BY <1>1, <1>3, <2>1, <2>2, <2>3, <2>4 DEF DocsIInv, Clean
  <1>9. Caused'
    <2>1. ASSUME NEW s \in invalid PROVE Faulty
      BY <2>1 DEF Faulty, Sound
    <2>2. ASSUME NEW s \in undescribed PROVE Faulty
      BY <2>2 DEF Faulty, Sound
    <2>3. ASSUME NEW s \in unlinked PROVE Faulty
      <3>1. s.name \in SvgNames /\ s.name \notin svg_paths
        BY <2>3 DEF SvgNames
      <3>2. ~ Linked(s)
        BY <1>1, <3>1 DEF Linked, DocsIInv, Pictures
      <3> QED
        BY <2>3, <3>2 DEF Faulty, Sound
    <2> HIDE DEF invalid, undescribed, unlinked
    <2>4. \A e \in errors' \union heredocErrors' :
            e \in errors \union heredocErrors \/ Faulty
      BY <1>1, <1>2, <2>1, <2>2, <2>3
    <2> QED
      BY <1>1, <2>4, CausedKept DEF DocsIInv
  <1> QED
    BY <1>5, <1>6, <1>7, <1>8, <1>9 DEF DocsIInv

LEMMA CheckPhotosIInv ==
  ASSUME DocsIInv, CheckPhotos
  PROVE  DocsIInv'
  <1> DEFINE bad == {p \in docs.photos : ~ p.jpeg \/ ~ p.credited}
  <1>1. /\ pc = "photos" /\ pc' = "report" /\ at' = at
        /\ docs_input' = docs_input /\ heredocErrors' = heredocErrors
        /\ executed' = executed /\ svg_paths' = svg_paths /\ exit' = exit
    BY DEF CheckPhotos
  <1>2. errors' = errors \union {Error("photo", p) : p \in bad}
    BY DEF CheckPhotos
  <1>3. docs' = docs /\ run_python' = run_python /\ pages' = pages
    BY <1>1, DocsKept DEF docs_input
  <1>4. errors \subseteq errors'
    BY <1>2
  <1>5. DocsTyped'
    BY <1>1, <1>3 DEF DocsIInv, DocsTyped, Late
  <1>6. Heredocs'
    <2>1. pc \in Late /\ pc' \in Late
      BY <1>1 DEF Late
    <2> QED
      BY <1>1, <1>4, <2>1, HeredocsKept DEF DocsIInv
  <1>7. Pictures'
    BY <1>1, PicturesKept DEF DocsIInv
  <1>8. Clean'
    <2>1. \A i : PageClean(i)' <=> PageClean(i)
      BY <1>3, PagesKept
    <2>2. errors' = {} => \A p \in docs.photos : p.jpeg /\ p.credited
      <3>1. errors' = {} => bad = {}
        BY <1>2
      <3> QED
        BY <3>1
    <2>3. errors' = {} => errors = {}
      BY <1>4
    <2> QED
      BY <1>1, <1>3, <2>1, <2>2, <2>3 DEF DocsIInv, Clean
  <1>9. Caused'
    <2>1. ASSUME NEW p \in bad PROVE Faulty
      BY <2>1 DEF Faulty, Sound
    <2> HIDE DEF bad
    <2>2. \A e \in errors' \union heredocErrors' :
            e \in errors \union heredocErrors \/ Faulty
      BY <1>1, <1>2, <2>1
    <2> QED
      BY <1>1, <2>2, CausedKept DEF DocsIInv
  <1> QED
    BY <1>5, <1>6, <1>7, <1>8, <1>9 DEF DocsIInv

LEMMA MainIInv ==
  ASSUME DocsIInv, docs_main
  PROVE  DocsIInv'
  <1>1. /\ pc = "report" /\ pc' = "exited" /\ errors' = errors
        /\ exit' = (IF errors = {} THEN 0 ELSE 1)
        /\ docs_input' = docs_input /\ at' = at /\ heredocErrors' = heredocErrors
        /\ executed' = executed /\ svg_paths' = svg_paths
    BY DEF docs_main, ExitWithErrors, docs_input
  <1>2. docs' = docs /\ run_python' = run_python /\ pages' = pages
    BY <1>1, DocsKept DEF docs_input
  <1>3. DocsTyped'
    BY <1>1, <1>2 DEF DocsIInv, DocsTyped, Late
  <1>4. Heredocs'
    <2>1. pc \in Late /\ pc' \in Late
      BY <1>1 DEF Late
    <2> QED
      BY <1>1, <2>1, HeredocsKept DEF DocsIInv
  <1>5. Pictures' /\ Clean' /\ Caused'
    BY <1>1, PicturesKept, CleanKept, CausedKept DEF DocsIInv
  <1> QED
    BY <1>3, <1>4, <1>5 DEF DocsIInv

LEMMA RaiseIInv ==
  ASSUME DocsIInv, docs_raise
  PROVE  DocsIInv'
  <1>1. /\ pc \in {"books", "run"} /\ pc' = "raised" /\ exit' = 1
        /\ errors' = errors /\ docs_input' = docs_input /\ at' = at
        /\ heredocErrors' = heredocErrors /\ executed' = executed
        /\ svg_paths' = svg_paths
    BY DEF docs_raise
  <1>2. /\ docs' = docs /\ run_python' = run_python
        /\ pages' = pages /\ Closed' = Closed
    BY <1>1, DocsKept DEF docs_input
  <1>3. DocsTyped'
    BY <1>1, <1>2 DEF DocsIInv, DocsTyped, Late
  <1>4. Heredocs'
    BY <1>1, <1>2 DEF DocsIInv, Heredocs, Late
  <1>5. Pictures' /\ Clean' /\ Caused'
    BY <1>1, PicturesKept, CleanKept, CausedKept DEF DocsIInv
  <1> QED
    BY <1>3, <1>4, <1>5 DEF DocsIInv

LEMMA DocsNextIInv == DocsIInv /\ [DocsNext]_docs_vars => DocsIInv'
  <1> SUFFICES ASSUME DocsIInv, [DocsNext]_docs_vars PROVE DocsIInv'
    OBVIOUS
  <1>1. CASE UNCHANGED docs_vars
    <2>1. /\ pc' = pc /\ docs_input' = docs_input /\ at' = at /\ errors' = errors
          /\ heredocErrors' = heredocErrors /\ executed' = executed
          /\ svg_paths' = svg_paths /\ exit' = exit
      BY <1>1 DEF docs_vars
    <2>2. docs' = docs /\ run_python' = run_python /\ pages' = pages
      BY <2>1, DocsKept DEF docs_input
    <2>3. DocsTyped'
      BY <2>1, <2>2 DEF DocsIInv, DocsTyped
    <2>4. Heredocs'
      BY <2>1, HeredocsKept DEF DocsIInv
    <2>5. Pictures' /\ Clean' /\ Caused'
      BY <2>1, PicturesKept, CleanKept, CausedKept DEF DocsIInv
    <2> QED
      BY <2>3, <2>4, <2>5 DEF DocsIInv
  <1> QED
    BY <1>1, CheckBookIInv, ScanHeredocsIInv, RunHeredocIInv, EndHeredocsIInv,
       CheckPageIInv, CheckSvgsIInv, CheckPhotosIInv, RaiseIInv, MainIInv
    DEF DocsNext, docs_check

LEMMA DocsInvariance == DocsSpec => []DocsIInv
  BY DocsInitIInv, DocsNextIInv, PTL DEF DocsSpec

(* Exit code 0 means that every link leads to a heading the rendered page has,
   that every picture is in order and linked, and that the heredocs ran if
   that was asked for, whatever the documentation. *)
THEOREM ZeroMeansSound == DocsSpec => []ExitZeroMeansSound
  <1>1. DocsIInv => ExitZeroMeansSound
    <2> SUFFICES ASSUME DocsIInv, exit = 0
                 PROVE  Sound /\ executed = IF run_python THEN Closed ELSE {}
      BY DEF ExitZeroMeansSound
    <2>1. pc = "exited" /\ errors = {}
      BY ExitAssumption DEF DocsIInv, DocsTyped
    <2>2. docs \in Documentation /\ at = Len(pages)
      BY <2>1 DEF DocsIInv, DocsTyped, Late
    <2>3. heredocErrors = {}
      BY <2>1 DEF DocsIInv, Heredocs, Late
    <2>4. executed = IF run_python THEN Closed ELSE {}
      BY <2>1, <2>3 DEF DocsIInv, DocsTyped, Heredocs, Late
    <2>5. \A s \in Closed : pages[s[1]].heredocs[s[2]].parses
      BY <2>1, <2>3 DEF DocsIInv, Heredocs
    <2>6. \A i \in 1 .. Len(pages) : PageClean(i)
      BY <2>1, <2>2 DEF DocsIInv, Clean
    <2>7. ASSUME NEW i \in 1 .. Len(pages), NEW n \in Links(pages[i])
          PROVE  Leads(pages[i].lines[n].target)
      BY <2>2, <2>6, <2>7, CleanLinksLead DEF PageClean
    <2>8. \A s \in docs.svgs : s.parses /\ s.described /\ Linked(s)
      <3>1. \A s \in docs.svgs : s.parses /\ s.described /\ s.name \in svg_paths
        BY <2>1 DEF DocsIInv, Clean
      <3>2. ASSUME NEW s \in docs.svgs PROVE Linked(s)
        BY <2>2, <3>1, <3>2 DEF DocsIInv, Pictures, Linked
      <3> QED
        BY <3>1, <3>2
    <2>9. \A p \in docs.photos : p.jpeg /\ p.credited
      BY <2>1 DEF DocsIInv, Clean
    <2>10. Sound
      BY <2>5, <2>6, <2>7, <2>8, <2>9 DEF Sound, PageClean
    <2> QED
      BY <2>4, <2>10
  <1> QED
    BY <1>1, DocsInvariance, PTL

(* An error that no book and no run of a heredoc accounts for has its reason in
   the documentation. *)
THEOREM ErrorsAreReal == DocsSpec => []NoFalseAlarm
  <1>1. DocsIInv => NoFalseAlarm
    <2> SUFFICES ASSUME DocsIInv, pc = "exited", exit = 1,
                        \A e \in errors : e.what \notin {"book", "exit", "timeout"}
                 PROVE  ~ Sound \/ \E p \in Markdown : Clash(p)
      BY DEF NoFalseAlarm
    <2>1. errors # {}
      BY ExitAssumption DEF DocsIInv, DocsTyped
    <2>2. PICK e \in errors : TRUE
      BY <2>1
    <2>3. Faulty
      BY <2>2 DEF DocsIInv, Caused, Excused
    <2> QED
      BY <2>3 DEF Faulty
  <1> QED
    BY <1>1, DocsInvariance, PTL
=============================================================================
