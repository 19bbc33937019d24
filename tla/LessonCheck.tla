---------------------------- MODULE LessonCheck ----------------------------
(***************************************************************************)
(* ai/learning/ai-infrastructure/examples/check_lessons.py: check() scans  *)
(* every Markdown file line by line, then, when asked and when the scan    *)
(* found nothing wrong, runs the fenced Python blocks one by one under a   *)
(* timeout; main() turns the errors into an exit code.                     *)
(*                                                                         *)
(* learning/validate_docs.py scans the same files with a fence rule of its *)
(* own (prose_lines), which is the reference the scan is compared with.    *)
(*                                                                         *)
(* A line is reduced to what the rules ask of it.  External: the parsers   *)
(* (ast.parse and bash -n, which a block passes when all its lines do),    *)
(* and the blocks themselves, programs that may fork, leave their session, *)
(* write to stderr, exit, or not.                                          *)
(***************************************************************************)
EXTENDS Checker

CONSTANT Paths     (* the inputs considered: sequences of files *)

Line == [
  char : {"backtick", "tilde", None},  (* of a fence marker *)
  len : Nat, info : {"", "python", "bash", "text"},
  cells : Nat \union {None}, (* of a table row *)
  faults : SUBSET {"trailing whitespace", "missing link"},
  details : {-1, 0, 1},      (* an opening tag counts 1, a closing one -1 *)
  parses : BOOLEAN]

ASSUME PathsAssumption == Paths \subseteq Seq(Seq(Line))

(* None is neither a number nor an open fence. *)
ASSUME NoneAssumption ==
  None \notin Nat \union [char : {"backtick", "tilde"}, len : Nat]

(* What a block may leave running beside its first process: a child in its
   process group or escaped from it, with the output pipes or without. *)
Child == [escaped : BOOLEAN, holds : BOOLEAN]

VARIABLES
  paths,                           (* the program's input *)
  file, number,                    (* the line last looked at *)
  fence, language, start, width,
  prose,                           (* history: lines taken for prose *)
  snippets,                        (* at is the one being run *)
  leader, children, stderr,        (* its processes, and whether any wrote *)
  leftover,                  (* history: children that outlived a timeout *)
  passed

scanning == <<file, number, fence, language, start, width, prose, snippets>>
input == <<paths, run_python>>
block == <<leader, children, stderr>>
running == <<at, block, leftover, passed>>
vars == <<pc, input, scanning, errors, running, exit>>

Init ==
  /\ pc = "scan"
  /\ paths \in Paths /\ run_python \in BOOLEAN
  /\ file = 1 /\ number = 0
  /\ fence = None /\ language = "" /\ start = 0 /\ width = None
  /\ prose = {}
  /\ snippets = <<>> /\ errors = {}
  /\ at = 0 /\ leader = None /\ children = {} /\ stderr = FALSE
  /\ leftover = {} /\ passed = 0
  /\ exit = None

-----------------------------------------------------------------------------
(* The scan *)

ErrorAt(n, what) == [file |-> file, line |-> n, what |-> what]

lines == paths[file]
line == lines[number + 1]

(* The loop comes to the next line of the current file. *)
NextLine ==
  /\ pc = "scan" /\ file <= Len(paths) /\ number < Len(lines)
  /\ number' = number + 1
  /\ UNCHANGED <<pc, input, file, running, exit>>

(* Faulty: a shorter marker closes the block. *)
ClosesAtAnyLength(l, f) == l.char = f.char /\ l.info = ""

Closes(l, f) == l.char = f.char /\ l.len >= f.len /\ l.info = ""

CodeParses == \A n \in start + 1 .. number : lines[n].parses

(* "bash" stands for "sh" too; other languages are not judged.  That bash -n
   takes too long is BashTimesOut. *)
JudgeCode ==
  /\ errors' = IF language \in {"python", "bash"} /\ ~CodeParses
               THEN errors \union {ErrorAt(start, "syntax")} ELSE errors
  /\ snippets' = IF language = "python" /\ CodeParses
                 THEN Append(snippets, [file |-> file, start |-> start])
                 ELSE snippets

(* Faulty: a closed block does not end the table before it. *)
CloseFenceKeepingWidth ==
  /\ NextLine
  /\ fence # None /\ Closes(line, fence)
  /\ JudgeCode
  /\ fence' = None
  /\ UNCHANGED <<language, start, width, prose>>

CloseFence ==
  /\ NextLine
  /\ fence # None /\ Closes(line, fence)
  /\ JudgeCode
  /\ fence' = None /\ width' = None
  /\ UNCHANGED <<language, start, prose>>

(* The timeout of bash -n is not caught, and ends the program. *)
BashTimesOut ==
  /\ pc = "scan" /\ file <= Len(paths) /\ number < Len(lines)
  /\ fence # None /\ Closes(line, fence)
  /\ language = "bash"
  /\ pc' = "raised" /\ exit' = 1
  /\ UNCHANGED <<input, scanning, errors, running>>

BodyLine ==
  /\ NextLine
  /\ fence # None /\ ~Closes(line, fence)
  /\ UNCHANGED <<fence, language, start, width, prose, snippets, errors>>

OpenFence ==
  /\ NextLine
  /\ fence = None /\ line.char # None
  /\ fence' = [char |-> line.char, len |-> line.len]
  /\ language' = line.info /\ start' = number + 1
  /\ UNCHANGED <<width, prose, snippets, errors>>

WidthErrors ==
  IF width \notin {None, line.cells} /\ line.cells # None
  THEN {ErrorAt(number + 1, "table width")} ELSE {}

ProseLine ==
  /\ NextLine
  /\ fence = None /\ line.char = None
  /\ errors' = errors \union WidthErrors
                 \union {ErrorAt(number + 1, fault) : fault \in line.faults}
  /\ width' = IF line.cells = None \/ width = None THEN line.cells ELSE width
  /\ prose' = prose \union {number + 1}
  /\ UNCHANGED <<fence, language, start, snippets>>

Unbalanced(source) ==
  Cardinality({n \in 1 .. Len(source) : source[n].details = 1})
    # Cardinality({n \in 1 .. Len(source) : source[n].details = -1})

EndFile ==
  /\ pc = "scan" /\ file <= Len(paths) /\ number = Len(lines)
  /\ errors' = errors
       \union (IF fence # None THEN {ErrorAt(start, "unclosed fence")} ELSE {})
       \union (IF Unbalanced(lines) THEN {ErrorAt(0, "details")} ELSE {})
  /\ file' = file + 1 /\ number' = 0
  /\ fence' = None /\ language' = "" /\ start' = 0 /\ width' = None
  /\ prose' = {}
  /\ UNCHANGED <<pc, input, snippets, running, exit>>

EndScan ==
  /\ pc = "scan" /\ file > Len(paths)
  /\ pc' = IF run_python /\ errors = {} THEN "run" ELSE "report"
  /\ UNCHANGED <<input, scanning, errors, running, exit>>

-----------------------------------------------------------------------------
(* The blocks, external *)

Holding == leader = "alive" \/ \E c \in children : c.holds

LeaderStep ==
  /\ leader = "alive"
  /\ \/ leader' \in {"ended", "failed"} /\ UNCHANGED children
     \/ \E c \in Child \ children :
          children' = children \union {c} /\ UNCHANGED leader
  /\ UNCHANGED <<pc, input, scanning, errors, at, stderr, leftover, passed,
                 exit>>

WriteStderr ==
  /\ Holding
  /\ stderr' = TRUE
  /\ UNCHANGED <<pc, input, scanning, errors, at, leader, children, leftover,
                 passed, exit>>

ChildEnds(c) ==
  /\ c \in children
  /\ children' = children \ {c}
  /\ UNCHANGED <<pc, input, scanning, errors, at, leader, stderr, leftover,
                 passed, exit>>

-----------------------------------------------------------------------------
(* The runner *)

Popen ==
  /\ pc = "run" /\ at < Len(snippets)
  /\ at' = at + 1
  /\ leader' = "alive" /\ children' = {} /\ stderr' = FALSE
  /\ pc' = "wait"
  /\ UNCHANGED <<input, scanning, errors, leftover, passed, exit>>

SnippetError(what) ==
  errors \union {[file |-> snippets[at].file, line |-> snippets[at].start,
                  what |-> what]}

(* communicate returns once the output pipes are closed everywhere and the
   first process has ended. *)
Judge ==
  /\ pc = "wait" /\ ~Holding
  /\ IF leader = "failed" \/ stderr
     THEN errors' = SnippetError("exit") /\ UNCHANGED passed
     ELSE passed' = passed + 1 /\ UNCHANGED errors
  /\ pc' = "cleanup"
  /\ UNCHANGED <<input, scanning, at, block, leftover, exit>>

(* Faulty: only the first process is killed. *)
TimeoutKillsLeader ==
  /\ pc = "wait"
  /\ leader' = IF leader = "alive" THEN "failed" ELSE leader
  /\ pc' = "drain"
  /\ UNCHANGED <<input, scanning, errors, at, children, stderr, leftover,
                 passed, exit>>

(* Faulty: the time is up only while the first process runs. *)
TimeoutOfLeader ==
  /\ pc = "wait" /\ leader = "alive"
  /\ leader' = "failed"
  /\ children' = {c \in children : c.escaped}
  /\ pc' = "drain"
  /\ UNCHANGED <<input, scanning, errors, at, stderr, leftover, passed, exit>>

(* The time is up while communicate waits, for whomever it waits; the first
   process has not been waited for, so its group can still be killed. *)
Timeout ==
  /\ pc = "wait"
  /\ leader' = IF leader = "alive" THEN "failed" ELSE leader
  /\ children' = {c \in children : c.escaped}
  /\ pc' = "drain"
  /\ UNCHANGED <<input, scanning, errors, at, stderr, leftover, passed, exit>>

(* Faulty: the block is skipped without an error. *)
DrainSilently ==
  /\ pc = "drain" /\ ~Holding
  /\ pc' = "cleanup"
  /\ leftover' = leftover \union children
  /\ UNCHANGED <<input, scanning, errors, at, block, passed, exit>>

(* The second communicate has no timeout. *)
Drain ==
  /\ pc = "drain" /\ ~Holding
  /\ errors' = SnippetError("timeout")
  /\ pc' = "cleanup"
  /\ leftover' = leftover \union children
  /\ UNCHANGED <<input, scanning, at, block, passed, exit>>

(* The scratch directory is removed, unless a process that still lives in it
   makes that fail: then the exception ends the program. *)
Cleanup ==
  /\ pc = "cleanup"
  /\ \/ pc' = "run" /\ UNCHANGED exit
     \/ children # {} /\ pc' = "raised" /\ exit' = 1
  /\ leader' = None /\ children' = {} /\ stderr' = FALSE
  /\ UNCHANGED <<input, scanning, errors, at, leftover, passed>>

EndRun ==
  /\ pc = "run" /\ at = Len(snippets)
  /\ pc' = "report"
  /\ UNCHANGED <<input, scanning, errors, running, exit>>

main ==
  /\ ExitWithErrors
  /\ UNCHANGED <<paths, scanning, block, leftover, passed>>

check ==
  \/ CloseFence \/ BashTimesOut \/ BodyLine \/ OpenFence \/ ProseLine
  \/ EndFile \/ EndScan
  \/ Popen \/ Judge \/ Timeout \/ Drain \/ Cleanup \/ EndRun

Next ==
  check \/ main \/ LeaderStep \/ WriteStderr \/ \E c \in Child : ChildEnds(c)

Spec == Init /\ [][Next]_vars

(* The program keeps going and its timeouts expire.  Blocks may run forever,
   except that what has left its session, out of reach of killpg, ends by
   itself: without that the second communicate may wait forever. *)
FairSpec ==
  /\ Spec
  /\ WF_vars(check \/ main)
  /\ \A c \in Child : c.escaped => WF_vars(ChildEnds(c))
-----------------------------------------------------------------------------
(* learning/validate_docs.py's reading of the same lines *)

Marker(l) ==
  IF l.char = None THEN None ELSE [char |-> l.char, len |-> l.len]

(* The fence that is open after each line. *)
fences(source) ==
  LET f[n \in 0 .. Len(source)] ==
        IF n = 0 THEN None
        ELSE IF f[n - 1] = None THEN Marker(source[n])
        ELSE IF /\ source[n].char = f[n - 1].char
                /\ source[n].len >= f[n - 1].len
                /\ source[n].info = ""
             THEN None
        ELSE f[n - 1]
  IN f

prose_lines(source) ==
  LET f == fences(source) IN
  {n \in 1 .. Len(source) : f[n - 1] = None /\ source[n].char = None}

-----------------------------------------------------------------------------
(* Properties *)

(* The two programs take the same lines for prose and the same for examples,
   whatever fences are nested, unclosed or of different lengths. *)
ScannersAgree ==
  file <= Len(paths) => prose = prose_lines(lines) \intersect 1 .. number

(* The rows that differ from the first row of their table, a table being rows
   that follow one another. *)
UnevenRows(source) ==
  LET rows == {n \in prose_lines(source) : source[n].cells # None} IN
  {n \in rows : \E m \in 1 .. n :
     /\ m .. n \subseteq rows /\ m - 1 \notin rows
     /\ source[n].cells # source[m].cells}

(* Exactly the uneven rows are reported, in every file: neither a paragraph
   nor a code block nor the end of a file lets one table's width reach
   another's. *)
TablesByBlock ==
  {e \in errors : e.what = "table width"} =
    UNION {{[file |-> f, line |-> n, what |-> "table width"] :
              n \in {n \in UnevenRows(paths[f]) : f < file \/ n <= number}}
           : f \in (1 .. Len(paths)) \intersect (1 .. file)}

PythonBlocks ==
  UNION {{[file |-> f, start |-> n] : n \in {n \in 1 .. Len(paths[f]) :
            /\ fences(paths[f])[n - 1] = None
            /\ paths[f][n].char # None /\ paths[f][n].info = "python"}}
         : f \in 1 .. Len(paths)}

(* Exit code 0 is only given when nothing was left out: every file is closed
   and free of faults, every Python block of every file is among the snippets
   and, when asked for, every one of them ran to success; one that failed,
   wrote to stderr or was killed is not lost. *)
ExitZeroMeansChecked ==
  exit = 0 =>
    /\ \A f \in 1 .. Len(paths) :
         /\ fences(paths[f])[Len(paths[f])] = None
         /\ UnevenRows(paths[f]) = {}
         /\ \A n \in prose_lines(paths[f]) : paths[f][n].faults = {}
    /\ {snippets[i] : i \in 1 .. Len(snippets)} = PythonBlocks
    /\ run_python => passed = Cardinality(PythonBlocks)

(* When a block that ran out of time is judged, nothing of its process group
   is alive to disturb the blocks after it; only what left the group can be,
   and that no longer holds the pipes. *)
TimedOutGone == \A c \in leftover : c.escaped /\ ~c.holds

(* The check ends, although blocks may never end, nor the children they leave
   behind with the output pipes open. *)
CheckEnds == <>(exit # None)
=============================================================================
