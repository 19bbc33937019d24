--------------------------- MODULE MCLessonCheck ---------------------------
(***************************************************************************)
(* Files for model-checking LessonCheck: all files of up to four lines     *)
(* over the kinds that steer the scan, pairs of short files, and pairs of  *)
(* blocks to run.                                                          *)
(***************************************************************************)
EXTENDS LessonCheck

MCLine(char, len, info, cells, faults, details, parses) ==
  [char |-> char, len |-> len, info |-> info, cells |-> cells,
   faults |-> faults, details |-> details, parses |-> parses]

Fence(char, len, info) == MCLine(char, len, info, None, {}, 0, FALSE)
Text == MCLine(None, 0, "", None, {}, 0, TRUE)
Row(cells) == MCLine(None, 0, "", cells, {}, 0, FALSE)

Python == Fence("backtick", 3, "python")
Close == Fence("backtick", 3, "")

Steering == {Python, Close, Fence("backtick", 4, ""), Fence("tilde", 3, ""), Text, Row(2), Row(3)}

Others == {Fence("tilde", 3, "bash"), Fence("backtick", 4, "text"),
           MCLine(None, 0, "", None, {"trailing whitespace"}, 1, FALSE),
           MCLine(None, 0, "", 2, {"missing link"}, -1, FALSE)}

Upto(n, S) == UNION {[1 .. k -> S] : k \in 0 .. n}

MCPaths ==
  {<<f>> : f \in Upto(4, Steering) \union Upto(2, Steering \union Others)}
  \union {<<f, g>> : f \in Upto(2, {Python, Close, Row(2)}), g \in Upto(2, {Close, Row(3), Text})}
  \union {<<<<Python, Text, Close>>, <<Python, Close>>>>}
=============================================================================
