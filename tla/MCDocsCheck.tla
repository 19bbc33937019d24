---------------------------- MODULE MCDocsCheck ----------------------------
(***************************************************************************)
(* Documentation for model-checking DocsCheck: every sequence of up to     *)
(* four headings over slugs that clash, the first with or without an id of *)
(* its own, in the book or outside, with a link to every id; and two pages *)
(* and pictures in every combination of one fault each.                    *)
(***************************************************************************)
EXTENDS DocsCheck

CONSTANTS a, b
MCWord == {a, b}
MCFile == {"p", "q", "s", "code", "gone", "web"}

MCLine(prose, slug, id, target, alt) ==
  [prose |-> prose, slug |-> slug, id |-> id, target |-> target, alt |-> alt]
Text(target) == MCLine(TRUE, None, None, target, FALSE)
Link(file, fragment) == [file |-> file, fragment |-> fragment]
MCPage(name, chapter, mermaid, lines, heredocs) ==
  [name |-> name, chapter |-> chapter, mermaid |-> mermaid, lines |-> lines,
   heredocs |-> heredocs]

Slugs == {<<a>>, <<a, 1>>, <<a, 1, 1>>, <<b>>}
Upto(n, S) == UNION {[1 .. k -> S] : k \in 0 .. n}

(* A page of headings, in prose or in an example, of the same book or of none,
   linked from another. *)
Linking(id) == MCPage("p", FALSE, FALSE, <<Text(Link("q", id))>>, <<>>)
Headed(hs, example, id1) ==
  MCPage("q", FALSE, FALSE,
         [n \in DOMAIN hs |-> MCLine(n # example, hs[n],
                                     IF n = 1 THEN id1 ELSE None, None, FALSE)],
         <<>>)

HeadingInputs ==
  {[pages |-> IF inside THEN <<Linking(id), Headed(hs, example, id1)>>
                        ELSE <<Linking(id)>>,
    outside |-> IF inside THEN {} ELSE {Headed(hs, example, id1)},
    svgs |-> {}, photos |-> {}, others |-> {}]
   : hs \in Upto(4, Slugs), id \in {<<a>>, <<a, 1>>, <<a, 2>>, <<a, 1, 1>>},
     example \in {0, 1}, id1 \in {None, <<a, 2>>}, inside \in BOOLEAN}

Svg(parses, described) == [name |-> "s", parses |-> parses, described |-> described]

PictureInputs ==
  {[pages |-> <<MCPage("p", TRUE, mermaid, <<l1>>, <<h1>>),
                MCPage("q", FALSE, FALSE, <<l2>>, <<h2, [ends |-> TRUE, parses |-> TRUE]>>)>>,
    outside |-> {}, svgs |-> {svg}, photos |-> {photo}, others |-> {"code"}]
   : mermaid \in BOOLEAN,
     l1 \in {Text(Link("s", None)), Text(None), Text(Link("web", <<b>>))},
     l2 \in {Text(Link("s", None)), Text(Link("code", <<b>>)), Text(Link("gone", None)),
             MCLine(FALSE, None, None, Link("s", None), TRUE),
            MCLine(TRUE, None, None, Link("s", None), TRUE)},
     h1 \in {[ends |-> TRUE, parses |-> FALSE], [ends |-> TRUE, parses |-> TRUE]},
     h2 \in {[ends |-> FALSE, parses |-> FALSE], [ends |-> TRUE, parses |-> TRUE]},
     svg \in {Svg(TRUE, TRUE), Svg(TRUE, FALSE), Svg(FALSE, FALSE)},
     photo \in {[jpeg |-> TRUE, credited |-> c] : c \in BOOLEAN}}

MCInputs == HeadingInputs \union PictureInputs
=============================================================================
