----------------------------- MODULE DocsCheck -----------------------------
(***************************************************************************)
(* learning/validate_docs.py: check() runs the lesson checker over every   *)
(* book, checks and may run the Python in shell heredocs, follows the      *)
(* links of every page, and looks at the pictures; main() turns the errors *)
(* into an exit code.                                                      *)
(*                                                                         *)
(* The lesson checker is modelled in LessonCheck and here only passes a    *)
(* book, fails it or raises; prose_lines, which says what is prose, is     *)
(* there too.  A page is reduced to what the rules ask of it.  A slug is a *)
(* sequence: the words, then the numbers that follow a dash, so that the   *)
(* heading "a-1" and the second heading "a" meet in <<"a", 1>>.  External: *)
(* what a heredoc does when it is run, and how a page is rendered.         *)
(***************************************************************************)
EXTENDS Checker

CONSTANTS
  BookCount,  (* how many directories BOOKS names        *)
  Word, File, (* of headings; names of pages and targets *)
  Inputs      (* the documentation considered            *)

ASSUME BooksAssumption == BookCount \in Nat \ {0}

Slug == Seq(Word \union Nat)
Fragment == Slug \union {None}
Target == [file : File, fragment : Fragment]

(* slug: of a heading; id: written in HTML; alt: an image without text. *)
PageLine == [prose : BOOLEAN, slug : Slug \union {None}, id : Slug \union {None},
         target : Target \union {None}, alt : BOOLEAN]

(* chapter: a numbered file at the top of a book that needs a diagram. *)
PageType ==
  [name : File, chapter : BOOLEAN, mermaid : BOOLEAN, lines : Seq(PageLine),
   heredocs : Seq([ends : BOOLEAN, parses : BOOLEAN])]

(* outside: Markdown files that exist and belong to no book; others: other
   files that exist. *)
Documentation ==
  [pages : Seq(PageType),
   svgs : SUBSET [name : File, parses : BOOLEAN, described : BOOLEAN],
   photos : SUBSET [jpeg : BOOLEAN, credited : BOOLEAN],
   outside : SUBSET PageType,
   others : SUBSET File]

ASSUME InputsAssumption == Inputs \subseteq Documentation

(* at is the page last looked at. *)
VARIABLES
  docs,
  book,         (* the book last checked            *)
  heredocErrors,
  executed,     (* the heredocs that ran to success *)
  svg_paths

docs_input == <<docs, run_python>>
docs_vars == <<pc, docs_input, book, at, errors, heredocErrors, executed, svg_paths, exit>>

DocsInit ==
  /\ pc = "books"
  /\ docs \in Inputs /\ run_python \in BOOLEAN
  /\ book = 0 /\ at = 0
  /\ errors = {} /\ heredocErrors = {} /\ executed = {} /\ svg_paths = {}
  /\ exit = None

Error(what, where) == [what |-> what, where |-> where]

pages == docs.pages

-----------------------------------------------------------------------------
(* Headings and links *)

Headings(page) ==
  {n \in 1 .. Len(page.lines) :
     page.lines[n].prose /\ page.lines[n].slug # None}

Id(slug, suffix) == IF suffix = 0 THEN slug ELSE Append(slug, suffix)

(* A repeated heading is numbered by the headings before it with its slug. *)
counts(page, n) ==
  Cardinality({m \in Headings(page) : m < n /\ page.lines[m].slug = page.lines[n].slug})

NumberedIds(page) == {Id(page.lines[n].slug, counts(page, n)) : n \in Headings(page)}

WrittenIds(page) ==
  {page.lines[n].id : n \in {n \in 1 .. Len(page.lines) :
                               page.lines[n].prose /\ page.lines[n].id # None}}

heading_ids(page) == NumberedIds(page) \union WrittenIds(page)

Markdown == {pages[i] : i \in 1 .. Len(pages)} \union docs.outside

Page(name) == CHOOSE p \in Markdown : p.name = name

PageNames == {p.name : p \in Markdown}
SvgNames == {s.name : s \in docs.svgs}
Exists(file) == file \in PageNames \union SvgNames \union docs.others

Links(page) ==
  {n \in 1 .. Len(page.lines) :
     /\ page.lines[n].prose /\ page.lines[n].target # None
     /\ page.lines[n].target.file # "web"}

LinkErrors(page) ==
  {Error("missing target", <<page.name, n>>) : n \in {n \in Links(page) :
     ~Exists(page.lines[n].target.file)}}
  \union
  {Error("missing heading", <<page.name, n>>) : n \in {n \in Links(page) :
     LET t == page.lines[n].target IN
     /\ t.file \in PageNames /\ t.fragment # None
     /\ t.fragment \notin heading_ids(Page(t.file))}}

-----------------------------------------------------------------------------
(* check() *)

(* The lesson checker over one book. *)
CheckBook ==
  /\ pc = "books"
  /\ book' = book + 1
  /\ \E fails \in BOOLEAN :
       errors' = IF fails THEN errors \union {Error("book", book')} ELSE errors
  /\ pc' = IF book' = BookCount THEN "heredocs" ELSE pc
  /\ UNCHANGED <<docs_input, at, heredocErrors, executed, svg_paths, exit>>

(* The heredocs with an end, by page and place; others are passed over. *)
Closed ==
  UNION {{<<p, h>> : h \in {h \in 1 .. Len(pages[p].heredocs) :
                               pages[p].heredocs[h].ends}}
         : p \in 1 .. Len(pages)}

ScanHeredocs ==
  /\ pc = "heredocs"
  /\ heredocErrors' = {Error("heredoc syntax", s) : s \in {s \in Closed :
                         ~pages[s[1]].heredocs[s[2]].parses}}
  /\ pc' = IF run_python /\ heredocErrors' = {} THEN "run" ELSE "extend"
  /\ UNCHANGED <<docs_input, book, at, errors, executed, svg_paths, exit>>

ToRun == Closed \ (executed \union {e.where : e \in heredocErrors})

First(S) ==
  CHOOSE s \in S : \A t \in S : s[1] < t[1] \/ (s[1] = t[1] /\ s[2] <= t[2])

(* Faulty: a heredoc that fails ends the loop. *)
RunHeredocUntilFailure ==
  /\ pc = "run" /\ ToRun # {}
  /\ \/ executed' = executed \union {First(ToRun)} /\ UNCHANGED <<pc, heredocErrors>>
     \/ pc' = "extend" /\ UNCHANGED <<executed, heredocErrors>>
  /\ UNCHANGED <<docs_input, book, at, errors, svg_paths, exit>>

(* One heredoc under its timeout; a failure does not keep the others from
   running. *)
RunHeredoc ==
  /\ pc = "run" /\ ToRun # {}
  /\ \/ executed' = executed \union {First(ToRun)} /\ UNCHANGED heredocErrors
     \/ \E what \in {"exit", "timeout"} :
          heredocErrors' = heredocErrors \union {Error(what, First(ToRun))}
        /\ UNCHANGED executed
  /\ UNCHANGED <<pc, docs_input, book, at, errors, svg_paths, exit>>

EndHeredocs ==
  /\ pc = "extend" \/ (pc = "run" /\ ToRun = {})
  /\ errors' = errors \union heredocErrors
  /\ pc' = "pages"
  /\ UNCHANGED <<docs_input, book, at, heredocErrors, executed, svg_paths, exit>>

(* One page: its diagram, its links and its images. *)
CheckPage ==
  /\ pc = "pages" /\ at < Len(pages)
  /\ at' = at + 1
  /\ LET page == pages[at + 1] IN
     /\ errors' = errors \union LinkErrors(page)
          \union (IF page.chapter /\ ~page.mermaid
                  THEN {Error("no diagram", page.name)} ELSE {})
          \union {Error("no text", <<page.name, n>>) : n \in
                    {n \in 1 .. Len(page.lines) :
                       page.lines[n].prose /\ page.lines[n].alt}}
     /\ svg_paths' = svg_paths \union
          ({page.lines[n].target.file : n \in Links(page)} \intersect SvgNames)
  /\ UNCHANGED <<pc, docs_input, book, heredocErrors, executed, exit>>

(* Faulty: the pictures are compared with the links of the first page. *)
CheckSvgsEarly ==
  /\ pc = "pages" /\ at = 1
  /\ errors' = errors
       \union {Error("invalid", s.name) : s \in {s \in docs.svgs : ~s.parses}}
       \union {Error("unlinked", s.name) : s \in {s \in docs.svgs :
                 s.parses /\ s.name \notin svg_paths}}
  /\ pc' = "photos"
  /\ UNCHANGED <<docs_input, book, at, heredocErrors, executed, svg_paths, exit>>

(* Once every page has been read: a picture that does not parse is reported
   as that alone. *)
CheckSvgs ==
  /\ pc = "pages" /\ at = Len(pages)
  /\ errors' = errors
       \union {Error("invalid", s.name) : s \in {s \in docs.svgs : ~s.parses}}
       \union {Error("undescribed", s.name) : s \in {s \in docs.svgs :
                 s.parses /\ ~s.described}}
       \union {Error("unlinked", s.name) : s \in {s \in docs.svgs :
                 s.parses /\ s.name \notin svg_paths}}
  /\ pc' = "photos"
  /\ UNCHANGED <<docs_input, book, at, heredocErrors, executed, svg_paths, exit>>

CheckPhotos ==
  /\ pc = "photos"
  /\ errors' = errors
       \union {Error("photo", p) : p \in {p \in docs.photos :
                 ~p.jpeg \/ ~p.credited}}
  /\ pc' = "report"
  /\ UNCHANGED <<docs_input, book, at, heredocErrors, executed, svg_paths, exit>>

(* An exception that nothing catches: out of the lesson checker, or because
   the scratch directory of a heredoc cannot be removed. *)
docs_raise ==
  /\ pc = "books" \/ (pc = "run" /\ ToRun # {})
  /\ pc' = "raised" /\ exit' = 1
  /\ UNCHANGED <<docs_input, book, at, errors, heredocErrors, executed, svg_paths>>

docs_main ==
  /\ ExitWithErrors
  /\ UNCHANGED <<docs, book, heredocErrors, executed, svg_paths>>

docs_check ==
  \/ CheckBook \/ ScanHeredocs \/ RunHeredoc \/ EndHeredocs
  \/ CheckPage \/ CheckSvgs \/ CheckPhotos

DocsNext == docs_check \/ docs_raise \/ docs_main
DocsSpec == DocsInit /\ [][DocsNext]_docs_vars

-----------------------------------------------------------------------------
(* Properties *)

(* A slug that is taken gets the first number that is free. *)
FreeId(slug, n, taken) ==
  Id(slug, CHOOSE k \in 0 .. n : /\ Id(slug, k) \notin taken
                                 /\ \A j \in 0 .. k - 1 : Id(slug, j) \in taken)

(* The ids a renderer gives to the headings of a page, none of them twice.
   External. *)
GivenIds(page) ==
  LET ids[n \in 0 .. Len(page.lines)] ==
        IF n = 0 THEN {}
        ELSE IF n \notin Headings(page) THEN ids[n - 1]
        ELSE ids[n - 1] \union {FreeId(page.lines[n].slug, n, ids[n - 1])}
  IN ids[Len(page.lines)]

RenderedIds(page) == GivenIds(page) \union WrittenIds(page)

Leads(target) ==
  /\ Exists(target.file)
  /\ target.file \in PageNames /\ target.fragment # None
       => target.fragment \in RenderedIds(Page(target.file))

Linked(svg) ==
  \E i \in 1 .. Len(pages) : \E n \in Links(pages[i]) :
    pages[i].lines[n].target.file = svg.name

Sound ==
  /\ \A i \in 1 .. Len(pages) :
       /\ \A n \in Links(pages[i]) : Leads(pages[i].lines[n].target)
       /\ pages[i].chapter => pages[i].mermaid
       /\ \A n \in 1 .. Len(pages[i].lines) :
            ~(pages[i].lines[n].prose /\ pages[i].lines[n].alt)
  /\ \A s \in docs.svgs : s.parses /\ s.described /\ Linked(s)
  /\ \A p \in docs.photos : p.jpeg /\ p.credited
  /\ \A s \in Closed : pages[s[1]].heredocs[s[2]].parses

(* Exit code 0 is only given when every link of every page leads to a file
   and to a heading that the rendered page has, every picture is sound and
   linked from some page, whichever comes first, and every heredoc with an end
   has run to success if that was asked for, and none otherwise. *)
ExitZeroMeansSound ==
  exit = 0 => Sound /\ executed = IF run_python THEN Closed ELSE {}

(* A heading whose own words end in a number that another heading is given. *)
Clash(page) ==
  \E n, m \in Headings(page) : n # m /\ \E k \in 1 .. Len(page.lines) :
    page.lines[m].slug = Append(page.lines[n].slug, k)

(* Sound documentation passes when its books and heredocs do, in whatever
   order pages and pictures name each other; only ids of headings that clash
   with a numbered one can be reported missing although they are there. *)
NoFalseAlarm ==
  pc = "exited" /\ exit = 1
     /\ (\A e \in errors : e.what \notin {"book", "exit", "timeout"})
    => ~Sound \/ \E p \in Markdown : Clash(p)
=============================================================================
