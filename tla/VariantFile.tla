----------------------------- MODULE VariantFile -----------------------------
(***************************************************************************)
(* The source file that live mode edits: live-wrap puts a picked element   *)
(* into a session's wrapper, the agent adds variants, live-accept replaces *)
(* the wrapper by one of them or by the original (live-wrap.mjs,           *)
(* live-accept.mjs).  A file is a sequence of lines, a line its tag, its   *)
(* attribute and its indentation.                                          *)
(***************************************************************************)
EXTENDS Integers, Sequences, FiniteSets, SequencesExt

CONSTANTS EditSessions, \* the sessions, from 1
          MaxSkips      \* bound: variants never written, and cleanups never done

ASSUME EditBounds == EditSessions \subseteq Nat \ {0} /\ MaxSkips \in Nat

VARIABLES file,   \* the lines
          jsx,    \* whether markers sit inside the wrapper
          edit,   \* per session: how far it is, and where variants go
          skips,  \* variants and cleanups skipped
          amiss   \* history: sessions whose end is not the edit that was asked for

fileVars == <<file, jsx, edit, skips, amiss>>

\* A line: its kind, its tag, its class or the attribute live mode gave it, the
\* number of its variant (0 the original), the session that wrote it, its indentation.
Line(k, tag, cls, d) == [k |-> k, tag |-> tag, cls |-> cls, n |-> 0, id |-> 0, d |-> d]
By(id, n, line) == [line EXCEPT !.id = id, !.n = n]

Opener == {"open", "self", "half"}
Markup == {"start", "stop", "note", "carbonize", "css", "rule", "endcss"}
Scaffold(l) == l.k \in Markup \/ l.cls \in {"variants", "variant"}
NotBlank(s) == SelectSeq(s, LAMBDA l : l.k # "blank")
Shift(s, by) == [i \in DOMAIN s |-> IF s[i].k = "blank" THEN s[i] ELSE [s[i] EXCEPT !.d = @ + by]]
Indents(s) == {s[i].d : i \in {j \in DOMAIN s : s[j].k # "blank"}}
Smallest(S) == CHOOSE x \in S : \A y \in S : x <= y

-----------------------------------------------------------------------------
(* live-wrap: finding the element. *)

\* The line that opens the tag of a matching line, at most ten lines above; 0 when
\* another tag's opener comes first.
OpenerLine(lines, at, tag) ==
  LET above == {i \in at - 10 .. at : i >= 1 /\ lines[i].k \in Opener}
      near == CHOOSE i \in above : \A j \in above : j <= i
  IN IF above = {} \/ lines[near].tag # tag THEN 0 ELSE near

\* Tags are counted line by line, so that a self-closing tag of several lines
\* counts as an opener; without an end, fifty lines are taken.
Weight(l) == CASE l.k \in {"open", "half"} -> 1 [] l.k = "close" -> -1 [] OTHER -> 0
Balanced(weight, from) ==
  LET sum[i \in from .. Len(weight)] == weight[i] + (IF i = from THEN 0 ELSE sum[i - 1])
  IN {i \in from .. Len(weight) : sum[i] <= 0}

ClosingLine(lines, at) ==
  LET ends == Balanced([i \in DOMAIN lines |-> IF lines[i].tag = lines[at].tag THEN Weight(lines[i]) ELSE 0], at)
  IN IF ends # {} THEN Smallest(ends) ELSE Smallest({at + 50, Len(lines)})

\* Every element whose source has the class, outside comments and live mode's own tags.
Candidates(lines, cls, tag) ==
  {OpenerLine(lines, i, tag) : i \in {j \in DOMAIN lines : lines[j].cls = cls}} \ {0}

Texts(lines, at) ==
  SelectSeq(SubSeq(lines, at, ClosingLine(lines, at)), LAMBDA l : l.k = "text")
SameText(a, b) == Len(a) = Len(b) /\ \A i \in DOMAIN a : a[i].cls = b[i].cls /\ a[i].n = b[i].n

\* With a text the candidates that have it: none, the first candidate; several, no
\* match.  Text that the program computes is not in the source.
Match(lines, cls, tag, hasText, text) ==
  LET all == Candidates(lines, cls, tag)
      with == IF \E i \in DOMAIN text : text[i].cls = "{}" THEN {}
              ELSE {c \in all : SameText(Texts(lines, c), text)}
  IN IF ~hasText \/ Cardinality(all) = 1 \/ with = {} THEN Smallest(all)
     ELSE IF Cardinality(with) = 1 THEN CHOOSE c \in with : TRUE ELSE 0

-----------------------------------------------------------------------------
(* live-wrap: the wrapper. *)

Wrapper(id, lines, indent, inJsx) ==
  LET at(k, cls, more) == By(id, 0, Line(k, "div", cls, indent + more))
      outer == <<at("open", "variants", 0)>>
      start == <<at("start", "", IF inJsx THEN 2 ELSE 0)>>
      stop == <<at("stop", "", IF inJsx THEN 2 ELSE 0)>>
      inner == <<at("note", "", 2), at("open", "variant", 2)>>
               \o Shift(lines, indent + 4 - Smallest(Indents(lines)))
               \o <<at("close", "variant", 2), at("note", "", 2)>>
      end == <<at("close", "variants", 0)>>
  IN IF inJsx THEN outer \o start \o inner \o stop \o end
     ELSE start \o outer \o inner \o end \o stop

Replace(lines, from, to, new) == SubSeq(lines, 1, from - 1) \o new \o SubSeq(lines, to + 1, Len(lines))

-----------------------------------------------------------------------------
(* live-accept: finding and reading the session. *)

MarkerBlock(id, lines) ==
  LET start == {i \in DOMAIN lines : lines[i].k = "start" /\ lines[i].id = id}
      stop == {i \in DOMAIN lines : lines[i].k = "stop" /\ lines[i].id = id}
  IN IF start = {} \/ stop = {} THEN {} ELSE {<<Smallest(start), Smallest(stop)>>}

\* Here the text is searched as one, and a self-closing tag of several lines is one tag.
Real(l) == IF l.k = "half" THEN 0 ELSE Weight(l)

\* In JSX the markers are inside the wrapper: the range grows to its opener, at
\* most twelve lines above, and to the end of that element.
ReplaceRange(block, lines, inJsx) ==
  LET above == {i \in block[1] - 12 .. block[1] - 1 : i >= 1 /\ lines[i].cls = "variants" /\ lines[i].k = "open"}
      start == CHOOSE i \in above : \A j \in above : j <= i
      ends == {i \in Balanced([i \in DOMAIN lines |-> IF lines[i].tag = "div" THEN Real(lines[i]) ELSE 0], start) :
                 i >= block[2] /\ lines[i].k = "close"}
  IN IF ~inJsx \/ above = {} THEN block
     ELSE <<start, IF ends = {} THEN block[2] ELSE Smallest(ends)>>

\* Mutant of InnerOf: the first closing tag ends the element.
InnerToClose(text, n) ==
  LET open == {i \in DOMAIN text : text[i].k = "open" /\ text[i].cls = "variant" /\ text[i].n = n}
      at == Smallest(open)
      ends == {i \in at + 1 .. Len(text) : text[i].k = "close" /\ text[i].tag = text[at].tag}
  IN IF open = {} \/ ends = {} THEN <<>> ELSE SubSeq(text, at + 1, Smallest(ends) - 1)
\* The inside of the first element with the attribute, tags of its name counted.
InnerOf(text, n) ==
  LET open == {i \in DOMAIN text : text[i].k = "open" /\ text[i].cls = "variant" /\ text[i].n = n}
      at == Smallest(open)
      ends == Balanced([i \in DOMAIN text |-> IF text[i].tag = text[at].tag THEN Real(text[i]) ELSE 0], at)
  IN IF open = {} \/ ends = {} THEN <<>> ELSE SubSeq(text, at + 1, Smallest(ends) - 1)

WithoutStyle(lines, block) ==
  SelectSeq(SubSeq(lines, block[1], block[2]), LAMBDA l : l.k \notin {"css", "rule", "endcss"})

\* The original comes back with the two line ends around it.
Blank == Line("blank", "", "", 0)
ExtractOriginal(lines, block) == <<Blank>> \o InnerOf(WithoutStyle(lines, block), 0) \o <<Blank>>
ExtractVariant(lines, block, n) == InnerOf(WithoutStyle(lines, block), n)
ExtractCss(lines, block, id) ==
  SelectSeq(SubSeq(lines, block[1], block[2]), LAMBDA l : l.k = "rule" /\ l.id = id)

Deindent(lines, indent) ==
  IF Indents(lines) = {} THEN lines ELSE Shift(lines, indent - Smallest(Indents(lines)))

-----------------------------------------------------------------------------
(* What should come out: a session's own lines go, and either its original is *)
(* kept or one variant takes the place of it.                                  *)

ElementEnd(lines, at) == Smallest(Balanced([i \in DOMAIN lines |-> Real(lines[i])], at))

OriginalOf(id, lines) ==
  LET edges == {i \in DOMAIN lines : lines[i].id = id /\ lines[i].cls = "variant" /\ lines[i].n = 0}
  IN Smallest(edges) + 1 .. (CHOOSE x \in edges : \A y \in edges : y <= x) - 1

Wanted(id, n, lines) ==
  LET kept(i) == IF lines[i].id = id THEN n # 0 /\ lines[i].n = n /\ ~Scaffold(lines[i])
                 ELSE n = 0 \/ i \notin OriginalOf(id, lines)
      moved(i) == [lines[i] EXCEPT !.d = IF lines[i].id = id \/ i \in OriginalOf(id, lines) THEN @ - 4 ELSE @]
  IN NotBlank(FlattenSeq([i \in DOMAIN lines |-> IF kept(i) THEN <<moved(i)>> ELSE <<>>]))

Leftover(id, l) == l.id = id /\ Scaffold(l)
Tidy(id, lines) == SelectSeq(lines, LAMBDA l : ~Leftover(id, l))

-----------------------------------------------------------------------------

Div(cls, d, body) == <<Line("open", "div", cls, d)>> \o body \o <<Line("close", "div", "", d)>>
Text(t, d) == <<Line("text", "", t, d)>>
Card(t, d) == Div("card", d, Text(t, d + 2))
Box(d) == Div("box", d, Text("c", d + 2))
Spacer(d) == <<Line("half", "div", "", d), Line("rest", "", "", d)>>
Broken(d) == <<Line("open", "section", "", d), Line("attr", "", "card", d + 2)>>
             \o Box(d + 2) \o <<Line("close", "section", "", d)>>

Simple == Div("", 0, Card("a", 2) \o Card("b", 2))
Files == {Simple,
          Div("", 0, Card("{}", 2) \o Card("{}", 2)),
          Div("", 0, Card("a", 2) \o Card("a", 2)),
          Div("", 0, Div("card", 2, Box(4) \o Text("a", 4)) \o Box(2)),
          Div("", 0, Div("card", 2, Spacer(4) \o Text("a", 4)) \o Box(2)),
          Div("", 0, Broken(2) \o Card("b", 2))}

VariantFileInit ==
  /\ file \in Files /\ jsx \in BOOLEAN
  /\ edit = [id \in EditSessions |-> [at |-> "new", insert |-> 0, tag |-> "", d |-> 0,
                                    whole |-> TRUE, told |-> FALSE, picked |-> TRUE, alone |-> TRUE]]
  /\ skips = 0 /\ amiss = {}

-----------------------------------------------------------------------------

Busy == \E id \in EditSessions : edit[id].at = "wrapped"
Class(p) == IF file[p].cls # "" THEN file[p].cls
            ELSE IF p < Len(file) /\ file[p + 1].k = "attr" THEN file[p + 1].cls ELSE ""
Around(p) == {id \in EditSessions : \E b \in MarkerBlock(id, file) : p \in b[1] .. b[2]}

\* The picked element of the page is one of no session.
WrapPicked(id, p, hasText) ==
  LET text == SelectSeq(SubSeq(file, p, ElementEnd(file, p)), LAMBDA l : l.k = "text")
      m == Match(file, Class(p), file[p].tag, hasText, text)
      end == ClosingLine(file, m)
  IN
  /\ edit[id].at = "new" /\ ~Busy /\ \A o \in EditSessions : o < id => edit[o].at # "new"
  /\ file[p].k = "open" /\ Class(p) \notin {"", "variant", "variants"} /\ Around(p) = {}
  /\ IF m = 0
     THEN /\ edit' = [edit EXCEPT ![id].at = "ambiguous"]
          /\ UNCHANGED file
     ELSE /\ file' = Replace(file, m, end, Wrapper(id, SubSeq(file, m, end), file[m].d, jsx))
          /\ edit' = [o \in EditSessions |->
               IF o = id
               THEN [at |-> "wrapped", insert |-> m + 6 + end - m, tag |-> file[m].tag, d |-> file[m].d,
                     whole |-> end = ElementEnd(file, m), picked |-> m = p,
                     told |-> hasText /\ \A i \in DOMAIN text : text[i].cls # "{}",
                     alone |-> \A i \in m .. end : ~Scaffold(file[i])]
               ELSE [edit[o] EXCEPT !.alone = @ /\ o \notin Around(m)]]
  /\ UNCHANGED <<jsx, skips, amiss>>

\* The agent writes two variants, with or without a style, below the line it was given.
VariantOf(id, n, tag, d) ==
  LET by(line) == By(id, n, line)
  IN <<by(Line("open", "div", "variant", d + 2)), by(Line("open", tag, "card", d + 4)),
       by(Line("text", "", "v", d + 6)), by(Line("close", tag, "", d + 4)),
       by(Line("close", "div", "variant", d + 2))>>
Style(id, d) == <<By(id, 0, Line("css", "", "", d + 2)), By(id, 0, Line("rule", "", "", d + 4)),
                  By(id, 0, Line("endcss", "", "", d + 2))>>

InsertVariants(id, css) ==
  /\ edit[id].at = "wrapped"
  /\ LET e == edit[id]
         new == (IF css THEN Style(id, e.d) ELSE <<>>) \o VariantOf(id, 1, e.tag, e.d) \o VariantOf(id, 2, e.tag, e.d)
     IN file' = SubSeq(file, 1, e.insert) \o new \o SubSeq(file, e.insert + 1, Len(file))
  /\ edit' = [edit EXCEPT ![id].at = "variants"]
  /\ UNCHANGED <<jsx, skips, amiss>>

LeaveWrapped(id) ==
  /\ edit[id].at = "wrapped" /\ skips < MaxSkips
  /\ skips' = skips + 1
  /\ edit' = [edit EXCEPT ![id].at = "bare"]
  /\ UNCHANGED <<file, jsx, amiss>>

Ends(id, n, new) ==
  amiss' = IF NotBlank(Tidy(id, new)) = Wanted(id, n, file) THEN amiss
           ELSE amiss \cup {id}

DiscardSession(id) ==
  /\ edit[id].at \in {"bare", "variants"} /\ ~Busy
  /\ IF MarkerBlock(id, file) = {}
     THEN /\ edit' = [edit EXCEPT ![id].at = "unhandled"]
          /\ UNCHANGED <<file, amiss>>
     ELSE LET block == CHOOSE b \in MarkerBlock(id, file) : TRUE
              range == ReplaceRange(block, file, jsx)
              new == Replace(file, range[1], range[2],
                             Deindent(ExtractOriginal(file, block), file[range[1]].d))
          IN /\ file' = new
             /\ edit' = [edit EXCEPT ![id].at = "ended"]
             /\ Ends(id, 0, new)
  /\ UNCHANGED <<jsx, skips>>

\* With a style the variant keeps its tag and the style a place until the agent has
\* moved it.
Carbonized(id, n, css, restored, indent) ==
  LET at(k, cls, m) == By(id, m, Line(k, IF cls = "" THEN "" ELSE "div", cls, indent))
  IN IF css = <<>> THEN restored
     ELSE <<at("carbonize", "", 0), at("css", "", 0)>> \o css
          \o <<at("endcss", "", 0), at("carbonize", "", 0), at("open", "variant", n)>>
          \o restored \o <<at("close", "variant", n)>>

AcceptVariant(id, n) ==
  /\ edit[id].at \in {"bare", "variants"} /\ ~Busy
  /\ IF MarkerBlock(id, file) = {} \/
        (\E b \in MarkerBlock(id, file) : ExtractVariant(file, b, n) = <<>>)
     THEN /\ edit' = [edit EXCEPT ![id].at = "unhandled"]
          /\ UNCHANGED <<file, amiss>>
     ELSE LET block == CHOOSE b \in MarkerBlock(id, file) : TRUE
              range == ReplaceRange(block, file, jsx)
              indent == file[range[1]].d
              css == ExtractCss(file, block, id)
              new == Replace(file, range[1], range[2],
                       Carbonized(id, n, css, Deindent(ExtractVariant(file, block, n), indent), indent))
          IN /\ file' = new
             /\ edit' = [edit EXCEPT ![id].at = IF css = <<>> THEN "ended" ELSE "cleanup"]
             /\ Ends(id, n, new)
  /\ UNCHANGED <<jsx, skips>>

\* The agent moves the style away and drops the wrapper.
CleanUp(id) ==
  /\ edit[id].at = "cleanup" /\ ~Busy
  /\ file' = Tidy(id, file)
  /\ edit' = [edit EXCEPT ![id].at = "ended"]
  /\ UNCHANGED <<jsx, skips, amiss>>

SkipCleanUp(id) ==
  /\ edit[id].at = "cleanup" /\ skips < MaxSkips
  /\ skips' = skips + 1
  /\ edit' = [edit EXCEPT ![id].at = "ended"]
  /\ UNCHANGED <<file, jsx, amiss>>

VariantFileNext == \E id \in EditSessions :
  \/ \E p \in DOMAIN file, hasText \in BOOLEAN : WrapPicked(id, p, hasText)
  \/ \E css \in BOOLEAN : InsertVariants(id, css)
  \/ \E n \in 1..2 : AcceptVariant(id, n)
  \/ DiscardSession(id) \/ LeaveWrapped(id) \/ CleanUp(id) \/ SkipCleanUp(id)

VariantFileSpec == VariantFileInit /\ [][VariantFileNext]_fileVars
-----------------------------------------------------------------------------

\* Ending a session is exactly the edit that was asked for: the original comes back
\* or the chosen variant takes its place, line by line, at its indentation, with
\* every other line as it was; but where another session or an unfinished cleanup
\* was inside its wrapper, or where a self-closing tag of several lines made the
\* wrapper too long.
EndsAsAsked == \A id \in amiss : ~edit[id].alone \/ ~edit[id].whole

\* An element picked with a text that its source has is the one wrapped.
WrapsThePicked == \A id \in EditSessions : edit[id].told /\ edit[id].whole => edit[id].picked

VariantFileInv == EndsAsAsked /\ WrapsThePicked
==============================================================================
