------------------------------ MODULE PanelData ------------------------------
(***************************************************************************)
(* What a panel shows: the effects of PanelRuntime and of the panel editor *)
(* with the handlers that answer them, POST /query, /share/:token/query    *)
(* and the raw stream.                                                     *)
(*                                                                         *)
(* A query is asked again whenever its text, its range or the clock of 30  *)
(* seconds changes.  In the workspace it is a server action, answered in   *)
(* order with the others of the tab; on a shared page it is a fetch, and   *)
(* fetches are answered in any order.  A text is a number; what a query    *)
(* answers is told by the number of the run it was asked by.               *)
(***************************************************************************)
EXTENDS Naturals, Sequences, FiniteSets

CONSTANTS
  Texts,        \* DSL texts
  Broken,       \* those that do not compile
  Unbalanced,   \* those with unmatched braces
  MaxRuns,      \* bound: runs of the query
  MaxTypings,   \* bound: openings and changes of the editor
  MaxDrills,   \* bound: drills and details
  MaxLosses     \* bound: rejected calls

ASSUME PanelDataAssumption ==
  /\ Broken \subseteq Texts /\ Unbalanced \subseteq Broken
  /\ MaxRuns \in Nat \ {0} /\ MaxTypings \in Nat /\ MaxDrills \in Nat /\ MaxLosses \in Nat

VARIABLES
  shared,   \* whether this is the shared page
  asked,    \* calls under way, oldest first
  runtime,  \* of the panel: text and run, loading, error, what it shows
  editor,   \* text, timer, error, whether a check was rejected
  dialog,   \* the drill-down: clicked last, shown, whether a call was rejected
  spent     \* typings, clicks and losses so far

panelVars == <<shared, asked, runtime, editor, dialog, spent>>

NoText == CHOOSE x \in {"", "none"} : x \notin Texts
Query(text, run) == [op |-> "query", text |-> text, run |-> run]
Compiles(text) == text \notin Broken

PanelInit ==
  /\ shared \in BOOLEAN
  /\ \E text \in Texts :
       /\ asked = <<Query(text, 1)>>
       /\ runtime = [text |-> text, run |-> 1, loading |-> TRUE, error |-> FALSE, data |-> 0, fine |-> FALSE]
       /\ editor = [text |-> text, open |-> FALSE, timer |-> FALSE, error |-> "none", lost |-> FALSE]
  /\ dialog = [clicked |-> 0, shown |-> 0]
  /\ spent = [typings |-> 0, clicks |-> 0, losses |-> 0]
-----------------------------------------------------------------------------
(* The panel. *)

\* The effect: the cleanup of the last run sets its done, a new run is asked for.
RunQuery(text) ==
  /\ runtime.run < MaxRuns
  /\ runtime' = [runtime EXCEPT !.text = text, !.run = @ + 1, !.loading = TRUE]
  /\ asked' = Append(asked, Query(text, runtime.run + 1))

\* Another text, by a variable or the editor's preview, or another time window.
ChangeQuery == \E text \in Texts :
  RunQuery(text) /\ UNCHANGED <<shared, editor, dialog, spent>>

\* rangeToWindow of a later now.
Clock30s == RunQuery(runtime.text) /\ UNCHANGED <<shared, editor, dialog, spent>>

\* A click in a chart asks for the raw stream of its bucket, one in a list for
\* the detail of a transaction; nothing cancels either.
Drill ==
  /\ spent.clicks < MaxDrills /\ spent' = [spent EXCEPT !.clicks = @ + 1]
  /\ ~runtime.loading /\ ~runtime.error
  /\ dialog' = [dialog EXCEPT !.clicked = @ + 1]
  /\ asked' = Append(asked, [op |-> "drill", text |-> NoText, run |-> dialog.clicked + 1])
  /\ UNCHANGED <<shared, runtime, editor>>
-----------------------------------------------------------------------------
(* The editor. *)

OpenDialog ==
  /\ ~shared /\ ~editor.open
  /\ spent.typings < MaxTypings /\ spent' = [spent EXCEPT !.typings = @ + 1]
  /\ editor' = [editor EXCEPT !.open = TRUE, !.timer = TRUE]
  /\ UNCHANGED <<shared, asked, runtime, dialog>>

CloseDialog ==
  /\ editor.open
  /\ editor' = [editor EXCEPT !.open = FALSE, !.timer = FALSE]
  /\ UNCHANGED <<shared, asked, runtime, dialog, spent>>

\* The listener of the model looks at the braces; the effect starts its timer anew.
TypeDsl == \E text \in Texts \ {editor.text} :
  /\ editor.open
  /\ spent.typings < MaxTypings /\ spent' = [spent EXCEPT !.typings = @ + 1]
  /\ editor' = [editor EXCEPT !.text = text, !.timer = TRUE,
                              !.error = IF text \in Unbalanced THEN "braces" ELSE "none"]
  /\ UNCHANGED <<shared, asked, runtime, dialog>>

\* 600 ms later.
Check ==
  /\ editor.timer
  /\ editor' = [editor EXCEPT !.timer = FALSE]
  /\ asked' = Append(asked, [op |-> "check", text |-> editor.text, run |-> 0])
  /\ UNCHANGED <<shared, runtime, dialog, spent>>
-----------------------------------------------------------------------------
(* The answers. *)

\* Server actions in order, fetches in any.
Answerable == IF shared THEN 1 .. Len(asked) ELSE {n \in {1} : asked # <<>>}
WithoutCall(n) == SubSeq(asked, 1, n - 1) \o SubSeq(asked, n + 1, Len(asked))

\* Mutant of Current: the answer of any run is shown.
CurrentAlways(n) == TRUE

\* done is set for every run but the last.
Current(n) == asked[n].run = runtime.run

\* POST /query and POST /share/:token/query: series, or an error of the compiler.
QueryAnswered(n) ==
  /\ asked[n].op = "query"
  /\ runtime' = IF ~Current(n) THEN runtime
                ELSE [runtime EXCEPT !.loading = FALSE, !.error = ~Compiles(asked[n].text),
                                     !.data = asked[n].run, !.fine = Compiles(asked[n].text)]
  /\ UNCHANGED <<editor, dialog>>

\* The panel keeps its data, and shows the message instead of it.
QueryRejected(n) ==
  /\ asked[n].op = "query"
  /\ runtime' = IF ~Current(n) THEN runtime ELSE [runtime EXCEPT !.loading = FALSE, !.error = TRUE]
  /\ UNCHANGED <<editor, dialog>>

\* The check of a text that has changed since is shown all the same.
CheckAnswered(n) ==
  /\ asked[n].op = "check"
  /\ editor' = IF ~editor.open THEN editor
               ELSE [editor EXCEPT !.error = IF Compiles(asked[n].text) THEN "none" ELSE "compile",
                                   !.lost = FALSE]
  /\ UNCHANGED <<runtime, dialog>>

\* An error that is not the compiler's takes the message away; a call that fails leaves it.
CheckRejected(n) ==
  /\ asked[n].op = "check"
  /\ \E error \in {editor.error, IF editor.open THEN "none" ELSE editor.error} :
       editor' = [editor EXCEPT !.lost = TRUE, !.error = error]
  /\ UNCHANGED <<runtime, dialog>>

DrillAnswered(n) ==
  /\ asked[n].op = "drill"
  /\ dialog' = [dialog EXCEPT !.shown = asked[n].run]
  /\ UNCHANGED <<runtime, editor>>

AnswerPanel == \E n \in Answerable :
  /\ QueryAnswered(n) \/ CheckAnswered(n) \/ DrillAnswered(n)
  /\ asked' = WithoutCall(n)
  /\ UNCHANGED <<shared, spent>>

RejectPanel == \E n \in Answerable :
  /\ spent.losses < MaxLosses /\ spent' = [spent EXCEPT !.losses = @ + 1]
  /\ \/ QueryRejected(n) \/ CheckRejected(n)
     \/ asked[n].op = "drill" /\ UNCHANGED <<runtime, editor, dialog>>
  /\ asked' = WithoutCall(n)
  /\ UNCHANGED shared

PanelNext ==
  \/ ChangeQuery \/ Clock30s \/ Drill \/ OpenDialog \/ CloseDialog \/ TypeDsl \/ Check
  \/ AnswerPanel \/ RejectPanel

\* Calls are answered or rejected, timers fire.
PanelFairness == WF_panelVars(AnswerPanel \/ RejectPanel) /\ WF_panelVars(Check)
PanelSpec == PanelInit /\ [][PanelNext]_panelVars /\ PanelFairness
-----------------------------------------------------------------------------
PanelTypeOK ==
  /\ runtime.run \in 1 .. MaxRuns /\ runtime.data \in 0 .. runtime.run
  /\ editor.error \in {"none", "braces", "compile"}

\* Whatever order the answers come in: a panel that says neither loading nor
\* error shows the series of the query it has now, for the window it has now.
DataIsOfTheQuery ==
  ~runtime.loading /\ ~runtime.error =>
    runtime.data = runtime.run /\ runtime.fine /\ Compiles(runtime.text)

\* An editor that is left alone says of its text what the compiler does, although
\* the checks of older texts are not cancelled.
EditorTellsOfItsText ==
  editor.open /\ ~editor.timer /\ ~editor.lost /\ (\A n \in 1 .. Len(asked) : asked[n].op # "check") =>
    editor.error = (IF Compiles(editor.text) THEN "none" ELSE "compile")

\* In the workspace a drill-down at rest is the one clicked last, unless a call
\* was rejected; a shared page shows the one answered last.
DrillIsTheLastClicked ==
  ~shared /\ spent.losses = 0 /\ (\A n \in 1 .. Len(asked) : asked[n].op # "drill") =>
    dialog.shown = dialog.clicked

\* Every run ends, by an answer or an error.
LoadingEnds == runtime.loading ~> ~runtime.loading

\* What answers in any order leave shown: data, the editor's verdict and the
\* drill-down belong to what was asked last.
PanelInv ==
  /\ PanelTypeOK /\ DataIsOfTheQuery /\ EditorTellsOfItsText
  /\ DrillIsTheLastClicked
=============================================================================
