------------------------------ MODULE Workspace ------------------------------
(***************************************************************************)
(* Dashboards: the handlers /dashboards, /share and /templates of          *)
(* routes/programs.ts, the dashboard workspace with its panel editor, and  *)
(* the shared page.                                                        *)
(*                                                                         *)
(* A save sends the whole list of panels and the handler replaces them     *)
(* all, under new ids.  A change of the layout is saved half a second      *)
(* later with the list as it was at the change, and every load that brings *)
(* new ids counts as a change of the layout.  The server actions of a tab  *)
(* run in order; the tabs of a behaviour have the same dashboard open.     *)
(* No status is looked at: a refusal is an answer like any other, with no  *)
(* dashboards and no token in it.                                          *)
(***************************************************************************)
EXTENDS Naturals, Sequences, FiniteSets

CONSTANTS
  WorkTabs,   \* tabs of members who may edit
  Queries,    \* what is typed into the editor
  NoQuery,    \* what the editor holds at first
  MaxMade,    \* bound: panels added
  MaxActs,    \* bound: saves, drags and other clicks of all tabs
  MaxSlugs,   \* bound: dashboards made from one template
  MaxThrows,  \* bound: calls that fail or are refused
  MaxAll      \* bound: panels added, clicks and such calls together

ASSUME WorkspaceAssumption ==
  NoQuery \notin Queries /\ MaxMade \in Nat /\ MaxActs \in Nat /\ MaxSlugs \in Nat /\ MaxThrows \in Nat /\ MaxAll \in Nat

VARIABLES
  board,    \* the dashboard: panels, PATCHes so far, share token, who stored it
  slugs,    \* slugs taken by dashboards of the template, as numbers
  work,     \* of each tab: calls, panels shown of a dashboard, layout timer, editor,
            \* token shown; failed, for the properties: what a call that failed left in doubt
  guest,    \* a visitor of the share link: the token, and what the page got
  count,    \* panels added, clicks, failures, tokens given
  overlap   \* history: lists that dropped a panel, loads under an open editor

workVars == <<board, slugs, work, guest, count, overlap>>

\* made tells a panel from the others for ever; its id is made and gen, where gen
\* is the PATCH whose createMany gave the id, 0 when the browser did.
Panel(made) == [made |-> made, gen |-> 0, query |-> NoQuery, moved |-> FALSE]
NoPanel == Panel(0)
NoTimer == [set |-> FALSE, list |-> {}, calm |-> FALSE]

\* calm: nothing else of the tab was under way when the list was put together.
Job(op) == [op |-> op, at |-> "ask", list |-> {}, calm |-> FALSE, slug |-> 0, token |-> 0, refused |-> FALSE]

WorkInit ==
  /\ board = [panels |-> {}, patches |-> 0, token |-> 1, by |-> {}]   \* shared before
  /\ slugs = {}
  /\ work = [t \in WorkTabs |->
       [calls |-> <<Job("load")>>, open |-> FALSE, shown |-> {}, timer |-> NoTimer, edit |-> NoPanel,
        query |-> NoQuery, token |-> 0, seen |-> 0, failed |-> {}]]
  /\ guest = [at |-> "away", token |-> 0]
  /\ count = [made |-> 0, acts |-> 0, throws |-> 0, tokens |-> 1]
  /\ overlap = [losses |-> {}, reloaded |-> FALSE]

MadeOf(list) == {p.made : p \in list}
Content(list) == {[p EXCEPT !.gen = 0] : p \in list}
Calm(t) == work[t].calls = <<>> /\ ~work[t].timer.set /\ "panels" \notin work[t].failed
-----------------------------------------------------------------------------
(* The workspace. *)

More == count.made + count.acts + count.throws < MaxAll
Act == count.acts < MaxActs /\ More /\ count' = [count EXCEPT !.acts = @ + 1]
Enqueue(t, job) == work' = [work EXCEPT ![t].calls = Append(@, job)]
HasDashboard(t) == work[t].open
Stored == UNCHANGED <<board, slugs, guest>>

\* The dialog is modal.  Its fields keep what they held: they are set once, when
\* the workspace is opened.
OpenEditor(t, p) ==
  /\ work[t].edit = NoPanel
  /\ work' = [work EXCEPT ![t].edit = p]
  /\ Stored /\ UNCHANGED overlap
AddPanel(t) ==
  /\ HasDashboard(t)
  /\ count.made < MaxMade /\ More /\ count' = [count EXCEPT !.made = @ + 1]
  /\ OpenEditor(t, Panel(count.made + 1))
EditPanel(t) == \E p \in work[t].shown : OpenEditor(t, p) /\ UNCHANGED count

\* The list to save: the panel with this id replaced, or the panel appended.
WithPanel(list, p) == {q \in list : q.made # p.made \/ q.gen # p.gen} \cup {p}

SavePanel(t) == \E q \in {work[t].query} \cup Queries :
  /\ work[t].edit # NoPanel /\ HasDashboard(t) /\ Act
  /\ LET p == [work[t].edit EXCEPT !.query = q]
     IN work' = [work EXCEPT ![t].edit = NoPanel, ![t].query = q,
                   ![t].calls = Append(@, [Job("save") EXCEPT !.list = WithPanel(work[t].shown, p),
                                                              !.calm = Calm(t)])]
  /\ Stored /\ UNCHANGED overlap

\* The dashboards were taken away under the editor: it closes, and nothing is saved.
SaveNowhere(t) == \E q \in {work[t].query} \cup Queries :
  /\ work[t].edit # NoPanel /\ ~HasDashboard(t)
  /\ work' = [work EXCEPT ![t].edit = NoPanel, ![t].query = q]
  /\ Stored /\ UNCHANGED <<count, overlap>>

\* onLayoutChange: any timer is cleared, a new one keeps this list.
DragPanel(t) == \E p \in work[t].shown :
  /\ work[t].edit = NoPanel /\ Act
  /\ LET list == (work[t].shown \ {p}) \cup {[p EXCEPT !.moved = ~@]}
     IN work' = [work EXCEPT ![t].shown = list, ![t].timer = [set |-> TRUE, list |-> list, calm |-> Calm(t)]]
  /\ Stored /\ UNCHANGED overlap

LayoutTimer(t) ==
  /\ work[t].timer.set
  /\ LET calm == work[t].timer.calm /\ work[t].calls = <<>> /\ "panels" \notin work[t].failed
     IN work' = [work EXCEPT ![t].timer = NoTimer,
                   ![t].calls = Append(@, [Job("layout") EXCEPT !.list = work[t].timer.list, !.calm = calm])]
  /\ Stored /\ UNCHANGED <<count, overlap>>

PressShare(t) == HasDashboard(t) /\ Act /\ Enqueue(t, Job("share")) /\ Stored /\ UNCHANGED overlap
PressRevoke(t) == HasDashboard(t) /\ Act /\ Enqueue(t, Job("revoke")) /\ Stored /\ UNCHANGED overlap
InstallTemplate(t) == Act /\ Enqueue(t, Job("install")) /\ Stored /\ UNCHANGED overlap

UserWorks(t) ==
  \/ AddPanel(t) \/ EditPanel(t) \/ SavePanel(t) \/ SaveNowhere(t) \/ DragPanel(t)
  \/ PressShare(t) \/ PressRevoke(t) \/ InstallTemplate(t)
-----------------------------------------------------------------------------
(* The handlers. *)

Asked(t, ops) == work[t].calls # <<>> /\ Head(work[t].calls).op \in ops /\ Head(work[t].calls).at = "ask"
The(t) == Head(work[t].calls)
\* What is in doubt once a call has failed: the link shown, or the panels.
InDoubt(op) == IF op \in {"share", "revoke"} THEN {"token"} ELSE {"panels"}

\* GET /dashboards.
GetDashboards(t) ==
  /\ Asked(t, {"load"})
  /\ work' = [work EXCEPT ![t].calls[1].at = "told", ![t].calls[1].list = board.panels,
                          ![t].seen = board.patches, ![t].failed = @ \ {"panels"}]
  /\ UNCHANGED <<board, slugs, guest, count, overlap>>

\* deleteMany and createMany, in one transaction that holds the dashboard's row.
Replaced(list) == {[p EXCEPT !.gen = board.patches + 1] : p \in list}

PatchDashboard(t) ==
  /\ Asked(t, {"save", "layout"})
  /\ LET list == The(t).list
         fresh == work[t].seen = board.patches
         lost == MadeOf(board.panels) \ MadeOf(Replaced(list))
     IN /\ board' = [board EXCEPT !.panels = Replaced(list), !.patches = @ + 1]
        /\ work' = [work EXCEPT ![t].calls[1].at = "told", ![t].seen = IF fresh THEN @ + 1 ELSE @]
        /\ overlap' = IF lost = {} THEN overlap
                      ELSE [overlap EXCEPT !.losses = @ \cup {[calm |-> The(t).calm, fresh |-> fresh]}]
  /\ UNCHANGED <<slugs, guest, count>>

\* randomBytes(24).
NewToken == count.tokens + 1

\* POST /share and /share/revoke.
ShareDashboard(t) ==
  /\ Asked(t, {"share"})
  /\ count' = [count EXCEPT !.tokens = @ + 1]
  /\ board' = [board EXCEPT !.token = NewToken, !.by = {t}]
  /\ work' = [work EXCEPT ![t].calls[1].at = "told", ![t].calls[1].token = NewToken,
                          ![t].failed = @ \ {"token"}]
  /\ UNCHANGED <<slugs, guest, overlap>>
RevokeShare(t) ==
  /\ Asked(t, {"revoke"})
  /\ board' = [board EXCEPT !.token = 0, !.by = {t}]
  /\ work' = [work EXCEPT ![t].calls[1].at = "told", ![t].failed = @ \ {"token"}]
  /\ UNCHANGED <<slugs, guest, count, overlap>>

\* createDashboardFromTemplate: the loop for a free slug ...
FindSlug(t) ==
  /\ Asked(t, {"install"})
  /\ The(t).slug < MaxSlugs
  /\ work' = IF The(t).slug \in slugs THEN [work EXCEPT ![t].calls[1].slug = @ + 1]
             ELSE [work EXCEPT ![t].calls[1].at = "create"]
  /\ UNCHANGED <<board, slugs, guest, count, overlap>>

\* ... and the insert, which the unique constraint may refuse.
InsertDashboard(t) ==
  /\ work[t].calls # <<>> /\ The(t).at = "create"
  /\ slugs' = slugs \cup {The(t).slug}
  /\ work' = IF The(t).slug \in slugs THEN [work EXCEPT ![t].calls = Tail(@), ![t].failed = @ \cup {"panels"}]
             ELSE [work EXCEPT ![t].calls[1].at = "told"]
  /\ UNCHANGED <<board, guest, count, overlap>>

\* The session or the role is gone: the handler does nothing, and its answer is
\* taken for the one asked for.
RefuseJob(t) ==
  /\ work[t].calls # <<>> /\ The(t).at = "ask" /\ The(t).slug = 0
  /\ count.throws < MaxThrows /\ More /\ count' = [count EXCEPT !.throws = @ + 1]
  /\ work' = [work EXCEPT ![t].calls[1] = [@ EXCEPT !.at = "told", !.refused = TRUE],
                          ![t].failed = @ \cup InDoubt(The(t).op)]
  /\ UNCHANGED <<board, slugs, guest, overlap>>

\* A failed call ends its click; the one of the layout timer is swallowed.
JobFails(t) ==
  /\ work[t].calls # <<>> /\ The(t).at # "told"
  /\ count.throws < MaxThrows /\ More /\ count' = [count EXCEPT !.throws = @ + 1]
  /\ work' = [work EXCEPT ![t].calls = Tail(@), ![t].failed = @ \cup InDoubt(The(t).op) \cup {"panels"}]
  /\ UNCHANGED <<board, slugs, guest, overlap>>

ServeWork(t) ==
  \/ GetDashboards(t) \/ PatchDashboard(t) \/ ShareDashboard(t) \/ RevokeShare(t)
  \/ FindSlug(t) \/ InsertDashboard(t)
-----------------------------------------------------------------------------
(* The answers. *)

TookAnswer(t, ops) == work[t].calls # <<>> /\ The(t).op \in ops /\ The(t).at = "told"
Dequeue(t, p) == work' = [work EXCEPT ![t] = [p EXCEPT !.calls = Tail(@)]]

\* New ids or places make the grid report a layout, which starts the timer.
DashboardsLoaded(t) ==
  /\ TookAnswer(t, {"load"}) /\ ~The(t).refused
  /\ LET list == The(t).list
         calm == Len(work[t].calls) = 1
     IN Dequeue(t, [work[t] EXCEPT !.open = TRUE, !.shown = list,
                    !.timer = IF list = work[t].shown THEN @ ELSE [set |-> TRUE, list |-> list, calm |-> calm]])
  /\ overlap' = [overlap EXCEPT !.reloaded = @ \/ (work[t].edit # NoPanel /\ The(t).list # work[t].shown)]
  /\ Stored /\ UNCHANGED count

\* Without dashboards there is no grid; a timer that is set stays set.
NothingLoaded(t) ==
  /\ TookAnswer(t, {"load"}) /\ The(t).refused
  /\ Dequeue(t, [work[t] EXCEPT !.open = FALSE, !.shown = {}])
  /\ Stored /\ UNCHANGED <<count, overlap>>

LayoutSaved(t) == TookAnswer(t, {"layout"}) /\ Dequeue(t, work[t]) /\ Stored /\ UNCHANGED <<count, overlap>>

\* Mutant of ThenLoadAgain: nothing is loaded.
ThenStay(t) ==
  /\ TookAnswer(t, {"save", "install", "revoke"})
  /\ Dequeue(t, [work[t] EXCEPT !.token = IF The(t).op = "revoke" THEN 0 ELSE @])
  /\ Stored /\ UNCHANGED <<count, overlap>>

\* A save, an installation and a revocation load again; a share shows its link.
ThenLoadAgain(t) ==
  /\ TookAnswer(t, {"save", "install", "revoke"})
  /\ Dequeue(t, [work[t] EXCEPT !.calls = Append(@, Job("load")),
                              !.token = IF The(t).op = "revoke" THEN 0 ELSE @])
  /\ Stored /\ UNCHANGED <<count, overlap>>
LinkShown(t) ==
  /\ TookAnswer(t, {"share"})
  /\ Dequeue(t, [work[t] EXCEPT !.token = The(t).token])
  /\ Stored /\ UNCHANGED <<count, overlap>>

ContinueWork(t) == DashboardsLoaded(t) \/ NothingLoaded(t) \/ LayoutSaved(t) \/ ThenLoadAgain(t) \/ LinkShown(t)
-----------------------------------------------------------------------------
(* GET /share/:token, and the queries of the page it makes. *)

OpenShare ==
  /\ guest.at = "away"
  /\ \E tok \in 1 .. count.tokens :
       guest' = [at |-> IF tok = board.token THEN "page" ELSE "refused", token |-> tok]
  /\ UNCHANGED <<board, slugs, work, count, overlap>>

\* A query of the page that is answered changes nothing here.
ShareQuery ==
  /\ guest.at = "page" /\ guest.token # board.token
  /\ guest' = [guest EXCEPT !.at = "refused"]
  /\ UNCHANGED <<board, slugs, work, count, overlap>>

WorkNext ==
  \/ \E t \in WorkTabs :
       UserWorks(t) \/ LayoutTimer(t) \/ ServeWork(t) \/ RefuseJob(t) \/ JobFails(t) \/ ContinueWork(t)
  \/ OpenShare \/ ShareQuery

WorkSpec == WorkInit /\ [][WorkNext]_workVars
-----------------------------------------------------------------------------
WorkTypeOK ==
  /\ MadeOf(board.panels) \subseteq 1 .. MaxMade
  /\ \A p \in board.panels : p.gen \in 0 .. board.patches /\ p.query \in Queries \cup {NoQuery}
  /\ \A t \in WorkTabs : work[t].seen <= board.patches

\* Nothing deletes a panel, and still saves lose some, for the whole list is
\* sent: but only a save that overlaps another call or timer of its tab, one that
\* follows a call which failed or was refused, or one from a tab whose list another
\* tab has replaced since.
LossNeedsAnOverlap == \A l \in overlap.losses : ~(l.calm /\ l.fresh)

\* A panel is doubled only by a save whose panel was given another id while the
\* editor was open.
TwinsNeedAReload ==
  ~overlap.reloaded => \A p, q \in board.panels : p.made = q.made => p = q

\* A tab at rest that nobody has overtaken shows what is stored, through timers that
\* fire late and loads in between; after a refused load or save, as soon as it has
\* loaded once.
RestShowsTheStored == \A t \in WorkTabs :
  Calm(t) /\ work[t].seen = board.patches => Content(work[t].shown) = Content(board.panels)

\* Shares and revocations of several tabs: the tab whose one was stored last shows the
\* token that is in force, or none; and no link at all, said to be revoked, of a
\* dashboard that is still shared, only after a refusal.
ShareShownIsLive == \A t \in WorkTabs :
  work[t].calls = <<>> /\ t \in board.by =>
    \/ work[t].token = board.token
    \/ work[t].token = 0 /\ "token" \in work[t].failed

\* What saves, drags, shares and late timers of several tabs keep of the dashboard,
\* and what the tabs show of it, also through calls that fail or are refused.
WorkInv ==
  /\ WorkTypeOK /\ LossNeedsAnOverlap /\ TwinsNeedAReload /\ RestShowsTheStored
  /\ ShareShownIsLive
=============================================================================
