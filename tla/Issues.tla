------------------------------- MODULE Issues -------------------------------
(***************************************************************************)
(* Triage of error issues: the handlers /errors of routes/programs.ts and  *)
(* the errors panel.  The grouper makes issues and never changes a status. *)
(* A change and its notification are two statements; the panel keeps a     *)
(* list, a selection and a detail that are read at different moments.      *)
(***************************************************************************)
EXTENDS Naturals, Sequences, FiniteSets

CONSTANTS
  IssueTabs,   \* browser tabs with the panel open
  IssueSet,    \* issues the grouper has made
  NoIssue,     \* nothing selected, nothing read
  MuteTime,    \* length of a mute, in ticks
  MaxTime,     \* bound: ticks
  MaxChanges,  \* bound: changes and comments of all tabs
  MaxSelects,  \* bound: selections of all tabs
  MaxLost      \* bound: failed statements

ASSUME IssuesAssumption ==
  /\ NoIssue \notin IssueSet /\ MuteTime \in Nat \ {0}
  /\ MaxTime \in Nat \ {0} /\ MaxChanges \in Nat /\ MaxSelects \in Nat /\ MaxLost \in Nat

VARIABLES
  issue,   \* of each issue: status, muted_until (0 is null), who changed it last,
           \* when it was muted last, and its comments
  notes,   \* error_notifications
  panel,   \* of each tab: its calls in order, the list, the selection, the detail
  now,
  bounds

issueVars == <<issue, notes, panel, now, bounds>>

Statuses == {"open", "acknowledged", "resolved", "muted"}
Buttons == Statuses \ {"open"}
Filters == {"all"} \cup Statuses

\* Server actions of a tab run in this order.  at: waiting for its first or its
\* second statement, or answered; nth: the change of the issue it made.
NewCall(op, i, what) == [op |-> op, issue |-> i, what |-> what, at |-> "first", list |-> {}, nth |-> 0]

IssuesInit ==
  /\ issue = [i \in IssueSet |-> [status |-> "open", until |-> 0, last |-> 0, mutedAt |-> 0,
                                  comments |-> 0]]
  /\ notes = {}
  /\ panel = [t \in IssueTabs |-> [calls |-> <<NewCall("list", NoIssue, "all")>>, shown |-> {},
                                   filter |-> "all", selected |-> NoIssue, detail |-> NoIssue,
                                   crossed |-> FALSE, threw |-> FALSE]]
  /\ now = 1
  /\ bounds = [changes |-> 0, selects |-> 0, lost |-> 0]

\* GET /errors: muted issues are left out until muted_until has passed.
Visible(i) == issue[i].until = 0 \/ issue[i].until < now
ListIssues(filter) == {i \in IssueSet : (filter = "all" \/ issue[i].status = filter) /\ Visible(i)}
-----------------------------------------------------------------------------
(* The panel. *)

Queue(t, c) == panel[t].calls \o <<c>>

\* The two effects: of the filter, and of the selection.
SetStatus(t) == \E f \in Filters \ {panel[t].filter} :
  /\ bounds.selects < MaxSelects /\ bounds' = [bounds EXCEPT !.selects = @ + 1]
  /\ panel' = [panel EXCEPT ![t].filter = f, ![t].calls = Queue(t, NewCall("list", NoIssue, f))]
  /\ UNCHANGED <<issue, notes, now>>

\* Mutant of Select: nothing is asked for while other calls are under way.
SelectIdle(t) == \E i \in panel[t].shown \ {panel[t].selected} :
  /\ bounds.selects < MaxSelects /\ bounds' = [bounds EXCEPT !.selects = @ + 1]
  /\ panel' = [panel EXCEPT ![t].selected = i,
                            ![t].calls = IF @ = <<>> THEN Queue(t, NewCall("detail", i, "none")) ELSE @]
  /\ UNCHANGED <<issue, notes, now>>

Select(t) == \E i \in panel[t].shown \ {panel[t].selected} :
  /\ bounds.selects < MaxSelects /\ bounds' = [bounds EXCEPT !.selects = @ + 1]
  /\ panel' = [panel EXCEPT ![t].selected = i, ![t].calls = Queue(t, NewCall("detail", i, "none"))]
  /\ UNCHANGED <<issue, notes, now>>

\* The workflow buttons and the comment are there while the selection is listed.
Press(t, op, what) ==
  /\ panel[t].selected \in panel[t].shown
  /\ bounds.changes < MaxChanges /\ bounds' = [bounds EXCEPT !.changes = @ + 1]
  /\ panel' = [panel EXCEPT ![t].calls = Queue(t, NewCall(op, panel[t].selected, what))]
  /\ UNCHANGED <<issue, notes, now>>
PressButton(t) == \E s \in Buttons : Press(t, "update", s)
PressComment(t) == Press(t, "comment", "none")
-----------------------------------------------------------------------------
(* The handlers. *)

Serving(t, op, at) == panel[t].calls # <<>> /\ Head(panel[t].calls).op = op /\ Head(panel[t].calls).at = at
It(t) == Head(panel[t].calls)
Becomes(t, c) == panel' = [panel EXCEPT ![t].calls[1] = c]

\* GET /errors and GET /errors/:issueId.
ReadIssues(t) ==
  /\ Serving(t, "list", "first")
  /\ Becomes(t, [It(t) EXCEPT !.at = "answered", !.list = ListIssues(It(t).what)])
  /\ UNCHANGED <<issue, notes, now, bounds>>
ReadDetail(t) ==
  /\ Serving(t, "detail", "first")
  /\ Becomes(t, [It(t) EXCEPT !.at = "answered"])
  /\ UNCHANGED <<issue, notes, now, bounds>>

\* muted_until is set by a mute, and never reset.
Until(i, status) == IF status = "muted" THEN now + MuteTime ELSE issue[i].until

\* last numbers the updates.
Changed(i, status) ==
  [issue[i] EXCEPT !.status = status, !.until = Until(i, status), !.last = @ + 1,
                   !.mutedAt = IF status = "muted" THEN now ELSE @]

\* PATCH /errors/:issueId: the row, then the notification with what the row
\* held after this update.
UpdateIssue(t) ==
  /\ Serving(t, "update", "first")
  /\ issue' = [issue EXCEPT ![It(t).issue] = Changed(It(t).issue, It(t).what)]
  /\ Becomes(t, [It(t) EXCEPT !.at = "second", !.nth = issue'[It(t).issue].last])
  /\ UNCHANGED <<notes, now, bounds>>

\* POST /errors/:issueId/comments.
AddComment(t) ==
  /\ Serving(t, "comment", "first")
  /\ issue' = [issue EXCEPT ![It(t).issue].comments = @ + 1]
  /\ Becomes(t, [It(t) EXCEPT !.at = "second", !.nth = issue'[It(t).issue].comments])
  /\ UNCHANGED <<notes, now, bounds>>

Notify(t) ==
  /\ \E op \in {"update", "comment"} : Serving(t, op, "second")
  /\ notes' = notes \cup {[kind |-> It(t).op, issue |-> It(t).issue, what |-> It(t).what,
                           of |-> It(t).nth]}
  /\ Becomes(t, [It(t) EXCEPT !.at = "answered"])
  /\ UNCHANGED <<issue, now, bounds>>

\* A statement fails, or an answer is lost: the server action throws.
IssueCallFails(t) ==
  /\ panel[t].calls # <<>> /\ bounds.lost < MaxLost /\ bounds' = [bounds EXCEPT !.lost = @ + 1]
  /\ panel' = [panel EXCEPT ![t].calls = Tail(@), ![t].threw = TRUE]
  /\ UNCHANGED <<issue, notes, now>>
-----------------------------------------------------------------------------
(* The answers.  A status button does nothing with its answer; a comment reads  *)
(* the detail of the issue it was made for, whatever is selected by then.       *)

TakeIssueAnswer(t) ==
  LET c == It(t)
      p == [panel[t] EXCEPT !.calls = Tail(@)]
  IN /\ panel[t].calls # <<>> /\ c.at = "answered"
     /\ panel' = [panel EXCEPT ![t] =
          CASE c.op = "list" -> [p EXCEPT !.shown = c.list]
            [] c.op = "detail" -> [p EXCEPT !.detail = c.issue]
            [] c.op = "comment" -> [p EXCEPT !.calls = @ \o <<NewCall("detail", c.issue, "none")>>,
                                             !.crossed = @ \/ c.issue # panel[t].selected]
            [] OTHER -> p]
     /\ UNCHANGED <<issue, notes, now, bounds>>

Tick ==
  /\ now < MaxTime /\ now' = now + 1
  /\ UNCHANGED <<issue, notes, panel, bounds>>

IssueStep(t) == ReadIssues(t) \/ ReadDetail(t) \/ UpdateIssue(t) \/ AddComment(t) \/ Notify(t) \/ TakeIssueAnswer(t)

IssuesNext ==
  \/ \E t \in IssueTabs :
       \/ SetStatus(t) \/ Select(t) \/ PressButton(t) \/ PressComment(t)
       \/ IssueStep(t) \/ IssueCallFails(t)
  \/ Tick

IssuesSpec == IssuesInit /\ [][IssuesNext]_issueVars
-----------------------------------------------------------------------------
IssuesTypeOK ==
  /\ now \in 1 .. MaxTime
  /\ \A i \in IssueSet : issue[i].status \in Statuses /\ issue[i].until \in 0 .. MaxTime + MuteTime
  /\ \A t \in IssueTabs : panel[t].shown \subseteq IssueSet

\* Updates of two tabs and their notifications interleave, and some fail in
\* between: no notification tells of an update or a comment that was not made,
\* and none is told twice.
NotesTellWhatWasDone == \A n \in notes :
  /\ n.of <= (IF n.kind = "update" THEN issue[n.issue].last ELSE issue[n.issue].comments)
  /\ \A m \in notes : m.kind = n.kind /\ m.issue = n.issue /\ m.of = n.of => m = n

\* Once every handler is through and none has failed, the status an issue has is
\* the one its last notification tells.
LastNoteTellsTheStatus ==
  (bounds.lost = 0 /\ \A t \in IssueTabs : panel[t].calls = <<>>) =>
    \A i \in IssueSet : issue[i].last > 0 =>
      \E n \in notes : n.kind = "update" /\ n.issue = i /\ n.of = issue[i].last /\ n.what = issue[i].status

\* muted_until outlives the status it came with: still an issue is out of the
\* list only for the time of its last mute.
HiddenByItsMute == \A i \in IssueSet :
  ~Visible(i) => issue[i].mutedAt > 0 /\ now <= issue[i].mutedAt + MuteTime

\* At rest the detail is of the selected issue, unless a comment on another one
\* was answered after the selection had changed.
DetailIsOfTheSelected == \A t \in IssueTabs :
  panel[t].calls = <<>> /\ ~panel[t].threw /\ ~panel[t].crossed => panel[t].detail = panel[t].selected

\* What updates, comments, mutes and selections of several tabs keep: issues, their
\* notifications and what the panels show agree.
IssuesInv ==
  /\ IssuesTypeOK /\ NotesTellWhatWasDone /\ LastNoteTellsTheStatus
  /\ HiddenByItsMute /\ DetailIsOfTheSelected
=============================================================================
