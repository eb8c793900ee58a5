----------------------------- MODULE MCPrograms ------------------------------
(***************************************************************************)
(* What is shown of a program: issues, the state timeline, dashboards and  *)
(* their panels with what they query and draw, replays, the live search,   *)
(* what the backend makes of an IDL, and two overlays of live mode, for    *)
(* TLC.  A behaviour chooses one of them and leaves the others in one      *)
(* initial state.                                                          *)
(***************************************************************************)
EXTENDS Issues, StateScrub, Workspace, PanelData, Replay, LiveStream, Intake, Figures, Annotations, Tuning

VARIABLE view

programsVars ==
  <<view, issueVars, scrubVars, workVars, panelVars, replayVars, streamVars, queryVars, intakeVars, figureVars, annotVars,
    tuningVars>>

AnyText == CHOOSE text \in Texts : TRUE
AnyCall == [at |-> CHOOSE m \in Moments : TRUE] @@ CHOOSE c \in Call : TRUE

ProgramsInit ==
  /\ view \in {"issues", "state", "dashboards", "panel", "replay", "stream", "query", "intake", "figures", "notes", "tuning"}
  /\ IssuesInit /\ ScrubInit /\ WorkInit /\ PanelInit /\ ReplayInit /\ StreamInit /\ AnnotationsInit
  /\ IF view = "query" THEN QueryInit ELSE happened = <<AnyCall, AnyCall>> /\ NothingAsked
  /\ IF view = "intake" THEN IntakeInit ELSE idl = <<>> /\ NothingDone
  /\ IF view = "figures" THEN FiguresInit ELSE points = <<>> /\ drawn = NoFigures
  /\ TuningInit /\ (view # "tuning" => knobs[2] = "toggle")
  /\ view # "panel" => ~shared /\ runtime.text = AnyText

IssuesView ==
  /\ view = "issues" /\ IssuesNext
  /\ UNCHANGED <<scrubVars, workVars, panelVars, replayVars, streamVars, queryVars, intakeVars, figureVars, annotVars, tuningVars>>
StateView ==
  /\ view = "state" /\ ScrubNext
  /\ UNCHANGED <<issueVars, workVars, panelVars, replayVars, streamVars, queryVars, intakeVars, figureVars, annotVars, tuningVars>>
DashboardsView ==
  /\ view = "dashboards" /\ WorkNext
  /\ UNCHANGED <<issueVars, scrubVars, panelVars, replayVars, streamVars, queryVars, intakeVars, figureVars, annotVars, tuningVars>>
PanelView ==
  /\ view = "panel" /\ PanelNext
  /\ UNCHANGED <<issueVars, scrubVars, workVars, replayVars, streamVars, queryVars, intakeVars, figureVars, annotVars, tuningVars>>
ReplayView ==
  /\ view = "replay" /\ ReplayNext
  /\ UNCHANGED <<issueVars, scrubVars, workVars, panelVars, streamVars, queryVars, intakeVars, figureVars, annotVars, tuningVars>>
StreamView ==
  /\ view = "stream" /\ StreamNext
  /\ UNCHANGED <<issueVars, scrubVars, workVars, panelVars, replayVars, queryVars, intakeVars, figureVars, annotVars, tuningVars>>
QueryView ==
  /\ view = "query" /\ QueryNext
  /\ UNCHANGED <<issueVars, scrubVars, workVars, panelVars, replayVars, streamVars, intakeVars, figureVars, annotVars, tuningVars>>
IntakeView ==
  /\ view = "intake" /\ IntakeNext
  /\ UNCHANGED <<issueVars, scrubVars, workVars, panelVars, replayVars, streamVars, queryVars, figureVars, annotVars, tuningVars>>
FiguresView ==
  /\ view = "figures" /\ DrawFigures
  /\ UNCHANGED <<issueVars, scrubVars, workVars, panelVars, replayVars, streamVars, queryVars, intakeVars, annotVars, tuningVars>>
NotesView ==
  /\ view = "notes" /\ AnnotationsNext
  /\ UNCHANGED <<issueVars, scrubVars, workVars, panelVars, replayVars, streamVars, queryVars, intakeVars, figureVars, tuningVars>>
TuningView ==
  /\ view = "tuning" /\ TuningNext
  /\ UNCHANGED <<issueVars, scrubVars, workVars, panelVars, replayVars, streamVars, queryVars, intakeVars, figureVars, annotVars>>

ProgramsNext ==
  /\ \/ IssuesView \/ StateView \/ DashboardsView \/ PanelView \/ ReplayView \/ StreamView
     \/ QueryView \/ IntakeView \/ FiguresView \/ NotesView \/ TuningView
  /\ UNCHANGED view

ProgramsSpec == ProgramsInit /\ [][ProgramsNext]_programsVars

\* What is shown and sent is what was asked for, pressed or set, but for the
\* differences the parts name: of a query, of an IDL's use, of what is drawn, of pins
\* on a page, and of the parameters of its variants.
DataInv ==
  /\ view = "query" => QueryInv
  /\ view = "intake" => IntakeInv
  /\ view = "figures" => FiguresInv
  /\ view = "notes" => AnnotationsInv
  /\ view = "tuning" => TuningInv

Clients == Permutations(WorkTabs) \cup Permutations(Accounts) \cup Permutations(IssueSet)
==============================================================================
