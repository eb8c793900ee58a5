------------------------------ MODULE CuChecks ------------------------------
(***************************************************************************)
(* Compute-unit checks in CI: the action of tools/cu-regression-action,    *)
(* the API key it authenticates with (middlewares/solobserveAuth.ts), the  *)
(* handlers of apps/backend/src/routes/integrations.ts that record a run,  *)
(* compare it and promote it to a baseline, and the pages that issue keys  *)
(* and set thresholds.                                                     *)
(*                                                                         *)
(* The jobs of a behaviour run concurrently, against one program and with  *)
(* one key.  Compute units are small numbers and thresholds are percents.  *)
(***************************************************************************)
EXTENDS Integers, FiniteSets

CONSTANTS
  Jobs,       \* runs of the action
  Commits,
  Ixs,        \* instructions the tests measure
  Units,      \* medians a test run can show, 0 among them
  Limits,     \* thresholds the CI page can set
  MaxFaults   \* bound: failed statements

ASSUME CuAssumption ==
  Units \subseteq Nat /\ Limits \subseteq Nat /\ MaxFaults \in Nat

VARIABLES
  key,        \* "unissued", "live", "revoked"
  revoking,   \* whether the revocation has been answered
  job,        \* of each job: where it is, its commit and what it measured
  runs,       \* jobs with a row in cu_runs
  base,       \* rows of cu_baselines, by commit and instruction
  stamps,     \* captured_at as a counter
  limits,     \* cu_thresholds of the program
  faults

cuVars == <<key, revoking, job, runs, base, stamps, limits, faults>>

NoRow == [units |-> -1, run |-> "none", at |-> 0]
DefaultLimit == 5   \* threshold_percent of the action
None == -1

CuInit ==
  /\ key = "unissued" /\ revoking = "no"
  /\ job \in [Jobs -> [at : {"tests"}, commit : Commits, main : BOOLEAN, bypass : {FALSE},
                       units : [Ixs -> {None}], verdict : {"none"}, late : {FALSE}, todo : {{}}]]
  /\ runs = {}
  /\ base = [c \in Commits |-> [i \in Ixs |-> NoRow]]
  /\ stamps = 0
  /\ limits = [i \in Ixs |-> None]
  /\ faults = 0

Move(j, step) == job' = [job EXCEPT ![j].at = step]
Measured(j) == {i \in Ixs : job[j].units[i] # None}
-----------------------------------------------------------------------------
(* The key page. *)

\* The secret is in the answer to this request only.
CreateKey ==
  /\ key = "unissued" /\ key' = "live"
  /\ UNCHANGED <<revoking, job, runs, base, stamps, limits, faults>>

RevokeKey ==
  /\ key # "unissued" /\ revoking = "no"
  /\ key' = "revoked" /\ revoking' = "sent"
  /\ UNCHANGED <<job, runs, base, stamps, limits, faults>>

KeyRevoked ==
  /\ revoking = "sent" /\ revoking' = "answered"
  /\ UNCHANGED <<key, job, runs, base, stamps, limits, faults>>

\* The CI page sends the thresholds typed since it was opened, and no others.
SaveThresholds == \E typed \in [Ixs -> Limits \cup {None}] :
  /\ typed # limits /\ limits' = typed
  /\ UNCHANGED <<key, revoking, job, runs, base, stamps, faults>>
-----------------------------------------------------------------------------
(* The action. *)

\* The tests run; without a line of compute units there is nothing to send and
\* the backend refuses the body.
Measure(j) == \E u \in [Ixs -> Units \cup {None}], label \in BOOLEAN :
  /\ job[j].at = "tests"
  /\ job' = [job EXCEPT ![j].at = "send", ![j].units = u, ![j].bypass = label /\ ~job[j].main]
  /\ UNCHANGED <<key, revoking, runs, base, stamps, limits, faults>>

SendRun(j) ==
  /\ job[j].at = "send"
  /\ job' = [job EXCEPT ![j].at = "key", ![j].late = revoking = "answered"]
  /\ UNCHANGED <<key, revoking, runs, base, stamps, limits, faults>>

\* The answer decides the check.
Conclude(j) ==
  /\ job[j].at = "answered"
  /\ Move(j, IF job[j].verdict = "regressed" /\ ~job[j].bypass THEN "failed" ELSE "passed")
  /\ UNCHANGED <<key, revoking, runs, base, stamps, limits, faults>>
-----------------------------------------------------------------------------
(* solobserveAuth. *)

\* Mutant of KeyIsLive: the lookup does not ask for revokedAt to be null.
KeyExists == key # "unissued"

KeyIsLive == key = "live"

\* The row is looked up, then its secret compared: what happens to the row in
\* between is not seen.
LookUpKey(j) ==
  /\ job[j].at = "key"
  /\ Move(j, IF KeyIsLive THEN "compare" ELSE "failed")
  /\ UNCHANGED <<key, revoking, runs, base, stamps, limits, faults>>

CompareSecret(j) ==
  /\ job[j].at = "compare"
  /\ Move(j, IF Measured(j) = {} THEN "failed" ELSE "record")
  /\ UNCHANGED <<key, revoking, runs, base, stamps, limits, faults>>
-----------------------------------------------------------------------------
(* POST /github/cu-runs. *)

RecordRun(j) ==
  /\ job[j].at = "record"
  /\ runs' = runs \cup {j}
  /\ Move(j, "judge")
  /\ UNCHANGED <<key, revoking, base, stamps, limits, faults>>

\* The newest row of an instruction, whatever its commit.
Baseline(i) ==
  LET rows == {c \in Commits : base[c][i].units # None}
  IN IF rows = {} THEN None
     ELSE base[CHOOSE c \in rows : \A d \in rows : base[d][i].at <= base[c][i].at][i].units

LimitOf(i) == IF limits[i] = None THEN DefaultLimit ELSE limits[i]

\* pct > threshold, where pct is null without a baseline or with one of zero.
Regressed(i, before, after) ==
  before > 0 /\ 100 * (after - before) > LimitOf(i) * before

Promoted(j) == IF job[j].main THEN Measured(j) ELSE {}

Judge(j) ==
  /\ job[j].at = "judge"
  /\ LET bad == \E i \in Measured(j) : Regressed(i, Baseline(i), job[j].units[i])
     IN job' = [job EXCEPT ![j].verdict = IF bad THEN "regressed" ELSE "fine",
                           ![j].at = IF job[j].main THEN "promote" ELSE "answered",
                           ![j].todo = Promoted(j)]
  /\ UNCHANGED <<key, revoking, runs, base, stamps, limits, faults>>

\* The row an upsert leaves: the update does not touch captured_at.
Row(j, c, i) ==
  [units |-> job[j].units[i], run |-> j,
   at |-> IF base[c][i].units = None THEN stamps + 1 ELSE base[c][i].at]

\* Every run on the default branch becomes a baseline, one statement for each
\* instruction.
Promote(j) ==
  /\ job[j].at = "promote"
  /\ IF job[j].todo = {}
     THEN Move(j, "answered") /\ UNCHANGED <<base, stamps>>
     ELSE \E i \in job[j].todo :
            LET c == job[j].commit
            IN /\ base' = [base EXCEPT ![c][i] = Row(j, c, i)]
               /\ stamps' = IF base[c][i].units = None THEN stamps + 1 ELSE stamps
               /\ job' = [job EXCEPT ![j].todo = @ \ {i}]
  /\ UNCHANGED <<key, revoking, runs, limits, faults>>

\* A statement fails, the answer is no success, and the action fails.
RunFails(j) ==
  /\ job[j].at \in {"key", "record", "judge", "promote"}
  /\ faults < MaxFaults /\ faults' = faults + 1
  /\ Move(j, "failed")
  /\ UNCHANGED <<key, revoking, runs, base, stamps, limits>>

JobStep(j) ==
  \/ Measure(j) \/ SendRun(j) \/ LookUpKey(j) \/ CompareSecret(j)
  \/ RecordRun(j) \/ Judge(j) \/ Promote(j) \/ Conclude(j)

CuNext ==
  \/ CreateKey \/ RevokeKey \/ KeyRevoked \/ SaveThresholds
  \/ \E j \in Jobs : JobStep(j) \/ RunFails(j)

CuSpec == CuInit /\ [][CuNext]_cuVars
-----------------------------------------------------------------------------
CuTypeOK ==
  /\ runs \subseteq Jobs /\ stamps \in Nat
  /\ \A c \in Commits, i \in Ixs : base[c][i].units \in Units \cup {None}

\* A key whose revocation has been answered records no run that was sent later,
\* however long the requests sent before it take.
RevokedKeyRecordsNothing == \A j \in runs : ~job[j].late

\* Jobs for one commit write its rows in any order, and mix: still each row
\* holds what the run it names has measured, on the default branch.
BaselineIsItsRuns == \A c \in Commits, i \in Ixs :
  base[c][i].units # None =>
    LET j == base[c][i].run
    IN j \in runs /\ job[j].main /\ job[j].commit = c /\ job[j].units[i] = base[c][i].units

\* A check that is told its outcome on the default branch has moved the
\* baseline of every instruction it measured; one that failed may have moved some.
AnsweredIsPromoted == \A j \in Jobs :
  job[j].verdict # "none" /\ job[j].main /\ job[j].at \in {"answered", "passed"} =>
    \A i \in Measured(j) : base[job[j].commit][i].units # None

\* What checks of several jobs and a revocation keep: rows name the run they are
\* of, and answers come after the baseline has moved.
CuInv ==
  /\ CuTypeOK /\ RevokedKeyRecordsNothing /\ BaselineIsItsRuns /\ AnsweredIsPromoted
=============================================================================
