------------------------------- MODULE Replay -------------------------------
(***************************************************************************)
(* Replays: the handlers /replay of routes/programs.ts, which call the     *)
(* replay service and keep what it answers in replay_results, the replay   *)
(* panel and the page for bulk replays.                                    *)
(*                                                                         *)
(* A handler runs its job, or all jobs of a bulk one after the other,      *)
(* before it answers; between two statements other handlers run, the       *)
(* service fails, Postgres fails, or the backend restarts and its handlers *)
(* are gone.  The server actions of a tab run in order.                    *)
(***************************************************************************)
EXTENDS Naturals, Sequences, FiniteSets

CONSTANTS
  ReplayTabs,  \* tabs with the panel and the bulk page
  Sigs,        \* transaction signatures
  NoSig,       \* nothing typed
  MaxResults,  \* bound: rows of replay_results
  MaxAsks,     \* bound: clicks
  MaxHarm      \* bound: failures and restarts

ASSUME ReplayAssumption ==
  NoSig \notin Sigs /\ MaxResults \in Nat /\ MaxAsks \in Nat /\ MaxHarm \in Nat

VARIABLES
  results,    \* replay_results in the order of their creation
  scenarios,  \* replay_scenarios: the signature, and whose modifications
  rtab,       \* of each tab: its calls, the signature typed, what it shows
  asks,
  harm,
  orphaned    \* rows whose handler ended before it wrote their outcome

replayVars == <<results, scenarios, rtab, asks, harm, orphaned>>

Unfinished == {"queued", "running"}
Outcomes == {"succeeded", "failed"}

\* at: the next statement; row: the row it is about; bulk: the rows of a bulk;
\* outcome: what the service said; mods: the scenario the modifications are of.
Ask(op, sig, mods) ==
  [op |-> op, sig |-> sig, mods |-> mods, at |-> "gate", row |-> 0, bulk |-> {}, outcome |-> "none",
   read |-> [done |-> 0, total |-> 0]]

ReplayInit ==
  /\ results = <<>> /\ scenarios = {}
  /\ rtab = [t \in ReplayTabs |-> [calls |-> <<>>, sig |-> NoSig, shown |-> {}, bulk |-> {},
                                   status |-> [done |-> 0, total |-> 0], of |-> {}]]
  /\ asks = 0 /\ harm = 0 /\ orphaned = {}

Done(rows) == {n \in rows : results[n].status \in Outcomes}
-----------------------------------------------------------------------------
(* The panel and the page. *)

ClickReplay(t, call) ==
  /\ asks < MaxAsks /\ asks' = asks + 1
  /\ rtab' = [rtab EXCEPT ![t].calls = Append(@, call)]
  /\ UNCHANGED <<results, scenarios, harm, orphaned>>

TypeSig(t) == \E s \in Sigs \ {rtab[t].sig} :
  /\ asks < MaxAsks /\ asks' = asks + 1
  /\ rtab' = [rtab EXCEPT ![t].sig = s]
  /\ UNCHANGED <<results, scenarios, harm, orphaned>>

RunReplay(t) == rtab[t].sig # NoSig /\ ClickReplay(t, Ask("run", rtab[t].sig, NoSig))
QueueJob(t) == rtab[t].sig # NoSig /\ ClickReplay(t, Ask("job", rtab[t].sig, NoSig))
SaveScenario(t) == rtab[t].sig # NoSig /\ ClickReplay(t, Ask("save", rtab[t].sig, rtab[t].sig))

\* The click sets the field to the scenario's signature and calls onRun, which
\* still sees the field as it was when the panel was last drawn.
Rerun(t) == \E s \in scenarios :
  /\ asks < MaxAsks /\ asks' = asks + 1
  /\ rtab' = [rtab EXCEPT ![t] = [rtab[t] EXCEPT !.sig = s,
                !.calls = IF rtab[t].sig = NoSig THEN @ ELSE Append(@, Ask("run", rtab[t].sig, s))]]
  /\ UNCHANGED <<results, scenarios, harm, orphaned>>

BulkReplay(t) == ClickReplay(t, Ask("bulk", NoSig, NoSig))
RefreshProgress(t) == rtab[t].bulk # {} /\ ClickReplay(t, [Ask("progress", NoSig, NoSig) EXCEPT !.bulk = rtab[t].bulk])

UserReplays(t) ==
  \/ TypeSig(t) \/ RunReplay(t) \/ QueueJob(t) \/ SaveScenario(t) \/ Rerun(t)
  \/ BulkReplay(t) \/ RefreshProgress(t)
-----------------------------------------------------------------------------
(* The handlers. *)

Doing(t, ops, at) ==
  rtab[t].calls # <<>> /\ Head(rtab[t].calls).op \in ops /\ Head(rtab[t].calls).at = at
Its(t) == Head(rtab[t].calls)
HeadBecomes(t, call) == rtab' = [rtab EXCEPT ![t].calls[1] = call]
Step(t, at) == HeadBecomes(t, [Its(t) EXCEPT !.at = at])
Quietly == UNCHANGED <<scenarios, asks, harm, orphaned>>

\* Access, body, and modifications that do not fit the latest IDL.
PassGate(t) ==
  /\ rtab[t].calls # <<>> /\ Its(t).at = "gate"
  /\ \/ Step(t, CASE Its(t).op = "run" -> "simulate" [] OTHER -> "rows")
     \/ Its(t).op \in {"run", "job", "save", "bulk"} /\ Step(t, "refused")
  /\ UNCHANGED results /\ Quietly

\* The row of a job, before the service is asked.
CreateJob(t) ==
  /\ Doing(t, {"job"}, "rows") /\ Len(results) < MaxResults
  /\ results' = Append(results, [sig |-> Its(t).sig, status |-> "running", said |-> "none"])
  /\ HeadBecomes(t, [Its(t) EXCEPT !.at = "simulate", !.row = Len(results) + 1])
  /\ Quietly

\* One transaction makes all rows of a bulk, one for each signature found.
CreateBulk(t) == \E n \in 0 .. MaxResults - Len(results) :
  /\ Doing(t, {"bulk"}, "rows")
  /\ \E found \in [1 .. n -> Sigs] :
       results' = results \o [k \in 1 .. n |-> [sig |-> found[k], status |-> "queued", said |-> "none"]]
  /\ LET rows == Len(results) + 1 .. Len(results) + n
     IN HeadBecomes(t, [Its(t) EXCEPT !.bulk = rows, !.row = Len(results) + 1,
                                      !.at = IF n = 0 THEN "ok" ELSE "simulate"])
  /\ Quietly

\* callReplayService: an outcome, or an error it throws.
Simulate(t) == \E out \in Outcomes \cup {"threw"} :
  /\ Doing(t, {"run", "job", "bulk"}, "simulate")
  /\ HeadBecomes(t, [Its(t) EXCEPT !.outcome = out,
                                   !.at = CASE out = "threw" /\ Its(t).op # "bulk" -> "threw"
                                            [] out # "threw" /\ Its(t).op = "run" -> "ok"
                                            [] OTHER -> "write"])
  /\ orphaned' = IF out = "threw" /\ Its(t).op = "job" THEN orphaned \cup {Its(t).row} ELSE orphaned
  /\ UNCHANGED <<results, scenarios, asks, harm>>

\* Mutant of Outcome: a row whose simulation throws is queued again.
OutcomeOrQueued(t) == IF Its(t).outcome = "threw" THEN "queued" ELSE Its(t).outcome

\* What is written: the catch of the bulk loop writes failed.
Outcome(t) == IF Its(t).outcome = "threw" THEN "failed" ELSE Its(t).outcome

Following(t) == {n \in Its(t).bulk : n > Its(t).row}

\* The outcome of one row; the loop goes on with the next.
WriteOutcome(t) ==
  /\ Doing(t, {"job", "bulk"}, "write")
  /\ results' = [results EXCEPT ![Its(t).row] =
                   [results[Its(t).row] EXCEPT !.status = Outcome(t), !.said = Its(t).outcome]]
  /\ HeadBecomes(t, IF Following(t) = {} THEN [Its(t) EXCEPT !.at = "ok"]
                    ELSE [Its(t) EXCEPT !.at = "simulate", !.row = @ + 1])
  /\ Quietly

\* That statement fails.  The loop catches it once and writes failed; a failure
\* of that, as of the job's only one, ends the handler.
WriteFails(t) ==
  /\ Doing(t, {"job", "bulk"}, "write") /\ harm < MaxHarm /\ harm' = harm + 1
  /\ IF Its(t).op = "bulk" /\ Its(t).outcome # "threw"
     THEN HeadBecomes(t, [Its(t) EXCEPT !.outcome = "threw"]) /\ UNCHANGED orphaned
     ELSE Step(t, "threw") /\ orphaned' = orphaned \cup {Its(t).row} \cup Following(t)
  /\ UNCHANGED <<results, scenarios, asks>>

\* GET /replay/jobs/:jobId and GET /replay/bulk/:bulkId: the row or rows now.
ReadJob(t) ==
  /\ Doing(t, {"result"}, "rows")
  /\ HeadBecomes(t, [Its(t) EXCEPT !.at = "ok", !.outcome = results[Its(t).row].status])
  /\ UNCHANGED results /\ Quietly
ReadBulk(t) ==
  /\ Doing(t, {"progress"}, "rows")
  /\ HeadBecomes(t, [Its(t) EXCEPT !.at = "ok",
                                   !.read = [done |-> Cardinality(Done(Its(t).bulk)),
                                             total |-> Cardinality(Its(t).bulk)]])
  /\ UNCHANGED results /\ Quietly

\* POST and GET /replay/scenarios: the panel shares what it saves.
CreateScenario(t) ==
  /\ Doing(t, {"save"}, "rows")
  /\ scenarios' = scenarios \cup {Its(t).sig} /\ Step(t, "ok")
  /\ UNCHANGED <<results, asks, harm, orphaned>>

\* The backend restarts: every request is answered by an error of the network.
BackendRestarts ==
  /\ harm < MaxHarm /\ harm' = harm + 1
  /\ LET hit == {t \in ReplayTabs : rtab[t].calls # <<>> /\ Its(t).at \in {"gate", "rows", "simulate", "write"}}
         left == {t \in hit : Its(t).row > 0 /\ Its(t).op \in {"job", "bulk"}}
     IN /\ hit # {}
        /\ rtab' = [t \in ReplayTabs |-> IF t \notin hit THEN rtab[t]
                                         ELSE [rtab[t] EXCEPT !.calls[1] = [Its(t) EXCEPT !.at = "threw"]]]
        /\ orphaned' = orphaned \cup UNION {{Its(t).row} \cup Following(t) : t \in left}
  /\ UNCHANGED <<results, scenarios, asks>>

ServeReplay(t) ==
  \/ PassGate(t) \/ CreateJob(t) \/ CreateBulk(t) \/ Simulate(t) \/ WriteOutcome(t)
  \/ ReadJob(t) \/ ReadBulk(t) \/ CreateScenario(t)
-----------------------------------------------------------------------------
(* The answers. *)

\* The page names the bulk and reads its progress.
Tracked(p, c) ==
  [p EXCEPT !.bulk = c.bulk,
            !.calls = Append(@, [Ask("progress", NoSig, NoSig) EXCEPT !.bulk = c.bulk])]

\* A job that answers is read, as is a bulk; a refusal makes the page forget
\* its bulk, and a call that threw ends its click.
TakeAnswer(t) ==
  /\ rtab[t].calls # <<>> /\ Its(t).at \in {"ok", "refused", "threw"}
  /\ LET c == Its(t)
         p == [rtab[t] EXCEPT !.calls = Tail(@)]
         q == Tail(rtab[t].calls)
         then(next) == Append(q, [next EXCEPT !.at = "gate"])
     IN rtab' = [rtab EXCEPT ![t] =
          CASE c.at = "threw" -> p
            [] c.at # "threw" /\ c.op \in {"run", "result"} ->
                 [p EXCEPT !.shown = {[sig |-> c.sig, mods |-> c.mods, got |-> c.outcome]}]
            [] c.op = "job" /\ c.at = "ok" ->
                 [p EXCEPT !.calls = then([Ask("result", c.sig, c.mods) EXCEPT !.row = c.row])]
            [] c.op = "bulk" /\ c.at = "ok" -> Tracked(p, c)
            [] c.op = "bulk" /\ c.at = "refused" -> [p EXCEPT !.bulk = {}]
            [] c.op = "progress" /\ c.at # "threw" -> [p EXCEPT !.status = c.read, !.of = c.bulk]
            [] OTHER -> p]
  /\ UNCHANGED <<results, scenarios, asks, harm, orphaned>>

ReplayNext ==
  \/ \E t \in ReplayTabs : UserReplays(t) \/ ServeReplay(t) \/ WriteFails(t) \/ TakeAnswer(t)
  \/ BackendRestarts

\* The service answers or throws, Postgres answers, a tab takes its answers.
ReplayFairness == \A t \in ReplayTabs : WF_replayVars(ServeReplay(t) \/ TakeAnswer(t))

ReplaySpec == ReplayInit /\ [][ReplayNext]_replayVars /\ ReplayFairness
-----------------------------------------------------------------------------
ReplayTypeOK ==
  /\ Len(results) <= MaxResults /\ orphaned \subseteq 1 .. Len(results)
  /\ \A n \in 1 .. Len(results) : results[n].status \in Unfinished \cup Outcomes

Working(n) == \E t \in ReplayTabs :
  /\ rtab[t].calls # <<>> /\ Its(t).op \in {"job", "bulk"} /\ Its(t).at \in {"simulate", "write"}
  /\ n = Its(t).row \/ n \in Following(t)

\* A row that says queued or running has a handler that works on it or comes to
\* it: only a restart, a failed write, or for a single job a service that threw,
\* leaves it like that for ever, and nothing picks it up again.
UnfinishedIsWorkedOn == \A n \in 1 .. Len(results) :
  results[n].status \in Unfinished => Working(n) \/ n \in orphaned

\* A row says succeeded if and only if the service said so of it and it was
\* written; a bulk's loop survives what the service throws.
SucceededWasSaid == \A n \in 1 .. Len(results) :
  /\ results[n].status = "succeeded" <=> results[n].said = "succeeded"
  /\ results[n].status = "failed" => results[n].said \in {"failed", "threw"}

\* Rows of a bulk finish in their order, and a page that was told it was queued
\* sees all of it finished.
BulksFinishInOrder == \A t \in ReplayTabs :
  /\ rtab[t].status.done = rtab[t].status.total
  /\ Doing(t, {"bulk"}, "simulate") => \A n \in Its(t).bulk : n < Its(t).row <=> n \in Done(Its(t).bulk)

\* With clicks, refusals and errors in between, the progress a tab at rest shows
\* is of the bulk it names.
ProgressIsOfItsBulk == \A t \in ReplayTabs :
  rtab[t].calls = <<>> /\ rtab[t].bulk # {} => rtab[t].of = rtab[t].bulk \/ harm > 0

\* Every row that is made is finished or orphaned in the end.
RowsAreSettled == \A n \in 1 .. MaxResults :
  (n \in 1 .. Len(results)) ~> (n \in Done(1 .. Len(results)) \cup orphaned)

\* What jobs, bulks, failures and restarts keep: rows tell what the service said,
\* and rows that are not finished have somebody working on them.
ReplayInv ==
  /\ ReplayTypeOK /\ UnfinishedIsWorkedOn /\ SucceededWasSaid /\ BulksFinishInOrder
  /\ ProgressIsOfItsBulk
=============================================================================
