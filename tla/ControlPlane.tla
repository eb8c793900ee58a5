---------------------------- MODULE ControlPlane ----------------------------
(***************************************************************************)
(* Registering a program, uploading IDLs and steering its ingestion: the   *)
(* handlers of the backend (apps/backend/src/routes/programs.ts), the      *)
(* server actions of the web interface that call them, and the dialogs and *)
(* panels that wait for the answers.                                       *)
(*                                                                         *)
(* A handler is a sequence of statements to Postgres, ClickHouse and NATS. *)
(* Each is a step; between two of them the other tabs' handlers run, and   *)
(* any of them may fail.  Only registration and upload use a transaction.  *)
(* Next runs the server actions of one tab one after the other, so a tab   *)
(* has one call at a time.  There is one program address on one cluster.   *)
(***************************************************************************)
EXTENDS Naturals, FiniteSets

CONSTANTS
  Tabs,        \* browser tabs and API clients
  Editors,     \* those whose member may edit
  MaxVersion,  \* bound: IDL versions
  MaxCalls,    \* bound: calls of all tabs that change something
  MaxFails     \* bound: failed statements

ASSUME ControlPlaneAssumption ==
  /\ Editors \subseteq Tabs
  /\ MaxVersion \in Nat \ {0} /\ MaxCalls \in Nat /\ MaxFails \in Nat

VARIABLES
  db,     \* Postgres: the program, its IDL versions with their uploader, the
          \* ingestion config, and how many upserts and audit rows there were
  sent,   \* rows of idl_versions in ClickHouse, messages on ingest.control
  call,   \* of each tab: the handler it waits for
  page,   \* of each tab: what its ingestion panel and its dialogs show
  budget  \* calls and failures so far

cpVars == <<db, sent, call, page, budget>>

Steering == {"start", "stop", "backfill"}
Adding   == {"register", "upload", "track"}
Configs  == {"none", "on", "off"}
Replies  == {"ok", "refused", "failed", "conflict", "html"}
Steps    == {"gate", "row", "read", "commit", "publish", "audit", "chrow"}

\* read: the version an upload read; flag: what a registration asks for, and the
\* enabled flag a status call read; for: the click a status call belongs to.
NoCall == [op |-> "none", at |-> "idle", read |-> 0, flag |-> FALSE, for |-> "none"]
Load(for) == [NoCall EXCEPT !.op = "status", !.at = "gate", !.for = for]

CPInit ==
  /\ db = [by |-> [v \in {} |-> 0], config |-> "none", tracked |-> FALSE,
           upserts |-> [o \in Steering |-> 0], audits |-> [o \in Steering |-> 0]]
  /\ sent = [applied |-> [v \in 1 .. MaxVersion |-> 0], control |-> [o \in Steering |-> 0]]
  /\ call = [t \in Tabs |-> NoCall]
  /\ page = [t \in Tabs |-> [busy |-> FALSE, running |-> FALSE, threw |-> FALSE]]
  /\ budget = [calls |-> 0, fails |-> 0]

\* The transaction of a registration writes version 1 with the program.
Versions == DOMAIN db.by
Registered == 1 \in Versions
-----------------------------------------------------------------------------
(* The tab. *)

Send(t, op, auto) ==
  /\ call[t] = NoCall /\ budget.calls < MaxCalls
  /\ call' = [call EXCEPT ![t] = [NoCall EXCEPT !.op = op, !.at = "gate", !.flag = auto]]
  /\ budget' = [budget EXCEPT !.calls = @ + 1]
  /\ UNCHANGED <<db, sent>>

\* The buttons of the panel look at busy and at what was loaded last.
Click(t, op) ==
  /\ ~page[t].busy
  /\ Send(t, op, FALSE)
  /\ page' = [page EXCEPT ![t].busy = TRUE]
ClickStart(t) == ~page[t].running /\ Click(t, "start")
ClickStop(t) == page[t].running /\ Click(t, "stop")
ClickBackfill(t) == Click(t, "backfill")
AddAccount(t) == Click(t, "track")

SubmitProgram(t) == \E auto \in BOOLEAN : Send(t, "register", auto) /\ UNCHANGED page
SubmitIdl(t) == Send(t, "upload", FALSE) /\ UNCHANGED page

\* The interval of five seconds.
Poll(t) ==
  /\ call[t] = NoCall
  /\ call' = [call EXCEPT ![t] = Load("none")]
  /\ UNCHANGED <<db, sent, page, budget>>

\* An answer that is no JSON makes the server action throw: the handler of the
\* click ends there, and nothing resets busy.
Throws(t) ==
  /\ call[t].at = "html"
  /\ call' = [call EXCEPT ![t] = NoCall]
  /\ page' = [page EXCEPT ![t].threw = @ \/ call[t].for # "none" \/ call[t].op \in Steering \cup {"track"}]
  /\ UNCHANGED <<db, sent, budget>>

Answered(t, ops) == call[t].op \in ops /\ call[t].at \in Replies \ {"html"}

\* onStart, onStop and onBackfill do not look at the answer, they load.
ThenLoad(t) ==
  /\ Answered(t, Steering)
  /\ call' = [call EXCEPT ![t] = Load(call[t].op)]
  /\ UNCHANGED <<db, sent, page, budget>>

\* onAddAccount looks at it, and loads with busy reset.
AccountAdded(t) ==
  /\ Answered(t, {"track"})
  /\ page' = [page EXCEPT ![t].busy = FALSE]
  /\ call' = [call EXCEPT ![t] = IF call[t].at = "ok" THEN Load("none") ELSE NoCall]
  /\ UNCHANGED <<db, sent, budget>>

\* Mutant of Loaded: what is loaded without a click is forgotten.
LoadedByClicks(t) ==
  /\ Answered(t, {"status"})
  /\ page' = [page EXCEPT ![t].running = IF call[t].for = "none" THEN @ ELSE call[t].at = "ok" /\ call[t].flag,
                          ![t].busy = @ /\ call[t].for = "none"]
  /\ call' = [call EXCEPT ![t] = NoCall]
  /\ UNCHANGED <<db, sent, budget>>

\* setData, and the end of the click that asked for the load.
Loaded(t) ==
  /\ Answered(t, {"status"})
  /\ page' = [page EXCEPT ![t].running = call[t].at = "ok" /\ call[t].flag,
                          ![t].busy = @ /\ call[t].for = "none"]
  /\ call' = [call EXCEPT ![t] = NoCall]
  /\ UNCHANGED <<db, sent, budget>>

\* The dialog and the API client show what they were told.
Told(t) ==
  /\ Answered(t, {"register", "upload"})
  /\ call' = [call EXCEPT ![t] = NoCall]
  /\ UNCHANGED <<db, sent, page, budget>>
-----------------------------------------------------------------------------
(* The handlers. *)

At(t, op, step) == call[t].op = op /\ call[t].at = step
Goto(t, step) == call' = [call EXCEPT ![t].at = step]
Quiet == UNCHANGED <<page, budget>>

\* Mutant of First: the message is sent before the row is there.
FirstPublish(op) ==
  CASE op = "register" -> "commit"
    [] op = "upload" -> "read"
    [] op \in {"start", "backfill"} -> "publish"
    [] OTHER -> "row"

First(op) ==
  CASE op = "register" -> "commit"
    [] op = "upload" -> "read"
    [] op = "backfill" -> "publish"
    [] OTHER -> "row"

\* solobserveAuth, the program, assertOrgAccess, and a body that its schema or
\* the parser of IDLs may not accept.
WithBody == {"register", "upload", "backfill", "track"}
Gate(t) ==
  /\ call[t].at = "gate"
  /\ LET known == call[t].op = "register" \/ Registered
         allowed == call[t].op = "status" \/ t \in Editors
     IN \/ known /\ allowed /\ Goto(t, First(call[t].op))
        \/ (known /\ allowed => call[t].op \in WithBody) /\ Goto(t, "refused")
  /\ UNCHANGED <<db, sent>> /\ Quiet

\* A row idls (program, version), refused when there is one.
Add(v, t) == [x \in Versions \cup {v} |-> IF x \in Versions THEN db.by[x] ELSE t]

\* One transaction: program, IDL 1, notification, dashboard, config, audit.
Register(t) ==
  /\ At(t, "register", "commit")
  /\ IF Registered
     THEN Goto(t, "conflict") /\ UNCHANGED db
     ELSE /\ db' = [db EXCEPT !.by = Add(1, t), !.config = IF call[t].flag THEN "on" ELSE @]
          /\ Goto(t, IF call[t].flag THEN "publish" ELSE "chrow")
  /\ UNCHANGED sent /\ Quiet

\* The transaction of an upload reads the highest version ...
ReadVersion(t) ==
  /\ At(t, "upload", "read")
  /\ Cardinality(Versions) < MaxVersion
  /\ call' = [call EXCEPT ![t].at = "commit", ![t].read = Cardinality(Versions)]
  /\ UNCHANGED <<db, sent>> /\ Quiet

\* ... and inserts the next one, unless another upload has.
Upload(t) ==
  /\ At(t, "upload", "commit")
  /\ LET v == call[t].read + 1
     IN IF v \in Versions
        THEN Goto(t, "failed") /\ UNCHANGED db
        ELSE db' = [db EXCEPT !.by = Add(v, t)] /\ Goto(t, "chrow")
  /\ UNCHANGED sent /\ Quiet

\* writeIdlVersionRow: a failure is logged, the answer is the same.
WriteVersionRow(t) ==
  /\ call[t].at = "chrow"
  /\ LET v == IF call[t].op = "register" THEN 1 ELSE call[t].read + 1
     IN \/ sent' = [sent EXCEPT !.applied[v] = @ + 1] /\ UNCHANGED budget
        \/ /\ UNCHANGED sent
           /\ budget.fails < MaxFails /\ budget' = [budget EXCEPT !.fails = @ + 1]
  /\ Goto(t, "ok")
  /\ UNCHANGED <<db, page>>

\* ingestionConfig.upsert.
SetConfig(t, op, to) ==
  /\ At(t, op, "row")
  /\ db' = [db EXCEPT !.config = to, !.upserts[op] = @ + 1]
  /\ Goto(t, "publish")
  /\ UNCHANGED sent /\ Quiet
Start(t) == SetConfig(t, "start", "on")
Stop(t) == SetConfig(t, "stop", "off")

\* publishIngestControl, which a registration calls after its transaction.
Control(op) == IF op = "register" THEN "start" ELSE op
Publish(t) ==
  /\ call[t].at = "publish"
  /\ sent' = [sent EXCEPT !.control[Control(call[t].op)] = @ + 1]
  /\ Goto(t, IF call[t].op = "register" THEN "chrow" ELSE "audit")
  /\ UNCHANGED db /\ Quiet

\* A second row of one address breaks a unique constraint, outside any try.
TrackAccount(t) ==
  /\ At(t, "track", "row")
  /\ Goto(t, IF db.tracked THEN "html" ELSE "audit")
  /\ db' = [db EXCEPT !.tracked = TRUE]
  /\ UNCHANGED sent /\ Quiet

Audit(t) ==
  /\ call[t].at = "audit"
  /\ db' = IF call[t].op = "track" THEN db ELSE [db EXCEPT !.audits[call[t].op] = @ + 1]
  /\ Goto(t, "ok")
  /\ UNCHANGED sent /\ Quiet

Status(t) ==
  /\ At(t, "status", "row")
  /\ call' = [call EXCEPT ![t].at = "ok", ![t].flag = db.config = "on"]
  /\ UNCHANGED <<db, sent>> /\ Quiet

\* A statement rejects.  Only the transactions and what follows them answer
\* with JSON; a publish may have been stored although its answer was lost.
StatementFails(t) ==
  /\ call[t].at \in Steps \ {"chrow"}
  /\ budget.fails < MaxFails /\ budget' = [budget EXCEPT !.fails = @ + 1]
  /\ Goto(t, IF call[t].op \in {"register", "upload"} /\ call[t].at # "gate" THEN "failed" ELSE "html")
  /\ \/ UNCHANGED sent
     \/ call[t].at = "publish" /\ sent' = [sent EXCEPT !.control[Control(call[t].op)] = @ + 1]
  /\ UNCHANGED <<db, page>>
-----------------------------------------------------------------------------
Handler(t) ==
  \/ Gate(t) \/ Register(t) \/ ReadVersion(t) \/ Upload(t) \/ WriteVersionRow(t)
  \/ Start(t) \/ Stop(t) \/ Publish(t) \/ TrackAccount(t) \/ Audit(t) \/ Status(t)

Continue(t) == Throws(t) \/ ThenLoad(t) \/ AccountAdded(t) \/ Loaded(t) \/ Told(t)

User(t) ==
  \/ ClickStart(t) \/ ClickStop(t) \/ ClickBackfill(t) \/ AddAccount(t)
  \/ SubmitProgram(t) \/ SubmitIdl(t)

CPNext == \E t \in Tabs : Handler(t) \/ Continue(t) \/ User(t) \/ Poll(t) \/ StatementFails(t)

\* Requests are served, promises continue, the interval fires while the panel
\* is open; users need not do anything.
CPFairness == \A t \in Tabs :
  WF_cpVars(Handler(t)) /\ WF_cpVars(Continue(t)) /\ WF_cpVars(Poll(t))

CPSpec == CPInit /\ [][CPNext]_cpVars /\ CPFairness
-----------------------------------------------------------------------------
(* Properties. *)

CPTypeOK ==
  /\ Versions \subseteq 1 .. MaxVersion /\ db.by \in [Versions -> Tabs]
  /\ db.config \in Configs
  /\ \A t \in Tabs : call[t].at \in Steps \cup Replies \cup {"idle"}

\* Concurrent uploads read the same highest version: the versions have no gap,
\* and who is told a version was created is its uploader; a registration that
\* answers is the one that made the program, or finds it made.
VersionsAreTheirUploaders ==
  /\ Versions = 1 .. Cardinality(Versions)
  /\ \A t \in Tabs :
       /\ At(t, "upload", "ok") => db.by[call[t].read + 1] = t
       /\ At(t, "register", "ok") => db.by[1] = t
       /\ At(t, "register", "conflict") => Registered

\* ClickHouse learns of a version at most once, and of no version Postgres has
\* rolled back.
AppliedVersionsAreCommitted ==
  \A v \in 1 .. MaxVersion : sent.applied[v] <= (IF v \in Versions THEN 1 ELSE 0)

\* Row, message and audit are three statements of one handler: through failures
\* and other tabs, no message is without its row, no audit without its message.
ControlFollowsTheRow ==
  /\ sent.control["start"] <= db.upserts["start"] + (IF Registered THEN 1 ELSE 0)
  /\ sent.control["stop"] <= db.upserts["stop"]
  /\ \A o \in Steering : db.audits[o] <= sent.control[o]

\* The panel's buttons are disabled without a call under way only after a call
\* of a click threw.
BusyIsWorkOrAThrow ==
  \A t \in Tabs : page[t].busy => page[t].threw \/ call[t].for # "none"
                                  \/ call[t].op \in Steering \cup {"track"}

\* Whatever the toasts said: once the config stays as it is, every panel shows
\* it from some time on.
PanelConverges == \A t \in Tabs :
  /\ <>[](db.config = "on") => <>[]page[t].running
  /\ <>[](db.config = "off") => <>[](~page[t].running)

\* What uploads, registrations and ingestion control of several tabs keep, with a
\* failure between any two statements: the three stores and the pages agree.
CPInv ==
  /\ CPTypeOK /\ VersionsAreTheirUploaders /\ AppliedVersionsAreCommitted
  /\ ControlFollowsTheRow /\ BusyIsWorkOrAThrow
=============================================================================
