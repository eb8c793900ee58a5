# A verification project for SolObserve

SolObserve watches Solana programs: an ingestor follows the transactions of
each registered program, a decoder turns them into rows of ClickHouse with the
program's IDL, an alerter evaluates rules over those rows and notifies people,
and a backend and a web interface configure and show all of it. Everything runs
as separate processes that meet in Postgres, ClickHouse, S3 and NATS JetStream.
The repository also carries a design skill with a live mode, a helper server
and scripts that edit source files while a page is open.

This directory models the parts of it whose correctness depends on orders of
events that tests hardly reach. Each module names the code it models, each
definition that stands for code is listed with its lines in `PROJECT.json` under
`map`, and the configurations are small enough to be checked in minutes. What
TLC checks on small instances is, for most of the safety properties, also proved
for every value of the constants (section 9).

## 1. Inventory

| Component | State it keeps | Operations | Talks to |
|---|---|---|---|
| ingestor supervisor, `services/ingestor/src/main.rs` 55-171 | map of worker tasks | reconcile every 5 s: abort, start | Postgres `ingestion_configs` |
| program worker, same file 173-517 | batch, `pending` map, `seen` ring, socket | backfill, gather, ingest, promote or roll back, tracked accounts | RPC nodes, S3 blobs, JetStream RAW_TX and RAW_ACCOUNT, Postgres `ingestion_state`, `ingestion_errors` |
| RPC client, `crates/solana-rpc-client` | endpoint health, rate limits | calls with failover, log subscription, polling | RPC nodes |
| decoder, `services/decoder/src/main.rs` | none beyond its durable consumers | transaction loop, account loop | JetStream, S3, ClickHouse, Postgres, schema registry |
| schema registry, `crates/schema-registry` | versions of each program's IDL | full refresh, refresh of one program, resolve, LISTEN | Postgres |
| error grouper, `services/error-grouper` | none | upsert an issue, keep 50 samples | JetStream, Postgres |
| alerter, `services/alerter/src/main.rs` | nothing in memory between loops | evaluate rules, state machine, incidents, escalations, deliveries | Postgres, ClickHouse, Slack, mail, Telegram, web hooks |
| replay, `services/replay`, `crates/replay-core` | semaphore, snapshots in S3 | snapshot, run in an SVM | RPC nodes, S3 |
| intel, `services/intel/src/main.rs` | ring of 256 transactions | sandwich detection, anomalies, RPC health | JetStream, ClickHouse, Postgres |
| backend, `apps/backend/src` | Postgres through Prisma, a NATS connection | programs, IDLs, issues, alerts, dashboards, panels' queries, replay jobs, CU checks, live stream | all of the above |
| web interface, `apps/web` | what each page shows, timers, calls under way | sign-up, forms, panels, lists, server actions | backend, Postgres |
| live mode, `.agents/skills/impeccable/scripts` | event queue with leases, journal, session of a tab, lines of a file | pick, go, cycle, accept, discard, wrap, annotate, tune | browser, agent, files |
| alert DSL and query language, IDL parser, SDK, Anchor macros | none | conversions | - |
| GitHub bot and action, scraper, launcher | none | presentation and glue | backend |

How they interact. The ingestor writes a blob, then sends a message, then updates
its progress row; whether the stream has stored the message it does not ask. The
stream is at-least-once for what it has stored; the decoder reads the
blob named by a message. Verdicts about commitment (a promotion or a rollback)
follow on the same subject. The backend signals a new IDL with NOTIFY and a
changed ingestion through a row the supervisor polls, and by a message to NATS
that nobody consumes. The alerter is the only writer of rule states; it shares
the incident rows with the incident page and the delivery rows with nobody. The
web interface calls the backend through server actions, which Next runs in
order for each tab, and through fetches and a WebSocket, which run in any order.

What is hard. Tasks are aborted at any await; workers crash and stay in the
map; processes end at the first database error and are restarted by the
container runtime; forks are abandoned while statuses are being read; few
statements share a transaction; messages are redelivered; notifications are
sent before they are recorded. A refused call of a page is a JSON answer whose
status nobody looks at, and so is taken for a success. A page sends what it held when it was rendered,
answers arrive after the selection has changed, and a click that throws leaves
its button as it was.

What makes each part correct:

- ingestor: no message without its blob; a verdict only about what was sent as
  announced, and a lost message is the only way for the stream to lack it; a promotion only of what the cluster has confirmed; a rollback
  only of what is gone; nothing pending is forgotten while the task lives.
- decoder and error grouper: the rows of a transaction and the verdicts about it
  agree, whatever is redelivered; an issue counts its failures.
- schema registry: a transaction is decoded with the version in force, and
  without a block time with the newest.
- tracked accounts: a row of the timeline was true at its slot.
- alerter: rule state and incident agree; a notification is settled once, after a
  bounded number of sends. That a condition which lasts is raised would belong
  here; the code as it stands raises none (section 4).
- backend: versions are gapless; a revoked key records nothing; a baseline is of
  the run it names; a replay row tells what the service said; messages of the
  live stream arrive in order and only the oldest are dropped.
- web interface: at rest, and but for refused calls, a page shows what is stored,
  and of what is selected; nobody's sign-up takes the row, the password or a
  session of a verified user.
- live mode: a session ends as it was asked to end, also through restarts.

The complete lists of components and hazards, each with its line, are in
`PROJECT.json`.

## 2. Modules, runs and plan

| Modules | What they model | Checked by | Proved in |
|---|---|---|---|
| `Ingestor`, abstract `CommitmentFeed` | worker, supervisor, chain | `MCIngestor` | `IngestorProofs` |
| `Alerter`, abstract `Outbox` | rules, incidents, deliveries | `MCAlerter` | `AlerterProofs` |
| `JetStream`, `Decoder`, `ErrorGrouper`, `Pipeline` = `CommitmentFeed` + both, abstract `ReaderView` | redelivery, partial inserts, verdicts, counts | `Pipeline` | `PipelineProofs` |
| `Accounts`, `Orgs` | sign-up and sign-in; organizations, projects, members | `MCPlatform` | `PlatformProofs` |
| `ControlPlane`, `CuChecks` | programs, IDLs, ingestion control; CU baselines | `MCPlatform`, `MCServices` | `PlatformProofs` |
| `OrgPages` | ten pages with a list and a form | `MCPlatform` | `PlatformProofs` |
| `LiveServer`, `LiveTab` | live mode: queue and journal, agent, tab | `MCPlatform` | `LiveProofs` |
| `VariantFile` | live mode: the edited file | `MCPlatform` | - |
| `ReadSide`, `CallTree` | lists and analytics over the tables; calls of a log | `MCPlatform` | - |
| `Issues`, `StateScrub`, `PanelData` | issues, state timeline, what a panel shows | `MCPrograms`, `MCServices` | `PanelProofs` |
| `Workspace` | dashboards, sharing, templates | `MCPrograms` | `PanelProofs` |
| `Replay`, `LiveStream` | replay rows and pages; sockets, ring, shared connection | `MCPrograms`, `MCServices` | `BackendProofs` |
| `Query`, `Figures`, `Intake` | query language to SQL to series; drawing; IDL intake | `MCPrograms` | - |
| `Annotations`, `Tuning` | pins and strokes; parameters of variants | `MCPrograms` | `LiveProofs` |
| `SchemaRegistry` | refresh, LISTEN, version in force | `MCServices` | `ServiceProofs` |
| `AccountState`, `Detector` | tracked accounts; sandwich detector | `MCServices` | `ServiceProofs` |

Components that do not share state are checked by one run each of `MCPlatform`,
`MCPrograms` and `MCServices`: a behaviour chooses one component in its initial
state and the others stay in theirs, so that the state spaces add up instead of
multiplying. An invariant about a component that is not chosen holds in its
initial state. Components that do interact are composed in one specification:
the pipeline behind the feed, the tab on its live-mode server, the registration
with its pages.

Abstract specifications: `CommitmentFeed` (what the raw stream promises about
commitment), `ReaderView` (what readers of the transaction tables are promised)
and `Outbox` (what a table of deliveries with idempotency keys promises).

The plan has left: no theorem within reach of the prover. What
could still be added to the models is listed in section 11.

## 3. The ingestor

`Ingestor.tla` models one program. A step is the code between two awaits whose
order matters.

| Model | Code |
|---|---|
| `chain`, `slotOf`, `head`, `included`, `feed` | external: what the cluster does and the socket delivers |
| `enabled`, `Enable`, `Disable` | the row the backend writes |
| `ReconcileStart`, `ReconcileStop`, `ProcessExit` | `reconcile_workers`, and its `?` |
| `pc = "dead"` | a worker that returned an error; its handle stays in the map |
| `BackfillPage`, `BackfillListFails` | `backfill_window` |
| `Subscribe`, `GatherFromSocket`, `GatherByPolling`, `SocketLost` | the top of the live loop, `logs_subscribe`, `poll_logs_like` |
| `FetchBlob`, `PublishProcessed`, `RecordProgress`, `IngestFails` | `ingest_signature` |
| `Publish`, `kept`, `lost` | `js.publish(..).await?`, which awaits the sending and drops the acknowledgement: external, whether the stream stores the message |
| `ReadSlot`, `ReadStatuses`, `Promote`, `Rollback`, `RollbackUnrecorded`, `Keep`, `VerdictFails`, `SweepDone` | `promote_or_rollback` |

A "note" is one sighting: a signature at a slot. The cluster may include a
signature, abandon the fork and include it at another slot. A slot is finalized
only when what it and earlier slots contain is settled. The RPC node answers
`getSlot` and `getSignaturesForAddress` at its default commitment, finalized;
`getTransaction` is asked at confirmed and answers null below that; a status is
what it is at the moment of the call.

Data that is abstracted: what a blob contains, except whether it is a null
transaction (`hollow`); the cutoff of the backfill, which is any slot; the order
within a batch; the content of error rows.

A message is *sent* when `publish` returns; `Publish` then chooses whether the
stream keeps it, and the code goes on in the same way. The properties about
verdicts (`VerdictsWereAnnounced`, `PromotedIsConfirmed`, `RollbackIsSound`) and
the refinement speak of messages sent, in the order of their sending.
`TracesAreGrounded` speaks of what is on the stream: a stored message has its
blob, the progress row names a sighting that was sent, and a verdict or a row
whose announcement is not on the stream is the trace of a lost message.

Left out: the tracked accounts (they are in `AccountState`, and touch no
variable here), the 100 notifications per drain (batches are any subset), the
ring of 10 000 seen signatures (never full at these sizes), and the endpoint
metrics.

### Checks

| Run | Bounds | Shows |
|---|---|---|
| `ingestor_safety` | 2 signatures, window 1, lead 1, pages of 1, 4 slots, 1 disturbance | soundness of verdicts, what the traces rest on although messages may be lost, the inductive invariant, refinement of `CommitmentFeed` |
| `ingestor_faults` | 1 signature, lead 2, 3 disturbances, fair | stored blobs keep their transaction; pending leaves by a verdict; every pending signature is resolved |
| `ingestor_rollback` | 1 signature, 1 disturbance | violated: see Findings |

`MaxSlot` and `MaxDisturb` are the only caps: slots end and disturbances run
out. Four slots with a window of one leave room for a transaction to be
included, dropped, included again, and to expire. Two signatures in one sweep
are enough for a verdict to change what the next key of the sweep sees. The
window is a constant, so that one slot stands for 32. At the last slot
everything may have been judged, and a run without fairness that stops there is
not a deadlock of the code: configurations whose system comes to rest say
`CHECK_DEADLOCK FALSE`.

Fairness: the cluster goes on finalizing and settling, the supervisor loops
every five seconds, and tokio polls a ready task. Nothing is assumed about
failures, except that there are finitely many.

## 4. The alerter

`Alerter.tla` models the main loop of `services/alerter`, the incident page of
the backend, time, and the data the rules look at. Each SQL statement that
matters is a step; an error in any of them ends the process (`Exit`), and the
container runtime starts it again (`Restart`, `restart: unless-stopped`).

| Model | Code |
|---|---|
| `due`, `status`, `since` | `alert_rule_state` |
| `inc`, `aged`, `muted` | `alert_incidents`, `alert_silences` |
| `del`, `attempts` | `alert_notification_deliveries` |
| `leaked` | session advisory locks left on another pooled connection |
| `FetchRules`, `SkipLocked`, `EvaluationFails`, `EvaluateRule`, `Unlock` | `evaluate_due_rules` |
| `NextStatus`, `OpenIncident`, `RecordFired`, `SelectFiring`, `ResolveIncident` | `apply_state_machine`, `is_silenced` |
| `QueueDelivery`, `QueueCutOff` | `notify_incident`, and an exit between the delivery and its event |
| `FetchFiring`, `EscalateStep` | `process_escalations` |
| `FetchDue`, `DropClosed`, `DropUnreadable`, `OnCallRow`, `Send`, `RecordSent`, `RecordRefused` | `process_pending_deliveries`, `send_channel_notification` |
| `noted` | the 'notified' event of an incident, from which an on-call row reads its configuration |
| `Ack`, `Resolve`, `Silence` | `POST /:id/alerts/incidents/:incidentId/action` |
| `Flip`, `NextWindow`, `...Pass(es)`, `SilenceEnds`, `SessionCloses` | external: data, clocks, idle sessions |

Data that is abstracted: clocks become flags (`due`, "young" and "old",
`aged`, "waiting" and "due"); the repeat window is a counter; an evaluation
yields only whether the condition is met; a route has been selected; an
escalation policy has one step. A delivery key is the triple the code hashes.
A refused request is one whose transport fails: a reply with an error status
counts as accepted, as in the code. A channel of `Incomplete` lacks the url,
token, recipient or routing key its kind needs: the code makes no request,
returns `Ok`, and the delivery is recorded as sent. A delivery of the on-call
destination is given up when the incident has no 'notified' event, and ends the
process when it has one, because the row has no channel.

**Which rules can be evaluated.** The upsert of the rule state has, in its VALUES
list, `CASE WHEN $3 IN ('pending','firing')::text[] THEN` (main.rs:757). The cast
applies to the Boolean that `IN` yields, Postgres refuses to cast it to `text[]`,
and the `?` behind the statement ends the process. The statement fails whatever
the rule is, so the code as it stands is the model with `Broken = Rules`. A rule
whose DSL does not compile fails at the same place in the loop, and would still
fail if the statement were accepted; a smaller `Broken` is that service, with the
rest of the code unchanged. The theorems hold for every `Broken`. What is said of
the code as it stands is therefore: nothing is raised (`ConditionIsRaised` is
violated), and a broken rule keeps the loop from all that comes after it
(`BrokenIsQuiet`). `AlerterInv`, `SettledIsFinal` and `ImplementsOutbox` have
their interesting cases only where some rule is not broken.

Left out: the rows of the event log other than 'notified', metrics, the limits of
100 rules and 200 deliveries per round, the order of deliveries by `created_at`
(any order), a second alerter. Rules and channels are only ever created: the
backend has no operation that changes or deletes them.

### Checks

| Run | Bounds | Shows |
|---|---|---|
| `alerter_safety` | 1 rule that is not broken, a channel without a url, an on-call destination, an escalation channel, 2 attempts, 1 window, 1 disturbance | `AlerterInv`: rule and incident agree, what is read stays due, sends are bounded; settled deliveries stay settled although the process may end within a batch; the deliveries are an `Outbox` |
| `alerter_broken` | 2 rules, the second broken, 2 windows, 1 disturbance | `BrokenIsQuiet`: it is never raised, and nothing of the first rule is escalated, sent or given up |
| `alerter_liveness` | 1 rule, broken as in the code, fair | violated: see Findings |

A disturbance is an exit or a leaked lock; besides, a broken rule and an on-call
row end the process without counting as one, so exits in the middle of a batch
are as frequent as that row is due. Two attempts stand for five, so that giving
up is reached; one window and the escalation step are two keys for the same
channel. Two rules are enough for one to stand before the other. The model never
comes to rest, so deadlock is checked in every run.

`RuleAndIncidentAgree` excludes the rules an exit has separated from their
incident (`torn`), until one of the statements that would have followed is made
again: the code has no transaction there.

Fairness: the process runs and is restarted, clocks advance, the pool closes
idle connections (the default of sqlx is ten minutes). The data, the incident
page and the silences are under no fairness. The one liveness property is about a
condition that is met for ever, so that `Flip` cannot excuse the violation.

A silence of the incident page matches on `incident_id`, which no evaluation puts
into its labels; `is_silenced` would never find it. The upsert comes first, so
the code does not get there, and there is no run about it.

### Refinement

`Outbox.tla` is what the table promises: a key is queued once, tried only while
queued, settled once, and sent only after a try, unless it has nowhere to go
(`Mute`). `ImplementsOutbox` maps "waiting" and "due" to queued, the requests made
to tries, and the keys of incomplete channels to `Mute`: for these "sent" means
nothing.

## 5. The decoder and the error grouper

`Decoder.tla` models the transaction loop of `services/decoder`,
`ErrorGrouper.tla` the loop of `services/error-grouper`, and `JetStream.tla` the
two streams between which they stand, each with its one durable consumer.
`Pipeline.tla` puts them behind `CommitmentFeed`, the abstract specification the
ingestor is proved to implement: whatever holds of `Pipeline` therefore holds of
the three services together, and the ingestor's state space is not multiplied
with the decoder's.

| Model | Code |
|---|---|
| `rawTx`, `failures` | RAW_TX with `decoder-main`; `decoded.failures` with `error-grouper` |
| `Fetch`, `NextMessage`, `Route`, `Ack`, `AckIsLost` | `run_tx_loop` |
| `RecordRollback`, `RecordPromotion`, `VerdictIsLost` | its two verdict branches, both `.ok()` |
| `LoadBlob`, `Insert`, `PublishFailure`, `PublishLive`, `InsertFails`, `PublishIsLost` | `decode_tx_message`, in the order of `Stages` |
| `RecordDecodeError`, `DecodeErrorIsLost` | `record_decode_error(..).await.ok()` |
| `Exit`, `Start` | `try_join!` of both loops, a kill; nothing in the repository restarts the decoder |
| `merged`, `MergeTransactions`, `calls` | external: `ReplacingMergeTree`, and the view that joins each insert into `instructions` with `transactions` |
| `UpsertIssue`, `TrimSamples`, `InsertSample`, `StatementFails` | `upsert_issue_and_sample` |
| `Visible` | the readers' `NOT IN (SELECT signature FROM rollbacks ...)` |
| `Feed`, `Emit` | the messages of the ingestor that the stream stores, under the guards of `CommitmentFeed` |

The inserts are one per table, a failure or live message is one per instruction of
the program in the transaction (`Instrs`); `place` goes through the instructions
at the two stages that publish (`NextInstruction`). An insert that returns an
error may have taken effect, with or without the view that reads its table: a
materialized view is not pushed atomically with it. A message comes again if
its acknowledgement was lost or the process that had fetched it ended; it then
comes after newer ones that were handled in the meantime. A signature stands for
its sightings, because rollbacks, views and readers know signatures only.

Left out: what a row contains; messages that are no JSON or no UTF-8 (no service
publishes them); the limit of 50 messages per fetch (more than an instance has);
transactions without an instruction of the program; an unknown program (nothing
deletes programs); the age limit of the streams; the account loop (in
`AccountState`), except that its errors end the process.

### Checks

| Run | Bounds | Shows |
|---|---|---|
| `pipeline_safety` | 1 signature with SDK lines and 1 instruction, 2 raw messages, 2 disturbances | `EffectsAreBounded` (order of the tables, bounds on repetition), errors are recorded, verdicts take effect in every order, `ReaderView` |
| `pipeline_failures` | 1 failed signature with 3 instructions, 1 raw message, 1 disturbance, 2 samples | `IssueIsAccurate` (counts and samples of the issue) |
| `pipeline_settled` | 1 failed signature with 1 instruction, 2 raw messages, 1 disturbance, fair | every message is settled |

Signatures do not interact except by their order in a batch, which two messages
of one signature have as well. Two messages are two announcements, or an
announcement and its verdict; with two disturbances the verdict can overtake the
announcement, and an insert and the record of its error can both fail. With
three instructions the decoder may stop between their failure messages and between
their live messages, whose order behind the tables `IssueIsAccurate` has as a part
(`StagesInOrder`), and with a cap of two the third failure of one transaction
exchanges a sample, with an exit between the delete and the insert. Runs whose messages are all settled come to
rest, so they say `CHECK_DEADLOCK FALSE`.

Fairness: tokio polls both loops, the server redelivers after AckWait (30 s by
default), and the container of the error grouper is restarted
(`restart: unless-stopped`). `EverythingIsSettled` assumes of the decoder only
that it is started again whenever it has stopped, which is an operator's job.

What the bounds mean. `CallsAreBounded` says that a call is missed only when an
insert into `instructions` fails before its view is pushed, at most once per
disturbance, and how far redelivery may inflate the minute metrics: to the
product of the inserts, as every repeated insert joins all rows that have not
been merged yet. `FailuresAreCounted` compares the counter of an issue with the
failed *instructions* decoded: they differ by at most the instructions of one
transaction for each disturbance (`Slack`), because a redelivery publishes all of
them again and an exit can cut off all of them. Against failed transactions the
counter is larger by design: the code counts one failure per instruction row.
`Pipeline` takes every message sent by the ingestor as stored; one that is lost
(section 3) is an announcement or a verdict the feed does not emit here, and what
is said of the tables is said of the messages that are stored.
`VerdictsTakeEffect` also says that a signature rolled back at one slot stays
hidden when it is included and confirmed at another; the repository does not say
what it should be.

## 6. What users do: the run `platform`

| Part | Modules | Invariant | Says |
|---|---|---|---|
| accounts | `Accounts` | `AccountsInv`, `VerifiedUserStays` | the stores of better-auth and of the control plane agree, signed-in visitors get a page; nothing takes the row, the password or a session of a verified user but the sign-out of the browser that has it |
| orgs | `Orgs` | `OrgsInv` | the audit log tells the membership, the owner is the creator, only a lost race for a slug leaves a form busy |
| programs | `ControlPlane` | `CPInv` | versions are gapless and their uploader's, no store has what another rolled back, no message without its row, a busy panel has work or has thrown |
| checks | `CuChecks` | `CuInv` | a revoked key records nothing sent later, a baseline is of the run it names, who is answered has moved it |
| pages | `OrgPages` | `PagesInv` | at rest a page shows its own changes in the lists whose last reading was not refused, a switch that was not refused shows its row, a channel that cannot be opened stays silent |
| live | `LiveTab` on `LiveServer` | `LiveInv` | a session ends as it was asked to, what was confirmed is kept, journal and page agree, and a stale answer handles only its own session |
| file | `VariantFile` | `VariantFileInv` | the file ends with the original or the chosen variant, and the wrapped element is the picked one |
| calls, reads | `CallTree`, `ReadSide` | `ReadInv` | edges, units and event places against the calls that wrote the log; lists, traces, funnels and retention against the stored rows |

A handler of the backend, or a server action, is a sequence of statements; each
statement that another actor can come between, or that can fail, is a step. Only
where the code opens a transaction do several statements share a step. A click
is the async function behind it: what it captured when the page was rendered is
in the call's record, and what follows an `await` is an action of its own.
Express answers a rejected handler with an error page that the wrapper cannot
parse, so the server action throws, and what the click would have done after it
is not done; that is what `threw` and `busy` are about. A handler that *refuses*,
because the session or the membership is gone or a row is missing, answers with
a status and a JSON body. `authedBackendFetch` never looks at the status: a list
without rows is taken for an empty one (`r.tags ?? []`), a refused change for a
stored one, and the MEV switch shows what it asked for. In `OrgPages` that is
`Refuse`; a call may be refused, fail or be answered independently of the calls
before it, and `refused` keeps which lists and switches the page has from a
refusal.

Bounds: two clients (two browsers, people, tabs, jobs; symmetric where the code
treats them alike), two users, two codes' worth of mail, one organization name
with two projects, three IDL versions, three calls, one failure at any
statement, two rows and two clicks for each of the ten pages, two live sessions
with three posts' budget, two edit sessions on one file, logs of six lines and
depth three, two slots of transactions. Two clients are what a race needs; the
failure and the restart fall between any two statements; the third version
separates "greatest plus one" from "count plus one". `CHECK_DEADLOCK FALSE`:
clicks and failures run out.

What the parts do not claim. `NobodyOvertaken` of `Accounts` excludes users who
were verified while a sign-up was deleting them: there the code has a window.
`LiveInv` excludes sessions answered twice or ended by an error, which give the
page back to picking while an answer is still to come, and each of its parts
names the requests it does not speak of: those the agent failed on or left
unanswered, those overtaken by a late answer, and those that came before
anything of their session was in the source (`early`). The run's bounds are too
small for an early request; the theorem (section 9) covers them. `CuInv` says of a
baseline that it is what the run it names measured; it does not say which of two
jobs' runs should have been last, and the code keeps the one whose promotion ends
last, whatever their commits.

## 7. What is shown of a program: the run `programs`

| View | Modules | Invariant | Says |
|---|---|---|---|
| issues | `Issues` | `IssuesInv` | no notification of a change that was not made, the last one tells the status, a mute hides for its time, the detail is of the selection |
| state | `StateScrub` | `ScrubInv` | at rest, and but for calls that failed or were refused, the state is the one at the slider's slot, compared with the row before it, and the difference is what the history calls changed, also when older rows are written in between |
| dashboards | `Workspace` | `WorkInv` | only saves that overlap or follow a failure lose or double a panel, a tab at rest that has loaded shows what is stored and the link in force, or no link after a refused revocation |
| panel | `PanelData` | `PanelInv` | data is of the panel's query in whatever order answers come, the editor tells what the compiler says of its text, the drill-down is the one clicked last |
| replay | `Replay` | `ReplayInv` | an unfinished row has somebody working on it or an exit to blame, succeeded means the service said so, a bulk finishes in order |
| stream | `LiveStream` | `StreamInv` | each matching message once and in order through pauses, the ring forgets the oldest, only early closes leak |
| query, intake, figures, notes, tuning | `Query`, `Intake`, `Figures`, `Annotations`, `Tuning` | `DataInv` | operators against a reference definition over bounded inputs, and what is sent against what was pressed or set |

The server actions of a tab form a queue of which only the first is served,
because Next runs them in order; fetches and sockets are answered in any order.
A model value stands for a text, a signature or a query; what a query answers is
told by the number of the run that asked it. The decoder publishes one live
message per instruction, so the stream's "once" is of a message: a transaction
with several instructions is shown several times. Refusals in JSON are taken for
successes here too: the state panel shows them as an empty history or state and
has no `catch` for a call that throws (`RefuseScrub`, `ScrubCallFails`); the
workspace clears the token and says "Share revoked." when a revocation was
refused, and loads again after a save that was not made (`RefuseJob`); the panel's
editor drops its error after a refusal that names none (`CheckRejected`). Rows of
the state history are written by the decoder in any order of their slots, since
its messages come out of order and again, and never overwritten. Times are ticks, except in `Query`
and `Figures`, where the arithmetic of minutes and pixels is the point.

Bounds: two tabs, two issues, two changes and two selections, three ticks with a
mute of one; two accounts, three slots, histories of two rows out of three (so that the
cut off of a history is reached) and two moves; two clicks on dashboards with
two panels made and four sent, one failure or refusal; three texts of which two are broken, one of them in its
braces; two replay rows, one failure or restart; four decoded transactions on a
ring of two, two orders; the moments and values of `Query` and `Figures` lie on
both sides of the minute, of the hour and of the scale's ends. Two tabs are
what overtaking needs, and a queue of three calls what being overtaken twice
needs.

## 8. Services around them, and liveness: the run `services`

`SchemaRegistry`, `AccountState` and `Detector` are checked with `ServicesInv`:

- the registry's cache is a prefix of the versions; it lacks one only while a
  notification is under way, or one was lost between the first refresh and
  LISTEN or during a reconnection; what has a block time is decoded with the same version
  again, except for an upload in its own second; what has none (the call that
  asks for the time may fail, and account rows never have one) gets the newest
  version, so that a redelivery after an upload is decoded with another one, but
  never with an older one (`NewestNeverGoesBack`); and `Resolve` answers the
  version in force;
- a row of a tracked account is never dated before what it shows was there; each
  row has its entry in `account_writes`, the table the alerter reads; with one
  program and no failure the timeline is complete and not ahead of the row;
- what the detector records is a sandwich by slots and signers, found only
  because a transaction of a later slot came first; in slot order it finds
  nothing.

The same run checks what must happen in the end, each part under its own
fairness: `PagesSettle` (an ingestion panel shows the configuration once it
stays as it is; no panel loads for ever) and `BackendSettles` (replay rows are
finished or orphaned, leaked subscriptions end with the next message, a rejected
connection ends in a restart, the registry catches up).

Fairness: requests are served and promises continue, the five second interval
of the ingestion panel and the timers of the editor fire, the replay service
answers or throws, the closing process exits within its five seconds, frames
travel, tokio polls the registry's task and the database answers it. Users,
uploads, failures and restarts are under no fairness; failures are finitely many.

Bounds: three versions in two seconds with one gap of the listener; two programs
tracking one account over two finalized slots, one write, two snapshots, one
failure, redelivery or reordering; four transactions of two signers in a window
of three; the pages with two tabs and one failure each.

## 9. Proofs

Eight modules hold theorems; each EXTENDS the modules it is about. A theorem
about an invariant of a run names the same definition as the configuration, so
the run shows it on a small instance and the theorem for every value of the
constants. The only assumptions are the named ASSUMEs of the modules, which say
what kind of thing each constant is (a bound is a natural number, a null value
is none of the values) and are evaluated by every run.

Each proof has the same shape. The property is seldom inductive; a strengthening
is defined as a conjunction of named parts, TLC checks it as an invariant of the
small instance, and three facts are proved: the initial states satisfy it, every
action keeps it (one lemma per action, one step per part the action can
disturb), and it implies the property. The last step combines them with
temporal logic.

### Ingestor (`IngestorProofs`)

`IngestorProofs.tla` proves for every set of signatures, window, lead, page size
and bound:

- `Invariance`: `Spec => []IInv`, and from it type correctness,
  `VerdictsWereAnnounced`, `PromotedIsConfirmed`, `RollbackIsSound` and
  `TracesAreGrounded`;
- `BlobIsNeverHollowed` and `PendingLeavesByVerdict` as action properties;
- `Refinement`: the worker implements `CommitmentFeed`.

Why the invariant is stronger than the properties. A rollback is sound because
of three reads made at three times: the slot, the status, and the slot of the
sighting. `ExpiredIsGone` says that once the statuses are read, what the sweep
may still roll back is on no confirmed chain; it needs `ReadsStayTrue` (the slot
read is not from the future, a confirmed status stays confirmed) and `Finality`
(nothing unsettled lies below the finalized slot). A rolled back sighting cannot
come back because the cluster includes only above the finalized slot
(`RolledIsFinal`). `AnnouncementsCover` adds to the counting property the
announcement owed to each pending signature. `SweepIsPending` and `GoneForgets`
tie the sweep and the map to the life of the task. `WholeIsConfirmed` is what
keeps a stored transaction from being overwritten by null.

The proofs assume only `ConstantsAssumption`. Liveness (`PendingIsResolved`) is
model-checked only: fairness and ENABLED are beyond the prover.

### Alerter (`AlerterProofs`)

`AlerterInvariant` proves `AlerterInv`, which is inductive as it stands:
`SendsAreBounded` alone is not, because a send and the record of its outcome are
two steps with a possible exit between them. `AttemptsAreCounted` counts the
send under way and the ones whose outcome an exit has swallowed against
`disturb`; `ReadStaysDue` says that what the drain loop holds in memory is still
due, so no settled row is tried; `Underway` ties what is in memory to the
program counter; `RulesInv` excludes rules an exit has torn from their incident.
`SettledDeliveries` and `OutboxRefinement` follow from it as action properties:
every step of the alerter is a step of `Outbox` or leaves the table alone.
`BrokenRulesHoldTheLoop` proves `BrokenIsQuiet` for any set of broken rules, all
of them included: a broken rule is due for ever, and the loop cannot come past it
to the escalations and deliveries (`BrokenIsNext`). For `Broken = Rules`, which is
the code as it stands (section 4), this is the theorem that says most; the
others then hold of tables in which nothing happens.

### Pipeline (`PipelineProofs`)

`PipelineInv` has twelve conjuncts; the four run invariants are conjunctions of
them. `BoundedEffects` needs a product: an insert into `instructions` joins all
rows of `transactions` not merged yet, so `CallsAreBounded` is kept only together
with `RowsAreCounted`, which counts each table's rows by the announcements
entered and the disturbances suffered so far. The difference it allows below is the
part of a disturbance that stores the rows and not the view. `NothingDroppedSilently` needs
that the order of the stages fixes what a message in the middle of its inserts
has written (`StagesInOrder`, `HandlingOK`). `VerdictsTake` needs what the feed
guarantees (`FeedOK`: a promotion only of what is final), and that is proved
here from the guards of the abstract `CommitmentFeed`, which `Refinement` of the
ingestor provides. `AccurateIssue` needs `CountsAgree`, the relation between
failures published, delivered, in hand and counted, instruction by instruction
(`Slack` is what one disturbance can repeat or cut off), and the shape of the samples while one
is being exchanged (`GroupingOK`). `ViewRefinement` maps the tables to
`ReaderView`.

### Accounts and organizations (`PlatformProofs`)

`AccountsInvariant` and `VerifiedUsersStay` (the row, the password and every
session of a verified user, each by itself) rest on `HooksHold`: what a sign-up
that has looked at the user still believes about it, until its delete. An
unverified user it saw may be verified in between; `NobodyOvertaken` says that
this is the only way a profile can lose its user. `OrgsInvariant` rests on
`WritersOK`, which relates a creation under way to the slug it found free and
the log entries it still owes.

### Programs and compute-unit checks (`PlatformProofs`)

`ControlInvariant` strengthens `CPInv` by what each half-done handler holds
(`HandlersOK`): the version it read and the lock under which it read it, the
rows of its open transaction, the message it still owes; and by `ControlIsPaid`,
which matches messages and audit entries to the row changes that owe them.
`CuInvariant` strengthens `CuInv` by `RevocationIsSeen` (a key checked before its
revocation belongs to a request sent before it) and `PromotionsProceed` (the
instructions of a run promoted so far).

### Pages with lists (`PlatformProofs`)

`PagesInvariant` proves `PagesInv` for any tabs, names, rows, clicks, refusals and
failures. A tab runs its calls in order, and what it will show follows from its
queue: reads are queued in whole blocks, one for each reload (`QueueOK`), a
change under way is followed by a block (`Changing`), and of each list of the
page either a read is to come, or it was read in this block, or it is shown
(`ReloadOK`). `AllCome` is the lemma behind the last answer of a block: where
reads are left, a whole block is left. A refused read leaves its list marked in
`refused`, and the invariant speaks of the lists that are not. `Kept` is what a handler called by one
tab may do to the rows of the others, and `OthersChange` says that it disturbs
no other tab; `SwitchOK` follows a stored switch from its row through the answer
to what the tab shows. Each transition of a tab is one lemma about any tables.

### Tracked accounts, detector and registry (`ServiceProofs`)

`AcctInvariant` proves the safety of `AccountState` for any number of programs,
slots and disturbances; its invariant relates the ledger of snapshots, the
messages queued, and the three tables (`LedgerOK`, `QueueOK`, `TablesOK`,
`InOrder`). `DetectorInvariant` proves it of the detector: the window is the end
of the sequence of arrivals (`RingIsTheEnd`), whatever its size.

`RegistryInvariant` proves `RegistryInv`, for transactions with a block time and
without. It needs that rows which were read and are not stored yet lag
behind the table for a reason too, and that no upload still to come concerns a
transaction decoded for good: its second has passed. What has no time was given
the last version of the cache of the moment, and `NewestOK` says that neither the
cache nor a refresh under way is behind it. `ResolveIs` says what the
loop over the versions computes, for every list of them: `Resolve` is a function
on `0 .. Len(versions)`, and the least place where it could differ from the
newest version in force does not exist. `ServicesInvariant` puts the three
components of `MCServices` side by side and proves `ServicesInv`.

### Panels of a program (`PanelProofs`)

The server actions of a tab are a queue, so the lemmas about queues (a call
joins, is served, leaves; which call of a kind is the last) are stated once for
any set of calls and used by all three components. `IssuesInvariant` needs
`HeldIsUntold` (the change a handler has made and not yet told is told by nobody
else) and `LastIsToldOrHeld`. `PanelInvariant` needs `RunsAreOfTheirText`: the
number of a run determines its text, which is why an answer compared by the
closure's flag is of the panel's query. `ScrubInvariant` needs that rows
stand: the decoder writes them in any order of their slots but never over one, so
a row that was read stays as it was (`RowsStand`), and a difference that was
computed may only miss an older row (`DeltasStand`); that of each kind the last
call asked for is about what the panel now shows (`HistoryComes`, `StateComes`,
`StateBeforeComes`); and that an answer is empty or of its slot (`AnswerFits`).

`WorkInvariant` proves `WorkInv` of the dashboards. The lists that a page shows,
that its layout timer holds and that its calls carry are three copies of the
board, and `WorkIInv` says when they agree: what the timer holds is what is
shown (`TimerOK`), the last layout queued is what is shown (`LayoutOK`), and a
page whose last load saw every write shows the board (`ShownOK`). A save or
layout is *calm* when nothing else of its tab was under way, and `CalmOK` is why
only overlapping ones lose a panel. A refusal puts the link or the panels of its
tab in doubt (`InDoubt`) until the next load; `OpenOK` and `FilledOK` say what an
editor opened on an emptied page still holds and that it saves nothing.

### Live mode (`LiveProofs`)

`LiveInvariant` proves `LiveInv` for any sessions, restarts, interruptions and
reloads. `ServerIInv` is the server's half, session by session. The queue holds
one event of a type for a session, and a generation stands behind no request of
its session unless that came too early (`QueueOK`): this is what makes
`Acknowledge`, which removes the first entry of the session whatever its type,
remove the right one. `JournalOK`, `SourceOK` and `LeaseOK` relate journal,
source and the agent's hands to it; `KeptOK` says where a request that is not
carried out can be found, while the server is up and while it is down. Lemmas
about the queue (an event is added, leased, acknowledged, queued again after a
restart) are stated for any queue. `PageIInv` is the page's half: a session
whose generation was not sent is nowhere yet (`FreshOK`), and an answer that is
waited for is the current session's or was confirmed, unless a session was
answered twice or ended in an error (`FlowOK`); `HandledByOwn` follows.

`AnnotationsInvariant` and `TuningInvariant` prove two of the five parts of
`DataInv`, for any number of pins, presses, sessions and reloads. A pin is known
to the pointer, the editor and the last press by its place, and closing an editor
may remove a pin under them. `AnnotationsIInv` adds that the pins of the list
were made in its order (`PinsOK`), which shows that the pin that moved into a
place is a later one; that a pin is held only while no editor is open
(`HandOK`); and that the last press names the pin at its place until a pin is
removed (`PressOK`). The lemmas `Finalizes` and `Cancels` say what the two ways
to close an editor do to any list: rewrite one text, or remove one pin.
`TuningIInv` says when the values of the script, the page and the controls
agree, while a session is cycling and while it is saved (`OnThePage`,
`SameVariant`), which values are still to be told (`Told`) and which settings
last (`WishesOK`).

### Backend (`BackendProofs`)

`StreamInvariant` proves `StreamInv` for any number of sockets and any size of
the ring. What a socket has received, what is on its way, what its ring keeps
and what its subscription still holds are four sequences, each sorted and each
older than the next (`FourInOrder`); `NothingLost` says that an open socket holds
every matching transaction since its subscription in one of them or in the set
of those shifted out, and `HeldIsDecoded` that it holds no others. `PhaseOK`
relates the phase of the handler, both ready states and the subscription, which
is what `OnlyEarlyClosesLeak` needs. Each handler is one lemma about one socket,
stated for any record and any feed; the step lemmas only place it.

`ReplayInvariant` proves `ReplayInv` for any tabs, rows, failures and restarts.
`ReplayIInv` says of each call, by its kind and place, what it has in hand
(`CallIsSound`): the rows of a bulk are consecutive and finished exactly up to
the one in hand (`BulkUnderWay`), and a progress is asked only of bulks that are
finished. No row is in the hand of two tabs, and each unfinished one is orphaned
or still to do for the first call of some tab (`ToDo`): without the disjointness
a write of one handler could disturb the order of another's bulk. `ProgressComes`
says that the last progress queued is of the bulk the page names. `Grown` is what
a step may do to the rows of others (add some, finish its own); `TabStays`,
`TabServed`, `TabJoined` and `TabLeft` say what that leaves of a tab, and each
action is one lemma on top of them. The proof made the two overlapping `CASE`s of
`Simulate` and `TakeAnswer` visible, whose value TLA+ leaves open where TLC takes
the first arm; their arms exclude each other now.

### What is not proved

- Liveness and fairness, `ENABLED`: `PendingIsResolved`, `EverythingIsSettled`,
  `PagesSettle`, `BackendSettles`. They are beyond the prover; so is the violation
  of `ConditionIsRaised`, which TLC finds.
- What a recursive definition or a fold computes for every input: the edges of a
  log (`CallTree`), lines of a file (`VariantFile`), SQL and series (`Query`,
  `Figures`, `Intake`), lists and analytics (`ReadSide`). Induction over data is beyond it as well, so
  `VariantFileInv`, `ReadInv` and the parts `QueryInv`, `IntakeInv` and
  `FiguresInv` of `DataInv`, which are about such results, stay with TLC. They
  are the only invariants of the runs without a theorem; `AnnotationsInv` and
  `TuningInv`, the other two parts of `DataInv`, are proved.

## 10. Findings, and what the models show besides

Two runs expect a violation, because a sentence in the repository says
otherwise:

- `ingestor_rollback`: a failed status query reads as "no status" for every
  signature (`unwrap_or_default`), and whatever is older than the window is
  published as a rollback, confirmed or not.
- `alerter_liveness`: `PRODUCT.md` says the system surfaces alerts, and the upsert
  of every evaluation casts a Boolean to `text[]` (main.rs:757), which Postgres
  refuses. The process ends before the state of a rule or an incident is stored,
  and again after each restart, so no condition is ever raised.

The following was met while modelling. The properties state what holds and name
these as the exception; none has a run of its own.

Services.

- What is finalized between the last backfill page and the subscription is never
  announced.
- A publish is not awaited for its acknowledgement, so the progress row can be
  written, and a verdict follow, while the message was lost on its way.
- Would the alerter's upsert be accepted, a rule that cannot be evaluated for
  another reason still ends it before it is dated, is read again in each round and
  starves the delivery loop; a silence of the incident page would match nothing;
  an on-call delivery has no channel row, so reading its kind ends the process; a
  channel without url, token, recipient or routing key has its notifications
  recorded as sent although no request is made. An
  exit between the upserts of rule state and incident leaves the rule firing
  without an incident for as long as the condition lasts.
- Failures and live messages are published once per instruction of a transaction,
  so an issue counts instructions and the live view shows a transaction as often.
- Without a block time a transaction is decoded with the newest IDL of the moment.
- `VerdictsTakeEffect` hides a signature rolled back at one slot also when it is
  included and confirmed at another.
- Account rows are dated by the program's last finalized slot although the
  content is read as processed; a failed `getSignaturesForAddress` dates them 0;
  the one blob per slot is overwritten, so an older message may show newer
  content; the history keeps the first row of a slot, `account_state` the last
  to arrive; two programs tracking one account share its rows.
- No service creates the stream the detector consumes, so it gives up at start
  while the process goes on; its window mixes programs; in slot order it finds
  nothing.
- The registry's task waits for ever after a failed LISTEN, and a failed
  targeted refresh is not tried again.

Backend and pages.

- `ChInstructionRow` never fills `signer`: funnels, cohorts and retention see one
  user. Detail and wallet pages ignore rollbacks; trace search joins on the
  signature only.
- Every table of a query is per minute whatever the step; `rate` divides a
  minute's count by the panel's step; the parameters are shared by the whole
  text, so a ratio of two instructions is one; the drill-down looks 30 s around
  the start of the minute.
- The first call of a log becomes its own parent and the stack is never popped,
  so the waterfall draws nothing.
- The heatmap's lowest row and the minutes beyond 126 lie outside its canvas.
- Scalars of a replay's modifications are never applied, although a comment says
  they are re-encoded before; modifications without key, bytes or value are
  accepted and leave the job running.
- No page looks at the status of an answer. After a refusal in JSON a list is shown
  as empty, the MEV switch as changed, a share as revoked and its token cleared, a
  state as having no history.
- Muted issues keep `muted_until` when their status changes.

Live mode.

- An accept that is refused after an error has given the page back to picking,
  and after a new Go, shows the new session's bar as if it were cycling. A
  discard pressed then comes before anything of that session is in the source:
  the script finds no markers and answers with an error, while the generation
  stays queued and is carried out although the discard was confirmed.
- A late "done" clears an accept from the journal, and a restart then forgets an
  accept that was confirmed. `enqueueEvent` keeps the older of two events of a
  session, acknowledge removes the first whatever its type.
- Discard leaves blank lines; a self-closing tag over several lines is counted as
  an opener, so that the wrapper is too long and a discard loses the parent's
  closing tag.
- After a hot reload the page shows variant 1 without values while the script
  keeps variant and values; values outlive the session; reopening the popover
  resets them.
- Pressing a pin while an empty lower one is being edited splices the list, and
  the next pin is dragged.

## 11. What is not modelled

Components that are `not_modelled` in `PROJECT.json` keep no state between calls
(parsers, encoders, formatters) or are start-up and configuration. Of modelled
components these parts are left out: the RPC client's choice of endpoint, rate
limiter and backoff; the anomaly and RPC health loops; the streams' start-up
chain; the SVM run of a replay; layouts of pages and tables; event vectors,
`histogram_quantile`, `bottomk` and binary operators other than the ratio in
`Query`; file search and CSS hints of the live scripts; picking of elements,
scrolling and the page's fallback swaps in `LiveTab`; a POST to the live server
that fails after its journal append, whose event then comes back at a restart;
lost messages between ingestor and decoder in `Pipeline` (section 5). `PROJECT.json` says so at
each component.
