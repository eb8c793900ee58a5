------------------------------ MODULE Alerter -------------------------------
(***************************************************************************)
(* services/alerter: the loop that evaluates due rules, keeps each rule's  *)
(* state and incident, escalates firing incidents and drains the outbox of *)
(* notification deliveries; the incident page of the backend; and the time *)
(* and the world around them.                                              *)
(*                                                                         *)
(* Every statement the service sends to Postgres is a step of its own, no  *)
(* transaction spans two of them, and an error of any of them ends the     *)
(* process, which the container runtime starts again.                      *)
(***************************************************************************)
EXTENDS Integers, FiniteSets

CONSTANTS
  NumRules,     \* rules, numbered in the order of created_at
  Broken,       \* rules whose evaluation, or the upsert of its outcome, fails
                \* each time: see EvaluationFails
  Channels,     \* channels of the selected route
  OnCall,       \* its on-call destination, which has no channel row (or none)
  EscChannels,  \* channels of the escalation policy
  Unreadable,   \* channels whose configuration cannot be decrypted
  Incomplete,   \* channels whose configuration lacks the url, token, recipient
                \* or routing key their kind needs
  MaxAttempts,  \* sends before a delivery is given up (5 in the code)
  MaxWindow,    \* bound: repeat windows of a behaviour
  MaxDisturb    \* bound: failed statements and leaked locks

Rules == 1 .. NumRules
Destinations == Channels \cup OnCall

\* A delivery key: incident (one row per rule), channel, and the repeat window
\* or, for an escalation step, its index, here 0.
Escalation == 0
Keys == [rule : Rules, chan : Destinations \cup EscChannels, window : 0 .. MaxWindow]

ASSUME ConstantsAssumption ==
  /\ NumRules \in Nat
  /\ Broken \subseteq Rules
  /\ Channels \cap OnCall = {} /\ EscChannels \cap OnCall = {}
  /\ Destinations # {}
  /\ MaxAttempts \in Nat \ {0}
  /\ MaxWindow \in Nat \ {0}
  /\ MaxDisturb \in Nat

VARIABLES
  \* the world
  cond,      \* whether each rule's query finds its condition met
  window,    \* NOW() divided by repeat_interval
  \* alert_rule_state
  due,       \* last_eval_at is older than the evaluation interval
  status,    \* last_status
  since,     \* since_ts: "none", "young", or "old" once for_seconds have passed
  \* alert_incidents, alert_silences
  inc,       \* status of the rule's incident row, "none" without one
  aged,      \* started_at lies further back than wait_seconds
  muted,     \* a silence created from the incident page is active
  \* alert_notification_deliveries
  del,       \* "absent", "waiting" for next_attempt_at, "due", "sent", "failed"
  attempts,
  noted,     \* rules whose incident has a 'notified' event
  \* advisory locks still held by another pooled connection
  leaked,
  \* the process
  pc, todo, cur,
  chans,     \* destinations notify_incident has still to visit
  steps,     \* escalations still to insert
  batch,     \* deliveries read and not yet handled
  shut,      \* those read with an incident that was not firing
  job,       \* the delivery being sent
  \* the receivers, and history
  sends,     \* requests made for each delivery
  torn,      \* rules whose state and incident an exit has separated
  disturb

worldVars == <<cond, window>>
ruleVars  == <<due, status, since>>
incVars   == <<inc, aged, muted>>
delVars   == <<del, attempts, sends, noted>>
workVars  == <<todo, cur, chans, steps, batch, shut, job>>
vars == <<worldVars, ruleVars, incVars, delVars, leaked, pc, workVars, torn, disturb>>

NoRule == 0
OfRule == {"open", "fired", "queue", "select", "resolve"}   \* inside apply_state_machine
OfJob  == {"accepted", "refused"}                           \* before the outcome is recorded
\* The oldest rule of a batch.
First(S) == CHOOSE r \in S : \A q \in S : r <= q
Key(r, c, w) == [rule |-> r, chan |-> c, window |-> w]

Disturb == disturb < MaxDisturb /\ disturb' = disturb + 1
-----------------------------------------------------------------------------
(* Time and the world. *)

Flip(r) ==
  /\ cond' = [cond EXCEPT ![r] = ~@]
  /\ UNCHANGED <<window, ruleVars, incVars, delVars, leaked, pc, workVars, torn, disturb>>

NextWindow ==
  /\ window < MaxWindow
  /\ window' = window + 1
  /\ UNCHANGED <<cond, ruleVars, incVars, delVars, leaked, pc, workVars, torn, disturb>>

IntervalPasses(r) ==
  /\ ~due[r]
  /\ due' = [due EXCEPT ![r] = TRUE]
  /\ UNCHANGED <<worldVars, status, since, incVars, delVars, leaked, pc, workVars, torn, disturb>>

ForSecondsPass(r) ==
  /\ since[r] = "young"
  /\ since' = [since EXCEPT ![r] = "old"]
  /\ UNCHANGED <<worldVars, due, status, incVars, delVars, leaked, pc, workVars, torn, disturb>>

WaitSecondsPass(r) ==
  /\ inc[r] # "none" /\ ~aged[r]
  /\ aged' = [aged EXCEPT ![r] = TRUE]
  /\ UNCHANGED <<worldVars, ruleVars, inc, muted, delVars, leaked, pc, workVars, torn, disturb>>

BackoffPasses(k) ==
  /\ del[k] = "waiting"
  /\ del' = [del EXCEPT ![k] = "due"]
  /\ UNCHANGED <<worldVars, ruleVars, incVars, attempts, sends, noted, leaked, pc, workVars,
                 torn, disturb>>

SilenceEnds(r) ==
  /\ muted[r]
  /\ muted' = [muted EXCEPT ![r] = FALSE]
  /\ UNCHANGED <<worldVars, ruleVars, inc, aged, delVars, leaked, pc, workVars, torn, disturb>>

\* The pool closes an idle connection, and its advisory locks go with it.
SessionCloses(r) ==
  /\ leaked[r]
  /\ leaked' = [leaked EXCEPT ![r] = FALSE]
  /\ UNCHANGED <<worldVars, ruleVars, incVars, delVars, pc, workVars, torn, disturb>>

-----------------------------------------------------------------------------
(* The incident page: the row must exist, its status is not looked at. *)

Page(r, to) ==
  /\ inc[r] # "none"
  /\ inc' = [inc EXCEPT ![r] = to]
  /\ UNCHANGED <<worldVars, ruleVars, aged, delVars, leaked, pc, workVars, torn, disturb>>

Ack(r)     == Page(r, "acknowledged") /\ UNCHANGED muted
Resolve(r) == Page(r, "resolved") /\ UNCHANGED muted
Silence(r) == Page(r, "silenced") /\ muted' = [muted EXCEPT ![r] = TRUE]
-----------------------------------------------------------------------------
(* The process. *)

\* The state machine has been saved and its incident has not followed yet.
Between == pc \in {"open", "select", "resolve"}

\* The process and its connections are gone.
Halt ==
  /\ pc' = "down"
  /\ todo' = {} /\ cur' = NoRule /\ chans' = {} /\ steps' = {}
  /\ batch' = {} /\ shut' = {} /\ job' = {}
  /\ leaked' = [r \in Rules |-> FALSE]
  /\ torn' = IF Between THEN torn \cup {cur} ELSE torn
  /\ UNCHANGED <<worldVars, ruleVars, incVars>>

\* An error reaches main between two statements.
Down == Halt /\ UNCHANGED delVars

Exit == pc # "down" /\ Disturb /\ Down

Restart ==
  /\ pc = "down"
  /\ pc' = "loop"
  /\ UNCHANGED <<worldVars, ruleVars, incVars, delVars, leaked, workVars, torn, disturb>>

(* evaluate_due_rules and apply_state_machine. *)

FetchRules ==
  /\ pc = "loop"
  /\ todo' = {r \in Rules : due[r]}
  /\ pc' = "rule"
  /\ UNCHANGED <<worldVars, ruleVars, incVars, delVars, leaked, cur, chans, steps,
                 batch, shut, job, torn, disturb>>

\* The lock is held by another connection of the pool: the rule is passed over.
SkipLocked ==
  /\ pc = "rule" /\ todo # {}
  /\ leaked[First(todo)]
  /\ todo' = todo \ {First(todo)}
  /\ UNCHANGED <<worldVars, ruleVars, incVars, delVars, leaked, pc, cur, chans, steps,
                 batch, shut, job, torn, disturb>>

\* Mutant of EvaluationFails: the error is logged and the next rule tried.
EvaluationFailsOn ==
  /\ pc = "rule" /\ todo # {}
  /\ First(todo) \in Broken
  /\ todo' = todo \ {First(todo)}
  /\ UNCHANGED <<worldVars, ruleVars, incVars, delVars, leaked, pc, cur, chans, steps,
                 batch, shut, job, torn, disturb>>

\* A DSL that does not compile fails here, and so does the upsert of
\* apply_state_machine: with the cast of a Boolean to text[] that Postgres refuses,
\* it fails for every rule, and Broken is Rules.  A smaller set says what
\* the service does once that statement is accepted.
EvaluationFails ==
  /\ pc = "rule" /\ todo # {}
  /\ First(todo) \in Broken
  /\ Down
  /\ UNCHANGED disturb

NextStatus(r) ==
  CASE ~cond[r] -> "ok"
    [] cond[r] /\ status[r] = "ok" -> "pending"
    [] cond[r] /\ status[r] = "pending" /\ since[r] = "old" -> "firing"
    [] OTHER -> status[r]

\* The query, the read of alert_rule_state and its upsert: nobody else writes
\* the row of a rule.
EvaluateRule ==
  /\ pc = "rule" /\ todo # {}
  /\ LET r == First(todo) IN
     /\ r \notin Broken
     /\ due' = [due EXCEPT ![r] = FALSE]
     /\ status' = [status EXCEPT ![r] = NextStatus(r)]
     /\ since' = [since EXCEPT ![r] = IF NextStatus(r) = "ok" THEN "none"
                                      ELSE IF @ = "none" THEN "young" ELSE @]
     /\ pc' = CASE status[r] # "firing" /\ NextStatus(r) = "firing" -> "open"
                [] status[r] = "firing" /\ NextStatus(r) = "ok" -> "select"
                [] OTHER -> "unlock"
     /\ cur' = r
     /\ todo' = todo \ {r}
  /\ UNCHANGED <<worldVars, incVars, delVars, leaked, chans, steps, batch, shut, job,
                 torn, disturb>>

\* The upsert of the incident keeps started_at.
OpenIncident ==
  /\ pc = "open"
  /\ inc' = [inc EXCEPT ![cur] = "firing"]
  /\ torn' = torn \ {cur}
  /\ pc' = "fired"
  /\ UNCHANGED <<worldVars, ruleVars, aged, muted, delVars, leaked, workVars, disturb>>

\* The label keys an evaluation can put into its result.
LabelKeys == {"account"}

\* A silence of the incident page has the matcher key "incident_id".
Silenced(r) == muted[r] /\ "incident_id" \in LabelKeys

RecordFired ==
  /\ pc = "fired"
  /\ IF Silenced(cur) THEN pc' = "unlock" /\ UNCHANGED chans
                      ELSE pc' = "queue" /\ chans' = Destinations
  /\ UNCHANGED <<worldVars, ruleVars, incVars, delVars, leaked, todo, cur, steps,
                 batch, shut, job, torn, disturb>>

\* A sent delivery to the channel may be younger than group_interval.
MaybeRecent(r, c) ==
  c \in Channels /\ \E w \in 0 .. MaxWindow : del[Key(r, c, w)] = "sent"

\* Mutant of Insert: ON CONFLICT ... DO UPDATE.
InsertAgain(k, as) == del' = [del EXCEPT ![k] = as]

\* INSERT ... ON CONFLICT (idempotency_key) DO NOTHING.
Insert(k, as) == del' = IF del[k] = "absent" THEN [del EXCEPT ![k] = as] ELSE del

\* The on-call destination comes first.
NextChan(c) == c \in chans /\ (c \in OnCall \/ chans \cap OnCall = {})

\* The delivery, and with a new row the incident's 'notified' event.
QueueDelivery ==
  /\ pc = "queue"
  /\ \E c \in chans :
       /\ NextChan(c)
       /\ \/ /\ Insert(Key(cur, c, window), "waiting")
             /\ noted' = IF del' # del THEN noted \cup {cur} ELSE noted
          \/ MaybeRecent(cur, c) /\ UNCHANGED <<del, noted>>
       /\ chans' = chans \ {c}
  /\ pc' = IF chans' = {} THEN "unlock" ELSE "queue"
  /\ UNCHANGED <<worldVars, ruleVars, incVars, attempts, sends, leaked, todo, cur,
                 steps, batch, shut, job, torn, disturb>>

\* The process ends between the two: the delivery is there, its event is not.
QueueCutOff ==
  /\ pc = "queue"
  /\ \E c \in chans : NextChan(c) /\ Insert(Key(cur, c, window), "waiting")
  /\ Disturb
  /\ Halt
  /\ UNCHANGED <<attempts, sends, noted>>

\* Only an incident that is firing is resolved with its rule.
SelectFiring ==
  /\ pc = "select"
  /\ IF inc[cur] = "firing" THEN pc' = "resolve" /\ UNCHANGED torn
                            ELSE pc' = "unlock" /\ torn' = torn \ {cur}
  /\ UNCHANGED <<worldVars, ruleVars, incVars, delVars, leaked, workVars, disturb>>

\* By id: whatever happened to the row since it was selected.
ResolveIncident ==
  /\ pc = "resolve"
  /\ inc' = [inc EXCEPT ![cur] = "resolved"]
  /\ torn' = torn \ {cur}
  /\ pc' = "unlock"
  /\ UNCHANGED <<worldVars, ruleVars, aged, muted, delVars, leaked, workVars, disturb>>

\* pg_advisory_unlock may run on another connection than the lock did.
Unlock ==
  /\ pc = "unlock"
  /\ \/ UNCHANGED <<leaked, disturb>>
     \/ leaked' = [leaked EXCEPT ![cur] = TRUE] /\ Disturb
  /\ cur' = NoRule
  /\ pc' = "rule"
  /\ UNCHANGED <<worldVars, ruleVars, incVars, delVars, todo, chans, steps, batch,
                 shut, job, torn>>

RulesDone ==
  /\ pc = "rule" /\ todo = {}
  /\ pc' = "escalate"
  /\ UNCHANGED <<worldVars, ruleVars, incVars, delVars, leaked, workVars, torn, disturb>>
-----------------------------------------------------------------------------
(* process_escalations. *)

FetchFiring ==
  /\ pc = "escalate"
  /\ steps' = {r \in Rules : inc[r] = "firing"} \X EscChannels
  /\ pc' = "step"
  /\ UNCHANGED <<worldVars, ruleVars, incVars, delVars, leaked, todo, cur, chans,
                 batch, shut, job, torn, disturb>>

EscalateStep ==
  /\ pc = "step"
  /\ \E s \in steps :
       /\ steps' = steps \ {s}
       /\ IF aged[s[1]] THEN Insert(Key(s[1], s[2], Escalation), "due")
                        ELSE UNCHANGED del
  /\ UNCHANGED <<worldVars, ruleVars, incVars, attempts, sends, noted, leaked, pc, todo,
                 cur, chans, batch, shut, job, torn, disturb>>

-----------------------------------------------------------------------------
(* process_pending_deliveries. *)

FetchDue ==
  /\ pc = "step" /\ steps = {}
  /\ batch' = {k \in Keys : del[k] = "due"}
  /\ shut' = {k \in batch' : inc[k.rule] # "firing"}
  /\ pc' = "deliver"
  /\ UNCHANGED <<worldVars, ruleVars, incVars, delVars, leaked, todo, cur, chans,
                 steps, job, torn, disturb>>

DropClosed(k) ==
  /\ pc = "deliver" /\ k \in batch \cap shut
  /\ del' = [del EXCEPT ![k] = "failed"]
  /\ batch' = batch \ {k}
  /\ UNCHANGED <<worldVars, ruleVars, incVars, attempts, sends, noted, leaked, pc, todo,
                 cur, chans, steps, shut, job, torn, disturb>>

\* The configuration of an on-call delivery is in the incident's 'notified'
\* events: without one there is none, as with a channel that cannot be decrypted.
NoConfig(k) == k.chan \in Unreadable \/ (k.chan \in OnCall /\ k.rule \notin noted)

DropUnreadable(k) ==
  /\ pc = "deliver" /\ k \in batch \ shut /\ NoConfig(k)
  /\ del' = [del EXCEPT ![k] = "failed"]
  /\ attempts' = [attempts EXCEPT ![k] = @ + 1]
  /\ batch' = batch \ {k}
  /\ UNCHANGED <<worldVars, ruleVars, incVars, sends, noted, leaked, pc, todo, cur, chans,
                 steps, shut, job, torn, disturb>>

\* With an event, reading it or the row's missing channel_kind is an error.
OnCallRow(k) ==
  /\ pc = "deliver" /\ k \in batch \ shut /\ k.chan \in OnCall /\ k.rule \in noted
  /\ Down
  /\ UNCHANGED disturb

\* Mutant of Send: a channel without its url is sent to nevertheless.
SendAnyway(k) ==
  /\ pc = "deliver" /\ k \in batch \ shut /\ k.chan \notin OnCall \cup Unreadable
  /\ sends' = [sends EXCEPT ![k] = @ + 1]
  /\ pc' \in {"accepted", "refused"}
  /\ batch' = batch \ {k}
  /\ job' = {k}
  /\ UNCHANGED <<worldVars, ruleVars, incVars, del, attempts, noted, leaked, todo, cur,
                 chans, steps, shut, torn, disturb>>

\* The request goes out; its outcome is not yet recorded.  A channel without its
\* url, token, recipient or routing key gets none, and that counts as accepted.
Send(k) ==
  /\ pc = "deliver" /\ k \in batch \ shut /\ k.chan \notin OnCall \cup Unreadable
  /\ \/ /\ k.chan \notin Incomplete
        /\ sends' = [sends EXCEPT ![k] = @ + 1]
        /\ pc' \in {"accepted", "refused"}
     \/ /\ k.chan \in Incomplete
        /\ UNCHANGED sends
        /\ pc' = "accepted"
  /\ batch' = batch \ {k}
  /\ job' = {k}
  /\ UNCHANGED <<worldVars, ruleVars, incVars, del, attempts, noted, leaked, todo, cur,
                 chans, steps, shut, torn, disturb>>

Tried == attempts' = [k \in Keys |-> IF k \in job THEN attempts[k] + 1 ELSE attempts[k]]

RecordSent ==
  /\ pc = "accepted"
  /\ Tried
  /\ del' = [k \in Keys |-> IF k \in job THEN "sent" ELSE del[k]]
  /\ job' = {}
  /\ pc' = "deliver"
  /\ UNCHANGED <<worldVars, ruleVars, incVars, sends, noted, leaked, todo, cur, chans,
                 steps, batch, shut, torn, disturb>>

\* Mutant of RecordRefused: one attempt too many.
RecordRefusedLate ==
  /\ pc = "refused"
  /\ Tried
  /\ del' = [k \in Keys |-> IF k \notin job THEN del[k]
                            ELSE IF attempts[k] >= MaxAttempts THEN "failed"
                            ELSE "waiting"]
  /\ job' = {}
  /\ pc' = "deliver"
  /\ UNCHANGED <<worldVars, ruleVars, incVars, sends, noted, leaked, todo, cur, chans,
                 steps, batch, shut, torn, disturb>>

RecordRefused ==
  /\ pc = "refused"
  /\ Tried
  /\ del' = [k \in Keys |-> IF k \notin job THEN del[k]
                            ELSE IF attempts[k] + 1 >= MaxAttempts THEN "failed"
                            ELSE "waiting"]
  /\ job' = {}
  /\ pc' = "deliver"
  /\ UNCHANGED <<worldVars, ruleVars, incVars, sends, noted, leaked, todo, cur, chans,
                 steps, batch, shut, torn, disturb>>

DeliveriesDone ==
  /\ pc = "deliver" /\ batch = {}
  /\ shut' = {}
  /\ pc' = "loop"
  /\ UNCHANGED <<worldVars, ruleVars, incVars, delVars, leaked, todo, cur, chans, steps,
                 batch, job, torn, disturb>>
-----------------------------------------------------------------------------
Init ==
  /\ cond = [r \in Rules |-> FALSE] /\ window = 1
  /\ due = [r \in Rules |-> TRUE]
  /\ status = [r \in Rules |-> "ok"]
  /\ since = [r \in Rules |-> "none"]
  /\ inc = [r \in Rules |-> "none"]
  /\ aged = [r \in Rules |-> FALSE]
  /\ muted = [r \in Rules |-> FALSE]
  /\ del = [k \in Keys |-> "absent"]
  /\ attempts = [k \in Keys |-> 0]
  /\ sends = [k \in Keys |-> 0]
  /\ noted = {}
  /\ leaked = [r \in Rules |-> FALSE]
  /\ pc = "loop" /\ todo = {} /\ cur = NoRule /\ chans = {} /\ steps = {}
  /\ batch = {} /\ shut = {} /\ job = {}
  /\ torn = {}
  /\ disturb = 0

Time ==
  \/ NextWindow
  \/ \E r \in Rules : \/ Flip(r) \/ IntervalPasses(r) \/ ForSecondsPass(r)
                      \/ WaitSecondsPass(r) \/ SilenceEnds(r) \/ SessionCloses(r)
  \/ \E k \in Keys : BackoffPasses(k)

IncidentPage == \E r \in Rules : Ack(r) \/ Resolve(r) \/ Silence(r)

EvaluateDueRules ==
  \/ FetchRules \/ SkipLocked \/ EvaluationFails \/ EvaluateRule
  \/ OpenIncident \/ RecordFired \/ QueueDelivery \/ QueueCutOff
  \/ SelectFiring \/ ResolveIncident \/ Unlock \/ RulesDone

ProcessEscalations == FetchFiring \/ EscalateStep

ProcessPendingDeliveries ==
  \/ FetchDue \/ RecordSent \/ RecordRefused \/ DeliveriesDone
  \/ \E k \in Keys : DropClosed(k) \/ DropUnreadable(k) \/ OnCallRow(k) \/ Send(k)

MainLoop == Restart \/ EvaluateDueRules \/ ProcessEscalations \/ ProcessPendingDeliveries

Next == Time \/ IncidentPage \/ Exit \/ MainLoop

\* Time passes, idle connections are closed, and the process runs, restarted by
\* the container runtime when it has ended.
Fairness ==
  /\ WF_vars(MainLoop)
  /\ \A r \in Rules : /\ WF_vars(IntervalPasses(r)) /\ WF_vars(ForSecondsPass(r))
                      /\ WF_vars(SessionCloses(r))
  /\ \A k \in Keys : WF_vars(BackoffPasses(k))

Spec == Init /\ [][Next]_vars
FairSpec == Spec /\ Fairness
-----------------------------------------------------------------------------
(* The outbox seen from outside. *)

Phase(d) == IF d \in {"waiting", "due"} THEN "queued" ELSE d

Deliveries == INSTANCE Outbox WITH
                Items <- Keys,
                Mute <- {k \in Keys : k.chan \in Incomplete},
                phase <- [k \in Keys |-> Phase(del[k])],
                tries <- sends

-----------------------------------------------------------------------------
(* Properties. *)

\* Type invariant of every variable.
TypeOK ==
  /\ cond \in [Rules -> BOOLEAN]
  /\ window \in 1 .. MaxWindow
  /\ due \in [Rules -> BOOLEAN]
  /\ status \in [Rules -> {"ok", "pending", "firing"}]
  /\ since \in [Rules -> {"none", "young", "old"}]
  /\ inc \in [Rules -> {"none", "firing", "acknowledged", "resolved", "silenced"}]
  /\ aged \in [Rules -> BOOLEAN]
  /\ muted \in [Rules -> BOOLEAN]
  /\ del \in [Keys -> {"absent", "waiting", "due", "sent", "failed"}]
  /\ attempts \in [Keys -> Nat]
  /\ sends \in [Keys -> Nat]
  /\ noted \subseteq Rules
  /\ leaked \in [Rules -> BOOLEAN]
  /\ pc \in {"down", "loop", "rule", "unlock", "escalate", "step", "deliver"} \cup OfRule \cup OfJob
  /\ todo \subseteq Rules
  /\ cur \in IF pc \in OfRule \cup {"unlock"} THEN Rules ELSE {NoRule}
  /\ chans \subseteq Destinations
  /\ steps \subseteq Rules \X EscChannels
  /\ batch \subseteq Keys
  /\ shut \subseteq Keys
  /\ job \subseteq Keys
  /\ torn \subseteq Rules
  /\ disturb \in Nat

\* The rule's state and its incident, two tables written by separate statements
\* and a third writer on the incident page, agree whenever no exit came between
\* the two statements: a firing rule has an incident, and an incident fires only
\* for a rule that does.
RuleAndIncidentAgree ==
  \A r \in Rules \ torn :
    ~(Between /\ cur = r) =>
      /\ inc[r] = "firing" => status[r] = "firing"
      /\ status[r] = "firing" => inc[r] # "none"

\* The two hold together: with values of every rule, incident and delivery as
\* declared, the two tables agree.
RulesInv == TypeOK /\ RuleAndIncidentAgree

\* However often the process is restarted and a key is inserted again, a
\* delivery that was sent or given up is never queued or sent again.
SettledIsFinal ==
  [][\A k \in Keys : del[k] \in {"sent", "failed"} => del'[k] = del[k] /\ sends'[k] = sends[k]]_vars

\* The deliveries table, filled by two writers and drained by a loop that may be
\* cut off at every statement, is an outbox: each key is queued once, tried only
\* while queued, settled once, and recorded as sent only after a request, unless
\* its channel has nowhere to send to.
ImplementsOutbox == Deliveries!Spec

\* A receiver gets a notification at most MaxAttempts times, and once more for
\* every failure that keeps the outcome from being recorded.
SendsAreBounded == \A k \in Keys : sends[k] <= MaxAttempts + disturb

\* Between the two statements the process knows which way the rule went, and
\* nobody else writes the rule's state in the meantime.
Underway ==
  /\ pc = "open" => status[cur] = "firing"
  /\ pc \in {"select", "resolve"} => status[cur] = "ok"

\* The drain loop handles one delivery at a time, and one it has read stays due
\* until it has recorded what came of it: nobody else settles it.
ReadStaysDue ==
  /\ IF pc \in OfJob THEN \E k \in Keys : job = {k} ELSE job = {}
  /\ \A k \in batch \cup job : del[k] = "due"
  /\ \A k \in job : k \notin batch /\ (sends[k] > 0 \/ k.chan \in Incomplete)

\* A delivery that may still be sent has an attempt left, and a request whose
\* outcome is not among the attempts is under way or was cut off.
AttemptsAreCounted ==
  \A k \in Keys :
    /\ attempts[k] <= MaxAttempts
    /\ del[k] \in {"absent", "waiting", "due"} => attempts[k] < MaxAttempts
    /\ sends[k] <= attempts[k] + disturb + (IF k \in job THEN 1 ELSE 0)

\* A rule whose evaluation fails is due for ever and gets no further: no state, no
\* incident, no delivery, whatever its condition does and however often the process
\* is restarted.  And it holds all others: the loop never comes to its second half,
\* so nothing is escalated, sent or given up.  With Broken = Rules, as the code
\* has it, nothing is ever raised, and a single rule is enough.
BrokenIsQuiet ==
  /\ \A r \in Broken : due[r] /\ status[r] = "ok" /\ inc[r] = "none"
  /\ \A k \in Keys : k.rule \in Broken => del[k] = "absent"
  /\ Broken # {} =>
       /\ pc \notin {"escalate", "step", "deliver"} \cup OfJob
       /\ \A k \in Keys : sends[k] = 0 /\ del[k] \notin {"sent", "failed"}

\* The loop cannot pass over a broken rule either: its lock is never taken for
\* longer than the evaluation.
BrokenIsNext ==
  /\ cur \notin Broken
  /\ \A r \in Broken : ~leaked[r]
  /\ pc \in {"rule", "unlock"} \cup OfRule => Broken \subseteq todo

\* What the tables of the alerter say holds whatever cuts its loops off: rule and
\* incident agree, what is read stays due, attempts are counted, no delivery is
\* sent more often than it may be, and a rule that cannot be evaluated stays quiet.
AlerterInv ==
  /\ RulesInv /\ Underway
  /\ ReadStaysDue /\ AttemptsAreCounted /\ SendsAreBounded
  /\ BrokenIsQuiet /\ BrokenIsNext

\* PRODUCT.md has the system surface alerts: a condition that stays met is raised
\* as an incident.
ConditionIsRaised == \A r \in Rules : <>[]cond[r] => <>(inc[r] # "none")
=============================================================================
