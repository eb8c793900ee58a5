---------------------------- MODULE AlerterProofs ---------------------------
(***************************************************************************)
(* Proofs about Alerter for every set of rules and channels and every      *)
(* value of the bounds: the inductive invariant AlerterInv, that a settled *)
(* delivery stays settled, and that the alerter implements Outbox.         *)
(***************************************************************************)
EXTENDS Alerter, TLAPS, WellFoundedInduction

-----------------------------------------------------------------------------
(* Facts about the pieces several actions share. *)

\* A nonempty set of rules has an oldest one.
LEMMA FirstIsMember ==
  ASSUME NEW S \in SUBSET Rules, S # {} PROVE First(S) \in S
<1> DEFINE R == OpToRel(<, Nat)
<1>1. S \subseteq Nat
  BY ConstantsAssumption DEF Rules
<1>2. IsWellFoundedOn(R, Nat)
  BY NatLessThanWellFounded, Zenon
<1>3. PICK x \in S : \A y \in S : ~(<<y, x>> \in R)
  BY <1>1, <1>2, WFMin, Zenon
<1>4. \A y \in S : x <= y
  <2> TAKE y \in S
  <2>1. ~(y < x)
    BY <1>1, <1>3 DEF OpToRel
  <2> QED
    BY <1>1, <2>1
<1> QED
  BY <1>4 DEF First

LEMMA KeyIsInKeys ==
  ASSUME NEW r \in Rules, NEW c \in Destinations \cup EscChannels, NEW w \in 0 .. MaxWindow
  PROVE  Key(r, c, w) \in Keys
BY DEF Key, Keys

LEMMA NextStatusType ==
  ASSUME TypeOK, NEW r \in Rules
  PROVE  NextStatus(r) \in {"ok", "pending", "firing"}
BY DEF NextStatus, TypeOK

LEMMA InsertOnlyQueues ==
  ASSUME TypeOK, NEW k \in Keys, NEW as \in {"waiting", "due"}, Insert(k, as)
  PROVE  /\ del' \in [Keys -> {"absent", "waiting", "due", "sent", "failed"}]
         /\ \A j \in Keys : \/ del'[j] = del[j]
                            \/ j = k /\ del[j] = "absent" /\ del'[j] = as
BY DEF Insert, TypeOK

LEMMA RuleNotNone == NoRule \notin Rules
BY ConstantsAssumption DEF Rules, NoRule

-----------------------------------------------------------------------------
(* Type correctness. *)

LEMMA InitType == Init => TypeOK
BY ConstantsAssumption DEF Init, TypeOK, OfRule, OfJob

LEMMA TypeStep == ASSUME TypeOK, [Next]_vars PROVE TypeOK'
<1> USE DEF worldVars, ruleVars, incVars, delVars, workVars
<1> USE ConstantsAssumption
<1>1. CASE UNCHANGED vars
  BY <1>1 DEF vars, TypeOK
<1>2. CASE NextWindow
  BY <1>2 DEF NextWindow, TypeOK
<1>3. ASSUME NEW r \in Rules,
             Flip(r) \/ IntervalPasses(r) \/ ForSecondsPass(r) \/ WaitSecondsPass(r)
               \/ SilenceEnds(r) \/ SessionCloses(r)
      PROVE  TypeOK'
  <2>1. CASE Flip(r)
    BY <2>1 DEF Flip, TypeOK
  <2>2. CASE IntervalPasses(r)
    BY <2>2 DEF IntervalPasses, TypeOK
  <2>3. CASE ForSecondsPass(r)
    BY <2>3 DEF ForSecondsPass, TypeOK
  <2>4. CASE WaitSecondsPass(r)
    BY <2>4 DEF WaitSecondsPass, TypeOK
  <2>5. CASE SilenceEnds(r)
    BY <2>5 DEF SilenceEnds, TypeOK
  <2>6. CASE SessionCloses(r)
    BY <2>6 DEF SessionCloses, TypeOK
  <2> QED
    BY <1>3, <2>1, <2>2, <2>3, <2>4, <2>5, <2>6
<1>4. ASSUME NEW k \in Keys, BackoffPasses(k) PROVE TypeOK'
  BY <1>4 DEF BackoffPasses, TypeOK
<1>5. ASSUME NEW r \in Rules, Ack(r) \/ Resolve(r) \/ Silence(r) PROVE TypeOK'
  <2>1. ASSUME NEW to \in {"acknowledged", "resolved", "silenced"}, Page(r, to),
               muted' \in [Rules -> BOOLEAN]
        PROVE  TypeOK'
    BY <2>1 DEF Page, TypeOK
  <2>2. muted' \in [Rules -> BOOLEAN]
    BY <1>5 DEF Ack, Resolve, Silence, TypeOK
  <2> QED
    BY <1>5, <2>1, <2>2 DEF Ack, Resolve, Silence
<1>6. ASSUME Down, disturb' \in Nat PROVE TypeOK'
  <2>1. torn' \subseteq Rules
    BY <1>6 DEF Down, Halt, Between, TypeOK, OfRule
  <2> QED
    BY <1>6, <2>1 DEF Down, Halt, TypeOK, OfRule, OfJob
<1>7. CASE Exit
  BY <1>6, <1>7 DEF Exit, Disturb, TypeOK
<1>8. CASE Restart
  BY <1>8 DEF Restart, TypeOK, OfRule, OfJob
<1>9. CASE FetchRules
  BY <1>9 DEF FetchRules, TypeOK, OfRule, OfJob
<1>10. CASE SkipLocked
  BY <1>10 DEF SkipLocked, TypeOK
<1>11. CASE EvaluationFails
  BY <1>6, <1>11 DEF EvaluationFails, TypeOK
<1>12. CASE EvaluateRule
  <2> DEFINE r == First(todo)
  <2>1. r \in Rules
    BY <1>12, FirstIsMember DEF EvaluateRule, TypeOK
  <2>2. NextStatus(r) \in {"ok", "pending", "firing"}
    BY <2>1, NextStatusType
  <2>3. /\ due' = [due EXCEPT ![r] = FALSE]
        /\ status' = [status EXCEPT ![r] = NextStatus(r)]
        /\ since' = [since EXCEPT ![r] = IF NextStatus(r) = "ok" THEN "none"
                                         ELSE IF @ = "none" THEN "young" ELSE @]
        /\ pc' \in {"open", "select", "unlock"}
        /\ cur' = r /\ todo' = todo \ {r}
        /\ UNCHANGED <<worldVars, incVars, delVars, leaked, chans, steps, batch, shut,
                       job, torn, disturb>>
    BY <1>12 DEF EvaluateRule
  <2> HIDE DEF r
  <2> QED
    BY <2>1, <2>2, <2>3 DEF TypeOK, OfRule, OfJob
<1>13. CASE OpenIncident
  BY <1>13 DEF OpenIncident, TypeOK, OfRule, OfJob
<1>14. CASE RecordFired
  BY <1>14 DEF RecordFired, TypeOK, OfRule, OfJob
<1>15. CASE QueueDelivery
  <2>1. PICK c \in chans :
          /\ \/ Insert(Key(cur, c, window), "waiting") /\ noted' \in {noted, noted \cup {cur}}
             \/ UNCHANGED <<del, noted>>
          /\ chans' = chans \ {c}
    BY <1>15 DEF QueueDelivery
  <2>2. cur \in Rules /\ c \in Destinations /\ window \in 0 .. MaxWindow
    BY <1>15 DEF QueueDelivery, TypeOK, OfRule
  <2>3. del' \in [Keys -> {"absent", "waiting", "due", "sent", "failed"}]
    BY <2>1, <2>2, KeyIsInKeys, InsertOnlyQueues DEF TypeOK
  <2>4. noted' \subseteq Rules
    BY <2>1, <2>2 DEF TypeOK
  <2> QED
    BY <1>15, <2>1, <2>3, <2>4 DEF QueueDelivery, TypeOK, OfRule, OfJob
<1>30. CASE QueueCutOff
  <2>1. PICK c \in chans : Insert(Key(cur, c, window), "waiting")
    BY <1>30 DEF QueueCutOff
  <2>2. cur \in Rules /\ c \in Destinations /\ window \in 0 .. MaxWindow
    BY <1>30 DEF QueueCutOff, TypeOK, OfRule
  <2>3. del' \in [Keys -> {"absent", "waiting", "due", "sent", "failed"}]
    BY <2>1, <2>2, KeyIsInKeys, InsertOnlyQueues DEF TypeOK
  <2>4. torn' = torn /\ disturb' \in Nat
    BY <1>30 DEF QueueCutOff, Halt, Between, Disturb, TypeOK
  <2> QED
    BY <1>30, <2>3, <2>4 DEF QueueCutOff, Halt, TypeOK, OfRule, OfJob
<1>16. CASE SelectFiring
  BY <1>16 DEF SelectFiring, TypeOK, OfRule, OfJob
<1>17. CASE ResolveIncident
  BY <1>17 DEF ResolveIncident, TypeOK, OfRule, OfJob
<1>18. CASE Unlock
  <2>1. cur \in Rules
    BY <1>18 DEF Unlock, TypeOK
  <2>2. /\ leaked' = leaked \/ leaked' = [leaked EXCEPT ![cur] = TRUE]
        /\ disturb' = disturb \/ disturb' = disturb + 1
    BY <1>18 DEF Unlock, Disturb
  <2>3. leaked' \in [Rules -> BOOLEAN]
    BY <2>1, <2>2 DEF TypeOK
  <2>4. disturb' \in Nat
    BY <2>2 DEF TypeOK
  <2> QED
    BY <1>18, <2>3, <2>4 DEF Unlock, TypeOK, OfRule, OfJob
<1>19. CASE RulesDone
  BY <1>19 DEF RulesDone, TypeOK, OfRule, OfJob
<1>20. CASE FetchFiring
  BY <1>20 DEF FetchFiring, TypeOK, OfRule, OfJob
<1>21. CASE EscalateStep
  <2>1. PICK s \in steps :
          /\ steps' = steps \ {s}
          /\ Insert(Key(s[1], s[2], Escalation), "due") \/ UNCHANGED del
    BY <1>21 DEF EscalateStep
  <2>2. s[1] \in Rules /\ s[2] \in EscChannels /\ Escalation \in 0 .. MaxWindow
    BY <2>1 DEF TypeOK, Escalation
  <2>3. del' \in [Keys -> {"absent", "waiting", "due", "sent", "failed"}]
    BY <2>1, <2>2, KeyIsInKeys, InsertOnlyQueues DEF TypeOK
  <2> QED
    BY <1>21, <2>1, <2>3 DEF EscalateStep, TypeOK
<1>22. CASE FetchDue
  BY <1>22 DEF FetchDue, TypeOK, OfRule, OfJob
<1>23. CASE RecordSent
  BY <1>23 DEF RecordSent, Tried, TypeOK, OfRule, OfJob
<1>24. CASE RecordRefused
  BY <1>24 DEF RecordRefused, Tried, TypeOK, OfRule, OfJob
<1>25. CASE DeliveriesDone
  BY <1>25 DEF DeliveriesDone, TypeOK, OfRule, OfJob
<1>26. ASSUME NEW k \in Keys, DropClosed(k) PROVE TypeOK'
  BY <1>26 DEF DropClosed, TypeOK
<1>27. ASSUME NEW k \in Keys, DropUnreadable(k) PROVE TypeOK'
  BY <1>27 DEF DropUnreadable, TypeOK
<1>28. ASSUME NEW k \in Keys, OnCallRow(k) PROVE TypeOK'
  BY <1>6, <1>28 DEF OnCallRow, TypeOK
<1>29. ASSUME NEW k \in Keys, Send(k) PROVE TypeOK'
  BY <1>29 DEF Send, TypeOK, OfRule, OfJob
<1> QED
  BY <1>1, <1>2, <1>3, <1>4, <1>5, <1>7, <1>8, <1>9, <1>10, <1>11, <1>12, <1>13, <1>14,
     <1>15, <1>16, <1>17, <1>18, <1>19, <1>20, <1>21, <1>22, <1>23, <1>24, <1>25, <1>26,
     <1>27, <1>28, <1>29, <1>30
     DEF Next, Time, IncidentPage, MainLoop, EvaluateDueRules, ProcessEscalations,
         ProcessPendingDeliveries

-----------------------------------------------------------------------------
(* The rule's state and its incident. *)

\* An action that leaves the rule's state, its incident and the process between
\* them alone keeps them in agreement.
LEMMA AgreementUntouched ==
  ASSUME RuleAndIncidentAgree, Underway, UNCHANGED <<status, inc, torn, pc, cur>>
  PROVE  RuleAndIncidentAgree' /\ Underway'
BY DEF RuleAndIncidentAgree, Underway, Between

\* The same when the process moves on and was not, and is not, between them.
LEMMA AgreementElsewhere ==
  ASSUME RuleAndIncidentAgree, ~Between, ~Between', UNCHANGED <<status, inc, torn>>
  PROVE  RuleAndIncidentAgree' /\ Underway'
BY DEF RuleAndIncidentAgree, Underway, Between

LEMMA AgreementStep ==
  ASSUME TypeOK, RuleAndIncidentAgree, Underway, [Next]_vars
  PROVE  RuleAndIncidentAgree' /\ Underway'
<1> USE DEF worldVars, ruleVars, incVars, delVars, workVars
<1>1. CASE UNCHANGED vars
  BY <1>1, AgreementUntouched DEF vars
<1>2. CASE Time
  BY <1>2, AgreementUntouched
     DEF Time, NextWindow, Flip, IntervalPasses, ForSecondsPass, WaitSecondsPass,
         SilenceEnds, SessionCloses, BackoffPasses
<1>3. ASSUME NEW r \in Rules, NEW to \in {"acknowledged", "resolved", "silenced"}, Page(r, to)
      PROVE  RuleAndIncidentAgree' /\ Underway'
  BY <1>3 DEF Page, RuleAndIncidentAgree, Underway, Between, TypeOK
<1>4. CASE IncidentPage
  BY <1>3, <1>4 DEF IncidentPage, Ack, Resolve, Silence
<1>5. CASE Down
  BY <1>5 DEF Down, Halt, RuleAndIncidentAgree, Underway, Between
<1>6. CASE Exit \/ EvaluationFails \/ \E k \in Keys : OnCallRow(k)
  BY <1>5, <1>6 DEF Exit, EvaluationFails, OnCallRow
<1>7. CASE EvaluateRule
  <2> DEFINE r == First(todo)
  <2>1. r \in Rules
    BY <1>7, FirstIsMember DEF EvaluateRule, TypeOK
  <2>2. /\ status' = [status EXCEPT ![r] = NextStatus(r)]
        /\ pc' = CASE status[r] # "firing" /\ NextStatus(r) = "firing" -> "open"
                   [] status[r] = "firing" /\ NextStatus(r) = "ok" -> "select"
                   [] OTHER -> "unlock"
        /\ cur' = r
        /\ pc = "rule"
        /\ UNCHANGED <<inc, torn>>
    BY <1>7 DEF EvaluateRule
  <2>3. NextStatus(r) \in {"ok", "pending", "firing"}
    BY <2>1, NextStatusType
  <2>4. status[r] = "firing" => NextStatus(r) \in {"ok", "firing"}
    BY DEF NextStatus
  <2> HIDE DEF r
  <2>5. Underway'
    BY <2>1, <2>2, <2>3 DEF Underway, TypeOK
  <2>6. ASSUME NEW q \in Rules \ torn', ~(Between' /\ cur' = q)
        PROVE  /\ inc'[q] = "firing" => status'[q] = "firing"
               /\ status'[q] = "firing" => inc'[q] # "none"
    <3>1. /\ inc[q] = "firing" => status[q] = "firing"
          /\ status[q] = "firing" => inc[q] # "none"
      BY <2>2, <2>6 DEF RuleAndIncidentAgree, Between
    <3>2. CASE q # r
      BY <2>1, <2>2, <3>1, <3>2 DEF TypeOK
    <3>3. CASE q = r
      <4>1. pc' = "unlock"
        BY <2>2, <2>6, <3>3 DEF Between
      <4>2. status[r] = "firing" <=> NextStatus(r) = "firing"
        BY <2>2, <2>3, <2>4, <4>1
      <4> QED
        BY <2>1, <2>2, <3>1, <3>3, <4>2 DEF TypeOK
    <3> QED
      BY <3>2, <3>3
  <2> QED
    BY <2>5, <2>6 DEF RuleAndIncidentAgree
<1>8. CASE OpenIncident
  BY <1>8 DEF OpenIncident, RuleAndIncidentAgree, Underway, Between, TypeOK, OfRule
<1>9. CASE SelectFiring
  BY <1>9 DEF SelectFiring, RuleAndIncidentAgree, Underway, Between, TypeOK, OfRule
<1>10. CASE ResolveIncident
  BY <1>10 DEF ResolveIncident, RuleAndIncidentAgree, Underway, Between, TypeOK, OfRule
<1>11. CASE \/ Restart \/ FetchRules \/ SkipLocked \/ RecordFired \/ QueueDelivery
            \/ QueueCutOff \/ Unlock \/ RulesDone \/ ProcessEscalations
  BY <1>11, AgreementElsewhere
     DEF Restart, FetchRules, SkipLocked, RecordFired, QueueDelivery, QueueCutOff, Halt,
         Unlock, RulesDone, ProcessEscalations, FetchFiring, EscalateStep, Between
<1>12. CASE \/ FetchDue \/ RecordSent \/ RecordRefused \/ DeliveriesDone
            \/ \E k \in Keys : DropClosed(k) \/ DropUnreadable(k) \/ Send(k)
  BY <1>12, AgreementElsewhere
     DEF FetchDue, RecordSent, RecordRefused, DeliveriesDone, DropClosed,
         DropUnreadable, Send, Between
<1> QED
  BY <1>1, <1>2, <1>4, <1>6, <1>7, <1>8, <1>9, <1>10, <1>11, <1>12
     DEF Next, MainLoop, EvaluateDueRules, ProcessPendingDeliveries

-----------------------------------------------------------------------------
(* The outbox. *)

\* The steps that leave the drain loop and its deliveries alone.
LEMMA OutboxUntouched ==
  ASSUME ReadStaysDue, AttemptsAreCounted,
         UNCHANGED <<del, attempts, sends, batch, job, disturb>>,
         (pc' \notin OfJob /\ pc \notin OfJob) \/ pc' = pc
  PROVE  ReadStaysDue' /\ AttemptsAreCounted'
BY DEF ReadStaysDue, AttemptsAreCounted

\* A key becomes due again, or one that nobody had is queued.
LEMMA OutboxQueued ==
  ASSUME TypeOK, ReadStaysDue, AttemptsAreCounted, NEW k \in Keys,
         del[k] \in {"absent", "waiting"},
         NEW as \in {"waiting", "due"},
         \A j \in Keys : IF j = k THEN del'[j] = as ELSE del'[j] = del[j],
         UNCHANGED <<attempts, sends, batch, job, disturb>>,
         (pc' \notin OfJob /\ pc \notin OfJob) \/ pc' = pc
  PROVE  ReadStaysDue' /\ AttemptsAreCounted'
BY DEF ReadStaysDue, AttemptsAreCounted, TypeOK

LEMMA OutboxDown ==
  ASSUME TypeOK, ReadStaysDue, AttemptsAreCounted, Halt, UNCHANGED <<del, attempts, sends>>,
         \/ pc \notin OfJob /\ UNCHANGED disturb
         \/ disturb' = disturb + 1
  PROVE  ReadStaysDue' /\ AttemptsAreCounted'
<1>1. ReadStaysDue'
  BY DEF Halt, ReadStaysDue, OfJob
<1>2. \A k \in Keys : sends[k] <= attempts[k] + disturb'
  BY DEF ReadStaysDue, AttemptsAreCounted, TypeOK
<1>3. ASSUME NEW k \in Keys
      PROVE  /\ attempts'[k] <= MaxAttempts
             /\ del'[k] \in {"absent", "waiting", "due"} => attempts'[k] < MaxAttempts
             /\ sends'[k] <= attempts'[k] + disturb' + (IF k \in job' THEN 1 ELSE 0)
  <2>1. job' = {} /\ attempts' = attempts /\ sends' = sends /\ del' = del
    BY DEF Halt
  <2>2. sends[k] <= attempts[k] + disturb' + 0
    BY <1>2 DEF TypeOK
  <2> QED
    BY <2>1, <2>2 DEF AttemptsAreCounted
<1> QED
  BY <1>1, <1>3 DEF AttemptsAreCounted

\* Recording what came of the delivery under way.
LEMMA OutboxRecorded ==
  ASSUME TypeOK, ReadStaysDue, AttemptsAreCounted, NEW k \in Keys, job = {k}, Tried,
         \A j \in Keys \ {k} : del'[j] = del[j],
         \/ del'[k] \in {"sent", "failed"}
         \/ del'[k] = "waiting" /\ attempts[k] + 1 < MaxAttempts,
         job' = {}, pc' \notin OfJob,
         UNCHANGED <<sends, batch, disturb>>
  PROVE  ReadStaysDue' /\ AttemptsAreCounted'
<1>1. ReadStaysDue'
  BY DEF ReadStaysDue, TypeOK
<1>2. del[k] = "due" /\ attempts[k] + 1 <= MaxAttempts
  BY ConstantsAssumption DEF ReadStaysDue, AttemptsAreCounted, TypeOK
<1>3. ASSUME NEW j \in Keys
      PROVE  /\ attempts'[j] <= MaxAttempts
             /\ del'[j] \in {"absent", "waiting", "due"} => attempts'[j] < MaxAttempts
             /\ sends'[j] <= attempts'[j] + disturb' + (IF j \in job' THEN 1 ELSE 0)
  <2>1. CASE j = k
    BY <1>2, <2>1 DEF Tried, AttemptsAreCounted, TypeOK
  <2>2. CASE j # k
    BY <2>2 DEF Tried, AttemptsAreCounted, TypeOK
  <2> QED
    BY <2>1, <2>2
<1> QED
  BY <1>1, <1>3 DEF AttemptsAreCounted

LEMMA OutboxStep ==
  ASSUME TypeOK, ReadStaysDue, AttemptsAreCounted, [Next]_vars
  PROVE  ReadStaysDue' /\ AttemptsAreCounted'
<1> USE DEF worldVars, ruleVars, incVars, delVars, workVars
<1>1. CASE UNCHANGED vars
  BY <1>1, OutboxUntouched DEF vars
<1>2. ASSUME NEW k \in Keys, BackoffPasses(k) PROVE ReadStaysDue' /\ AttemptsAreCounted'
  <2>1. \A j \in Keys : IF j = k THEN del'[j] = "due" ELSE del'[j] = del[j]
    BY <1>2 DEF BackoffPasses, TypeOK
  <2> QED
    BY <1>2, <2>1, OutboxQueued DEF BackoffPasses
<1>3. CASE Time
  BY <1>2, <1>3, OutboxUntouched
     DEF Time, NextWindow, Flip, IntervalPasses, ForSecondsPass, WaitSecondsPass,
         SilenceEnds, SessionCloses
<1>4. CASE IncidentPage
  BY <1>4, OutboxUntouched DEF IncidentPage, Ack, Resolve, Silence, Page
<1>5. CASE Exit \/ EvaluationFails \/ \E k \in Keys : OnCallRow(k)
  BY <1>5, OutboxDown DEF Exit, Disturb, EvaluationFails, OnCallRow, Down, OfJob
<1>6. CASE \/ Restart \/ FetchRules \/ SkipLocked \/ EvaluateRule \/ OpenIncident
           \/ RecordFired \/ SelectFiring \/ ResolveIncident \/ RulesDone \/ FetchFiring
  BY <1>6, OutboxUntouched
     DEF Restart, FetchRules, SkipLocked, EvaluateRule, OpenIncident, RecordFired,
         SelectFiring, ResolveIncident, RulesDone, FetchFiring, OfJob
<1>7. CASE Unlock
  <2>1. AttemptsAreCounted'
    <3>1. disturb' = disturb \/ disturb' = disturb + 1
      BY <1>7 DEF Unlock, Disturb
    <3> QED
      BY <1>7, <3>1 DEF Unlock, AttemptsAreCounted, TypeOK
  <2> QED
    BY <1>7, <2>1 DEF Unlock, ReadStaysDue, OfJob
<1>8. ASSUME NEW k \in Keys, NEW as \in {"waiting", "due"}, Insert(k, as),
             UNCHANGED <<attempts, sends, batch, job, disturb>>,
             pc' \notin OfJob, pc \notin OfJob
      PROVE  ReadStaysDue' /\ AttemptsAreCounted'
  <2>1. CASE del[k] = "absent"
    <3>1. \A j \in Keys : IF j = k THEN del'[j] = as ELSE del'[j] = del[j]
      BY <1>8, <2>1 DEF Insert, TypeOK
    <3> QED
      BY <1>8, <2>1, <3>1, OutboxQueued
  <2>2. CASE del[k] # "absent"
    BY <1>8, <2>2, OutboxUntouched DEF Insert
  <2> QED
    BY <2>1, <2>2
<1>9. CASE QueueDelivery
  <2>1. PICK c \in chans : Insert(Key(cur, c, window), "waiting") \/ UNCHANGED del
    BY <1>9 DEF QueueDelivery
  <2>2. Key(cur, c, window) \in Keys
    BY <1>9, <2>1, KeyIsInKeys DEF QueueDelivery, TypeOK, OfRule
  <2> QED
    BY <1>8, <1>9, <2>1, <2>2, OutboxUntouched DEF QueueDelivery, OfJob
<1>17. CASE QueueCutOff
  <2>1. PICK c \in chans : Insert(Key(cur, c, window), "waiting")
    BY <1>17 DEF QueueCutOff
  <2>2. PICK k \in Keys : k = Key(cur, c, window)
    BY <1>17, <2>1, KeyIsInKeys DEF QueueCutOff, TypeOK, OfRule
  <2>3. /\ pc \notin OfJob /\ pc' \notin OfJob /\ job = {} /\ job' = {} /\ batch' = {}
        /\ UNCHANGED <<attempts, sends>> /\ disturb' = disturb + 1
    BY <1>17 DEF QueueCutOff, Halt, Disturb, OfJob, ReadStaysDue
  <2>4. \A j \in Keys : del'[j] \in {"absent", "waiting", "due"} => del[j] \in {"absent", "waiting", "due"}
    BY <2>1, <2>2, InsertOnlyQueues
  <2> QED
    BY <2>3, <2>4 DEF ReadStaysDue, AttemptsAreCounted, TypeOK
<1>10. CASE EscalateStep
  <2>1. PICK s \in steps : Insert(Key(s[1], s[2], Escalation), "due") \/ UNCHANGED del
    BY <1>10 DEF EscalateStep
  <2>2. Key(s[1], s[2], Escalation) \in Keys
    BY <2>1, KeyIsInKeys, ConstantsAssumption DEF TypeOK, Escalation
  <2> QED
    BY <1>8, <1>10, <2>1, <2>2, OutboxUntouched DEF EscalateStep, OfJob
<1>11. CASE FetchDue
  BY <1>11 DEF FetchDue, ReadStaysDue, AttemptsAreCounted, OfJob
<1>12. CASE DeliveriesDone
  BY <1>12, OutboxUntouched DEF DeliveriesDone, OfJob
<1>13. ASSUME NEW k \in Keys, DropClosed(k) PROVE ReadStaysDue' /\ AttemptsAreCounted'
  <2>1. ReadStaysDue'
    BY <1>13 DEF DropClosed, ReadStaysDue, TypeOK, OfJob
  <2> QED
    BY <1>13, <2>1 DEF DropClosed, AttemptsAreCounted, TypeOK
<1>14. ASSUME NEW k \in Keys, DropUnreadable(k) PROVE ReadStaysDue' /\ AttemptsAreCounted'
  <2>1. ReadStaysDue'
    BY <1>14 DEF DropUnreadable, ReadStaysDue, TypeOK, OfJob
  <2>2. del[k] = "due" /\ attempts[k] + 1 <= MaxAttempts
    BY <1>14, ConstantsAssumption DEF DropUnreadable, ReadStaysDue, AttemptsAreCounted, TypeOK
  <2> QED
    BY <1>14, <2>1, <2>2 DEF DropUnreadable, AttemptsAreCounted, TypeOK
<1>15. ASSUME NEW k \in Keys, Send(k) PROVE ReadStaysDue' /\ AttemptsAreCounted'
  <2>1. /\ del[k] = "due" /\ job = {} /\ job' = {k}
        /\ \/ sends'[k] = sends[k] + 1
           \/ sends'[k] = sends[k] /\ k.chan \in Incomplete
    BY <1>15 DEF Send, ReadStaysDue, TypeOK, OfJob
  <2>2. \A j \in Keys \ {k} : sends'[j] = sends[j]
    BY <1>15 DEF Send, TypeOK
  <2>3. ReadStaysDue'
    BY <1>15, <2>1 DEF Send, ReadStaysDue, TypeOK, OfJob
  <2> QED
    BY <1>15, <2>1, <2>2, <2>3 DEF Send, AttemptsAreCounted, TypeOK
<1>16. CASE RecordSent \/ RecordRefused
  <2>1. PICK k \in Keys : job = {k}
    BY <1>16 DEF RecordSent, RecordRefused, ReadStaysDue, OfJob
  <2>2. /\ \A j \in Keys \ {k} : del'[j] = del[j]
        /\ \/ del'[k] \in {"sent", "failed"}
           \/ del'[k] = "waiting" /\ attempts[k] + 1 < MaxAttempts
    BY <1>16, <2>1, ConstantsAssumption DEF RecordSent, RecordRefused, TypeOK
  <2> QED
    BY <1>16, <2>1, <2>2, OutboxRecorded DEF RecordSent, RecordRefused, OfJob
<1> QED
  BY <1>1, <1>3, <1>4, <1>5, <1>6, <1>7, <1>9, <1>10, <1>11, <1>12, <1>13, <1>14, <1>15, <1>16, <1>17
     DEF Next, MainLoop, EvaluateDueRules, ProcessEscalations, ProcessPendingDeliveries

-----------------------------------------------------------------------------
(* A rule that cannot be evaluated. *)

\* The second half of the loop.
Draining == {"escalate", "step", "deliver"} \cup OfJob

LEMMA BrokenIsRule == Broken \subseteq Rules /\ NoRule \notin Broken
BY RuleNotNone, ConstantsAssumption

\* A step that changes nothing these two invariants speak of.
LEMMA QuietUntouched ==
  ASSUME BrokenIsQuiet, BrokenIsNext,
         UNCHANGED <<status, inc, del, sends, leaked, cur, todo, pc>>,
         \A r \in Rules : due[r] => due'[r]
  PROVE  BrokenIsQuiet' /\ BrokenIsNext'
BY BrokenIsRule DEF BrokenIsQuiet, BrokenIsNext

\* The process ends; a delivery of an evaluated rule may just have been queued.
LEMMA QuietHalt ==
  ASSUME TypeOK, BrokenIsQuiet, Halt, UNCHANGED sends,
         \A k \in Keys : del'[k] = del[k] \/ (k.rule \notin Broken /\ del'[k] = "waiting")
  PROVE  BrokenIsQuiet' /\ BrokenIsNext'
<1>1. BrokenIsNext'
  BY BrokenIsRule DEF Halt, BrokenIsNext, OfRule
<1> QED
  BY <1>1 DEF Halt, BrokenIsQuiet, OfJob, ruleVars, incVars

LEMMA QuietStep ==
  ASSUME TypeOK, Underway, BrokenIsQuiet, BrokenIsNext, [Next]_vars
  PROVE  BrokenIsQuiet' /\ BrokenIsNext'
<1> USE DEF worldVars, ruleVars, incVars, delVars, workVars
<1>1. CASE UNCHANGED vars
  BY <1>1, QuietUntouched DEF vars
<1>2. CASE Time
  <2>1. ASSUME NEW k \in Keys, BackoffPasses(k) PROVE BrokenIsQuiet' /\ BrokenIsNext'
    BY <2>1 DEF BackoffPasses, BrokenIsQuiet, BrokenIsNext, TypeOK
  <2>2. ASSUME NEW r \in Rules, SessionCloses(r) PROVE BrokenIsQuiet' /\ BrokenIsNext'
    BY <2>2, BrokenIsRule DEF SessionCloses, BrokenIsQuiet, BrokenIsNext, TypeOK
  <2>3. ASSUME NEW r \in Rules, IntervalPasses(r) PROVE BrokenIsQuiet' /\ BrokenIsNext'
    BY <2>3, QuietUntouched DEF IntervalPasses, TypeOK
  <2>4. ASSUME NEW r \in Rules,
               NextWindow \/ Flip(r) \/ ForSecondsPass(r) \/ WaitSecondsPass(r) \/ SilenceEnds(r)
        PROVE  BrokenIsQuiet' /\ BrokenIsNext'
    BY <2>4, QuietUntouched DEF NextWindow, Flip, ForSecondsPass, WaitSecondsPass, SilenceEnds
  <2>5. CASE NextWindow
    BY <2>5, QuietUntouched DEF NextWindow
  <2> QED
    BY <1>2, <2>1, <2>2, <2>3, <2>4, <2>5 DEF Time
<1>3. ASSUME NEW r \in Rules, NEW to \in {"acknowledged", "resolved", "silenced"}, Page(r, to)
      PROVE  BrokenIsQuiet' /\ BrokenIsNext'
  BY <1>3, BrokenIsRule DEF Page, BrokenIsQuiet, BrokenIsNext, TypeOK
<1>4. CASE IncidentPage
  BY <1>3, <1>4 DEF IncidentPage, Ack, Resolve, Silence
<1>5. CASE Exit \/ EvaluationFails \/ \E k \in Keys : OnCallRow(k)
  BY <1>5, QuietHalt DEF Exit, EvaluationFails, OnCallRow, Down
<1>6. CASE Restart \/ FetchRules
  BY <1>6, BrokenIsRule DEF Restart, FetchRules, BrokenIsQuiet, BrokenIsNext, OfJob, OfRule
<1>7. CASE SkipLocked
  <2>1. First(todo) \notin Broken
    BY <1>7 DEF SkipLocked, BrokenIsNext
  <2> QED
    BY <1>7, <2>1 DEF SkipLocked, BrokenIsQuiet, BrokenIsNext
<1>8. CASE EvaluateRule
  <2>1. PICK r \in Rules : r = First(todo)
    BY <1>8, FirstIsMember DEF EvaluateRule, TypeOK
  <2>2. /\ r \notin Broken /\ pc = "rule" /\ pc' \in {"open", "select", "unlock"}
        /\ cur' = r /\ todo' = todo \ {r}
        /\ UNCHANGED <<inc, del, sends, leaked>>
    BY <1>8, <2>1 DEF EvaluateRule
  <2>3. \A q \in Rules \ {r} : due'[q] = due[q] /\ status'[q] = status[q]
    BY <1>8, <2>1 DEF EvaluateRule, TypeOK
  <2>4. BrokenIsQuiet'
    BY <2>2, <2>3, BrokenIsRule DEF BrokenIsQuiet, OfJob
  <2> QED
    BY <2>2, <2>4 DEF BrokenIsNext, OfRule
<1>9. CASE OpenIncident \/ ResolveIncident
  <2>1. cur \in Rules \ Broken
    BY <1>9 DEF OpenIncident, ResolveIncident, BrokenIsNext, TypeOK, OfRule
  <2>2. /\ \A r \in Rules \ {cur} : inc'[r] = inc[r]
        /\ pc \in {"open", "resolve"} /\ pc' \in {"fired", "unlock"}
        /\ UNCHANGED <<due, status, del, sends, leaked, cur, todo>>
    BY <1>9 DEF OpenIncident, ResolveIncident, TypeOK
  <2>3. BrokenIsQuiet'
    BY <2>1, <2>2, BrokenIsRule DEF BrokenIsQuiet, OfJob
  <2> QED
    BY <2>2, <2>3 DEF BrokenIsNext, OfRule
<1>10. CASE RecordFired \/ SelectFiring
  BY <1>10 DEF RecordFired, SelectFiring, BrokenIsQuiet, BrokenIsNext, OfJob, OfRule
<1>11. ASSUME pc = "queue", NEW c \in chans, Insert(Key(cur, c, window), "waiting")
       PROVE  \A k \in Keys : del'[k] = del[k] \/ (k.rule \notin Broken /\ del'[k] = "waiting")
  <2>1. PICK k \in Keys : k = Key(cur, c, window)
    BY <1>11, KeyIsInKeys DEF TypeOK, OfRule
  <2>2. k.rule \notin Broken
    BY <2>1 DEF BrokenIsNext, Key
  <2> QED
    BY <1>11, <2>1, <2>2, InsertOnlyQueues
<1>12. CASE QueueDelivery
  <2>1. /\ \A k \in Keys : del'[k] = del[k] \/ (k.rule \notin Broken /\ del'[k] = "waiting")
        /\ pc = "queue" /\ pc' \in {"unlock", "queue"}
        /\ UNCHANGED <<due, status, inc, sends, leaked, cur, todo>>
    BY <1>11, <1>12 DEF QueueDelivery
  <2> QED
    BY <2>1 DEF BrokenIsQuiet, BrokenIsNext, OfJob, OfRule
<1>13. CASE QueueCutOff
  BY <1>11, <1>13, QuietHalt DEF QueueCutOff
<1>14. CASE Unlock
  <2>1. cur \in Rules \ Broken
    BY <1>14 DEF Unlock, BrokenIsNext, TypeOK
  <2>2. leaked' = leaked \/ leaked' = [leaked EXCEPT ![cur] = TRUE]
    BY <1>14 DEF Unlock
  <2>3. \A r \in Rules \ {cur} : leaked'[r] = leaked[r]
    BY <2>2 DEF TypeOK
  <2>4. pc = "unlock" /\ pc' = "rule" /\ cur' = NoRule /\ UNCHANGED <<due, status, inc, del, sends, todo>>
    BY <1>14 DEF Unlock
  <2>5. BrokenIsQuiet'
    BY <2>4 DEF BrokenIsQuiet, OfJob
  <2> QED
    BY <2>1, <2>3, <2>4, <2>5, BrokenIsRule DEF BrokenIsNext
<1>15. CASE RulesDone
  <2>1. Broken = {}
    BY <1>15 DEF RulesDone, BrokenIsNext
  <2> QED
    BY <1>15, <2>1 DEF RulesDone, BrokenIsQuiet, BrokenIsNext
\* The second half of the loop runs only when no rule is broken.
<1>16. ASSUME pc \in Draining PROVE Broken = {}
  BY <1>16 DEF Draining, BrokenIsQuiet
<1>17. ASSUME Broken = {} PROVE BrokenIsQuiet' /\ BrokenIsNext'
  <2>1. \A k \in Keys : k.rule \notin {}
    OBVIOUS
  <2> QED
    BY <1>17, <2>1 DEF BrokenIsQuiet, BrokenIsNext
<1>18. CASE ProcessEscalations \/ ProcessPendingDeliveries
  <2>1. pc \in Draining \/ \E k \in Keys : OnCallRow(k)
    BY <1>18 DEF ProcessEscalations, ProcessPendingDeliveries, FetchFiring, EscalateStep, FetchDue,
       RecordSent, RecordRefused, DeliveriesDone, DropClosed, DropUnreadable, Send, Draining, OfJob
  <2> QED
    BY <2>1, <1>5, <1>16, <1>17
<1> QED
  BY <1>1, <1>2, <1>4, <1>5, <1>6, <1>7, <1>8, <1>9, <1>10, <1>12, <1>13, <1>14, <1>15, <1>18
     DEF Next, MainLoop, EvaluateDueRules

-----------------------------------------------------------------------------
(* The invariant. *)

LEMMA SendsFollow == TypeOK /\ ReadStaysDue /\ AttemptsAreCounted => SendsAreBounded
<1> SUFFICES ASSUME TypeOK, ReadStaysDue, AttemptsAreCounted, NEW k \in Keys
             PROVE  sends[k] <= MaxAttempts + disturb
  BY DEF SendsAreBounded
<1>1. CASE k \in job
  <2>1. attempts[k] < MaxAttempts
    BY <1>1 DEF ReadStaysDue, AttemptsAreCounted
  <2> QED
    BY <1>1, <2>1, ConstantsAssumption DEF AttemptsAreCounted, TypeOK
<1>2. CASE k \notin job
  <2>1. attempts[k] <= MaxAttempts /\ sends[k] <= attempts[k] + disturb + 0
    BY <1>2 DEF AttemptsAreCounted
  <2> QED
    BY <2>1, ConstantsAssumption DEF TypeOK
<1> QED
  BY <1>1, <1>2

LEMMA InitInv == Init => AlerterInv
<1> SUFFICES ASSUME Init PROVE AlerterInv
  OBVIOUS
<1>1. TypeOK
  BY InitType
<1>2. RuleAndIncidentAgree /\ Underway /\ ReadStaysDue
  BY DEF Init, RuleAndIncidentAgree, Underway, ReadStaysDue, OfJob
<1>3. AttemptsAreCounted
  BY ConstantsAssumption DEF Init, AttemptsAreCounted
<1>4. BrokenIsQuiet /\ BrokenIsNext
  BY BrokenIsRule DEF Init, BrokenIsQuiet, BrokenIsNext, OfJob, OfRule
<1> QED
  BY <1>1, <1>2, <1>3, <1>4, SendsFollow DEF AlerterInv, RulesInv

LEMMA StepInv == AlerterInv /\ [Next]_vars => AlerterInv'
<1> SUFFICES ASSUME AlerterInv, [Next]_vars PROVE AlerterInv'
  OBVIOUS
<1>1. TypeOK'
  BY TypeStep DEF AlerterInv, RulesInv
<1>2. RuleAndIncidentAgree' /\ Underway'
  BY AgreementStep DEF AlerterInv, RulesInv
<1>3. ReadStaysDue' /\ AttemptsAreCounted'
  BY OutboxStep DEF AlerterInv, RulesInv
<1>4. SendsAreBounded'
  BY <1>1, <1>3, SendsFollow, PTL
<1>5. BrokenIsQuiet' /\ BrokenIsNext'
  BY QuietStep DEF AlerterInv, RulesInv
<1> QED
  BY <1>1, <1>2, <1>3, <1>4, <1>5 DEF AlerterInv, RulesInv

\* What the tables of the alerter say holds whatever cuts its loops off: rule and
\* incident agree unless an exit separated them, what the drain loop has read
\* stays due until it records the outcome, attempts stay below the limit while a
\* delivery may be sent, and no delivery is sent more often than MaxAttempts plus
\* the failures that kept an outcome from being recorded.
THEOREM AlerterInvariant == Spec => []AlerterInv
BY InitInv, StepInv, PTL DEF Spec

\* As long as some rule's evaluation or upsert fails, and in the code every
\* rule's does, that rule is never raised and the loop never escalates or sends.
THEOREM BrokenRulesHoldTheLoop == Spec => []BrokenIsQuiet
BY AlerterInvariant, PTL DEF AlerterInv

-----------------------------------------------------------------------------
(* What a step may do to a delivery. *)

\* A step queues one key, has one tried, settles one, or does nothing an
\* observer of the outbox sees.
LEMMA DeliverySteps ==
  ASSUME AlerterInv, [Next]_vars
  PROVE  \/ \A k \in Keys : Phase(del'[k]) = Phase(del[k]) /\ sends'[k] = sends[k]
         \/ \E k \in Keys :
              /\ del[k] = "absent" /\ del'[k] \in {"waiting", "due"}
              /\ \A j \in Keys \ {k} : del'[j] = del[j]
              /\ sends' = sends
         \/ \E k \in Keys :
              /\ k.chan \notin Incomplete
              /\ del[k] = "due" /\ del' = del
              /\ sends' = [sends EXCEPT ![k] = @ + 1]
         \/ \E k \in Keys :
              /\ del[k] = "due"
              /\ (del'[k] = "sent" /\ (sends[k] > 0 \/ k.chan \in Incomplete)) \/ del'[k] = "failed"
              /\ \A j \in Keys \ {k} : del'[j] = del[j]
              /\ sends' = sends
<1> USE DEF worldVars, ruleVars, incVars, delVars, workVars
<1> TypeOK /\ ReadStaysDue
  BY DEF AlerterInv, RulesInv
<1>1. CASE UNCHANGED <<del, sends>>
  BY <1>1
<1>2. ASSUME NEW k \in Keys, BackoffPasses(k)
      PROVE  \A j \in Keys : Phase(del'[j]) = Phase(del[j]) /\ sends'[j] = sends[j]
  BY <1>2 DEF BackoffPasses, Phase, TypeOK
<1>3. CASE UNCHANGED vars \/ IncidentPage \/ Exit
  BY <1>1, <1>3 DEF vars, IncidentPage, Ack, Resolve, Silence, Page, Exit, Down, Halt
<1>4. CASE Time
  BY <1>1, <1>2, <1>4
     DEF Time, NextWindow, Flip, IntervalPasses, ForSecondsPass, WaitSecondsPass,
         SilenceEnds, SessionCloses
<1>5. CASE \/ Restart \/ FetchRules \/ SkipLocked \/ EvaluationFails \/ EvaluateRule
           \/ OpenIncident \/ RecordFired \/ SelectFiring \/ ResolveIncident \/ Unlock
           \/ RulesDone \/ FetchFiring
  BY <1>1, <1>5
     DEF Restart, FetchRules, SkipLocked, EvaluationFails, EvaluateRule, OpenIncident,
         RecordFired, SelectFiring, ResolveIncident, Unlock, RulesDone, FetchFiring, Down, Halt
<1>6. CASE \/ FetchDue \/ DeliveriesDone \/ \E k \in Keys : OnCallRow(k)
  BY <1>1, <1>6 DEF FetchDue, DeliveriesDone, OnCallRow, Down, Halt
<1>7. ASSUME NEW k \in Keys, NEW as \in {"waiting", "due"}, Insert(k, as), sends' = sends
      PROVE  \/ UNCHANGED <<del, sends>>
             \/ \E i \in Keys :
                  /\ del[i] = "absent" /\ del'[i] \in {"waiting", "due"}
                  /\ \A j \in Keys \ {i} : del'[j] = del[j]
                  /\ sends' = sends
  BY <1>7 DEF Insert, TypeOK
<1>8. CASE QueueDelivery \/ QueueCutOff
  <2>1. PICK c \in chans : Insert(Key(cur, c, window), "waiting") \/ UNCHANGED del
    BY <1>8 DEF QueueDelivery, QueueCutOff
  <2>2. Key(cur, c, window) \in Keys /\ sends' = sends
    BY <1>8, <2>1, KeyIsInKeys DEF QueueDelivery, QueueCutOff, TypeOK, OfRule
  <2> QED
    BY <1>1, <1>7, <2>1, <2>2
<1>9. CASE EscalateStep
  <2>1. PICK s \in steps : Insert(Key(s[1], s[2], Escalation), "due") \/ UNCHANGED del
    BY <1>9 DEF EscalateStep
  <2>2. Key(s[1], s[2], Escalation) \in Keys /\ sends' = sends
    BY <1>9, <2>1, KeyIsInKeys, ConstantsAssumption DEF EscalateStep, TypeOK, Escalation
  <2> QED
    BY <1>1, <1>7, <2>1, <2>2
<1>10. ASSUME NEW k \in Keys, DropClosed(k) \/ DropUnreadable(k)
       PROVE  /\ del[k] = "due" /\ del'[k] = "failed"
              /\ \A j \in Keys \ {k} : del'[j] = del[j]
              /\ sends' = sends
  BY <1>10 DEF DropClosed, DropUnreadable, ReadStaysDue, TypeOK
<1>11. ASSUME NEW k \in Keys, Send(k)
       PROVE  \/ UNCHANGED <<del, sends>>
              \/ /\ k.chan \notin Incomplete
                 /\ del[k] = "due" /\ del' = del
                 /\ sends' = [sends EXCEPT ![k] = @ + 1]
  BY <1>11 DEF Send, ReadStaysDue
<1>12. CASE RecordSent \/ RecordRefused
  <2>1. PICK k \in Keys : job = {k} /\ del[k] = "due" /\ (sends[k] > 0 \/ k.chan \in Incomplete)
    BY <1>12 DEF RecordSent, RecordRefused, ReadStaysDue, OfJob
  <2>2. /\ \A j \in Keys \ {k} : del'[j] = del[j]
        /\ del'[k] \in {"sent", "failed", "waiting"}
        /\ sends' = sends
    BY <1>12, <2>1 DEF RecordSent, RecordRefused, TypeOK
  <2>3. CASE del'[k] = "waiting"
    BY <2>1, <2>2, <2>3 DEF Phase
  <2> QED
    BY <2>1, <2>2, <2>3
<1> QED
  BY <1>1, <1>3, <1>4, <1>5, <1>6, <1>8, <1>9, <1>10, <1>11, <1>12
     DEF Next, MainLoop, EvaluateDueRules, ProcessEscalations, ProcessPendingDeliveries

\* However often the process is restarted and a key is inserted again, a
\* delivery that was sent or given up is never queued or sent again.
THEOREM SettledDeliveries == Spec => SettledIsFinal
<1>1. ASSUME AlerterInv, [Next]_vars, NEW k \in Keys, del[k] \in {"sent", "failed"}
      PROVE  del'[k] = del[k] /\ sends'[k] = sends[k]
  <2>1. TypeOK /\ TypeOK'
    BY <1>1, StepInv DEF AlerterInv, RulesInv
  <2> QED
    BY <1>1, <2>1, DeliverySteps DEF Phase, TypeOK
<1>2. AlerterInv /\ [Next]_vars
        => [\A k \in Keys : del[k] \in {"sent", "failed"}
                              => del'[k] = del[k] /\ sends'[k] = sends[k]]_vars
  BY <1>1
<1> QED
  BY <1>2, AlerterInvariant, PTL DEF Spec, SettledIsFinal

-----------------------------------------------------------------------------
(* The refinement. *)

LEMMA OutboxInit == Init => Deliveries!Init
BY DEF Init, Deliveries!Init, Phase

LEMMA OutboxNext ==
  AlerterInv /\ [Next]_vars => [Deliveries!Next]_(Deliveries!vars)
<1> SUFFICES ASSUME AlerterInv, [Next]_vars
             PROVE  Deliveries!Next \/ UNCHANGED Deliveries!vars
  OBVIOUS
<1> DEFINE phase == [k \in Keys |-> Phase(del[k])]
<1>1. TypeOK /\ TypeOK'
  BY StepInv DEF AlerterInv, RulesInv
<1>2. CASE \A k \in Keys : Phase(del'[k]) = Phase(del[k]) /\ sends'[k] = sends[k]
  <2>1. phase' = phase /\ sends' = sends
    BY <1>1, <1>2 DEF TypeOK
  <2> QED
    BY <2>1 DEF Deliveries!vars
<1>3. ASSUME NEW k \in Keys, del[k] = "absent", del'[k] \in {"waiting", "due"},
             \A j \in Keys \ {k} : del'[j] = del[j], sends' = sends
      PROVE  Deliveries!Enqueue(k)
  BY <1>3 DEF Deliveries!Enqueue, Phase
<1>4. ASSUME NEW k \in Keys, k.chan \notin Incomplete, del[k] = "due", del' = del,
             sends' = [sends EXCEPT ![k] = @ + 1]
      PROVE  Deliveries!Try(k)
  BY <1>4 DEF Deliveries!Try, Phase
<1>5. ASSUME NEW k \in Keys, del[k] = "due",
             (del'[k] = "sent" /\ (sends[k] > 0 \/ k.chan \in Incomplete)) \/ del'[k] = "failed",
             \A j \in Keys \ {k} : del'[j] = del[j], sends' = sends
      PROVE  Deliveries!Settle(k)
  BY <1>5 DEF Deliveries!Settle, Phase
<1> QED
  BY <1>2, <1>3, <1>4, <1>5, DeliverySteps DEF Deliveries!Next

\* The deliveries table implements the outbox: each key is queued once, tried
\* only while queued, settled once, and recorded as sent only after a request,
\* unless its channel has nowhere to send to.
THEOREM OutboxRefinement == Spec => ImplementsOutbox
BY OutboxInit, OutboxNext, AlerterInvariant, PTL DEF Spec, ImplementsOutbox, Deliveries!Spec
=============================================================================
