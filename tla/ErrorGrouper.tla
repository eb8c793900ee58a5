---------------------------- MODULE ErrorGrouper ----------------------------
(***************************************************************************)
(* services/error-grouper: it consumes the failures the decoder publishes, *)
(* counts each into the issue with its fingerprint, and keeps the latest   *)
(* samples of the issue.  Issues share nothing, so the module has one: all *)
(* failures have the same fingerprint.                                     *)
(*                                                                         *)
(* The three statements of upsert_issue_and_sample share no transaction.   *)
(* A statement that fails is logged and the message acknowledged; a failed *)
(* fetch ends the process, which is restarted (restart: unless-stopped).   *)
(***************************************************************************)
EXTENDS JetStream

CONSTANTS
  SampleCap,  \* samples an issue keeps (50 in the code)
  MaxDisturb  \* bound: shared with the decoder

VARIABLES
  failures,   \* the stream of failures and its consumer error-grouper
  gpc,        \* where the loop is; "down" while no process runs
  gbatch,     \* fetched failures not looked at yet
  gcur,       \* the failure being handled
  total,      \* error_issues.total_count
  samples,    \* error_samples, oldest first: the messages they were taken from
  sampled,    \* history: every sample ever inserted
  disturb

loopVars == <<gpc, gbatch, gcur>>
issueVars == <<total, samples, sampled>>
vars == <<failures, loopVars, issueVars, disturb>>

Idle == 0

Disturb == disturb < MaxDisturb /\ disturb' = disturb + 1
-----------------------------------------------------------------------------
Fetch ==
  /\ gpc = "fetch"
  /\ Waiting(failures) # {}
  /\ gbatch' = Waiting(failures)
  /\ failures' = Deliver(failures)
  /\ gpc' = "next"
  /\ UNCHANGED <<gcur, issueVars, disturb>>

NextFailure ==
  /\ gpc = "next"
  /\ \E i \in gbatch :
       /\ Foremost(failures, gbatch, i)
       /\ gcur' = i
       /\ gbatch' = gbatch \ {i}
  /\ gpc' = "upsert"
  /\ UNCHANGED <<failures, issueVars, disturb>>

\* INSERT .. ON CONFLICT DO UPDATE SET total_count = total_count + 1
UpsertIssue ==
  /\ gpc = "upsert"
  /\ total' = total + 1
  /\ gpc' = "trim"
  /\ UNCHANGED <<failures, gbatch, gcur, samples, sampled, disturb>>

\* SELECT COUNT(*), and at the cap DELETE of the oldest sample
TrimSamples ==
  /\ gpc = "trim"
  /\ samples' = IF Len(samples) >= SampleCap THEN Tail(samples) ELSE samples
  /\ gpc' = "sample"
  /\ UNCHANGED <<failures, gbatch, gcur, total, sampled, disturb>>

InsertSample ==
  /\ gpc = "sample"
  /\ samples' = Append(samples, gcur)
  /\ sampled' = Append(sampled, gcur)
  /\ gpc' = "ack"
  /\ UNCHANGED <<failures, gbatch, gcur, total, disturb>>

\* A statement returns an error, which is logged; it may have taken effect.
StatementFails ==
  /\ Disturb
  /\ gpc' = "ack"
  /\ \/ gpc \in {"upsert", "trim", "sample"} /\ UNCHANGED issueVars
     \/ gpc = "upsert" /\ total' = total + 1 /\ UNCHANGED <<samples, sampled>>
     \/ /\ gpc = "trim" /\ Len(samples) >= SampleCap
        /\ samples' = Tail(samples)
        /\ UNCHANGED <<total, sampled>>
     \/ /\ gpc = "sample"
        /\ samples' = Append(samples, gcur)
        /\ sampled' = Append(sampled, gcur)
        /\ UNCHANGED total
  /\ UNCHANGED <<failures, gbatch, gcur>>

Handled ==
  /\ gcur' = Idle
  /\ gpc' = IF gbatch = {} THEN "fetch" ELSE "next"
  /\ UNCHANGED <<gbatch, issueVars>>

Ack ==
  /\ gpc = "ack"
  /\ failures' = Acknowledge(failures, gcur)
  /\ Handled
  /\ UNCHANGED disturb

AckIsLost ==
  /\ gpc = "ack"
  /\ Disturb
  /\ Handled
  /\ UNCHANGED failures

AckWaitPasses ==
  /\ \E i \in DOMAIN failures :
       /\ failures[i].at = "out"
       /\ i \notin gbatch \cup {gcur}
       /\ failures' = Expire(failures, i)
  /\ UNCHANGED <<loopVars, issueVars, disturb>>

Exit ==
  /\ gpc # "down"
  /\ Disturb
  /\ gpc' = "down"
  /\ gbatch' = {}
  /\ gcur' = Idle
  /\ UNCHANGED <<failures, issueVars>>

Restart ==
  /\ gpc = "down"
  /\ gpc' = "fetch"
  /\ UNCHANGED <<failures, gbatch, gcur, issueVars, disturb>>
-----------------------------------------------------------------------------
\* Of its own variables: the stream and the disturbances belong to Decoder.
Init ==
  /\ gpc = "fetch"
  /\ gbatch = {}
  /\ gcur = Idle
  /\ total = 0
  /\ samples = <<>>
  /\ sampled = <<>>

Loop == Fetch \/ NextFailure \/ UpsertIssue \/ TrimSamples \/ InsertSample \/ Ack

Next == Loop \/ Restart \/ AckWaitPasses \/ StatementFails \/ AckIsLost \/ Exit
=============================================================================
