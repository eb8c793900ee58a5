------------------------------- MODULE Decoder -------------------------------
(***************************************************************************)
(* The transaction loop of services/decoder: it consumes RAW_TX, turns     *)
(* each announced transaction into rows of ClickHouse and into messages    *)
(* for the live view and the error grouper, and records verdicts about     *)
(* commitment.  A step is one await of the loop that changes a store.      *)
(*                                                                         *)
(* The loop never leaves a message unacknowledged because its work failed: *)
(* redelivery comes only from lost acknowledgements and from the end of    *)
(* the process, which an error in the account loop brings about as well    *)
(* (try_join).                                                             *)
(*                                                                         *)
(* One transaction stands for its signature.  All rows a table gets of one *)
(* decoding are one insert, so they are counted as one; messages go out    *)
(* one by one, one for each instruction of the program in the transaction. *)
(***************************************************************************)
EXTENDS JetStream, FiniteSets

CONSTANTS
  Sigs,       \* transaction signatures
  Failed,     \* those whose transaction failed on chain
  Sdk,        \* those that log SDK metrics and spans
  Instrs,     \* instructions of the program each has: perhaps none
  MaxInstrs,  \* the most of them
  MaxDisturb  \* bound: failed calls, lost acknowledgements, ends of a process

ASSUME DecoderAssumption ==
  /\ Failed \subseteq Sigs
  /\ Sdk \subseteq Sigs
  /\ MaxInstrs \in Nat \ {0}
  /\ Instrs \in [Sigs -> 0 .. MaxInstrs]
  /\ MaxDisturb \in Nat

VARIABLES
  rawTx,       \* the stream RAW_TX and its consumer decoder-main
  failures,    \* decoded.failures of DECODED_DERIVED, consumer error-grouper
  pc,          \* where the loop is; "down" while no process runs
  batch,       \* fetched messages not looked at yet
  cur,         \* the message being handled
  stage,       \* stage of decode_tx_message, an index into Stages
  row,         \* the instruction a stage that publishes has come to
  \* ClickHouse and Postgres
  rows,        \* inserts each table has had per signature
  merged,      \* rows of the transactions table that are left of them
  calls,       \* what mv_metrics_instruction_calls_minute counted per instruction
  rollbacks,   \* signatures in the table rollbacks
  promotions,  \* signatures in the table commitment_promotions
  errors,      \* signatures in decode_errors
  live,        \* messages published for the live view, per instruction
  \* bookkeeping of the model
  lostVerdict, \* history: verdict messages whose insert failed
  lostError,   \* history: signatures whose decode error was not recorded
  disturb      \* disturbances so far

place       == <<stage, row>>
loopVars    == <<pc, batch, cur, place>>
rowVars     == <<rows, merged, calls>>
verdictVars == <<rollbacks, promotions, lostVerdict>>
errorVars   == <<errors, lostError>>
vars == <<rawTx, failures, loopVars, rowVars, verdictVars, errorVars, live,
          disturb>>

Tables == {"transactions", "instructions", "events", "sdk_metrics", "spans",
           "cpi_edges", "tx_logs"}

\* Mutant of Stages: instructions are inserted before their transaction.
StagesJoinTooEarly == <<"instructions", "transactions", "failures", "events",
                        "sdk_metrics", "spans", "cpi_edges", "tx_logs", "live">>

\* What decode_tx_message does with a decoded transaction, in order.
Stages == <<"transactions", "instructions", "failures", "events",
            "sdk_metrics", "spans", "cpi_edges", "tx_logs", "live">>

\* A stage that has something to do for signature s.
Concerns(s, k) ==
  /\ Stages[k] = "failures" => s \in Failed
  /\ Stages[k] \in {"failures", "live"} => Instrs[s] > 0
  /\ Stages[k] \in {"sdk_metrics", "spans"} => s \in Sdk

FailureMessages ==
  {m \in [sig : Failed, instr : 1 .. MaxInstrs] : m.instr <= Instrs[m.sig]}

Messages == [sig : Sigs, commitment : {"processed", "confirmed"}, rollback : BOOLEAN]

Announcement(m) == ~m.rollback /\ m.commitment = "processed"
Promotion(m)    == ~m.rollback /\ m.commitment = "confirmed"

Idle == 0
Sig == rawTx[cur].body.sig

Disturb == disturb < MaxDisturb /\ disturb' = disturb + 1
-----------------------------------------------------------------------------
(* Consuming. *)

\* consumer.fetch().max_messages(50)
Fetch ==
  /\ pc = "fetch"
  /\ Waiting(rawTx) # {}
  /\ batch' = Waiting(rawTx)
  /\ rawTx' = Deliver(rawTx)
  /\ pc' = "next"
  /\ UNCHANGED <<failures, cur, place, rowVars, verdictVars, errorVars, live, disturb>>

\* Mutant of Route: the flag of a rollback is not looked at.
RouteByCommitment(m) == IF m.commitment = "confirmed" THEN "promotion" ELSE "load"

\* Mutant of Route: processed is taken for confirmed.
RouteAllPromoted(m) == IF m.rollback THEN "rollback" ELSE "promotion"

\* A message is classified: first rollback, then commitment.
Route(m) == IF m.rollback THEN "rollback"
            ELSE IF m.commitment = "confirmed" THEN "promotion"
            ELSE "load"

NextMessage ==
  /\ pc = "next"
  /\ \E i \in batch :
       /\ Foremost(rawTx, batch, i)
       /\ cur' = i
       /\ batch' = batch \ {i}
       /\ pc' = Route(rawTx[i].body)
  /\ UNCHANGED <<rawTx, failures, place, rowVars, verdictVars, errorVars, live, disturb>>

Handled ==
  /\ cur' = Idle
  /\ pc' = IF batch = {} THEN "fetch" ELSE "next"
  /\ UNCHANGED <<failures, batch, place, rowVars, verdictVars, errorVars, live>>

Ack ==
  /\ pc = "ack"
  /\ rawTx' = Acknowledge(rawTx, cur)
  /\ Handled
  /\ UNCHANGED disturb

\* message.ack().await.ok(): the server does not get it.
AckIsLost ==
  /\ pc = "ack"
  /\ Disturb
  /\ Handled
  /\ UNCHANGED rawTx

AckWaitPasses ==
  /\ \E i \in DOMAIN rawTx :
       /\ rawTx[i].at = "out"
       /\ i \notin batch \cup {cur}
       /\ rawTx' = Expire(rawTx, i)
  /\ UNCHANGED <<failures, loopVars, rowVars, verdictVars, errorVars, live, disturb>>

\* An error of a fetch, of this loop or of the account loop, or a kill.
Exit ==
  /\ pc # "down"
  /\ Disturb
  /\ pc' = "down"
  /\ batch' = {}
  /\ cur' = Idle
  /\ stage' = 0 /\ row' = 1
  /\ UNCHANGED <<rawTx, failures, rowVars, verdictVars, errorVars, live>>

\* Mutant of Start: a new process goes on with the batch of the old one.
StartInsideBatch ==
  /\ pc = "down"
  /\ pc' = "next"
  /\ UNCHANGED <<rawTx, failures, batch, cur, place, rowVars, verdictVars, errorVars,
                 live, disturb>>

Start ==
  /\ pc = "down"
  /\ pc' = "fetch"
  /\ UNCHANGED <<rawTx, failures, batch, cur, place, rowVars, verdictVars, errorVars,
                 live, disturb>>
-----------------------------------------------------------------------------
(* Verdicts.  Both inserts end in .ok(): the message is acknowledged       *)
(* whatever became of them.                                                *)

Verdict == UNCHANGED <<rawTx, failures, batch, cur, place, rowVars, errorVars, live>>

RecordRollback ==
  /\ pc = "rollback"
  /\ rollbacks' = rollbacks \cup {Sig}
  /\ pc' = "ack"
  /\ UNCHANGED <<promotions, lostVerdict, disturb>>
  /\ Verdict

RecordPromotion ==
  /\ pc = "promotion"
  /\ promotions' = promotions \cup {Sig}
  /\ pc' = "ack"
  /\ UNCHANGED <<rollbacks, lostVerdict, disturb>>
  /\ Verdict

VerdictIsLost ==
  /\ pc \in {"rollback", "promotion"}
  /\ Disturb
  /\ lostVerdict' = lostVerdict \cup {cur}
  /\ pc' = "ack"
  /\ UNCHANGED <<rollbacks, promotions>>
  /\ Verdict
-----------------------------------------------------------------------------
(* Transactions. *)

Decoding == UNCHANGED <<rawTx, batch, cur, verdictVars>>

LoadBlob ==
  /\ pc = "load"
  /\ pc' = "stage"
  /\ stage' = 1
  /\ UNCHANGED <<row, failures, rowVars, errorVars, live, disturb>>
  /\ Decoding

LoadFails ==
  /\ pc = "load"
  /\ Disturb
  /\ pc' = "error"
  /\ UNCHANGED <<failures, place, rowVars, errorVars, live>>
  /\ Decoding

\* The stage after this one that concerns the transaction, or the end.
Advance ==
  LET ahead == {k \in stage + 1 .. Len(Stages) : Concerns(Sig, k)}
  IN  /\ row' = 1
      /\ IF ahead = {} THEN pc' = "ack" /\ stage' = 0
         ELSE /\ pc' = "stage"
              /\ stage' = CHOOSE k \in ahead : \A j \in ahead : k <= j

\* A stage that publishes goes through the instructions of the transaction.
NextInstruction ==
  IF row < Instrs[Sig] THEN row' = row + 1 /\ UNCHANGED <<pc, stage>> ELSE Advance

\* One insert into table t.
InsertInto(t) ==
  /\ rows' = [rows EXCEPT ![Sig][t] = @ + 1]
  /\ merged' = IF t = "transactions" THEN [merged EXCEPT ![Sig] = @ + 1] ELSE merged

\* The materialized view on instructions joins what is inserted with the rows
\* the transactions table has at that moment.
CountCalls(t) ==
  calls' = IF t = "instructions" THEN [calls EXCEPT ![Sig] = @ + merged[Sig]] ELSE calls

Insert ==
  /\ pc = "stage"
  /\ Stages[stage] \in Tables
  /\ InsertInto(Stages[stage])
  /\ CountCalls(Stages[stage])
  /\ Advance
  /\ UNCHANGED <<failures, errorVars, live, disturb>>
  /\ Decoding

\* Mutant of InsertFails: the error is dropped.
InsertFailsSilently ==
  /\ pc = "stage"
  /\ Stages[stage] \in Tables
  /\ Disturb
  /\ \/ InsertInto(Stages[stage]) /\ (CountCalls(Stages[stage]) \/ UNCHANGED calls)
     \/ UNCHANGED rowVars
  /\ pc' = "ack"
  /\ stage' = 0
  /\ UNCHANGED <<row, failures, errorVars, live>>
  /\ Decoding

\* The insert returns an error; its rows may have arrived all the same, and a
\* view is not pushed together with the table it reads.
InsertFails ==
  /\ pc = "stage"
  /\ Stages[stage] \in Tables
  /\ Disturb
  /\ \/ InsertInto(Stages[stage]) /\ (CountCalls(Stages[stage]) \/ UNCHANGED calls)
     \/ UNCHANGED rowVars
  /\ pc' = "error"
  /\ stage' = 0
  /\ UNCHANGED <<row, failures, errorVars, live>>
  /\ Decoding

\* Mutant of PublishFailure: once for a transaction.
PublishFailureOnce ==
  /\ pc = "stage"
  /\ Stages[stage] = "failures"
  /\ failures' = Publish(failures, [sig |-> Sig, instr |-> row])
  /\ Advance
  /\ UNCHANGED <<rowVars, errorVars, live, disturb>>
  /\ Decoding

\* js.publish(..).await.ok() for each row of ix_rows
PublishFailure ==
  /\ pc = "stage"
  /\ Stages[stage] = "failures"
  /\ failures' = Publish(failures, [sig |-> Sig, instr |-> row])
  /\ NextInstruction
  /\ UNCHANGED <<rowVars, errorVars, live, disturb>>
  /\ Decoding

PublishLive ==
  /\ pc = "stage"
  /\ Stages[stage] = "live"
  /\ live' = [live EXCEPT ![Sig][row] = @ + 1]
  /\ NextInstruction
  /\ UNCHANGED <<failures, rowVars, errorVars, disturb>>
  /\ Decoding

\* Every publication ends in .ok().
PublishIsLost ==
  /\ pc = "stage"
  /\ Stages[stage] \in {"failures", "live"}
  /\ Disturb
  /\ NextInstruction
  /\ UNCHANGED <<failures, rowVars, errorVars, live>>
  /\ Decoding

RecordDecodeError ==
  /\ pc = "error"
  /\ errors' = errors \cup {Sig}
  /\ pc' = "ack"
  /\ UNCHANGED <<failures, place, rowVars, lostError, live, disturb>>
  /\ Decoding

\* record_decode_error(..).await.ok()
DecodeErrorIsLost ==
  /\ pc = "error"
  /\ Disturb
  /\ lostError' = lostError \cup {Sig}
  /\ pc' = "ack"
  /\ UNCHANGED <<failures, place, rowVars, errors, live>>
  /\ Decoding

\* External: ReplacingMergeTree replaces rows of one key in the background.
MergeTransactions ==
  /\ \E s \in Sigs : \E n \in 1 .. merged[s] - 1 :
       merged' = [merged EXCEPT ![s] = n]
  /\ UNCHANGED <<rawTx, failures, loopVars, rows, calls, verdictVars, errorVars,
                 live, disturb>>
-----------------------------------------------------------------------------
Init ==
  /\ rawTx = <<>>
  /\ failures = <<>>
  /\ pc = "fetch"
  /\ batch = {}
  /\ cur = Idle
  /\ stage = 0
  /\ row = 1
  /\ rows = [s \in Sigs |-> [t \in Tables |-> 0]]
  /\ merged = [s \in Sigs |-> 0]
  /\ calls = [s \in Sigs |-> 0]
  /\ rollbacks = {}
  /\ promotions = {}
  /\ errors = {}
  /\ live = [s \in Sigs |-> [n \in 1 .. MaxInstrs |-> 0]]
  /\ lostVerdict = {}
  /\ lostError = {}
  /\ disturb = 0

Loop ==
  \/ Fetch \/ NextMessage \/ Ack
  \/ RecordRollback \/ RecordPromotion
  \/ LoadBlob \/ Insert \/ PublishFailure \/ PublishLive
  \/ RecordDecodeError

Disturbance ==
  \/ AckIsLost \/ Exit \/ VerdictIsLost \/ LoadFails \/ InsertFails
  \/ PublishIsLost \/ DecodeErrorIsLost

Next == Loop \/ Disturbance \/ Start \/ AckWaitPasses \/ MergeTransactions

\* The signatures a reader of transactions is shown.
Visible == {s \in Sigs : rows[s]["transactions"] > 0} \ rollbacks
=============================================================================
