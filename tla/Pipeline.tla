------------------------------ MODULE Pipeline ------------------------------
(***************************************************************************)
(* The decoder and the error grouper behind the raw stream.  The producer  *)
(* of the stream is not the ingestor itself but CommitmentFeed, what the   *)
(* ingestor was shown to implement.  The ingestor does not wait for the    *)
(* server to have stored what it sends; here every message sent is stored, *)
(* so what holds here holds of the three services together while none is   *)
(* lost on the way to the stream.                                          *)
(***************************************************************************)
EXTENDS Decoder

CONSTANTS
  SampleCap,  \* samples an issue keeps (50 in the code)
  MaxRaw      \* bound: messages on the raw stream

ASSUME PipelineAssumption == SampleCap \in Nat \ {0} /\ MaxRaw \in Nat

VARIABLES
  open, final, promoted,                          \* CommitmentFeed
  gpc, gbatch, gcur, total, samples, sampled      \* ErrorGrouper

\* A value of Instrs: all transactions have as many as the bound allows.
Uniform == [s \in Sigs |-> MaxInstrs]

feedVars    == <<open, final, promoted>>
grouperVars == <<gpc, gbatch, gcur, total, samples, sampled>>
allVars     == <<vars, feedVars, grouperVars>>

F == INSTANCE CommitmentFeed
G == INSTANCE ErrorGrouper
-----------------------------------------------------------------------------
(* The producer. *)

Emit(s, commitment, rollback) ==
  /\ Len(rawTx) < MaxRaw
  /\ rawTx' = Publish(rawTx, [sig |-> s, commitment |-> commitment,
                              rollback |-> rollback])

Feed(s) ==
  /\ \/ s \notin final /\ F!Settle(s) /\ UNCHANGED rawTx
     \/ F!Announce(s) /\ Emit(s, "processed", FALSE)
     \/ F!Confirm(s)  /\ Emit(s, "confirmed", FALSE)
     \/ F!Retract(s)  /\ Emit(s, "processed", TRUE)
  /\ UNCHANGED <<failures, loopVars, rowVars, verdictVars, errorVars, live,
                 disturb, grouperVars>>

OthersWait == UNCHANGED <<feedVars, grouperVars>>
DecoderStep == Next /\ OthersWait

OthersPause == UNCHANGED <<rawTx, loopVars, rowVars, verdictVars, errorVars, live, feedVars>>
GrouperStep == G!Next /\ OthersPause

PipelineInit == Init /\ F!Init /\ G!Init

PipelineNext == (\E s \in Sigs : Feed(s)) \/ DecoderStep \/ GrouperStep

Spec == PipelineInit /\ [][PipelineNext]_allVars

\* Both loops run as long as their process does; the server redelivers; the
\* container of the grouper is restarted.  Nothing restarts the decoder.
Fairness ==
  /\ WF_allVars(Loop /\ OthersWait)
  /\ WF_allVars(AckWaitPasses /\ OthersWait)
  /\ WF_allVars(G!Loop /\ OthersPause)
  /\ WF_allVars(G!AckWaitPasses /\ OthersPause)
  /\ WF_allVars(G!Restart /\ OthersPause)

FairSpec == Spec /\ Fairness
-----------------------------------------------------------------------------
(* Properties. *)

Announced == {rawTx[i].body.sig : i \in {j \in DOMAIN rawTx : Announcement(rawTx[j].body)}}
Retracted == {rawTx[i].body.sig : i \in {j \in DOMAIN rawTx : rawTx[j].body.rollback}}

\* How often the stream has announced s.
Announcements(s) ==
  Cardinality({i \in DOMAIN rawTx : rawTx[i].body.sig = s /\ Announcement(rawTx[i].body)})

TypeOK ==
  /\ rawTx \in Seq(Entries(Messages))
  /\ failures \in Seq(Entries(FailureMessages))
  /\ pc \in {"down", "fetch", "next", "rollback", "promotion", "load", "stage",
             "error", "ack"}
  /\ batch \subseteq DOMAIN rawTx
  /\ cur \in {Idle} \cup DOMAIN rawTx
  /\ stage \in 0 .. Len(Stages)
  /\ row \in 1 .. MaxInstrs
  /\ rows \in [Sigs -> [Tables -> Nat]]
  /\ merged \in [Sigs -> Nat]
  /\ calls \in [Sigs -> Nat]
  /\ rollbacks \subseteq Sigs
  /\ promotions \subseteq Sigs
  /\ errors \subseteq Sigs
  /\ live \in [Sigs -> [1 .. MaxInstrs -> Nat]]
  /\ lostVerdict \subseteq DOMAIN rawTx
  /\ lostError \subseteq Sigs
  /\ disturb \in 0 .. MaxDisturb
  /\ gpc \in {"down", "fetch", "next", "upsert", "trim", "sample", "ack"}
  /\ gbatch \subseteq DOMAIN failures
  /\ gcur \in {Idle} \cup DOMAIN failures
  /\ total \in Nat
  /\ samples \in Seq(DOMAIN failures)
  /\ sampled \in Seq(DOMAIN failures)

Written(s, t) == rows[s][t] > 0

Complete(s) ==
  \A k \in 1 .. Len(Stages) :
    Stages[k] \in Tables /\ Concerns(s, k) => Written(s, Stages[k])

\* What the decoder holds is out of the consumer's reach, and it is at a step
\* that the kind of its message calls for.
HandlingOK ==
  /\ pc \in {"down", "fetch", "next"} <=> cur = Idle
  /\ pc \in {"down", "fetch"} => batch = {}
  /\ cur \notin batch
  /\ \A i \in DOMAIN rawTx : i \in batch \/ i = cur => rawTx[i].at = "out"
  /\ pc = "rollback" => rawTx[cur].body.rollback
  /\ pc = "promotion" => Promotion(rawTx[cur].body)
  /\ pc \in {"load", "stage", "error"} => Announcement(rawTx[cur].body)
  /\ IF pc = "stage" THEN stage \in 1 .. Len(Stages) /\ Concerns(Sig, stage) ELSE stage = 0
  /\ IF pc = "stage" /\ Stages[stage] \notin Tables THEN row <= Instrs[Sig] ELSE row = 1

\* The decoding under way is one of s and has stage k behind it.
Past(s, k) ==
  /\ cur # Idle
  /\ Sig = s
  /\ Announcement(rawTx[cur].body)
  /\ pc \in {"error", "ack"} \/ (pc = "stage" /\ k < stage)

\* The decoding under way has done what stage k does for instruction n of s.
Reached(s, k, n) ==
  \/ Past(s, k)
  \/ /\ cur # Idle
     /\ Sig = s
     /\ Announcement(rawTx[cur].body)
     /\ pc = "stage" /\ k = stage /\ n < row

\* How often the failure of instruction n of s has been published.
Published(s, n) ==
  Cardinality({i \in DOMAIN failures : failures[i].body = [sig |-> s, instr |-> n]})

\* How often stage k has taken effect for instruction n of s.
Effects(s, k, n) ==
  IF Stages[k] = "failures" THEN Published(s, n)
  ELSE IF Stages[k] = "live" THEN live[s][n]
  ELSE rows[s][Stages[k]]

One(p) == IF p THEN 1 ELSE 0

\* A message for the live view is published only when every table has what the
\* page behind it reads, a failure only when its instructions are stored, and an
\* insert into a later table follows one into each earlier one: after any number
\* of exits, failures and redeliveries a stage has taken effect for each
\* instruction at most as often as each table before it has had its insert, the
\* decoding under way apart.
StagesInOrder ==
  \A s \in Sigs : \A j, k \in 1 .. Len(Stages) : \A n \in 1 .. MaxInstrs :
    /\ j < k
    /\ Stages[j] \in Tables
    /\ Concerns(s, j) /\ Concerns(s, k)
    => Effects(s, k, n) + One(Past(s, j) /\ ~Reached(s, k, n)) <= rows[s][Stages[j]]

\* The transactions table has a row for every decoding until some are merged, and
\* never loses the last.
MergedOK ==
  \A s \in Sigs :
    /\ merged[s] <= rows[s]["transactions"]
    /\ rows[s]["transactions"] > 0 => merged[s] > 0

\* The materialized view of calls joins the instructions it is given with the
\* transactions of the moment, so an insert in the wrong order would never be
\* counted.  It counts each decoding at least once unless an insert fails before
\* the view is pushed; redelivery and repeated announcements inflate it, at most
\* to the product of the two inserts.
CallsAreBounded ==
  \A s \in Sigs :
    /\ calls[s] + disturb >= rows[s]["instructions"]
    /\ calls[s] <= rows[s]["instructions"] * rows[s]["transactions"]

\* The announcements of s that have been acknowledged.
Decoded(s) ==
  {i \in DOMAIN rawTx : /\ rawTx[i].body.sig = s /\ Announcement(rawTx[i].body)
                        /\ rawTx[i].at = "acked"}

\* Every insert belongs to an acknowledged announcement, to the decoding under
\* way, or to a disturbance that cut a decoding off.
RowsAreCounted ==
  \A s \in Sigs : \A k \in 1 .. Len(Stages) :
    Stages[k] \in Tables =>
      rows[s][Stages[k]] <= Cardinality(Decoded(s)) + One(Past(s, k)) + disturb

\* Rows are repeated no more often than the transaction was announced and the
\* decoder was disturbed.
RowsAreBounded ==
  \A s \in Sigs, t \in Tables : rows[s][t] <= Announcements(s) + disturb

\* A verdict on the stream follows an announcement, and only what the cluster
\* has confirmed is promoted.
FeedOK ==
  /\ open \in [Sigs -> Nat]
  /\ final \subseteq Sigs
  /\ \A s \in Sigs : open[s] > 0 => s \in Announced
  /\ \A i \in DOMAIN rawTx :
       Promotion(rawTx[i].body) => rawTx[i].body.sig \in final \cap Announced

\* Rows are written in the order of the stages, and rows and counted calls are
\* bounded by what was announced, however the decoder is stopped and fed again.
EffectsAreBounded ==
  /\ TypeOK /\ HandlingOK /\ FeedOK
  /\ StagesInOrder /\ MergedOK /\ CallsAreBounded
  /\ RowsAreCounted /\ RowsAreBounded

\* The messages that are acknowledged, or about to be.
Concluded == Settled(rawTx) \cup {i \in DOMAIN rawTx : i = cur /\ pc = "ack"}

\* The decoder acknowledges an announcement whether or not it could decode it.
\* What it acknowledges has all its rows, or an entry in decode_errors, unless
\* that insert failed as well.
AckedIsAccountedFor ==
  \A i \in Concluded :
    LET s == rawTx[i].body.sig
    IN  Announcement(rawTx[i].body) => Complete(s) \/ s \in errors \cup lostError

\* A verdict takes effect in whatever order it and the announcements are
\* delivered, before the rows, between two of their inserts or after them: once
\* it is to be acknowledged the transaction is hidden, or called confirmed, for
\* good, unless the insert of the verdict failed.
VerdictsTakeEffect ==
  \A i \in Concluded \ lostVerdict :
    LET m == rawTx[i].body
    IN  /\ m.rollback => m.sig \in rollbacks \ Visible
        /\ Promotion(m) => m.sig \in promotions

\* What the grouper holds is out of the consumer's reach, and it has made room
\* for a sample before it inserts one.
GroupingOK ==
  /\ gpc \in {"down", "fetch", "next"} <=> gcur = Idle
  /\ gpc \in {"down", "fetch"} => gbatch = {}
  /\ gcur \notin gbatch
  /\ \A i \in DOMAIN failures : i \in gbatch \/ i = gcur => failures[i].at = "out"
  /\ gpc = "sample" => Len(samples) < SampleCap

\* The stage that publishes a failure.
FailureStage == CHOOSE k \in 1 .. Len(Stages) : Stages[k] = "failures"

\* The failed instructions that were announced, once for each announcement.
Failing ==
  {p \in (DOMAIN rawTx) \X (1 .. MaxInstrs) :
     LET m == rawTx[p[1]].body
     IN  Announcement(m) /\ m.sig \in Failed /\ p[2] <= Instrs[m.sig]}

\* Those whose decoding is done, or has come past their publication.
FailingDecoded ==
  {p \in Failing :
     \/ rawTx[p[1]].at = "acked"
     \/ p[1] = cur /\ Reached(rawTx[p[1]].body.sig, FailureStage, p[2])}

\* What a disturbance can add to or take from the counts: the failures of one
\* decoding.
Slack == disturb * MaxInstrs

\* The failures that have been counted, or are still to be, match the failed
\* instructions decoded, up to those of one decoding for each disturbance.
CountsAgree ==
  LET decoded == Cardinality(FailingDecoded)
      counted == total + (Len(failures) - Cardinality(Settled(failures)))
                   - One(gpc \in {"trim", "sample", "ack"})
  IN  decoded <= counted + Slack /\ counted <= decoded + Slack

\* An issue counts each failed transaction once per announcement and instruction
\* of the program in it: every further or missing count takes a disturbance of
\* one of the two services.  What it counts has its instructions stored.
FailuresAreCounted ==
  LET expected == Cardinality(Failing)
      atRest == Settled(rawTx) = DOMAIN rawTx /\ Settled(failures) = DOMAIN failures
  IN  /\ \A s \in Sigs : \A n \in 1 .. MaxInstrs : Published(s, n) <= rows[s]["instructions"]
      /\ total <= expected + Slack
      /\ atRest => expected <= total + Slack

\* Although count, delete and insert share no transaction, an issue never has
\* more samples than the cap, never loses more than the one an interrupted
\* exchange has deleted, and always holds the latest.
SamplesAreLatest ==
  LET n == Len(samples)
      all == Len(sampled)
  IN  /\ n <= SampleCap
      /\ n <= all
      /\ all >= SampleCap => n >= SampleCap - 1
      /\ all < SampleCap => n = all
      /\ samples = SubSeq(sampled, all - n + 1, all)

\* What an issue says of its failures: how many there were, and the latest of them.
IssueIsAccurate ==
  /\ TypeOK /\ HandlingOK /\ StagesInOrder /\ GroupingOK
  /\ CountsAgree /\ FailuresAreCounted /\ SamplesAreLatest

\* The pipeline implements ReaderView.
View == INSTANCE ReaderView WITH
  announced <- Announced,
  retracted <- Retracted,
  view <- [s \in Sigs |-> IF s \in rollbacks THEN "hidden"
                          ELSE IF s \in Visible THEN "shown" ELSE "absent"],
  confirmed <- promotions

ImplementsView == View!Spec

\* As long as the decoder is started again whenever it stops, every message is
\* acknowledged at last, and so is every failure that was published.
EverythingIsSettled ==
  []<>(pc # "down") =>
    \A i \in 1 .. MaxRaw * MaxInstrs :
      /\ i \in DOMAIN rawTx ~> i \in Settled(rawTx)
      /\ i \in DOMAIN failures ~> i \in Settled(failures)
=============================================================================
