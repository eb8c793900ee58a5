---------------------------- MODULE PipelineProofs ---------------------------
(***************************************************************************)
(* Proofs about Pipeline for every set of signatures and every value of    *)
(* the bounds: its inductive invariant and the safety properties in it,    *)
(* and that the decoder behind the raw stream implements ReaderView.       *)
(***************************************************************************)
EXTENDS Pipeline, TLAPS, SequenceTheorems, FiniteSetTheorems, WellFoundedInduction

-----------------------------------------------------------------------------
(* A stream keeps its messages whatever its consumer does to it. *)

LEMMA PublishGrows ==
  ASSUME NEW B, NEW q \in Seq(Entries(B)), NEW b \in B
  PROVE  /\ Publish(q, b) \in Seq(Entries(B))
         /\ Len(Publish(q, b)) = Len(q) + 1
         /\ DOMAIN Publish(q, b) = DOMAIN q \cup {Len(q) + 1}
         /\ Len(q) + 1 \notin DOMAIN q
<1> DEFINE e == [body |-> b, at |-> "new", tries |-> 0]
<1>1. e \in Entries(B)
  BY DEF Entries, States
<1>2. Len(q) \in Nat /\ DOMAIN q = 1 .. Len(q)
  BY LenProperties
<1>3. /\ Append(q, e) \in Seq(Entries(B))
      /\ Len(Append(q, e)) = Len(q) + 1
  BY <1>1, AppendProperties
<1>4. DOMAIN Append(q, e) = 1 .. Len(q) + 1
  BY <1>3, LenProperties
<1> QED
  BY <1>2, <1>3, <1>4 DEF Publish

LEMMA PublishKeeps ==
  ASSUME NEW B, NEW q \in Seq(Entries(B)), NEW b \in B, NEW i \in DOMAIN q
  PROVE  Publish(q, b)[i] = q[i]
<1> DEFINE e == [body |-> b, at |-> "new", tries |-> 0]
<1>1. e \in Entries(B)
  BY DEF Entries, States
<1>2. i \in 1 .. Len(q)
  BY LenProperties
<1>3. Append(q, e)[i] = q[i]
  BY <1>1, <1>2, AppendProperties
<1> QED
  BY <1>3 DEF Publish

LEMMA PublishedLast ==
  ASSUME NEW B, NEW q \in Seq(Entries(B)), NEW b \in B, NEW n, n = Len(q) + 1
  PROVE  Publish(q, b)[n].body = b /\ Publish(q, b)[n].at = "new"
<1> DEFINE e == [body |-> b, at |-> "new", tries |-> 0]
<1>1. e \in Entries(B)
  BY DEF Entries, States
<1>2. Append(q, e)[n] = e
  BY <1>1, AppendProperties
<1> QED
  BY <1>2 DEF Publish

\* Nothing but publishing changes bodies or their number.
LEMMA SameLength ==
  ASSUME NEW B, NEW q \in Seq(Entries(B)), NEW r,
         r \in [DOMAIN q -> Entries(B)]
  PROVE  r \in Seq(Entries(B)) /\ Len(r) = Len(q) /\ DOMAIN r = DOMAIN q
<1>1. Len(q) \in Nat /\ DOMAIN q = 1 .. Len(q)
  BY LenProperties
<1>2. r \in Seq(Entries(B))
  BY <1>1, SeqDef
<1>3. Len(r) \in Nat /\ DOMAIN r = 1 .. Len(r)
  BY <1>2, LenProperties
<1> QED
  BY <1>1, <1>2, <1>3

LEMMA EntryOf ==
  ASSUME NEW B, NEW q \in Seq(Entries(B)), NEW i \in DOMAIN q
  PROVE  q[i] \in Entries(B) /\ q[i].body \in B /\ q[i].at \in States /\ q[i].tries \in Nat
<1>1. q[i] \in Entries(B)
  BY LenProperties, ElementOfSeq
<1> QED
  BY <1>1 DEF Entries

LEMMA DeliverKeeps ==
  ASSUME NEW B, NEW q \in Seq(Entries(B))
  PROVE  /\ Deliver(q) \in Seq(Entries(B))
         /\ Len(Deliver(q)) = Len(q)
         /\ DOMAIN Deliver(q) = DOMAIN q
         /\ \A i \in DOMAIN q :
              /\ Deliver(q)[i].body = q[i].body
              /\ Deliver(q)[i].at = IF i \in Waiting(q) THEN "out" ELSE q[i].at
<1>1. ASSUME NEW i \in DOMAIN q
      PROVE  LET e == [q[i] EXCEPT !.at = "out", !.tries = @ + 1]
             IN  /\ q[i] \in Entries(B) /\ e \in Entries(B)
                 /\ e.body = q[i].body /\ e.at = "out"
  <2> DEFINE e == [q[i] EXCEPT !.at = "out", !.tries = @ + 1]
  <2>1. q[i] \in [body : B, at : States, tries : Nat]
    BY EntryOf DEF Entries
  <2>2. "out" \in States /\ q[i].tries + 1 \in Nat
    BY <2>1 DEF States
  <2>3. e \in [body : B, at : States, tries : Nat]
    BY <2>1, <2>2
  <2>4. e.body = q[i].body /\ e.at = "out"
    BY <2>1
  <2> QED
    BY <2>1, <2>3, <2>4 DEF Entries
<1>2. Deliver(q) \in [DOMAIN q -> Entries(B)]
  BY <1>1 DEF Deliver
<1>3. \A i \in DOMAIN q :
        /\ Deliver(q)[i].body = q[i].body
        /\ Deliver(q)[i].at = IF i \in Waiting(q) THEN "out" ELSE q[i].at
  BY <1>1 DEF Deliver
<1> QED
  BY <1>2, <1>3, SameLength

\* One entry of a stream changes its state, its acknowledgement or its expiry.
LEMMA MarkKeeps ==
  ASSUME NEW B, NEW q \in Seq(Entries(B)), NEW i \in DOMAIN q, NEW to \in States
  PROVE  LET r == [q EXCEPT ![i].at = to]
         IN  /\ r \in Seq(Entries(B))
             /\ Len(r) = Len(q)
             /\ DOMAIN r = DOMAIN q
             /\ \A j \in DOMAIN q : /\ r[j].body = q[j].body
                                    /\ r[j].at = IF j = i THEN to ELSE q[j].at
<1> DEFINE r == [q EXCEPT ![i].at = to]
<1>1. /\ [q[i] EXCEPT !.at = to] \in Entries(B)
      /\ [q[i] EXCEPT !.at = to].body = q[i].body
      /\ [q[i] EXCEPT !.at = to].at = to
  <2>1. q[i] \in Entries(B)
    BY EntryOf
  <2> QED
    BY <2>1 DEF Entries
<1>2. q \in [DOMAIN q -> Entries(B)]
  BY LenProperties
<1>3. r \in [DOMAIN q -> Entries(B)]
  BY <1>1, <1>2
<1>4. \A j \in DOMAIN q : /\ r[j].body = q[j].body
                          /\ r[j].at = IF j = i THEN to ELSE q[j].at
  BY <1>1, <1>2
<1> QED
  BY <1>3, <1>4, SameLength

\* What holds of some messages of a stream is finite, and grows by at most one
\* when one is published.
LEMMA FiniteDomain ==
  ASSUME NEW B, NEW q \in Seq(Entries(B)), NEW S \in SUBSET DOMAIN q
  PROVE  /\ IsFiniteSet(S)
         /\ Cardinality(S) \in Nat
         /\ Cardinality(S) <= Len(q)
<1>1. Len(q) \in Nat /\ DOMAIN q = 1 .. Len(q)
  BY LenProperties
<1>2. IsFiniteSet(DOMAIN q) /\ Cardinality(DOMAIN q) = Len(q)
  <2>1. 1 \in Int /\ Len(q) \in Int
    BY <1>1
  <2>2. /\ IsFiniteSet(1 .. Len(q))
        /\ Cardinality(1 .. Len(q)) = IF 1 > Len(q) THEN 0 ELSE Len(q) - 1 + 1
    BY <2>1, FS_Interval, Zenon
  <2> QED
    BY <1>1, <2>2
<1> QED
  BY <1>2, FS_Subset, FS_CardinalityType

-----------------------------------------------------------------------------
(* The stages of a decoding. *)

LEMMA StagesAre ==
  /\ Len(Stages) = 9
  /\ Stages[1] = "transactions" /\ Stages[2] = "instructions" /\ Stages[3] = "failures"
  /\ Stages[4] = "events" /\ Stages[5] = "sdk_metrics" /\ Stages[6] = "spans"
  /\ Stages[7] = "cpi_edges" /\ Stages[8] = "tx_logs" /\ Stages[9] = "live"
BY DEF Stages

LEMMA StageKinds ==
  ASSUME NEW k \in 1 .. Len(Stages)
  PROVE  /\ Stages[k] \in Tables <=> k \notin {3, 9}
         /\ Stages[k] = "failures" <=> k = 3
         /\ Stages[k] = "live" <=> k = 9
         /\ Stages[k] = "transactions" <=> k = 1
         /\ Stages[k] = "instructions" <=> k = 2
         /\ Stages[k] = "tx_logs" <=> k = 8
BY StagesAre DEF Tables

LEMMA FailureStageIs == FailureStage = 3
BY StagesAre, StageKinds DEF FailureStage

LEMMA DistinctStages ==
  ASSUME NEW j \in 1 .. Len(Stages), NEW k \in 1 .. Len(Stages), Stages[j] = Stages[k]
  PROVE  j = k
BY StagesAre

LEMMA Between == \A a, b, c \in Int : a < b /\ b < c => b \in a + 1 .. c - 1
OBVIOUS

LEMMA LeastElement ==
  ASSUME NEW S \in SUBSET Nat, S # {} PROVE \E k \in S : \A j \in S : k <= j
<1> DEFINE R == OpToRel(<, Nat)
<1>1. IsWellFoundedOn(R, Nat)
  BY NatLessThanWellFounded, Zenon
<1>2. PICK k \in S : \A j \in S : ~(<<j, k>> \in R)
  BY <1>1, WFMin, Zenon
<1>3. \A j \in S : ~(j < k)
  BY <1>2 DEF OpToRel
<1> HIDE DEF R
<1>4. \A j \in S : k <= j
  BY <1>3
<1> QED
  BY <1>4

\* A stage is followed by the next that concerns the transaction, if there is one.
LEMMA AdvanceGoesOn ==
  ASSUME NEW n \in 1 .. Len(Stages), stage = n, Advance
  PROVE  /\ row' = 1
         /\ \/ /\ pc' = "ack" /\ stage' = 0
               /\ \A j \in n + 1 .. Len(Stages) : ~Concerns(Sig, j)
            \/ /\ pc' = "stage"
               /\ stage' \in n + 1 .. Len(Stages)
               /\ Concerns(Sig, stage')
               /\ \A j \in n + 1 .. stage' - 1 : ~Concerns(Sig, j)
<1> DEFINE S == {k \in n + 1 .. Len(Stages) : Concerns(Sig, k)}
<1>1. /\ row' = 1
      /\ IF S = {} THEN pc' = "ack" /\ stage' = 0
         ELSE /\ pc' = "stage"
              /\ stage' = CHOOSE k \in S : \A j \in S : k <= j
  BY DEF Advance
<1>2. CASE S = {}
  BY <1>1, <1>2
<1>3. CASE S # {}
  <2>1. S \subseteq Nat
    BY StagesAre
  <2>4. PICK k \in S : \A j \in S : k <= j
    BY <1>3, <2>1, LeastElement
  <2>5. stage' \in S /\ \A j \in S : stage' <= j
    BY <1>1, <1>3, <2>4
  <2>6. ASSUME NEW j \in n + 1 .. stage' - 1 PROVE ~Concerns(Sig, j)
    <3>1. stage' \in n + 1 .. 9 /\ Len(Stages) = 9 /\ n \in Nat
      BY <2>5, StagesAre
    <3>2. PICK m \in n + 1 .. 9 : m = stage'
      BY <3>1
    <3>3. j \in n + 1 .. m - 1
      BY <3>2, Zenon
    <3>4. j \in n + 1 .. 9 /\ ~(m <= j)
      BY <3>1, <3>3
    <3> QED
      BY <2>5, <3>1, <3>2, <3>4
  <2> QED
    BY <1>1, <1>3, <2>5, <2>6
<1> QED
  BY <1>2, <1>3

\* A stage that publishes stays until the last instruction.
LEMMA InstructionGoesOn ==
  ASSUME NextInstruction
  PROVE  \/ row < Instrs[Sig] /\ row' = row + 1 /\ UNCHANGED <<pc, stage>>
         \/ ~(row < Instrs[Sig]) /\ Advance
BY DEF NextInstruction

-----------------------------------------------------------------------------
(* Type correctness, and what the loops hold. *)

\* The grouper's stream operators are the decoder's.
LEMMA GrouperStream ==
  ASSUME NEW q, NEW i, NEW S
  PROVE  /\ G!Waiting(q) = Waiting(q)
         /\ G!Deliver(q) = Deliver(q)
         /\ G!Acknowledge(q, i) = Acknowledge(q, i)
         /\ G!Expire(q, i) = Expire(q, i)
         /\ G!Foremost(q, S, i) = Foremost(q, S, i)
         /\ G!Idle = Idle
BY DEF G!Waiting, Waiting, G!Deliver, Deliver, G!Acknowledge, Acknowledge, G!Expire,
       Expire, G!Foremost, Foremost, G!Idle, Idle

\* The message in hand.
LEMMA InHand ==
  ASSUME TypeOK, HandlingOK, pc \notin {"down", "fetch", "next"}
  PROVE  /\ cur \in DOMAIN rawTx
         /\ rawTx[cur].body \in Messages
         /\ Sig \in Sigs
         /\ rawTx[cur].at = "out"
         /\ cur \notin batch
         /\ cur # Idle
<1>1. cur \in DOMAIN rawTx /\ rawTx[cur].at = "out" /\ cur \notin batch /\ cur # Idle
  BY DEF TypeOK, HandlingOK
<1>2. rawTx[cur].body \in Messages
  BY <1>1, EntryOf DEF TypeOK
<1> QED
  BY <1>1, <1>2 DEF Sig, Messages

LEMMA InitTypes == PipelineInit => TypeOK /\ HandlingOK /\ GroupingOK /\ FeedOK
<1> SUFFICES ASSUME PipelineInit PROVE TypeOK /\ HandlingOK /\ GroupingOK /\ FeedOK
  OBVIOUS
<1>1. /\ <<>> \in Seq(Entries(Messages)) /\ <<>> \in Seq(Entries(FailureMessages))
      /\ <<>> \in Seq(DOMAIN <<>>)
  BY EmptySeq
<1>2. DOMAIN <<>> = {}
  OBVIOUS
<1>3. TypeOK
  BY <1>1, StagesAre, DecoderAssumption DEF PipelineInit, Init, G!Init, TypeOK, Idle, G!Idle
<1> QED
  BY <1>2, <1>3 DEF PipelineInit, Init, G!Init, F!Init, HandlingOK, GroupingOK, FeedOK, Idle, G!Idle

\* What a step of the loop of the decoder does to the raw stream.
LEMMA RawStep ==
  ASSUME TypeOK, HandlingOK, [PipelineNext]_allVars
  PROVE  /\ rawTx' \in Seq(Entries(Messages))
         /\ DOMAIN rawTx \subseteq DOMAIN rawTx'
         /\ \A i \in DOMAIN rawTx : rawTx'[i].body = rawTx[i].body
         /\ (\E s \in Sigs : Feed(s)) \/ DOMAIN rawTx' = DOMAIN rawTx
<1>1. CASE rawTx' = rawTx
  BY <1>1 DEF TypeOK
<1>2. ASSUME NEW s \in Sigs, NEW c \in {"processed", "confirmed"}, NEW b \in BOOLEAN,
             Emit(s, c, b)
      PROVE  /\ rawTx' \in Seq(Entries(Messages))
             /\ DOMAIN rawTx \subseteq DOMAIN rawTx'
             /\ \A i \in DOMAIN rawTx : rawTx'[i].body = rawTx[i].body
  <2> DEFINE m == [sig |-> s, commitment |-> c, rollback |-> b]
  <2>1. m \in Messages
    BY DEF Messages
  <2>2. rawTx \in Seq(Entries(Messages)) /\ rawTx' = Publish(rawTx, m)
    BY <1>2 DEF Emit, TypeOK
  <2> HIDE DEF m
  <2>3. Publish(rawTx, m) \in Seq(Entries(Messages))
    BY <2>1, <2>2, PublishGrows
  <2>4. DOMAIN Publish(rawTx, m) = DOMAIN rawTx \cup {Len(rawTx) + 1}
    BY <2>1, <2>2, PublishGrows
  <2>5. \A i \in DOMAIN rawTx : Publish(rawTx, m)[i] = rawTx[i]
    BY <2>1, <2>2, PublishKeeps
  <2> QED
    BY <2>2, <2>3, <2>4, <2>5
<1>3. ASSUME NEW s \in Sigs, Feed(s)
      PROVE  \/ rawTx' = rawTx
             \/ Emit(s, "processed", FALSE) \/ Emit(s, "confirmed", FALSE)
             \/ Emit(s, "processed", TRUE)
  BY <1>3 DEF Feed
<1>4. CASE Fetch
  BY <1>4, DeliverKeeps DEF Fetch, TypeOK
<1>5. CASE Ack
  <2>1. cur \in DOMAIN rawTx /\ "acked" \in States
    BY <1>5, InHand DEF Ack, States
  <2> QED
    BY <1>5, <2>1, MarkKeeps DEF Ack, Acknowledge, TypeOK
<1>6. CASE AckWaitPasses
  <2>1. PICK i \in DOMAIN rawTx : rawTx' = Expire(rawTx, i)
    BY <1>6 DEF AckWaitPasses
  <2>2. "again" \in States
    BY DEF States
  <2> QED
    BY <2>1, <2>2, MarkKeeps DEF Expire, TypeOK
<1> QED
  BY <1>1, <1>2, <1>3, <1>4, <1>5, <1>6
     DEF PipelineNext, DecoderStep, GrouperStep, OthersPause, Next, Loop, Disturbance,
         Start, MergeTransactions, NextMessage, RecordRollback, RecordPromotion, Verdict,
         LoadBlob, Insert, PublishFailure, PublishLive, RecordDecodeError, Decoding,
         AckIsLost, Exit, VerdictIsLost, LoadFails, InsertFails, PublishIsLost,
         DecodeErrorIsLost, allVars, vars

\* The message of a failure is one for the instruction in hand.
LEMMA FailurePublished ==
  ASSUME TypeOK, HandlingOK, PublishFailure
  PROVE  /\ [sig |-> Sig, instr |-> row] \in FailureMessages
         /\ failures' = Publish(failures, [sig |-> Sig, instr |-> row])
         /\ Sig \in Failed /\ Sig \in Sigs /\ stage = 3
         /\ row \in 1 .. MaxInstrs /\ row <= Instrs[Sig]
<1>1. pc = "stage" /\ Stages[stage] = "failures" /\ stage \in 1 .. Len(Stages)
  BY DEF PublishFailure, HandlingOK
<1>2. Sig \in Failed /\ stage = 3
  BY <1>1, StageKinds DEF HandlingOK, Concerns
<1>3. row \in 1 .. MaxInstrs /\ row <= Instrs[Sig]
  BY <1>1 DEF TypeOK, HandlingOK, Tables
<1> QED
  BY <1>2, <1>3, DecoderAssumption DEF PublishFailure, FailureMessages

LEMMA FailuresStep ==
  ASSUME TypeOK, HandlingOK, GroupingOK, [PipelineNext]_allVars
  PROVE  /\ failures' \in Seq(Entries(FailureMessages))
         /\ DOMAIN failures \subseteq DOMAIN failures'
         /\ \A i \in DOMAIN failures : failures'[i].body = failures[i].body
         /\ PublishFailure \/ DOMAIN failures' = DOMAIN failures
<1>1. CASE failures' = failures
  BY <1>1 DEF TypeOK
<1>2. CASE PublishFailure
  <2>1. PICK b \in FailureMessages : failures' = Publish(failures, b)
    BY <1>2, FailurePublished
  <2>2. failures \in Seq(Entries(FailureMessages))
    BY DEF TypeOK
  <2>3. Publish(failures, b) \in Seq(Entries(FailureMessages))
    BY <2>1, <2>2, PublishGrows
  <2>4. DOMAIN Publish(failures, b) = DOMAIN failures \cup {Len(failures) + 1}
    BY <2>1, <2>2, PublishGrows
  <2>5. \A i \in DOMAIN failures : Publish(failures, b)[i] = failures[i]
    BY <2>1, <2>2, PublishKeeps
  <2> QED
    BY <1>2, <2>1, <2>3, <2>4, <2>5
<1>3. CASE G!Fetch
  <2>1. failures \in Seq(Entries(FailureMessages)) /\ failures' = Deliver(failures)
    BY <1>3, GrouperStream DEF G!Fetch, TypeOK
  <2> QED
    BY <2>1, DeliverKeeps
<1>4. CASE G!Ack
  <2>1. gcur \in DOMAIN failures /\ "acked" \in States
    BY <1>4 DEF G!Ack, States, TypeOK, GroupingOK
  <2> QED
    BY <1>4, <2>1, MarkKeeps DEF G!Ack, G!Acknowledge, TypeOK
<1>5. CASE G!AckWaitPasses
  <2>1. PICK i \in DOMAIN failures : failures' = G!Expire(failures, i)
    BY <1>5 DEF G!AckWaitPasses
  <2>2. "again" \in States
    BY DEF States
  <2> QED
    BY <2>1, <2>2, MarkKeeps DEF G!Expire, TypeOK
<1> QED
  BY <1>1, <1>2, <1>3, <1>4, <1>5
     DEF PipelineNext, Feed, DecoderStep, GrouperStep, OthersPause, Next, Loop,
         Disturbance, Start, MergeTransactions, NextMessage, RecordRollback,
         RecordPromotion, Verdict, LoadBlob, Insert, PublishLive, RecordDecodeError,
         AckIsLost, Exit, VerdictIsLost, LoadFails, InsertFails, PublishIsLost,
         DecodeErrorIsLost, Fetch, Ack, Handled, AckWaitPasses, allVars, vars,
         G!Next, G!Loop, G!Restart, G!StatementFails, G!AckIsLost, G!Exit,
         G!NextFailure, G!UpsertIssue, G!TrimSamples, G!InsertSample

-----------------------------------------------------------------------------
(* The decoder's steps. *)

\* One insert, of the table of the current stage.
LEMMA InsertType ==
  ASSUME TypeOK, HandlingOK, pc = "stage", Stages[stage] \in Tables,
         InsertInto(Stages[stage]), CountCalls(Stages[stage]) \/ UNCHANGED calls
  PROVE  /\ rows' \in [Sigs -> [Tables -> Nat]]
         /\ merged' \in [Sigs -> Nat]
         /\ calls' \in [Sigs -> Nat]
<1>1. Sig \in Sigs
  BY InHand
<1> DEFINE t == Stages[stage]
<1>2. t \in Tables
  OBVIOUS
<1>3. InsertInto(t) /\ (CountCalls(t) \/ UNCHANGED calls)
  OBVIOUS
<1> HIDE DEF t
<1>4. rows[Sig] \in [Tables -> Nat] /\ merged[Sig] \in Nat /\ calls[Sig] \in Nat
  BY <1>1 DEF TypeOK
<1>5. [rows[Sig] EXCEPT ![t] = @ + 1] \in [Tables -> Nat]
  BY <1>2, <1>4
<1>6. rows' = [rows EXCEPT ![Sig] = [rows[Sig] EXCEPT ![t] = @ + 1]]
  BY <1>3 DEF InsertInto
<1>7. /\ merged' = merged \/ merged' = [merged EXCEPT ![Sig] = merged[Sig] + 1]
      /\ calls' = calls \/ calls' = [calls EXCEPT ![Sig] = calls[Sig] + merged[Sig]]
  BY <1>3 DEF InsertInto, CountCalls
<1>8. rows' \in [Sigs -> [Tables -> Nat]]
  BY <1>1, <1>5, <1>6 DEF TypeOK
<1>9. merged' \in [Sigs -> Nat] /\ calls' \in [Sigs -> Nat]
  <2> DEFINE sig == Sig
  <2>1. sig \in Sigs /\ merged[sig] + 1 \in Nat /\ calls[sig] + merged[sig] \in Nat
    BY <1>1, <1>4
  <2>2. /\ merged' = merged \/ merged' = [merged EXCEPT ![sig] = merged[sig] + 1]
        /\ calls' = calls \/ calls' = [calls EXCEPT ![sig] = calls[sig] + merged[sig]]
    BY <1>7
  <2> HIDE DEF sig
  <2> QED
    BY <2>1, <2>2 DEF TypeOK
<1> QED
  BY <1>8, <1>9

LEMMA AdvanceType ==
  ASSUME TypeOK, HandlingOK, pc = "stage", Advance
  PROVE  pc' \in {"stage", "ack"} /\ stage' \in 0 .. Len(Stages) /\ row' \in 1 .. MaxInstrs
<1>1. row' = 1 /\ pc' \in {"stage", "ack"} /\ stage' \in 0 .. Len(Stages)
  BY AdvanceGoesOn, StagesAre DEF HandlingOK
<1> QED
  BY <1>1, DecoderAssumption

\* A stage that publishes has an instruction in hand.
LEMMA RowInHand ==
  ASSUME TypeOK, HandlingOK, pc = "stage", Stages[stage] \in {"failures", "live"}
  PROVE  /\ row \in 1 .. MaxInstrs /\ row <= Instrs[Sig] /\ Sig \in Sigs
         /\ Instrs[Sig] \in 0 .. MaxInstrs
<1>1. Sig \in Sigs
  BY InHand
<1> QED
  BY <1>1, DecoderAssumption DEF TypeOK, HandlingOK, Tables

LEMMA NextInstructionType ==
  ASSUME TypeOK, HandlingOK, pc = "stage", Stages[stage] \in {"failures", "live"},
         NextInstruction
  PROVE  pc' \in {"stage", "ack"} /\ stage' \in 0 .. Len(Stages) /\ row' \in 1 .. MaxInstrs
<1>1. CASE row < Instrs[Sig] /\ row' = row + 1 /\ UNCHANGED <<pc, stage>>
  BY <1>1, RowInHand, DecoderAssumption DEF TypeOK
<1> QED
  BY <1>1, InstructionGoesOn, AdvanceType

LEMMA Disturbed ==
  ASSUME TypeOK, Disturb \/ G!Disturb
  PROVE  disturb' \in 0 .. MaxDisturb /\ disturb' = disturb + 1
BY DecoderAssumption DEF TypeOK, Disturb, G!Disturb

LEMMA DecoderTypes ==
  ASSUME TypeOK, HandlingOK, DecoderStep,
         rawTx' \in Seq(Entries(Messages)), DOMAIN rawTx \subseteq DOMAIN rawTx',
         failures' \in Seq(Entries(FailureMessages)), DOMAIN failures \subseteq DOMAIN failures'
  PROVE  TypeOK'
<1> USE DEF rowVars, verdictVars, errorVars, loopVars, place
<1>0. UNCHANGED <<gpc, gbatch, gcur, total, samples, sampled>>
  BY DEF DecoderStep, OthersWait, grouperVars
<1>1. /\ gpc' \in {"down", "fetch", "next", "upsert", "trim", "sample", "ack"}
      /\ gbatch' \subseteq DOMAIN failures'
      /\ gcur' \in {Idle} \cup DOMAIN failures'
      /\ total' \in Nat
      /\ samples' \in Seq(DOMAIN failures')
      /\ sampled' \in Seq(DOMAIN failures')
  BY <1>0, SeqMonotonic DEF TypeOK
<1>2. CASE Fetch
  BY <1>1, <1>2 DEF Fetch, Waiting, TypeOK
<1>3. CASE NextMessage
  BY <1>1, <1>3 DEF NextMessage, Route, TypeOK
<1>4. CASE Ack
  BY <1>1, <1>4 DEF Ack, Handled, TypeOK
<1>5. CASE AckIsLost
  BY <1>1, <1>5, Disturbed DEF AckIsLost, Handled, TypeOK
<1>6. CASE AckWaitPasses
  BY <1>1, <1>6 DEF AckWaitPasses, TypeOK
<1>7. CASE Exit
  <2>1. stage' \in 0 .. Len(Stages) /\ row' \in 1 .. MaxInstrs
    BY <1>7, StagesAre, DecoderAssumption DEF Exit
  <2> QED
    BY <1>1, <1>7, <2>1, Disturbed DEF Exit, TypeOK
<1>8. CASE Start
  BY <1>1, <1>8 DEF Start, TypeOK
<1>9. CASE RecordRollback
  <2>1. Sig \in Sigs
    BY <1>9, InHand DEF RecordRollback
  <2> QED
    BY <1>1, <1>9, <2>1 DEF RecordRollback, Verdict, TypeOK
<1>10. CASE RecordPromotion
  <2>1. Sig \in Sigs
    BY <1>10, InHand DEF RecordPromotion
  <2> QED
    BY <1>1, <1>10, <2>1 DEF RecordPromotion, Verdict, TypeOK
<1>11. CASE VerdictIsLost
  <2>1. cur \in DOMAIN rawTx
    BY <1>11, InHand DEF VerdictIsLost
  <2> QED
    BY <1>1, <1>11, <2>1, Disturbed DEF VerdictIsLost, Verdict, TypeOK
<1>12. CASE LoadBlob
  <2>1. stage' \in 0 .. Len(Stages)
    BY <1>12, StagesAre DEF LoadBlob
  <2> QED
    BY <1>1, <1>12, <2>1 DEF LoadBlob, Decoding, TypeOK
<1>13. CASE LoadFails
  BY <1>1, <1>13, Disturbed DEF LoadFails, Decoding, TypeOK
<1>14. CASE Insert
  <2>1. /\ rows' \in [Sigs -> [Tables -> Nat]]
        /\ merged' \in [Sigs -> Nat] /\ calls' \in [Sigs -> Nat]
    BY <1>14, InsertType DEF Insert
  <2>2. pc' \in {"stage", "ack"} /\ stage' \in 0 .. Len(Stages) /\ row' \in 1 .. MaxInstrs
    BY <1>14, AdvanceType DEF Insert
  <2> QED
    BY <1>1, <1>14, <2>1, <2>2 DEF Insert, Decoding, TypeOK
<1>15. CASE InsertFails
  <2>1. /\ rows' \in [Sigs -> [Tables -> Nat]]
        /\ merged' \in [Sigs -> Nat] /\ calls' \in [Sigs -> Nat]
    <3>1. CASE InsertInto(Stages[stage]) /\ (CountCalls(Stages[stage]) \/ UNCHANGED calls)
      BY <1>15, <3>1, InsertType DEF InsertFails
    <3>2. CASE UNCHANGED rowVars
      BY <3>2 DEF TypeOK
    <3> QED
      BY <1>15, <3>1, <3>2 DEF InsertFails
  <2>2. stage' \in 0 .. Len(Stages)
    BY <1>15, StagesAre DEF InsertFails
  <2> QED
    BY <1>1, <1>15, <2>1, <2>2, Disturbed DEF InsertFails, Decoding, TypeOK
<1>16. CASE PublishFailure
  <2>1. pc' \in {"stage", "ack"} /\ stage' \in 0 .. Len(Stages) /\ row' \in 1 .. MaxInstrs
    BY <1>16, NextInstructionType DEF PublishFailure
  <2> QED
    BY <1>1, <1>16, <2>1 DEF PublishFailure, Decoding, TypeOK
<1>17. CASE PublishLive
  <2>1. pc' \in {"stage", "ack"} /\ stage' \in 0 .. Len(Stages) /\ row' \in 1 .. MaxInstrs
    BY <1>17, NextInstructionType DEF PublishLive
  <2> DEFINE sig == Sig
             one == [live[sig] EXCEPT ![row] = live[sig][row] + 1]
  <2>2. sig \in Sigs /\ row \in 1 .. MaxInstrs
    BY <1>17, InHand DEF PublishLive, TypeOK
  <2>3. live' = [live EXCEPT ![sig] = one]
    BY <1>17 DEF PublishLive
  <2> HIDE DEF sig
  <2>5. live[sig] \in [1 .. MaxInstrs -> Nat] /\ live \in [Sigs -> [1 .. MaxInstrs -> Nat]]
    BY <2>2 DEF TypeOK
  <2>6. one \in [1 .. MaxInstrs -> Nat]
    BY <2>2, <2>5
  <2> HIDE DEF one
  <2>4. live' \in [Sigs -> [1 .. MaxInstrs -> Nat]]
    BY <2>2, <2>3, <2>5, <2>6
  <2> QED
    BY <1>1, <1>17, <2>1, <2>4 DEF PublishLive, Decoding, TypeOK
<1>18. CASE PublishIsLost
  <2>1. pc' \in {"stage", "ack"} /\ stage' \in 0 .. Len(Stages) /\ row' \in 1 .. MaxInstrs
    BY <1>18, NextInstructionType DEF PublishIsLost
  <2> QED
    BY <1>1, <1>18, <2>1, Disturbed DEF PublishIsLost, Decoding, TypeOK
<1>19. CASE RecordDecodeError
  <2>1. Sig \in Sigs
    BY <1>19, InHand DEF RecordDecodeError
  <2> QED
    BY <1>1, <1>19, <2>1 DEF RecordDecodeError, Decoding, TypeOK
<1>20. CASE DecodeErrorIsLost
  <2>1. Sig \in Sigs
    BY <1>20, InHand DEF DecodeErrorIsLost
  <2> QED
    BY <1>1, <1>20, <2>1, Disturbed DEF DecodeErrorIsLost, Decoding, TypeOK
<1>21. CASE MergeTransactions
  <2>1. PICK s \in Sigs : \E n \in 1 .. merged[s] - 1 : merged' = [merged EXCEPT ![s] = n]
    BY <1>21 DEF MergeTransactions
  <2>2. merged' \in [Sigs -> Nat]
    BY <2>1 DEF TypeOK
  <2> QED
    BY <1>1, <1>21, <2>2 DEF MergeTransactions, TypeOK
<1> QED
  BY <1>2, <1>3, <1>4, <1>5, <1>6, <1>7, <1>8, <1>9, <1>10, <1>11, <1>12, <1>13, <1>14,
     <1>15, <1>16, <1>17, <1>18, <1>19, <1>20, <1>21
     DEF DecoderStep, Next, Loop, Disturbance

-----------------------------------------------------------------------------
(* The grouper's steps. *)

LEMMA GrouperTypes ==
  ASSUME TypeOK, GroupingOK, SamplesAreLatest, GrouperStep,
         failures' \in Seq(Entries(FailureMessages)), DOMAIN failures \subseteq DOMAIN failures'
  PROVE  TypeOK'
<1> USE DEF G!issueVars, G!loopVars, G!Idle, Idle, rowVars, verdictVars, errorVars, loopVars, place
<1>0. UNCHANGED <<rawTx, loopVars, rowVars, verdictVars, errorVars, live>>
  BY DEF GrouperStep, OthersPause
<1>1. samples \in Seq(DOMAIN failures') /\ sampled \in Seq(DOMAIN failures')
  BY SeqMonotonic DEF TypeOK
<1>2. ASSUME Len(samples) >= SampleCap PROVE Tail(samples) \in Seq(DOMAIN failures')
  <2>1. samples # <<>>
    BY <1>2, PipelineAssumption, EmptySeq DEF TypeOK
  <2> QED
    BY <1>1, <2>1, HeadTailProperties
<1>3. ASSUME gcur \in DOMAIN failures
      PROVE  /\ Append(samples, gcur) \in Seq(DOMAIN failures')
             /\ Append(sampled, gcur) \in Seq(DOMAIN failures')
  BY <1>1, <1>3, AppendProperties
<1>4. CASE G!Fetch
  BY <1>0, <1>1, <1>4 DEF G!Fetch, G!Waiting, TypeOK
<1>5. CASE G!NextFailure
  BY <1>0, <1>1, <1>5 DEF G!NextFailure, TypeOK
<1>6. CASE G!UpsertIssue
  BY <1>0, <1>1, <1>6 DEF G!UpsertIssue, TypeOK
<1>7. CASE G!TrimSamples
  BY <1>0, <1>1, <1>2, <1>7 DEF G!TrimSamples, TypeOK
<1>8. CASE G!InsertSample
  <2>1. gcur \in DOMAIN failures
    BY <1>8 DEF G!InsertSample, GroupingOK, TypeOK
  <2> QED
    BY <1>0, <1>1, <1>3, <1>8, <2>1 DEF G!InsertSample, TypeOK
<1>9. CASE G!StatementFails
  <2>1. gcur \in DOMAIN failures
    BY <1>9 DEF G!StatementFails, GroupingOK, TypeOK
  <2>2. samples' \in Seq(DOMAIN failures') /\ sampled' \in Seq(DOMAIN failures')
    BY <1>1, <1>2, <1>3, <1>9, <2>1 DEF G!StatementFails
  <2>3. total' \in Nat
    BY <1>9 DEF G!StatementFails, TypeOK
  <2>4. disturb' \in 0 .. MaxDisturb
    BY <1>9, Disturbed DEF G!StatementFails, TypeOK
  <2> QED
    BY <1>0, <1>9, <2>2, <2>3, <2>4 DEF G!StatementFails, TypeOK
<1>10. CASE G!Ack
  BY <1>0, <1>1, <1>10 DEF G!Ack, G!Handled, TypeOK
<1>11. CASE G!AckIsLost
  BY <1>0, <1>1, <1>11, Disturbed DEF G!AckIsLost, G!Handled, TypeOK
<1>12. CASE G!AckWaitPasses
  BY <1>0, <1>1, <1>12 DEF G!AckWaitPasses, TypeOK
<1>13. CASE G!Exit
  BY <1>0, <1>1, <1>13, Disturbed DEF G!Exit, TypeOK
<1>14. CASE G!Restart
  BY <1>0, <1>1, <1>14 DEF G!Restart, TypeOK
<1> QED
  BY <1>4, <1>5, <1>6, <1>7, <1>8, <1>9, <1>10, <1>11, <1>12, <1>13, <1>14
     DEF GrouperStep, G!Next, G!Loop

LEMMA TypeStep ==
  ASSUME TypeOK, HandlingOK, GroupingOK, SamplesAreLatest, [PipelineNext]_allVars
  PROVE  TypeOK'
<1>1. /\ rawTx' \in Seq(Entries(Messages)) /\ DOMAIN rawTx \subseteq DOMAIN rawTx'
      /\ failures' \in Seq(Entries(FailureMessages)) /\ DOMAIN failures \subseteq DOMAIN failures'
  BY RawStep, FailuresStep
<1>2. CASE UNCHANGED allVars
  BY <1>2 DEF allVars, vars, grouperVars, rowVars, verdictVars, errorVars, loopVars, place, TypeOK
<1>3. ASSUME NEW s \in Sigs, Feed(s) PROVE TypeOK'
  BY <1>1, <1>3 DEF Feed, grouperVars, rowVars, verdictVars, errorVars, loopVars, place, TypeOK
<1> QED
  BY <1>1, <1>2, <1>3, DecoderTypes, GrouperTypes DEF PipelineNext

-----------------------------------------------------------------------------
(* What the loops hold. *)

\* What the decoder holds is touched by its own steps only.
LEMMA HandlingUntouched ==
  ASSUME TypeOK, HandlingOK,
         DOMAIN rawTx \subseteq DOMAIN rawTx',
         \A i \in DOMAIN rawTx : rawTx'[i] = rawTx[i],
         \A i \in DOMAIN rawTx' \ DOMAIN rawTx : i # Idle /\ i \notin batch,
         UNCHANGED <<pc, batch, cur, place>>
  PROVE  HandlingOK'
<1>1. cur # Idle => cur \in DOMAIN rawTx
  BY DEF TypeOK
<1>2. /\ Concerns(Sig, stage) /\ pc = "stage" => Concerns(Sig, stage)'
      /\ pc = "stage" => Sig' = Sig
  BY <1>1 DEF HandlingOK, Sig, Concerns, place
<1> QED
  BY <1>1, <1>2 DEF HandlingOK, place

\* A step that only moves the message in hand on.
LEMMA HandlingMoves ==
  ASSUME TypeOK, HandlingOK, pc \notin {"down", "fetch", "next"},
         UNCHANGED <<rawTx, batch, cur>>, row' = 1,
         \/ pc' = "ack" /\ stage' = 0
         \/ pc' = "error" /\ stage' = 0 /\ Announcement(rawTx[cur].body)
         \/ /\ pc' = "stage" /\ Announcement(rawTx[cur].body)
            /\ stage' \in 1 .. Len(Stages) /\ Concerns(Sig, stage')
  PROVE  HandlingOK'
<1>1. pc' = "stage" => Concerns(Sig, stage)' /\ Sig' = Sig
  BY DEF Sig, Concerns
<1>2. pc' = "stage" /\ Stages[stage'] \notin Tables => row' <= Instrs[Sig]
  <2>1. Sig \in Sigs /\ Instrs[Sig] \in Nat
    BY InHand, DecoderAssumption
  <2> QED
    BY <2>1, StageKinds DEF Concerns
<1> QED
  BY <1>1, <1>2 DEF HandlingOK

LEMMA HandlingAdvances ==
  ASSUME TypeOK, HandlingOK, pc = "stage", UNCHANGED <<rawTx, batch, cur>>, Advance
  PROVE  HandlingOK'
<1>1. stage \in 1 .. Len(Stages) /\ Announcement(rawTx[cur].body)
  BY DEF HandlingOK
<1>2. /\ row' = 1
      /\ \/ pc' = "ack" /\ stage' = 0
         \/ /\ pc' = "stage"
            /\ stage' \in stage + 1 .. Len(Stages)
            /\ Concerns(Sig, stage')
  BY <1>1, AdvanceGoesOn
<1>3. stage' \in stage + 1 .. Len(Stages) => stage' \in 1 .. Len(Stages)
  BY <1>1, StagesAre
<1> QED
  BY <1>1, <1>2, <1>3, HandlingMoves

LEMMA HandlingGoesOn ==
  ASSUME TypeOK, HandlingOK, pc = "stage", UNCHANGED <<rawTx, batch, cur>>,
         Stages[stage] \in {"failures", "live"}, NextInstruction
  PROVE  HandlingOK'
<1>1. CASE row < Instrs[Sig] /\ row' = row + 1 /\ UNCHANGED <<pc, stage>>
  <2>1. Sig' = Sig /\ Stages[stage] \notin Tables
    BY DEF Sig, Tables
  <2>2. row' <= Instrs[Sig]
    BY <1>1, RowInHand
  <2>3. Concerns(Sig, stage)'
    BY <1>1, <2>1 DEF HandlingOK, Concerns
  <2> QED
    BY <1>1, <2>1, <2>2, <2>3 DEF HandlingOK
<1> QED
  BY <1>1, InstructionGoesOn, HandlingAdvances

LEMMA HandlingStep ==
  ASSUME TypeOK, HandlingOK, [PipelineNext]_allVars PROVE HandlingOK'
<1> USE DEF loopVars, place
<1>1. CASE UNCHANGED <<rawTx, loopVars>>
  BY <1>1, HandlingUntouched
<1>2. ASSUME NEW s \in Sigs, Feed(s), rawTx' # rawTx PROVE HandlingOK'
  <2>1. PICK m \in Messages : rawTx' = Publish(rawTx, m)
    BY <1>2 DEF Feed, Emit, Messages
  <2>2. rawTx \in Seq(Entries(Messages))
    BY DEF TypeOK
  <2>3. DOMAIN rawTx' = DOMAIN rawTx \cup {Len(rawTx) + 1} /\ Len(rawTx) + 1 \notin DOMAIN rawTx
    BY <2>1, <2>2, PublishGrows
  <2>4. \A i \in DOMAIN rawTx : rawTx'[i] = rawTx[i]
    BY <2>1, <2>2, PublishKeeps
  <2>5. Len(rawTx) + 1 # Idle
    BY <2>2, LenProperties DEF Idle
  <2> QED
    BY <1>2, <2>3, <2>4, <2>5, HandlingUntouched DEF Feed, TypeOK
<1>3. CASE Fetch
  <2>1. rawTx \in Seq(Entries(Messages))
    BY DEF TypeOK
  <2>2. /\ DOMAIN rawTx' = DOMAIN rawTx
        /\ \A i \in DOMAIN rawTx :
             rawTx'[i].at = IF i \in Waiting(rawTx) THEN "out" ELSE rawTx[i].at
    BY <1>3, <2>1, DeliverKeeps DEF Fetch
  <2>3. /\ batch' = Waiting(rawTx) /\ cur = Idle /\ cur' = cur /\ pc' = "next" /\ pc = "fetch"
        /\ stage' = stage /\ row' = row
    BY <1>3 DEF Fetch, HandlingOK
  <2>4. Idle \notin batch'
    BY <2>1, <2>3, LenProperties DEF Idle, Waiting
  <2>5. \A i \in DOMAIN rawTx' : i \in batch' \/ i = cur' => rawTx'[i].at = "out"
    <3>1. Idle \notin DOMAIN rawTx
      BY <2>1, LenProperties DEF Idle
    <3> QED
      BY <2>2, <2>3, <3>1
  <2> QED
    BY <2>3, <2>4, <2>5 DEF HandlingOK
<1>4. CASE NextMessage
  <2>1. PICK i \in batch : cur' = i /\ batch' = batch \ {i} /\ pc' = Route(rawTx[i].body)
    BY <1>4 DEF NextMessage, Foremost
  <2>2. i \in DOMAIN rawTx /\ rawTx[i].body \in Messages /\ i # Idle
    <3>1. i \in DOMAIN rawTx /\ rawTx \in Seq(Entries(Messages))
      BY <2>1 DEF TypeOK
    <3> QED
      BY <3>1, EntryOf, LenProperties DEF Idle
  <2>3. /\ pc' \in {"rollback", "promotion", "load"}
        /\ pc' = "rollback" => rawTx[i].body.rollback
        /\ pc' = "promotion" => Promotion(rawTx[i].body)
        /\ pc' = "load" => Announcement(rawTx[i].body)
    BY <2>1, <2>2 DEF Route, Promotion, Announcement, Messages
  <2>4. rawTx' = rawTx /\ stage' = stage /\ row' = row /\ pc = "next"
    BY <1>4 DEF NextMessage
  <2> QED
    BY <2>1, <2>2, <2>3, <2>4 DEF HandlingOK
<1>5. CASE Ack
  <2>1. cur \in DOMAIN rawTx /\ cur # Idle
    BY <1>5, InHand DEF Ack
  <2>2. rawTx \in Seq(Entries(Messages)) /\ "acked" \in States
    BY DEF TypeOK, States
  <2>3. /\ DOMAIN rawTx' = DOMAIN rawTx
        /\ \A j \in DOMAIN rawTx : rawTx'[j].at = IF j = cur THEN "acked" ELSE rawTx[j].at
    BY <1>5, <2>1, <2>2, MarkKeeps DEF Ack, Acknowledge
  <2>4. Idle \notin DOMAIN rawTx
    BY <2>2, LenProperties DEF Idle
  <2> QED
    BY <1>5, <2>1, <2>3, <2>4 DEF Ack, Handled, HandlingOK, TypeOK
<1>6. CASE AckIsLost
  <2>1. Idle \notin DOMAIN rawTx
    BY LenProperties DEF Idle, TypeOK
  <2> QED
    BY <1>6, <2>1 DEF AckIsLost, Handled, HandlingOK, TypeOK
<1>7. CASE AckWaitPasses
  <2>1. PICK i \in DOMAIN rawTx : i \notin batch \cup {cur} /\ rawTx' = Expire(rawTx, i)
    BY <1>7 DEF AckWaitPasses
  <2>2. rawTx \in Seq(Entries(Messages)) /\ "again" \in States
    BY DEF TypeOK, States
  <2>3. /\ DOMAIN rawTx' = DOMAIN rawTx
        /\ \A j \in DOMAIN rawTx : /\ rawTx'[j].body = rawTx[j].body
                                   /\ rawTx'[j].at = IF j = i THEN "again" ELSE rawTx[j].at
    BY <2>1, <2>2, MarkKeeps DEF Expire
  <2>4. UNCHANGED <<pc, batch, cur, place>>
    BY <1>7 DEF AckWaitPasses
  <2>5. cur # Idle => cur \in DOMAIN rawTx /\ rawTx'[cur].body = rawTx[cur].body
    BY <2>3 DEF TypeOK
  <2>6. pc = "stage" => (Concerns(Sig, stage)' <=> Concerns(Sig, stage)) /\ Sig' = Sig
    BY <2>4, <2>5 DEF Sig, Concerns, HandlingOK
  <2> QED
    BY <2>1, <2>3, <2>4, <2>5, <2>6 DEF HandlingOK
<1>8. CASE Exit
  <2>1. Idle \notin DOMAIN rawTx
    BY LenProperties DEF Idle, TypeOK
  <2> QED
    BY <1>8, <2>1 DEF Exit, HandlingOK
<1>9. CASE Start
  BY <1>9 DEF Start, HandlingOK
<1>10. CASE \/ RecordRollback \/ RecordPromotion \/ VerdictIsLost
            \/ RecordDecodeError \/ DecodeErrorIsLost
  BY <1>10, HandlingMoves
     DEF RecordRollback, RecordPromotion, VerdictIsLost, RecordDecodeError,
         DecodeErrorIsLost, Verdict, Decoding, HandlingOK
<1>11. CASE LoadFails \/ InsertFails
  BY <1>11, HandlingMoves DEF LoadFails, InsertFails, Decoding, HandlingOK
<1>12. CASE LoadBlob
  <2>1. 1 \in 1 .. Len(Stages) /\ Concerns(Sig, 1)
    BY StagesAre DEF Concerns
  <2> QED
    BY <1>12, <2>1, HandlingMoves DEF LoadBlob, Decoding, HandlingOK
<1>13. CASE Insert
  BY <1>13, HandlingAdvances DEF Insert, Decoding
<1>14. CASE PublishFailure \/ PublishLive \/ PublishIsLost
  BY <1>14, HandlingGoesOn DEF PublishFailure, PublishLive, PublishIsLost, Decoding
<1> QED
  BY <1>1, <1>2, <1>3, <1>4, <1>5, <1>6, <1>7, <1>8, <1>9, <1>10, <1>11, <1>12, <1>13, <1>14
     DEF PipelineNext, Feed, DecoderStep, GrouperStep, OthersPause, Next, Loop,
         Disturbance, MergeTransactions, allVars, vars

LEMMA GroupingStep ==
  ASSUME TypeOK, HandlingOK, GroupingOK, SamplesAreLatest, [PipelineNext]_allVars
  PROVE  GroupingOK'
<1> USE DEF G!loopVars, G!issueVars, grouperVars
<1>0. failures \in Seq(Entries(FailureMessages)) /\ Idle \notin DOMAIN failures
  BY LenProperties DEF TypeOK, Idle
<1>1. CASE UNCHANGED <<failures, gpc, gbatch, gcur, samples>>
  BY <1>1 DEF GroupingOK
<1>2. CASE PublishFailure /\ UNCHANGED grouperVars
  <2>2. PICK b \in FailureMessages : failures' = Publish(failures, b)
    BY <1>2, FailurePublished
  <2>3. DOMAIN failures' = DOMAIN failures \cup {Len(failures) + 1}
        /\ Len(failures) + 1 \notin DOMAIN failures
    BY <1>0, <2>2, PublishGrows
  <2>4. \A i \in DOMAIN failures : failures'[i] = failures[i]
    BY <1>0, <2>2, PublishKeeps
  <2>5. Len(failures) + 1 # Idle
    BY <1>0, LenProperties DEF Idle
  <2> QED
    BY <1>2, <2>3, <2>4, <2>5 DEF GroupingOK, TypeOK
<1>3. CASE G!Fetch
  <2>1. /\ DOMAIN failures' = DOMAIN failures
        /\ \A i \in DOMAIN failures :
             failures'[i].at = IF i \in Waiting(failures) THEN "out" ELSE failures[i].at
    BY <1>0, <1>3, DeliverKeeps, GrouperStream DEF G!Fetch
  <2>2. gbatch' = Waiting(failures) /\ gcur = Idle /\ gcur' = gcur /\ gpc' = "next" /\ gpc = "fetch"
    BY <1>3, GrouperStream DEF G!Fetch, GroupingOK
  <2> QED
    BY <1>0, <2>1, <2>2 DEF GroupingOK, Waiting
<1>4. CASE G!NextFailure
  BY <1>0, <1>4 DEF G!NextFailure, G!Foremost, GroupingOK, TypeOK
<1>5. CASE G!UpsertIssue
  BY <1>5 DEF G!UpsertIssue, GroupingOK
<1>6. CASE G!TrimSamples
  <2>1. Len(samples') < SampleCap
    <3>1. CASE Len(samples) >= SampleCap
      <4>1. samples # <<>>
        BY <3>1, PipelineAssumption, EmptySeq DEF TypeOK
      <4>2. Len(samples') = Len(samples) - 1 /\ Len(samples) \in Nat
        BY <1>6, <3>1, <4>1, HeadTailProperties, LenProperties DEF G!TrimSamples, TypeOK
      <4> QED
        BY <4>2, PipelineAssumption DEF SamplesAreLatest
    <3>2. CASE ~(Len(samples) >= SampleCap)
      BY <1>6, <3>2, PipelineAssumption, LenProperties DEF G!TrimSamples, TypeOK
    <3> QED
      BY <3>1, <3>2
  <2> QED
    BY <1>6, <2>1 DEF G!TrimSamples, GroupingOK
<1>7. CASE G!InsertSample
  BY <1>7 DEF G!InsertSample, GroupingOK
<1>8. CASE G!StatementFails
  BY <1>8 DEF G!StatementFails, GroupingOK
<1>9. CASE G!Ack
  <2>1. gcur \in DOMAIN failures /\ "acked" \in States
    BY <1>9 DEF G!Ack, States, TypeOK, GroupingOK
  <2>2. /\ DOMAIN failures' = DOMAIN failures
        /\ \A j \in DOMAIN failures :
             failures'[j].at = IF j = gcur THEN "acked" ELSE failures[j].at
    BY <1>0, <1>9, <2>1, MarkKeeps DEF G!Ack, G!Acknowledge
  <2> QED
    BY <1>0, <1>9, <2>1, <2>2, GrouperStream DEF G!Ack, G!Handled, GroupingOK, TypeOK
<1>10. CASE G!AckIsLost
  BY <1>0, <1>10, GrouperStream DEF G!AckIsLost, G!Handled, GroupingOK, TypeOK
<1>11. CASE G!AckWaitPasses
  <2>1. PICK i \in DOMAIN failures : i \notin gbatch \cup {gcur} /\ failures' = G!Expire(failures, i)
    BY <1>11 DEF G!AckWaitPasses
  <2>2. "again" \in States
    BY DEF States
  <2>3. /\ DOMAIN failures' = DOMAIN failures
        /\ \A j \in DOMAIN failures :
             failures'[j].at = IF j = i THEN "again" ELSE failures[j].at
    BY <1>0, <2>1, <2>2, MarkKeeps DEF G!Expire
  <2> QED
    BY <1>11, <2>1, <2>3 DEF G!AckWaitPasses, GroupingOK
<1>12. CASE G!Exit
  BY <1>0, <1>12, GrouperStream DEF G!Exit, GroupingOK
<1>13. CASE G!Restart
  BY <1>13 DEF G!Restart, GroupingOK
<1> QED
  BY <1>1, <1>2, <1>3, <1>4, <1>5, <1>6, <1>7, <1>8, <1>9, <1>10, <1>11, <1>12, <1>13
     DEF PipelineNext, Feed, DecoderStep, GrouperStep, OthersWait, G!Next, G!Loop, Next,
         Loop, Disturbance, Start, MergeTransactions, NextMessage, RecordRollback,
         RecordPromotion, Verdict, LoadBlob, Insert, PublishLive, RecordDecodeError,
         Decoding, AckIsLost, Exit, VerdictIsLost, LoadFails, InsertFails, PublishIsLost,
         DecodeErrorIsLost, Fetch, Ack, Handled, AckWaitPasses, allVars, vars

-----------------------------------------------------------------------------
(* The samples of an issue. *)

\* Inserting a sample appends it to both lists, and trimming drops the oldest.
LEMMA LatestGrows ==
  ASSUME NEW S, NEW all \in Seq(S), NEW n \in 0 .. Len(all), NEW x \in S,
         NEW some \in Seq(S), some = SubSeq(all, Len(all) - n + 1, Len(all)), Len(some) = n
  PROVE  Append(some, x) = SubSeq(Append(all, x), Len(all) + 1 - (n + 1) + 1, Len(all) + 1)
<1> DEFINE more == Append(all, x)
           l == Len(all)
           sub == SubSeq(more, l + 1 - (n + 1) + 1, l + 1)
<1>1. l \in Nat /\ n \in Nat /\ n <= l
  BY LenProperties
<1>2. /\ more \in Seq(S) /\ Len(more) = l + 1
      /\ \A i \in 1 .. l : more[i] = all[i]
      /\ more[l + 1] = x
  BY AppendProperties
<1>3. /\ Append(some, x) \in Seq(S) /\ Len(Append(some, x)) = n + 1
      /\ \A i \in 1 .. n : Append(some, x)[i] = some[i]
      /\ Append(some, x)[n + 1] = x
  BY AppendProperties
<1>4. \A i \in l - n + 1 .. l + 1 : more[i] \in S
  BY <1>1, <1>2, ElementOfSeq
<1>5. l + 1 - (n + 1) + 1 = l - n + 1 /\ l - n + 1 \in Int /\ l + 1 \in Int /\ l \in Int
  BY <1>1
<1>6. sub = SubSeq(more, l - n + 1, l + 1)
  BY <1>5
<1>7. l - n + 1 <= l + 1 /\ l + 1 - (l - n + 1) + 1 = n + 1
  BY <1>1
<1>8. sub \in Seq(S) /\ Len(sub) = n + 1 /\ \A i \in 1 .. n + 1 : sub[i] = more[l - n + i]
  <2> DEFINE m == l - n + 1
             k == l + 1
  <2>1. m \in Int /\ k \in Int /\ m <= k /\ k - m + 1 = n + 1
    BY <1>5, <1>7
  <2>2. \A i \in m .. k : more[i] \in S
    BY <1>4
  <2>3. sub = SubSeq(more, m, k)
    BY <1>6
  <2> HIDE DEF m, k, sub, more
  <2>4. SubSeq(more, m, k) \in Seq(S) /\ Len(SubSeq(more, m, k)) = k - m + 1
    <3>1. SubSeq(more, m, k) \in Seq(S)
      BY <2>1, <2>2, SubSeqProperties
    <3>2. Len(SubSeq(more, m, k)) = IF m <= k THEN k - m + 1 ELSE 0
      BY <2>1, <2>2, SubSeqProperties
    <3> QED
      BY <2>1, <3>1, <3>2
  <2>5. \A i \in 1 .. k - m + 1 : SubSeq(more, m, k)[i] = more[m + i - 1]
    BY <2>1, <2>2, SubSeqProperties
  <2>6. \A i \in 1 .. n + 1 : sub[i] = more[m + i - 1]
    BY <2>1, <2>3, <2>5
  <2>7. \A i \in 1 .. n + 1 : m + i - 1 = l - n + i
    BY <1>1 DEF m
  <2> QED
    BY <2>1, <2>3, <2>4, <2>6, <2>7
<1>9. \A i \in l - n + 1 .. l : all[i] \in S
  BY <1>1, ElementOfSeq
<1>10. \A i \in 1 .. l - (l - n + 1) + 1 : some[i] = all[l - n + 1 + i - 1]
  BY <1>5, <1>9, SubSeqProperties
<1>11. \A i \in 1 .. n + 1 : Append(some, x)[i] = sub[i]
  <2> SUFFICES ASSUME NEW i \in 1 .. n + 1 PROVE Append(some, x)[i] = sub[i]
    OBVIOUS
  <2>1. CASE i = n + 1
    BY <1>1, <1>2, <1>3, <1>8, <2>1
  <2>2. CASE i # n + 1
    <3>1. i \in 1 .. n /\ i \in 1 .. l - (l - n + 1) + 1 /\ l - n + 1 + i - 1 = l - n + i
          /\ l - n + i \in 1 .. l
      BY <1>1, <2>2
    <3> QED
      BY <1>2, <1>3, <1>8, <1>10, <3>1
  <2> QED
    BY <2>1, <2>2
<1> HIDE DEF sub
<1>12. Append(some, x) = sub
  BY <1>3, <1>8, <1>11, SeqEqual
<1> QED
  BY <1>12 DEF sub

LEMMA LatestShrinks ==
  ASSUME NEW S, NEW all \in Seq(S), NEW n \in 1 .. Len(all),
         NEW some \in Seq(S), some = SubSeq(all, Len(all) - n + 1, Len(all)), Len(some) = n
  PROVE  Tail(some) = SubSeq(all, Len(all) - (n - 1) + 1, Len(all)) /\ Len(Tail(some)) = n - 1
<1>1. Len(all) \in Nat /\ n \in Nat /\ n >= 1 /\ n <= Len(all)
  BY LenProperties
<1>2. Len(all) - n + 1 \in 1 .. Len(all) /\ Len(all) \in Len(all) - n + 1 .. Len(all)
  BY <1>1
<1>3. Tail(some) = SubSeq(all, Len(all) - n + 1 + 1, Len(all))
  BY <1>2, HeadTailOfSubSeq
<1>4. Len(all) - n + 1 + 1 = Len(all) - (n - 1) + 1
  BY <1>1
<1>5. some # <<>>
  <2>1. Len(some) # 0 /\ Len(<<>>) = 0
    BY <1>1
  <2> QED
    BY <2>1
<1>6. Len(Tail(some)) = n - 1
  BY <1>5, HeadTailProperties
<1> QED
  BY <1>3, <1>4, <1>6

LEMMA SamplesStep ==
  ASSUME TypeOK, GroupingOK, SamplesAreLatest, [PipelineNext]_allVars
  PROVE  SamplesAreLatest'
<1> DEFINE S == DOMAIN failures
           n == Len(samples)
           all == Len(sampled)
<1>0. /\ samples \in Seq(S) /\ sampled \in Seq(S) /\ n \in Nat /\ all \in Nat
      /\ SampleCap \in Nat /\ SampleCap >= 1
  BY LenProperties, PipelineAssumption DEF TypeOK
<1>1. CASE UNCHANGED <<samples, sampled>>
  BY <1>1 DEF SamplesAreLatest
<1>2. ASSUME n >= SampleCap, samples' = Tail(samples), sampled' = sampled
      PROVE  SamplesAreLatest'
  <2>1. n \in 1 .. all /\ samples = SubSeq(sampled, all - n + 1, all) /\ n = SampleCap
    <3>1. n <= SampleCap /\ n <= all /\ samples = SubSeq(sampled, all - n + 1, all)
      BY DEF SamplesAreLatest
    <3> HIDE DEF n, all
    <3> QED
      BY <1>0, <1>2, <3>1
  <2>2. /\ Tail(samples) = SubSeq(sampled, all - (n - 1) + 1, all)
        /\ Len(Tail(samples)) = n - 1
    BY <1>0, <2>1, LatestShrinks
  <2>3. Len(samples') = n - 1 /\ Len(sampled') = all
    BY <1>2, <2>2
  <2>4. samples' = SubSeq(sampled', all - (n - 1) + 1, all)
    BY <1>2, <2>2
  <2> HIDE DEF n, all
  <2> QED
    BY <1>0, <2>1, <2>3, <2>4 DEF SamplesAreLatest
<1>3. ASSUME n < SampleCap, gcur \in S,
             samples' = Append(samples, gcur), sampled' = Append(sampled, gcur)
      PROVE  SamplesAreLatest'
  <2>1. /\ n \in 0 .. all /\ samples = SubSeq(sampled, all - n + 1, all)
        /\ all >= SampleCap => n >= SampleCap - 1
        /\ all < SampleCap => n = all
    BY <1>0 DEF SamplesAreLatest
  <2>2. Append(samples, gcur)
          = SubSeq(Append(sampled, gcur), all + 1 - (n + 1) + 1, all + 1)
    BY <1>0, <1>3, <2>1, LatestGrows
  <2>3. Len(samples') = n + 1 /\ Len(sampled') = all + 1
    BY <1>0, <1>3, AppendProperties
  <2>4. samples' = SubSeq(sampled', all + 1 - (n + 1) + 1, all + 1)
    BY <1>3, <2>2
  <2> HIDE DEF n, all
  <2> QED
    BY <1>0, <1>3, <2>1, <2>3, <2>4 DEF SamplesAreLatest
<1>4. CASE G!TrimSamples
  BY <1>1, <1>2, <1>4 DEF G!TrimSamples
<1>5. CASE G!InsertSample
  BY <1>3, <1>5 DEF G!InsertSample, GroupingOK, TypeOK
<1>6. CASE G!StatementFails
  BY <1>1, <1>2, <1>3, <1>6 DEF G!StatementFails, G!issueVars, GroupingOK, TypeOK
<1> QED
  BY <1>1, <1>4, <1>5, <1>6
     DEF PipelineNext, Feed, DecoderStep, GrouperStep, OthersWait, grouperVars, allVars,
         G!Next, G!Loop, G!Fetch, G!NextFailure, G!UpsertIssue, G!Ack, G!Handled,
         G!AckIsLost, G!AckWaitPasses, G!Exit, G!Restart, G!issueVars

-----------------------------------------------------------------------------
(* Acknowledgements. *)

\* The only step that settles a message of the raw stream acknowledges the one
\* in hand.
LEMMA SettledStep ==
  ASSUME TypeOK, HandlingOK, [PipelineNext]_allVars
  PROVE  \/ Settled(rawTx)' = Settled(rawTx)
         \/ /\ Ack
            /\ cur \in DOMAIN rawTx
            /\ cur \notin Settled(rawTx)
            /\ Settled(rawTx)' = Settled(rawTx) \cup {cur}
            /\ DOMAIN rawTx' = DOMAIN rawTx
<1> USE DEF loopVars, place
<1>0. rawTx \in Seq(Entries(Messages))
  BY DEF TypeOK
<1>1. CASE rawTx' = rawTx
  BY <1>1 DEF Settled
<1>2. ASSUME NEW s \in Sigs, Feed(s), rawTx' # rawTx PROVE Settled(rawTx)' = Settled(rawTx)
  <2>1. PICK m \in Messages : rawTx' = Publish(rawTx, m)
    BY <1>2 DEF Feed, Emit, Messages
  <2>2. DOMAIN rawTx' = DOMAIN rawTx \cup {Len(rawTx) + 1} /\ Len(rawTx) + 1 \notin DOMAIN rawTx
    BY <1>0, <2>1, PublishGrows
  <2>3. \A i \in DOMAIN rawTx : rawTx'[i] = rawTx[i]
    BY <1>0, <2>1, PublishKeeps
  <2>4. rawTx'[Len(rawTx) + 1].at = "new"
    BY <1>0, <2>1, PublishedLast
  <2> QED
    BY <2>2, <2>3, <2>4 DEF Settled
<1>3. CASE Fetch
  <2>1. /\ DOMAIN rawTx' = DOMAIN rawTx
        /\ \A i \in DOMAIN rawTx :
             rawTx'[i].at = IF i \in Waiting(rawTx) THEN "out" ELSE rawTx[i].at
    BY <1>0, <1>3, DeliverKeeps DEF Fetch
  <2> QED
    BY <2>1 DEF Settled, Waiting
<1>4. CASE Ack
  <2>1. cur \in DOMAIN rawTx /\ rawTx[cur].at = "out" /\ "acked" \in States
    BY <1>4, InHand DEF Ack, States
  <2>2. /\ DOMAIN rawTx' = DOMAIN rawTx
        /\ \A j \in DOMAIN rawTx : rawTx'[j].at = IF j = cur THEN "acked" ELSE rawTx[j].at
    BY <1>0, <1>4, <2>1, MarkKeeps DEF Ack, Acknowledge
  <2> QED
    BY <1>4, <2>1, <2>2 DEF Settled
<1>5. CASE AckWaitPasses
  <2>1. PICK i \in DOMAIN rawTx : rawTx[i].at = "out" /\ rawTx' = Expire(rawTx, i)
    BY <1>5 DEF AckWaitPasses
  <2>2. "again" \in States
    BY DEF States
  <2>3. /\ DOMAIN rawTx' = DOMAIN rawTx
        /\ \A j \in DOMAIN rawTx : rawTx'[j].at = IF j = i THEN "again" ELSE rawTx[j].at
    BY <1>0, <2>1, <2>2, MarkKeeps DEF Expire
  <2> QED
    BY <2>1, <2>3 DEF Settled
<1> QED
  BY <1>1, <1>2, <1>3, <1>4, <1>5
     DEF PipelineNext, DecoderStep, GrouperStep, OthersPause, Next, Loop, Disturbance,
         Start, MergeTransactions, NextMessage, RecordRollback, RecordPromotion, Verdict,
         LoadBlob, Insert, PublishFailure, PublishLive, RecordDecodeError, Decoding,
         AckIsLost, Exit, VerdictIsLost, LoadFails, InsertFails, PublishIsLost,
         DecodeErrorIsLost, allVars, vars

\* Tables, verdicts and the histories of what was lost only grow.
LEMMA StoresGrow ==
  ASSUME TypeOK, HandlingOK, [PipelineNext]_allVars
  PROVE  /\ \A s \in Sigs, t \in Tables : rows[s][t] <= rows'[s][t]
         /\ rollbacks \subseteq rollbacks' /\ promotions \subseteq promotions'
         /\ errors \subseteq errors' /\ lostError \subseteq lostError'
         /\ lostVerdict \subseteq lostVerdict'
         /\ disturb <= disturb'
<1> USE DEF rowVars, verdictVars, errorVars
<1>1. ASSUME InsertInto(Stages[stage]), pc = "stage", Stages[stage] \in Tables
      PROVE  \A s \in Sigs, t \in Tables : rows[s][t] <= rows'[s][t]
  <2> DEFINE sig == Sig
             u == Stages[stage]
  <2>1. sig \in Sigs /\ u \in Tables
    BY <1>1, InHand
  <2>2. rows' = [rows EXCEPT ![sig][u] = @ + 1]
    BY <1>1 DEF InsertInto
  <2> HIDE DEF sig, u
  <2>3. \A s \in Sigs : rows[s] \in [Tables -> Nat]
    BY DEF TypeOK
  <2>4. \A s \in Sigs, t \in Tables :
          rows'[s][t] = IF s = sig /\ t = u THEN rows[s][t] + 1 ELSE rows[s][t]
    BY <2>1, <2>2, <2>3 DEF TypeOK
  <2> QED
    BY <2>3, <2>4
<1>2. UNCHANGED rows => \A s \in Sigs, t \in Tables : rows[s][t] <= rows'[s][t]
  <2>1. \A s \in Sigs, t \in Tables : rows[s][t] \in Nat
    BY DEF TypeOK
  <2> QED
    BY <2>1
<1>3. UNCHANGED disturb \/ Disturb \/ G!Disturb => disturb <= disturb'
  BY Disturbed DEF TypeOK
<1>4. \A s \in Sigs, t \in Tables : rows[s][t] <= rows'[s][t]
  BY <1>1, <1>2
     DEF PipelineNext, Feed, DecoderStep, GrouperStep, OthersPause, Next, Loop, Disturbance,
         Start, MergeTransactions, NextMessage, RecordRollback, RecordPromotion, Verdict,
         LoadBlob, Insert, PublishFailure, PublishLive, RecordDecodeError, Decoding,
         AckIsLost, Exit, VerdictIsLost, LoadFails, InsertFails, PublishIsLost,
         DecodeErrorIsLost, Fetch, Ack, AckWaitPasses, Handled, allVars, vars
<1>5. /\ rollbacks \subseteq rollbacks' /\ promotions \subseteq promotions'
      /\ errors \subseteq errors' /\ lostError \subseteq lostError'
      /\ lostVerdict \subseteq lostVerdict'
  BY DEF PipelineNext, Feed, DecoderStep, GrouperStep, OthersPause, Next, Loop, Disturbance,
         Start, MergeTransactions, NextMessage, RecordRollback, RecordPromotion, Verdict,
         LoadBlob, Insert, PublishFailure, PublishLive, RecordDecodeError, Decoding,
         AckIsLost, Exit, VerdictIsLost, LoadFails, InsertFails, PublishIsLost,
         DecodeErrorIsLost, Fetch, Ack, AckWaitPasses, Handled, allVars, vars
<1>6. UNCHANGED disturb \/ Disturb \/ G!Disturb
  BY DEF PipelineNext, Feed, DecoderStep, GrouperStep, OthersPause, Next, Loop, Disturbance,
         Start, MergeTransactions, NextMessage, RecordRollback, RecordPromotion, Verdict,
         LoadBlob, Insert, PublishFailure, PublishLive, RecordDecodeError, Decoding,
         AckIsLost, Exit, VerdictIsLost, LoadFails, InsertFails, PublishIsLost,
         DecodeErrorIsLost, Fetch, Ack, AckWaitPasses, Handled, allVars, vars,
         G!Next, G!Loop, G!Fetch, G!NextFailure, G!UpsertIssue, G!TrimSamples,
         G!InsertSample, G!StatementFails, G!Ack, G!AckIsLost, G!AckWaitPasses, G!Exit,
         G!Restart
<1> QED
  BY <1>3, <1>4, <1>5, <1>6

\* Messages join the concluded ones when the loop reaches the acknowledgement.
LEMMA ConcludedStep ==
  ASSUME TypeOK, HandlingOK, [PipelineNext]_allVars, NEW i \in Concluded'
  PROVE  /\ i \in DOMAIN rawTx
         /\ rawTx'[i].body = rawTx[i].body
         /\ rawTx[i].body.sig \in Sigs
         /\ i \in Concluded \/ (i = cur /\ pc # "ack" /\ pc' = "ack" /\ cur' = cur)
<1>3. ASSUME i \in DOMAIN rawTx
      PROVE  rawTx'[i].body = rawTx[i].body /\ rawTx[i].body.sig \in Sigs
  <2>1. rawTx'[i].body = rawTx[i].body
    BY <1>3, RawStep
  <2>2. rawTx[i].body \in Messages
    BY <1>3, EntryOf DEF TypeOK
  <2> QED
    BY <2>1, <2>2 DEF Messages
<1>1. CASE i \in Settled(rawTx)'
  <2>1. \/ Settled(rawTx)' = Settled(rawTx)
        \/ /\ Ack /\ cur \in DOMAIN rawTx
           /\ Settled(rawTx)' = Settled(rawTx) \cup {cur}
    BY SettledStep
  <2>2. i \in Settled(rawTx) \/ (Ack /\ i = cur /\ cur \in DOMAIN rawTx)
    BY <1>1, <2>1
  <2>3. i \in DOMAIN rawTx /\ i \in Concluded
    BY <2>2 DEF Settled, Concluded, Ack
  <2> QED
    BY <1>3, <2>3
<1>2. CASE i = cur' /\ pc' = "ack"
  <2>1. UNCHANGED <<pc, cur>> \/ (pc # "ack" /\ cur' = cur)
    BY <1>2
       DEF PipelineNext, Feed, DecoderStep, GrouperStep, OthersPause, Next, Loop,
           Disturbance, Start, MergeTransactions, NextMessage, Route, RecordRollback,
           RecordPromotion, Verdict, LoadBlob, Insert, PublishFailure, PublishLive,
           RecordDecodeError, Decoding, AckIsLost, Exit, VerdictIsLost, LoadFails,
           InsertFails, PublishIsLost, DecodeErrorIsLost, Fetch, Ack, AckWaitPasses,
           Handled, allVars, vars, loopVars, place
  <2>2. pc \notin {"down", "fetch", "next"}
    BY <1>2, <2>1, HandlingStep DEF HandlingOK
  <2>3. i \in DOMAIN rawTx
    BY <1>2, <2>1, <2>2, InHand
  <2> QED
    BY <1>2, <1>3, <2>1, <2>3 DEF Concluded
<1> QED
  BY <1>1, <1>2 DEF Concluded

-----------------------------------------------------------------------------
(* Announcements and verdicts on the raw stream. *)

\* A new message adds to what is announced or retracted; nothing takes away.
LEMMA EmitStep ==
  ASSUME TypeOK, NEW s \in Sigs, NEW c \in {"processed", "confirmed"}, NEW b \in BOOLEAN,
         Emit(s, c, b)
  PROVE  /\ ~b /\ c = "processed" => Announced' = Announced \cup {s}
         /\ b \/ c = "confirmed" => Announced' = Announced
         /\ b => Retracted' = Retracted \cup {s}
         /\ ~b => Retracted' = Retracted
         /\ \A i \in DOMAIN rawTx' :
              \/ i \in DOMAIN rawTx /\ rawTx'[i] = rawTx[i]
              \/ /\ rawTx'[i].body.sig = s
                 /\ rawTx'[i].body.commitment = c
                 /\ rawTx'[i].body.rollback = b
<1> DEFINE m == [sig |-> s, commitment |-> c, rollback |-> b]
           n == Len(rawTx) + 1
<1>1. m \in Messages
  BY DEF Messages
<1>2. rawTx \in Seq(Entries(Messages)) /\ rawTx' = Publish(rawTx, m)
  BY DEF Emit, TypeOK
<1>3. m.sig = s /\ m.rollback = b /\ m.commitment = c /\ (Announcement(m) <=> ~b /\ c = "processed")
  BY DEF Announcement
<1> HIDE DEF m, n
<1>4. DOMAIN rawTx' = DOMAIN rawTx \cup {n} /\ n \notin DOMAIN rawTx
  BY <1>1, <1>2, PublishGrows DEF n
<1>5. \A i \in DOMAIN rawTx : rawTx'[i] = rawTx[i]
  BY <1>1, <1>2, PublishKeeps
<1>6. rawTx'[n].body = m
  BY <1>1, <1>2, PublishedLast DEF n
<1>7. Announced' = Announced \cup IF Announcement(m) THEN {s} ELSE {}
  BY <1>3, <1>4, <1>5, <1>6 DEF Announced, Announcement
<1>8. Retracted' = Retracted \cup IF b THEN {s} ELSE {}
  BY <1>3, <1>4, <1>5, <1>6 DEF Retracted
<1> QED
  BY <1>3, <1>4, <1>5, <1>6, <1>7, <1>8

\* The services publish nothing on the raw stream.
LEMMA BodiesKept ==
  ASSUME TypeOK, HandlingOK, [PipelineNext]_allVars, ~ \E s \in Sigs : Feed(s)
  PROVE  Announced' = Announced /\ Retracted' = Retracted
<1>1. /\ DOMAIN rawTx' = DOMAIN rawTx
      /\ \A i \in DOMAIN rawTx : rawTx'[i].body = rawTx[i].body
  BY RawStep
<1> QED
  BY <1>1 DEF Announced, Retracted

LEMMA FeedStep ==
  ASSUME TypeOK, HandlingOK, FeedOK, [PipelineNext]_allVars PROVE FeedOK'
<1>1. CASE ~ \E s \in Sigs : Feed(s)
  <2>1. Announced' = Announced /\ UNCHANGED <<open, final>>
    BY <1>1, BodiesKept
       DEF PipelineNext, DecoderStep, GrouperStep, OthersWait, OthersPause, feedVars, allVars
  <2>2. /\ DOMAIN rawTx' = DOMAIN rawTx
        /\ \A i \in DOMAIN rawTx : rawTx'[i].body = rawTx[i].body
    BY <1>1, RawStep
  <2> QED
    BY <2>1, <2>2 DEF FeedOK, Promotion
<1>2. ASSUME NEW s \in Sigs, Feed(s) PROVE FeedOK'
  <2>1. CASE F!Settle(s) /\ UNCHANGED rawTx
    BY <2>1 DEF F!Settle, FeedOK, Announced, Promotion
  <2>2. CASE F!Announce(s) /\ Emit(s, "processed", FALSE)
    <3>1. /\ Announced' = Announced \cup {s}
          /\ \A i \in DOMAIN rawTx' :
               \/ i \in DOMAIN rawTx /\ rawTx'[i] = rawTx[i]
               \/ rawTx'[i].body.commitment = "processed"
      <4>1. ASSUME NEW b \in BOOLEAN, NEW c \in {"processed", "confirmed"}, Emit(s, c, b),
                   ~b, c = "processed"
            PROVE  /\ Announced' = Announced \cup {s}
                   /\ \A i \in DOMAIN rawTx' :
                        \/ i \in DOMAIN rawTx /\ rawTx'[i] = rawTx[i]
                        \/ rawTx'[i].body.commitment = "processed"
        BY <4>1, EmitStep
      <4> QED
        BY <2>2, <4>1
    <3>2. open' = [open EXCEPT ![s] = open[s] + 1] /\ final' = final
      BY <2>2 DEF F!Announce
    <3> QED
      BY <3>1, <3>2 DEF FeedOK, Promotion
  <2>3. CASE F!Confirm(s) /\ Emit(s, "confirmed", FALSE)
    <3>1. /\ Announced' = Announced
          /\ \A i \in DOMAIN rawTx' :
               \/ i \in DOMAIN rawTx /\ rawTx'[i] = rawTx[i]
               \/ rawTx'[i].body.sig = s
      BY <2>3, EmitStep
    <3>2. open' = [open EXCEPT ![s] = open[s] - 1] /\ final' = final /\ open[s] > 0 /\ s \in final
      BY <2>3 DEF F!Confirm
    <3> QED
      BY <3>1, <3>2 DEF FeedOK, Promotion
  <2>4. CASE F!Retract(s) /\ Emit(s, "processed", TRUE)
    <3>1. /\ Announced' = Announced
          /\ \A i \in DOMAIN rawTx' :
               \/ i \in DOMAIN rawTx /\ rawTx'[i] = rawTx[i]
               \/ rawTx'[i].body.rollback
      BY <2>4, EmitStep
    <3>2. open' = [open EXCEPT ![s] = open[s] - 1] /\ final' = final /\ open[s] > 0
      BY <2>4 DEF F!Retract
    <3> QED
      BY <3>1, <3>2 DEF FeedOK, Promotion
  <2> QED
    BY <1>2, <2>1, <2>2, <2>3, <2>4 DEF Feed
<1> QED
  BY <1>1, <1>2

-----------------------------------------------------------------------------
(* What is acknowledged. *)

LEMMA EffectsAreNat ==
  ASSUME TypeOK, NEW s \in Sigs, NEW k \in 1 .. Len(Stages), NEW n \in 1 .. MaxInstrs
  PROVE  Effects(s, k, n) \in Nat
<1>1. live[s][n] \in Nat
  BY DEF TypeOK
<1>2. Published(s, n) \in Nat
  BY FiniteDomain DEF TypeOK, Published
<1>3. Stages[k] \in Tables => rows[s][Stages[k]] \in Nat
  BY DEF TypeOK
<1> QED
  BY <1>1, <1>2, <1>3, StageKinds DEF Effects

\* When a decoding comes to its end every table has been written.
LEMMA LastStageCompletes ==
  ASSUME TypeOK, TypeOK', HandlingOK, StagesInOrder, [PipelineNext]_allVars,
         pc = "stage", Advance, pc' = "ack", Stages[stage] \in Tables => Insert,
         NEW sig, sig = Sig
  PROVE  Complete(sig)'
<1>1. sig \in Sigs /\ Announcement(rawTx[cur].body) /\ cur # Idle
  BY InHand DEF HandlingOK
<1>2. /\ stage \in 1 .. Len(Stages) /\ Concerns(sig, stage) /\ row \in 1 .. MaxInstrs
      /\ \A k \in stage + 1 .. Len(Stages) : ~Concerns(sig, k)
  BY AdvanceGoesOn DEF HandlingOK, TypeOK
<1>3. ASSUME NEW k \in 1 .. Len(Stages), Stages[k] \in Tables, Concerns(sig, k)
      PROVE  rows'[sig][Stages[k]] > 0
  <2>1. k <= stage
    BY <1>2, <1>3, StagesAre
  <2>2. rows[sig][Stages[k]] <= rows'[sig][Stages[k]]
    BY <1>1, <1>3, StoresGrow
  <2>3. rows[sig][Stages[k]] \in Nat /\ rows'[sig][Stages[k]] \in Nat
    BY <1>1, <1>3 DEF TypeOK
  <2>4. CASE k < stage
    <3>1. Past(sig, k) /\ ~Reached(sig, stage, row)
      BY <1>1, <1>2, <2>4, StagesAre DEF Past, Reached, TypeOK
    <3>2. Effects(sig, stage, row) + 1 <= rows[sig][Stages[k]]
      BY <1>1, <1>2, <1>3, <2>4, <3>1 DEF StagesInOrder, One
    <3>3. Effects(sig, stage, row) \in Nat
      BY <1>1, <1>2, EffectsAreNat
    <3> QED
      BY <2>2, <2>3, <3>2, <3>3
  <2>5. CASE k = stage
    <3>1. rows' = [rows EXCEPT ![sig][Stages[k]] = @ + 1]
      BY <1>3, <2>5 DEF Insert, InsertInto
    <3>2. rows'[sig][Stages[k]] = rows[sig][Stages[k]] + 1
      BY <1>1, <1>3, <3>1, <2>3 DEF TypeOK
    <3> QED
      BY <2>3, <3>2
  <2> QED
    BY <1>2, <2>1, <2>4, <2>5, StagesAre
<1> QED
  BY <1>3 DEF Complete, Written, Concerns

LEMMA CompleteStays ==
  ASSUME TypeOK, TypeOK', HandlingOK, [PipelineNext]_allVars, NEW s \in Sigs, Complete(s)
  PROVE  Complete(s)'
<1> SUFFICES ASSUME NEW k \in 1 .. Len(Stages), Stages[k] \in Tables, Concerns(s, k)
             PROVE  rows'[s][Stages[k]] > 0
  BY DEF Complete, Written, Concerns
<1>1. rows[s][Stages[k]] > 0 /\ rows[s][Stages[k]] \in Nat
  BY DEF Complete, Written, TypeOK
<1>2. rows[s][Stages[k]] <= rows'[s][Stages[k]] /\ rows'[s][Stages[k]] \in Nat
  BY StoresGrow DEF TypeOK
<1> QED
  BY <1>1, <1>2

LEMMA AckedStep ==
  ASSUME TypeOK, TypeOK', HandlingOK, StagesInOrder, AckedIsAccountedFor, [PipelineNext]_allVars
  PROVE  AckedIsAccountedFor'
<1> SUFFICES ASSUME NEW i \in Concluded', Announcement(rawTx'[i].body),
                    NEW s, s = rawTx'[i].body.sig
             PROVE  Complete(s)' \/ s \in errors' \cup lostError'
  BY DEF AckedIsAccountedFor
<1>1. /\ i \in DOMAIN rawTx /\ rawTx'[i].body = rawTx[i].body /\ rawTx[i].body.sig \in Sigs
      /\ i \in Concluded \/ (i = cur /\ pc # "ack" /\ pc' = "ack" /\ cur' = cur)
  BY ConcludedStep
<1>2. CASE i \in Concluded
  <2>1. Complete(s) \/ s \in errors \cup lostError
    BY <1>1, <1>2 DEF AckedIsAccountedFor
  <2> QED
    BY <1>1, <2>1, CompleteStays, StoresGrow
<1>3. CASE i = cur /\ pc # "ack" /\ pc' = "ack" /\ cur' = cur
  <2>0. {"failures", "live"} \cap Tables = {}
    BY DEF Tables
  <2>1. \/ pc = "stage" /\ Advance /\ (Stages[stage] \in Tables => Insert)
        \/ RecordDecodeError \/ DecodeErrorIsLost
        \/ pc \in {"rollback", "promotion"}
    BY <1>3, <2>0
       DEF NextInstruction, PipelineNext, Feed, DecoderStep, GrouperStep, OthersPause, Next, Loop,
           Disturbance, Start, MergeTransactions, NextMessage, Route, RecordRollback,
           RecordPromotion, LoadBlob, Insert, PublishFailure, PublishLive,
           AckIsLost, Exit, VerdictIsLost, LoadFails,
           InsertFails, PublishIsLost, Fetch, Ack, AckWaitPasses,
           Handled, allVars, vars, loopVars, place
  <2>2. CASE pc = "stage" /\ Advance /\ (Stages[stage] \in Tables => Insert)
    BY <1>1, <1>3, <2>2, LastStageCompletes DEF Sig
  <2>3. CASE RecordDecodeError \/ DecodeErrorIsLost
    BY <1>1, <1>3, <2>3 DEF RecordDecodeError, DecodeErrorIsLost, Sig
  <2>4. CASE pc \in {"rollback", "promotion"}
    BY <1>1, <1>3, <2>4 DEF HandlingOK, Announcement, Promotion
  <2> QED
    BY <2>1, <2>2, <2>3, <2>4
<1> QED
  BY <1>1, <1>2, <1>3

LEMMA VerdictsStep ==
  ASSUME TypeOK, HandlingOK, VerdictsTakeEffect, [PipelineNext]_allVars
  PROVE  VerdictsTakeEffect'
<1> SUFFICES ASSUME NEW i \in Concluded', i \notin lostVerdict'
             PROVE  /\ rawTx'[i].body.rollback => rawTx'[i].body.sig \in rollbacks'
                    /\ Promotion(rawTx'[i].body) => rawTx'[i].body.sig \in promotions'
  BY DEF VerdictsTakeEffect, Visible
<1>1. /\ i \in DOMAIN rawTx /\ rawTx'[i].body = rawTx[i].body /\ rawTx[i].body.sig \in Sigs
      /\ i \in Concluded \/ (i = cur /\ pc # "ack" /\ pc' = "ack" /\ cur' = cur)
  BY ConcludedStep
<1>2. CASE i \in Concluded
  BY <1>1, <1>2, StoresGrow DEF VerdictsTakeEffect
<1>3. CASE i = cur /\ pc # "ack" /\ pc' = "ack" /\ cur' = cur
  <2>1. \/ RecordRollback \/ RecordPromotion \/ VerdictIsLost
        \/ pc \in {"load", "stage", "error"}
    BY <1>3
       DEF PipelineNext, Feed, DecoderStep, GrouperStep, OthersPause, Next, Loop,
           Disturbance, Start, MergeTransactions, NextMessage, Route, LoadBlob, Insert,
           PublishFailure, PublishLive, RecordDecodeError, DecodeErrorIsLost,
           AckIsLost, Exit, LoadFails,
           InsertFails, PublishIsLost, Fetch, Ack, AckWaitPasses,
           Handled, allVars, vars, loopVars, place
  <2>2. CASE RecordRollback \/ RecordPromotion \/ VerdictIsLost
    BY <1>1, <1>3, <2>2
       DEF RecordRollback, RecordPromotion, VerdictIsLost, HandlingOK, Promotion, Sig
  <2>3. CASE pc \in {"load", "stage", "error"}
    BY <1>1, <1>3, <2>3 DEF HandlingOK, Announcement, Promotion
  <2> QED
    BY <2>1, <2>2, <2>3
<1> QED
  BY <1>1, <1>2, <1>3

-----------------------------------------------------------------------------
(* Effects of the stages. *)

\* One insert adds to one table of one signature.
LEMMA InsertStep ==
  ASSUME TypeOK, HandlingOK, pc = "stage", Stages[stage] \in Tables,
         InsertInto(Stages[stage]), NEW s \in Sigs
  PROVE  /\ \A t \in Tables :
              rows'[s][t] = rows[s][t] + One(s = Sig /\ t = Stages[stage])
         /\ merged'[s] = merged[s] + One(s = Sig /\ stage = 1)
         /\ CountCalls(Stages[stage]) =>
              calls'[s] = calls[s] + IF s = Sig /\ stage = 2 THEN merged[s] ELSE 0
<1> DEFINE sig == Sig
           u == Stages[stage]
<1>1. sig \in Sigs /\ u \in Tables
  BY InHand
<1>2. (u = "transactions" <=> stage = 1) /\ (u = "instructions" <=> stage = 2)
  BY StageKinds DEF HandlingOK
<1>3. /\ rows' = [rows EXCEPT ![sig][u] = @ + 1]
      /\ merged' = IF u = "transactions" THEN [merged EXCEPT ![sig] = merged[sig] + 1] ELSE merged
      /\ CountCalls(u) =>
           calls' = IF u = "instructions" THEN [calls EXCEPT ![sig] = calls[sig] + merged[sig]]
                    ELSE calls
  BY DEF InsertInto, CountCalls
<1> HIDE DEF sig, u
<1>4. \A x \in Sigs : rows[x] \in [Tables -> Nat]
  BY DEF TypeOK
<1>5. \A t \in Tables :
        rows'[s][t] = IF s = sig /\ t = u THEN rows[s][t] + 1 ELSE rows[s][t]
  BY <1>1, <1>3, <1>4 DEF TypeOK
<1>6. \A t \in Tables : rows'[s][t] = rows[s][t] + One(s = sig /\ t = u)
  BY <1>4, <1>5 DEF One
<1>7. merged'[s] = merged[s] + One(s = sig /\ stage = 1)
  <2>1. merged' = IF stage = 1 THEN [merged EXCEPT ![sig] = merged[sig] + 1] ELSE merged
    BY <1>2, <1>3
  <2>2. merged \in [Sigs -> Nat]
    BY DEF TypeOK
  <2> QED
    BY <1>1, <2>1, <2>2 DEF One
<1>8. ASSUME CountCalls(u)
      PROVE  calls'[s] = calls[s] + IF s = sig /\ stage = 2 THEN merged[s] ELSE 0
  <2>1. calls \in [Sigs -> Nat] /\ calls[s] \in Nat /\ calls[s] + 0 = calls[s]
    BY DEF TypeOK
  <2>2. CASE stage = 2
    <3>1. calls' = [calls EXCEPT ![sig] = calls[sig] + merged[sig]]
      BY <1>2, <1>3, <1>8, <2>2
    <3> QED
      BY <1>1, <2>1, <2>2, <3>1
  <2>3. CASE stage # 2
    BY <1>2, <1>3, <1>8, <2>1, <2>3
  <2> QED
    BY <2>2, <2>3
<1> QED
  BY <1>6, <1>7, <1>8 DEF sig, u

\* A stage that has been left is behind the decoding.
LEMMA StageLeft ==
  ASSUME TypeOK, HandlingOK, pc = "stage", UNCHANGED <<rawTx, cur>>, Advance \/ pc' = "error",
         NEW s, s = Sig, NEW n, n = stage
  PROVE  Past(s, n)'
<1>1. stage \in 1 .. Len(Stages) /\ Announcement(rawTx[cur].body) /\ cur # Idle
  BY InHand DEF HandlingOK
<1>2. pc' \in {"ack", "error"} \/ (pc' = "stage" /\ stage' \in stage + 1 .. Len(Stages))
  BY <1>1, AdvanceGoesOn
<1>3. stage' \in stage + 1 .. Len(Stages) => n < stage'
  BY <1>1, StagesAre
<1> QED
  BY <1>1, <1>2, <1>3 DEF Past, Sig

\* Where rows are written.
LEMMA RowsStep ==
  ASSUME TypeOK, HandlingOK, [PipelineNext]_allVars, NEW s \in Sigs
  PROVE  /\ \/ UNCHANGED rows
            \/ /\ Insert \/ (InsertFails /\ InsertInto(Stages[stage]))
               /\ pc = "stage" /\ Stages[stage] \in Tables /\ UNCHANGED <<rawTx, cur>>
               /\ InsertInto(Stages[stage])
         /\ \A k \in 1 .. Len(Stages) : Stages[k] \in Tables =>
              \/ rows'[s][Stages[k]] = rows[s][Stages[k]]
              \/ /\ rows'[s][Stages[k]] = rows[s][Stages[k]] + 1
                 /\ pc = "stage" /\ s = Sig /\ k = stage
                 /\ Past(s, k)' /\ ~Past(s, k)
<1>1. \/ UNCHANGED rows
      \/ /\ Insert \/ (InsertFails /\ InsertInto(Stages[stage]))
         /\ pc = "stage" /\ Stages[stage] \in Tables /\ UNCHANGED <<rawTx, cur>>
         /\ InsertInto(Stages[stage])
         /\ Advance \/ pc' = "error"
  BY DEF PipelineNext, Feed, DecoderStep, GrouperStep, OthersPause, Next, Loop, Disturbance,
         Start, MergeTransactions, NextMessage, RecordRollback, RecordPromotion, Verdict,
         LoadBlob, Insert, PublishFailure, PublishLive, RecordDecodeError, Decoding,
         AckIsLost, Exit, VerdictIsLost, LoadFails, InsertFails, PublishIsLost,
         DecodeErrorIsLost, Fetch, Ack, AckWaitPasses, Handled, allVars, vars, rowVars
<1>2. ASSUME pc = "stage", Stages[stage] \in Tables, UNCHANGED <<rawTx, cur>>,
             InsertInto(Stages[stage]), Advance \/ pc' = "error",
             NEW k \in 1 .. Len(Stages), Stages[k] \in Tables
      PROVE  \/ rows'[s][Stages[k]] = rows[s][Stages[k]]
             \/ /\ rows'[s][Stages[k]] = rows[s][Stages[k]] + 1
                /\ s = Sig /\ k = stage /\ Past(s, k)' /\ ~Past(s, k)
  <2>1. rows'[s][Stages[k]] = rows[s][Stages[k]] + One(s = Sig /\ Stages[k] = Stages[stage])
    BY <1>2, InsertStep
  <2>2. rows[s][Stages[k]] \in Nat
    BY <1>2 DEF TypeOK
  <2>3. CASE s = Sig /\ Stages[k] = Stages[stage]
    <3>1. k = stage
      BY <1>2, <2>3, DistinctStages DEF HandlingOK
    <3>2. Past(s, k)'
      BY <1>2, <2>3, <3>1, StageLeft
    <3>3. ~Past(s, k)
      BY <1>2, <3>1, StagesAre DEF Past
    <3> QED
      BY <2>1, <2>3, <3>1, <3>2, <3>3 DEF One
  <2> QED
    BY <2>1, <2>2, <2>3 DEF One
<1> QED
  BY <1>1, <1>2

\* How often the failure of an instruction has been published.
LEMMA PublishedStep ==
  ASSUME TypeOK, HandlingOK, GroupingOK, [PipelineNext]_allVars,
         NEW s \in Sigs, NEW n \in 1 .. MaxInstrs
  PROVE  /\ Published(s, n) \in Nat
         /\ \/ Published(s, n)' = Published(s, n)
            \/ /\ PublishFailure /\ s = Sig /\ n = row
               /\ Published(s, n)' = Published(s, n) + 1
<1> DEFINE S == {i \in DOMAIN failures : failures[i].body = [sig |-> s, instr |-> n]}
<1>1. IsFiniteSet(S) /\ Cardinality(S) \in Nat
  BY FiniteDomain DEF TypeOK
<1>2. CASE DOMAIN failures' = DOMAIN failures
  <2>1. S' = S
    BY <1>2, FailuresStep
  <2> QED
    BY <1>1, <2>1 DEF Published
<1>3. CASE PublishFailure
  <2>1. PICK b \in FailureMessages :
          failures' = Publish(failures, b) /\ b = [sig |-> Sig, instr |-> row]
    BY <1>3, FailurePublished
  <2>0. failures \in Seq(Entries(FailureMessages))
    BY DEF TypeOK
  <2> DEFINE m == Len(failures) + 1
  <2>2. DOMAIN failures' = DOMAIN failures \cup {m} /\ m \notin DOMAIN failures
    BY <2>0, <2>1, PublishGrows
  <2>3. failures'[m].body = b
    BY <2>0, <2>1, PublishedLast
  <2>4. \A i \in DOMAIN failures : failures'[i].body = failures[i].body
    BY FailuresStep
  <2> HIDE DEF m
  <2>5. S' = IF b = [sig |-> s, instr |-> n] THEN S \cup {m} ELSE S
    BY <2>2, <2>3, <2>4
  <2>6. m \notin S
    BY <2>2
  <2>7. Cardinality(S \cup {m}) = Cardinality(S) + 1
    BY <1>1, <2>6, FS_AddElement
  <2>8. b = [sig |-> s, instr |-> n] => s = Sig /\ n = row
    BY <2>1
  <2> QED
    BY <1>1, <1>3, <2>5, <2>7, <2>8 DEF Published
<1> QED
  BY <1>2, <1>3, FailuresStep

\* The instruction in hand is reached by publishing its message.
LEMMA InstructionReached ==
  ASSUME TypeOK, HandlingOK, pc = "stage", Stages[stage] \in {"failures", "live"},
         NextInstruction, UNCHANGED <<rawTx, cur>>, NEW s, s = Sig, NEW k, k = stage,
         NEW n \in 1 .. MaxInstrs, n <= Instrs[s]
  PROVE  /\ Reached(s, k, n) <=> n < row
         /\ Reached(s, k, n)' <=> n <= row
<1>1. stage \in 1 .. Len(Stages) /\ Announcement(rawTx[cur].body) /\ cur # Idle
  BY InHand DEF HandlingOK
<1>2. row \in 1 .. MaxInstrs /\ row <= Instrs[Sig] /\ Instrs[Sig] \in 0 .. MaxInstrs
  BY RowInHand
<1>3. ~Past(s, k)
  BY <1>1, StagesAre DEF Past
<1>4. Reached(s, k, n) <=> n < row
  BY <1>1, <1>3 DEF Reached
<1>5. CASE row < Instrs[Sig] /\ row' = row + 1 /\ UNCHANGED <<pc, stage>>
  <2>1. ~Past(s, k)'
    BY <1>1, <1>5, StagesAre DEF Past
  <2>2. Reached(s, k, n)' <=> n < row + 1
    BY <1>1, <1>5, <2>1 DEF Reached, Sig
  <2> QED
    BY <1>2, <1>4, <2>2
<1>6. CASE ~(row < Instrs[Sig]) /\ Advance
  <2>1. Past(s, k)'
    BY <1>6, StageLeft
  <2>2. Reached(s, k, n)' /\ n <= row
    BY <1>2, <1>6, <2>1 DEF Reached
  <2> QED
    BY <1>4, <2>2
<1> QED
  BY <1>5, <1>6, InstructionGoesOn

LEMMA EffectsStep ==
  ASSUME TypeOK, HandlingOK, GroupingOK, [PipelineNext]_allVars,
         NEW s \in Sigs, NEW k \in 1 .. Len(Stages), NEW n \in 1 .. MaxInstrs
  PROVE  /\ Effects(s, k, n) \in Nat
         /\ \/ Effects(s, k, n)' = Effects(s, k, n)
            \/ /\ Effects(s, k, n)' = Effects(s, k, n) + 1
               /\ pc = "stage" /\ s = Sig /\ k = stage
               /\ Reached(s, k, n)' /\ ~Reached(s, k, n)
<1>1. CASE Stages[k] = "failures"
  <2>1. Effects(s, k, n) = Published(s, n) /\ Effects(s, k, n)' = Published(s, n)'
    BY <1>1 DEF Effects
  <2>2. ASSUME PublishFailure, s = Sig, n = row
        PROVE  pc = "stage" /\ k = stage /\ Reached(s, k, n)' /\ ~Reached(s, k, n)
    <3>1. /\ pc = "stage" /\ Stages[stage] = "failures" /\ NextInstruction
          /\ UNCHANGED <<rawTx, cur>>
      BY <2>2 DEF PublishFailure, Decoding
    <3>2. k = stage
      BY <1>1, <3>1, DistinctStages DEF HandlingOK
    <3>3. n <= Instrs[s] /\ n \in Nat
      BY <2>2, <3>1, RowInHand
    <3> QED
      BY <2>2, <3>1, <3>2, <3>3, InstructionReached
  <2> QED
    BY <2>1, <2>2, PublishedStep
<1>2. CASE Stages[k] = "live"
  <2>1. Effects(s, k, n) = live[s][n] /\ Effects(s, k, n)' = live'[s][n] /\ live[s][n] \in Nat
    BY <1>2 DEF Effects, TypeOK
  <2>2. live' = live \/ PublishLive
    BY DEF PipelineNext, Feed, DecoderStep, GrouperStep, OthersPause, Next, Loop,
           Disturbance, Start, MergeTransactions, NextMessage, RecordRollback,
           RecordPromotion, Verdict, LoadBlob, Insert, PublishFailure,
           RecordDecodeError, AckIsLost, Exit, VerdictIsLost, LoadFails, InsertFails,
           PublishIsLost, DecodeErrorIsLost, Fetch, Ack, AckWaitPasses, Handled, allVars, vars
  <2>3. ASSUME PublishLive, s = Sig, n = row
        PROVE  pc = "stage" /\ k = stage /\ Reached(s, k, n)' /\ ~Reached(s, k, n)
    <3>1. /\ pc = "stage" /\ Stages[stage] = "live" /\ NextInstruction
          /\ UNCHANGED <<rawTx, cur>>
      BY <2>3 DEF PublishLive, Decoding
    <3>2. k = stage
      BY <1>2, <3>1, DistinctStages DEF HandlingOK
    <3>3. n <= Instrs[s] /\ n \in Nat
      BY <2>3, <3>1, RowInHand
    <3> QED
      BY <2>3, <3>1, <3>2, <3>3, InstructionReached
  <2>4. PublishLive => live'[s][n] = live[s][n] + One(s = Sig /\ n = row)
    <3> SUFFICES ASSUME PublishLive PROVE live'[s][n] = live[s][n] + One(s = Sig /\ n = row)
      OBVIOUS
    <3> DEFINE sig == Sig
               one == [live[sig] EXCEPT ![row] = live[sig][row] + 1]
    <3>1. live' = [live EXCEPT ![sig] = one]
      BY DEF PublishLive
    <3>2. live \in [Sigs -> [1 .. MaxInstrs -> Nat]]
      BY DEF TypeOK
    <3> HIDE DEF sig
    <3>5. ASSUME s = sig PROVE one[n] = live[s][n] + One(n = row)
      <4>1. live[s] \in [1 .. MaxInstrs -> Nat]
        BY <3>2
      <4>2. one[n] = IF n = row THEN live[s][n] + 1 ELSE live[s][n]
        BY <3>5, <4>1
      <4> QED
        BY <2>1, <4>2 DEF One
    <3>3. s = sig => one[n] = live[s][n] + One(n = row)
      BY <3>5
    <3> HIDE DEF one
    <3>4. live'[s] = IF s = sig THEN one ELSE live[s]
      BY <3>1, <3>2
    <3> QED
      BY <2>1, <3>3, <3>4 DEF sig, One
  <2> QED
    BY <2>1, <2>2, <2>3, <2>4 DEF One
<1>3. CASE Stages[k] \in Tables
  <2>1. Effects(s, k, n) = rows[s][Stages[k]] /\ Effects(s, k, n)' = rows'[s][Stages[k]]
        /\ rows[s][Stages[k]] \in Nat
    BY <1>3, StageKinds DEF Effects, TypeOK
  <2>2. Past(s, k)' => Reached(s, k, n)'
    BY DEF Reached
  <2>3. pc = "stage" /\ k = stage /\ ~Past(s, k) => ~Reached(s, k, n)
    BY <1>3, StageKinds DEF Reached, HandlingOK
  <2> QED
    BY <1>3, <2>1, <2>2, <2>3, RowsStep
<1> QED
  BY <1>1, <1>2, <1>3, StageKinds

\* How the decoder gets to a stage.
LEMMA ToStage ==
  ASSUME TypeOK, HandlingOK, [PipelineNext]_allVars, pc' = "stage"
  PROVE  \/ UNCHANGED <<pc, cur, place>>
         \/ stage' = 1
         \/ /\ pc = "stage" /\ UNCHANGED <<rawTx, cur>> /\ Advance
            /\ Stages[stage] \in Tables => Insert
         \/ pc = "stage" /\ UNCHANGED <<rawTx, cur, stage>> /\ row' = row + 1
<1>1. {"failures", "live"} \cap Tables = {}
  BY DEF Tables
<1> QED
  BY <1>1
     DEF PipelineNext, Feed, DecoderStep, GrouperStep, OthersPause, Next, Loop, Disturbance,
         Start, MergeTransactions, NextMessage, Route, RecordRollback, RecordPromotion, Verdict,
         LoadBlob, Insert, PublishFailure, PublishLive, RecordDecodeError, Decoding,
         AckIsLost, Exit, VerdictIsLost, LoadFails, InsertFails, PublishIsLost,
         DecodeErrorIsLost, Fetch, Ack, AckWaitPasses, Handled, allVars, vars, loopVars, place,
         NextInstruction

\* The order of the stages survives every step: an insert pays for the decoding
\* that now has its stage behind it, and for nothing else.
LEMMA OrderStep ==
  ASSUME TypeOK, HandlingOK, GroupingOK, StagesInOrder, [PipelineNext]_allVars
  PROVE  StagesInOrder'
<1> SUFFICES ASSUME NEW s \in Sigs, NEW j \in 1 .. Len(Stages), NEW k \in 1 .. Len(Stages),
                    NEW n \in 1 .. MaxInstrs,
                    j < k, Stages[j] \in Tables, Concerns(s, j), Concerns(s, k)
             PROVE  Effects(s, k, n)' + One(Past(s, j)' /\ ~Reached(s, k, n)')
                      <= rows'[s][Stages[j]]
  BY DEF StagesInOrder, Concerns, One
<1> DEFINE before == One(Past(s, j) /\ ~Reached(s, k, n))
           after == One(Past(s, j)' /\ ~Reached(s, k, n)')
<1>0. Effects(s, j, n) = rows[s][Stages[j]] /\ Effects(s, j, n)' = rows'[s][Stages[j]]
  BY StageKinds DEF Effects
<1>1. Effects(s, k, n) + before <= Effects(s, j, n)
  BY <1>0 DEF StagesInOrder
<1>2. before \in {0, 1} /\ after \in {0, 1}
  BY DEF One
<1>3. Effects(s, k, n) \in Nat /\ Effects(s, j, n) \in Nat
  BY EffectsAreNat
<1>4. CASE Effects(s, k, n)' # Effects(s, k, n)
  <2>1. /\ Effects(s, k, n)' = Effects(s, k, n) + 1
        /\ pc = "stage" /\ s = Sig /\ k = stage /\ Reached(s, k, n)' /\ ~Reached(s, k, n)
    BY <1>4, EffectsStep
  <2>2. Effects(s, j, n)' = Effects(s, j, n)
    <3>1. j # k
      BY StagesAre
    <3> QED
      BY <2>1, <3>1, EffectsStep
  <2>3. Past(s, j)
    BY <2>1, InHand DEF Past, HandlingOK
  <2>4. before = 1 /\ after = 0
    BY <2>1, <2>3 DEF One
  <2> HIDE DEF before, after
  <2>5. Effects(s, k, n)' + after <= Effects(s, j, n)'
    BY <1>1, <1>3, <2>1, <2>2, <2>4
  <2> QED
    BY <1>0, <2>5 DEF after
<1>5. CASE Effects(s, k, n)' = Effects(s, k, n) /\ Effects(s, j, n)' # Effects(s, j, n)
  <2>1. Effects(s, j, n)' = Effects(s, j, n) + 1
    BY <1>5, EffectsStep
  <2> HIDE DEF before, after
  <2>2. Effects(s, k, n) + after <= Effects(s, j, n) + 1
    BY <1>1, <1>2, <1>3
  <2> QED
    BY <1>0, <1>5, <2>1, <2>2 DEF after
<1>6. CASE Effects(s, k, n)' = Effects(s, k, n) /\ Effects(s, j, n)' = Effects(s, j, n)
  <2>1. ASSUME Past(s, j)', ~Reached(s, k, n)' PROVE Past(s, j) /\ ~Reached(s, k, n)
    <3>1. /\ pc' = "stage" /\ j < stage' /\ ~(k < stage') /\ ~(k = stage' /\ n < row')
          /\ cur' # Idle /\ Sig' = s /\ Announcement(rawTx'[cur'].body)
      BY <2>1 DEF Past, Reached
    <3>2. CASE UNCHANGED <<pc, cur, place>>
      <4>1. cur \in DOMAIN rawTx /\ rawTx'[cur].body = rawTx[cur].body
        BY <3>1, <3>2, InHand, RawStep
      <4>2. pc = "stage" /\ stage' = stage /\ row' = row
        BY <3>1, <3>2 DEF place
      <4> QED
        BY <3>1, <3>2, <4>1, <4>2 DEF Past, Reached, Sig
    <3>3. CASE stage' = 1
      BY <3>1, <3>3, StagesAre
    <3>4. CASE /\ pc = "stage" /\ UNCHANGED <<rawTx, cur>> /\ Advance
               /\ Stages[stage] \in Tables => Insert
      <4>1. s = Sig /\ cur # Idle /\ Announcement(rawTx[cur].body)
        BY <3>1, <3>4 DEF Sig
      <4>2. /\ stage \in 1 .. Len(Stages) /\ stage' \in stage + 1 .. Len(Stages)
            /\ \A x \in stage + 1 .. stage' - 1 : ~Concerns(s, x)
        BY <3>1, <3>4, <4>1, AdvanceGoesOn DEF HandlingOK
      <4>3. ~(stage < j)
        <5>1. Len(Stages) = 9 /\ j \in 1 .. 9 /\ j < stage'
          BY <3>1, StagesAre
        <5>2. stage \in Int /\ j \in Int /\ stage' \in Int
          BY <4>2, <5>1
        <5>3. stage < j => j \in stage + 1 .. stage' - 1
          BY <5>1, <5>2, Between
        <5> QED
          BY <4>2, <5>3
      <4>4. j # stage
        <5> SUFFICES ASSUME j = stage PROVE FALSE
          OBVIOUS
        <5>1. Insert /\ InsertInto(Stages[stage])
          BY <3>4 DEF Insert
        <5>2. rows'[s][Stages[j]] = rows[s][Stages[j]] + One(s = Sig /\ Stages[j] = Stages[stage])
          BY <3>4, <5>1, InsertStep
        <5>3. rows'[s][Stages[j]] = rows[s][Stages[j]] + 1 /\ rows[s][Stages[j]] \in Nat
          BY <4>1, <5>2 DEF One, TypeOK
        <5>4. rows'[s][Stages[j]] = rows[s][Stages[j]]
          BY <1>0, <1>6
        <5> QED
          BY <5>3, <5>4
      <4>5. j < stage /\ ~(k < stage) /\ k # stage
        BY <3>1, <4>2, <4>3, <4>4, StagesAre
      <4> QED
        BY <3>4, <4>1, <4>5 DEF Past, Reached
    <3>5. CASE pc = "stage" /\ UNCHANGED <<rawTx, cur, stage>> /\ row' = row + 1
      <4>1. s = Sig /\ cur # Idle /\ Announcement(rawTx[cur].body)
        BY <3>1, <3>5 DEF Sig
      <4>2. row \in Nat /\ n \in Nat
        BY DEF TypeOK
      <4>3. ~(k = stage /\ n < row)
        BY <3>1, <3>5, <4>2
      <4> QED
        BY <3>1, <3>5, <4>1, <4>3 DEF Past, Reached
    <3> QED
      BY <3>1, <3>2, <3>3, <3>4, <3>5, ToStage
  <2>2. after <= before
    BY <2>1 DEF One
  <2> HIDE DEF before, after
  <2>3. Effects(s, k, n) + after <= Effects(s, j, n)
    BY <1>1, <1>2, <1>3, <2>2
  <2> QED
    BY <1>0, <1>6, <2>3 DEF after
<1> QED
  BY <1>4, <1>5, <1>6

LEMMA RowVarsStep ==
  ASSUME [PipelineNext]_allVars
  PROVE  \/ UNCHANGED <<rows, merged, calls>>
         \/ /\ pc = "stage" /\ Stages[stage] \in Tables /\ InsertInto(Stages[stage])
            /\ CountCalls(Stages[stage]) \/ (calls' = calls /\ disturb' = disturb + 1)
         \/ /\ UNCHANGED <<rows, calls>>
            /\ \E s \in Sigs : \E n \in 1 .. merged[s] - 1 : merged' = [merged EXCEPT ![s] = n]
BY DEF PipelineNext, Feed, DecoderStep, GrouperStep, OthersPause, Next, Loop,
       Disturbance, Disturb, Start, MergeTransactions, NextMessage, RecordRollback,
       RecordPromotion, Verdict, LoadBlob, Insert, PublishFailure, PublishLive,
       RecordDecodeError, AckIsLost, Exit, VerdictIsLost, LoadFails, InsertFails,
       PublishIsLost, DecodeErrorIsLost, Fetch, Ack, AckWaitPasses, Handled, rowVars,
       allVars, vars

\* An insert as the joined tables see it.
LEMMA JoinedInsert ==
  ASSUME TypeOK, HandlingOK, pc = "stage", Stages[stage] \in Tables,
         InsertInto(Stages[stage]), NEW s \in Sigs
  PROVE  /\ rows'[s]["transactions"] = rows[s]["transactions"] + One(s = Sig /\ stage = 1)
         /\ rows'[s]["instructions"] = rows[s]["instructions"] + One(s = Sig /\ stage = 2)
         /\ merged'[s] = merged[s] + One(s = Sig /\ stage = 1)
         /\ CountCalls(Stages[stage]) =>
              calls'[s] = calls[s] + IF s = Sig /\ stage = 2 THEN merged[s] ELSE 0
<1>1. {"transactions", "instructions"} \subseteq Tables
  BY DEF Tables
<1>2. stage \in 1 .. Len(Stages)
  BY DEF HandlingOK
<1>3. ("transactions" = Stages[stage] <=> stage = 1) /\ ("instructions" = Stages[stage] <=> stage = 2)
  BY <1>2, StageKinds
<1> QED
  BY <1>1, <1>3, InsertStep DEF One

LEMMA MergedStep ==
  ASSUME TypeOK, HandlingOK, MergedOK, [PipelineNext]_allVars
  PROVE  MergedOK'
<1> SUFFICES ASSUME NEW s \in Sigs
             PROVE  /\ merged'[s] <= rows'[s]["transactions"]
                    /\ rows'[s]["transactions"] > 0 => merged'[s] > 0
  BY DEF MergedOK
<1>1. rows[s]["transactions"] \in Nat /\ merged[s] \in Nat
  BY DEF TypeOK, Tables
<1>2. CASE UNCHANGED <<rows, merged, calls>>
  BY <1>2 DEF MergedOK
<1>3. CASE pc = "stage" /\ Stages[stage] \in Tables /\ InsertInto(Stages[stage])
  BY <1>1, <1>3, JoinedInsert DEF MergedOK, One
<1>4. CASE /\ UNCHANGED <<rows, calls>>
           /\ \E z \in Sigs : \E n \in 1 .. merged[z] - 1 : merged' = [merged EXCEPT ![z] = n]
  <2> PICK z \in Sigs : \E n \in 1 .. merged[z] - 1 : merged' = [merged EXCEPT ![z] = n]
    BY <1>4
  <2> PICK n \in 1 .. merged[z] - 1 : merged' = [merged EXCEPT ![z] = n]
    OBVIOUS
  <2>1. merged'[s] = IF s = z THEN n ELSE merged[s]
    BY DEF TypeOK
  <2> QED
    BY <1>1, <1>4, <2>1 DEF MergedOK
<1> QED
  BY <1>2, <1>3, <1>4, RowVarsStep

\* Where the loop of the decoder goes when nothing disturbs it.
LEMMA LoopMoves ==
  ASSUME TypeOK, HandlingOK, [PipelineNext]_allVars
  PROVE  \/ disturb' = disturb + 1
         \/ disturb' = disturb /\ UNCHANGED <<pc, cur, place>>
         \/ disturb' = disturb /\ Ack
         \/ disturb' = disturb /\ cur' = Idle /\ cur = Idle
         \/ disturb' = disturb /\ pc = "next" /\ pc' \in {"rollback", "promotion", "load"}
         \/ /\ disturb' = disturb /\ pc \in {"rollback", "promotion"} /\ pc' = "ack"
            /\ UNCHANGED <<rawTx, cur>>
         \/ /\ disturb' = disturb /\ pc = "load" /\ pc' = "stage" /\ stage' = 1
            /\ UNCHANGED <<rawTx, cur>>
         \/ disturb' = disturb /\ pc = "error" /\ pc' = "ack" /\ UNCHANGED <<rawTx, cur>>
         \/ /\ disturb' = disturb /\ pc = "stage" /\ UNCHANGED <<rawTx, cur>>
            /\ Advance \/ (Stages[stage] \notin Tables /\ NextInstruction)
            /\ Stages[stage] = "failures" => PublishFailure
<1>1. {"failures", "live"} \cap Tables = {} /\ "failures" # "live"
  BY DEF Tables
<1>2. pc \in {"down", "fetch"} => cur = Idle
  BY DEF HandlingOK
<1>3. CASE \E s \in Sigs : Feed(s)
  BY <1>3 DEF Feed, loopVars, place
<1>4. CASE GrouperStep
  BY <1>4 DEF GrouperStep, OthersPause, G!Next, G!Loop, G!Fetch, G!NextFailure,
              G!UpsertIssue, G!TrimSamples, G!InsertSample, G!Ack, G!Handled, G!Restart,
              G!AckWaitPasses, G!StatementFails, G!AckIsLost, G!Exit, G!Disturb, loopVars, place
<1>5. CASE UNCHANGED allVars
  BY <1>5 DEF allVars, vars, loopVars, place
<1>6. CASE DecoderStep
  <2>1. CASE Disturbance
    BY <2>1 DEF Disturbance, AckIsLost, Exit, VerdictIsLost, LoadFails, InsertFails,
                PublishIsLost, DecodeErrorIsLost, Disturb
  <2>2. CASE Fetch \/ Start
    BY <1>2, <2>2 DEF Fetch, Start
  <2>3. CASE NextMessage
    BY <2>3 DEF NextMessage, Route
  <2>4. CASE Ack
    BY <2>4 DEF Ack
  <2>5. CASE RecordRollback \/ RecordPromotion
    BY <2>5 DEF RecordRollback, RecordPromotion, Verdict
  <2>6. CASE LoadBlob \/ RecordDecodeError
    BY <2>6 DEF LoadBlob, RecordDecodeError, Decoding
  <2>7. CASE Insert \/ PublishLive
    BY <1>1, <2>7 DEF Insert, PublishLive, Decoding
  <2>8. CASE PublishFailure
    BY <1>1, <2>8 DEF PublishFailure, Decoding
  <2>9. CASE AckWaitPasses \/ MergeTransactions
    BY <2>9 DEF AckWaitPasses, MergeTransactions, loopVars, place
  <2> QED
    BY <1>6, <2>1, <2>2, <2>3, <2>4, <2>5, <2>6, <2>7, <2>8, <2>9 DEF DecoderStep, Next, Loop
<1> QED
  BY <1>3, <1>4, <1>5, <1>6 DEF PipelineNext

\* A decoding that has a stage behind it keeps it there until it ends: with the
\* acknowledgement, or by a disturbance.
LEMMA PastStays ==
  ASSUME TypeOK, HandlingOK, [PipelineNext]_allVars, NEW s \in Sigs,
         NEW k \in 1 .. Len(Stages), Past(s, k), ~Past(s, k)'
  PROVE  \/ disturb' = disturb + 1
         \/ disturb' = disturb /\ Ack /\ s = Sig /\ Announcement(rawTx[cur].body)
<1>1. /\ cur # Idle /\ Sig = s /\ Announcement(rawTx[cur].body)
      /\ pc \in {"error", "ack"} \/ (pc = "stage" /\ k < stage)
  BY DEF Past
<1>2. cur \in DOMAIN rawTx /\ rawTx'[cur].body = rawTx[cur].body
  BY <1>1, InHand, RawStep
<1>3. CASE UNCHANGED <<pc, cur, place>>
  BY <1>1, <1>2, <1>3 DEF Past, Sig, place
<1>4. CASE pc = "error" /\ pc' = "ack" /\ UNCHANGED <<rawTx, cur>>
  BY <1>1, <1>2, <1>4 DEF Past, Sig
<1>5. CASE /\ pc = "stage" /\ UNCHANGED <<rawTx, cur>>
           /\ Advance \/ (Stages[stage] \notin Tables /\ NextInstruction)
  <2>1. stage \in 1 .. Len(Stages) /\ Len(Stages) = 9 /\ k < stage
    BY <1>1, <1>5, StagesAre DEF HandlingOK
  <2>2. \/ pc' = "ack"
        \/ pc' = "stage" /\ stage' \in stage + 1 .. 9
        \/ pc' = "stage" /\ stage' = stage
    BY <1>5, <2>1, AdvanceGoesOn, InstructionGoesOn
  <2>3. pc' = "ack" \/ (pc' = "stage" /\ k < stage')
    BY <2>1, <2>2
  <2> QED
    BY <1>1, <1>2, <1>5, <2>3 DEF Past, Sig
<1> QED
  BY <1>1, <1>3, <1>4, <1>5, LoopMoves

\* The acknowledged announcements of a signature.
LEMMA DecodedStep ==
  ASSUME TypeOK, HandlingOK, [PipelineNext]_allVars, NEW s \in Sigs
  PROVE  /\ IsFiniteSet(Decoded(s)) /\ Cardinality(Decoded(s)) \in Nat
         /\ cur # Idle => cur \notin Decoded(s)
         /\ \/ Decoded(s)' = Decoded(s)
            \/ Ack /\ s = Sig /\ Decoded(s)' = Decoded(s) \cup {cur}
         /\ Ack /\ s = Sig /\ Announcement(rawTx[cur].body) =>
              Cardinality(Decoded(s)') = Cardinality(Decoded(s)) + 1
<1> DEFINE M(i) == rawTx[i].body.sig = s /\ Announcement(rawTx[i].body)
<1>1. IsFiniteSet(Decoded(s)) /\ Cardinality(Decoded(s)) \in Nat
  BY FiniteDomain DEF TypeOK, Decoded
<1>2. cur # Idle => cur \notin Decoded(s)
  BY InHand DEF Decoded, HandlingOK, TypeOK
<1>3. Decoded(s) = {i \in Settled(rawTx) : M(i)}
  BY DEF Decoded, Settled
<1>4. Decoded(s)' = {i \in Settled(rawTx)' : rawTx'[i].body.sig = s /\ Announcement(rawTx'[i].body)}
  BY DEF Decoded, Settled
<1>5. Settled(rawTx)' \subseteq DOMAIN rawTx
  BY SettledStep DEF Settled
<1>6. Decoded(s)' = {i \in Settled(rawTx)' : M(i)}
  BY <1>4, <1>5, RawStep
<1>7. CASE Settled(rawTx)' = Settled(rawTx) /\ ~Ack
  BY <1>1, <1>2, <1>3, <1>6, <1>7
<1>8. CASE Ack
  <2>1. pc = "ack" /\ cur \in DOMAIN rawTx /\ cur # Idle
    BY <1>8, InHand DEF Ack
  <2>2. Settled(rawTx)' = Settled(rawTx) \cup {cur}
    <3>1. rawTx \in Seq(Entries(Messages)) /\ "acked" \in States
      BY DEF TypeOK, States
    <3>2. /\ DOMAIN rawTx' = DOMAIN rawTx
          /\ \A j \in DOMAIN rawTx : rawTx'[j].at = IF j = cur THEN "acked" ELSE rawTx[j].at
      BY <1>8, <2>1, <3>1, MarkKeeps DEF Ack, Acknowledge
    <3> QED
      BY <2>1, <3>2 DEF Settled
  <2>3. Decoded(s)' = IF M(cur) THEN Decoded(s) \cup {cur} ELSE Decoded(s)
    BY <1>3, <1>6, <2>2
  <2>4. M(cur) => s = Sig
    BY DEF Sig
  <2>5. s = Sig /\ Announcement(rawTx[cur].body) => M(cur)
    BY DEF Sig
  <2>6. Cardinality(Decoded(s) \cup {cur}) = Cardinality(Decoded(s)) + 1
    BY <1>1, <1>2, <2>1, FS_AddElement
  <2> QED
    BY <1>1, <1>2, <1>8, <2>3, <2>4, <2>5, <2>6
<1> QED
  BY <1>7, <1>8, SettledStep

LEMMA DisturbIs ==
  ASSUME TypeOK, HandlingOK, [PipelineNext]_allVars
  PROVE  disturb \in Nat /\ disturb' \in {disturb, disturb + 1}
<1>1. disturb \in Nat
  BY DEF TypeOK
<1>2. disturb' = disturb \/ disturb' = disturb + 1
  BY LoopMoves
<1> QED
  BY <1>1, <1>2

\* A stage that inserts has no instruction in hand.
LEMMA RowsHaveNoInstruction ==
  ASSUME HandlingOK, pc = "stage", Stages[stage] \in Tables PROVE row = 1
BY DEF HandlingOK

LEMMA CallsStep ==
  ASSUME TypeOK, HandlingOK, StagesInOrder, MergedOK, CallsAreBounded, [PipelineNext]_allVars
  PROVE  CallsAreBounded'
<1> SUFFICES ASSUME NEW s \in Sigs
             PROVE  /\ calls'[s] + disturb' >= rows'[s]["instructions"]
                    /\ calls'[s] <= rows'[s]["instructions"] * rows'[s]["transactions"]
  BY DEF CallsAreBounded
<1> DEFINE rt == rows[s]["transactions"]
           ri == rows[s]["instructions"]
           m == merged[s]
           c == calls[s]
<1>1. rt \in Nat /\ ri \in Nat /\ m \in Nat /\ c \in Nat /\ m <= rt /\ (rt > 0 => m > 0)
  BY DEF TypeOK, Tables, MergedOK
<1>2. c + disturb >= ri /\ c <= ri * rt
  BY DEF CallsAreBounded
<1>5. disturb \in Nat /\ disturb' \in Nat /\ disturb <= disturb'
  BY DisturbIs
<1>3. CASE UNCHANGED <<rows, calls>>
  <2> HIDE DEF rt, ri, c
  <2>2. c + disturb >= ri /\ c \in Nat /\ ri \in Nat
    BY <1>1, <1>2
  <2>1. c + disturb' >= ri
    <3>1. PICK x \in Nat : x = disturb'
      BY <1>5
    <3>2. disturb <= x
      BY <1>5, <3>1
    <3>3. c + x >= ri
      BY <1>5, <2>2, <3>2
    <3> QED
      BY <3>1, <3>3
  <2> QED
    BY <1>2, <1>3, <2>1 DEF rt, ri, c
<1>6. CASE /\ pc = "stage" /\ Stages[stage] \in Tables /\ InsertInto(Stages[stage])
           /\ calls' = calls /\ disturb' = disturb + 1
  <2>1. /\ rows'[s]["transactions"] = rt + One(s = Sig /\ stage = 1)
        /\ rows'[s]["instructions"] = ri + One(s = Sig /\ stage = 2)
    BY <1>6, JoinedInsert
  <2>2. ri * (rt + 1) = ri * rt + ri /\ (ri + 1) * rt = ri * rt + rt
    BY <1>1
  <2> HIDE DEF rt, ri, c
  <2>3. c + (disturb + 1) >= ri + 1 /\ c + (disturb + 1) >= ri
    BY <1>1, <1>2, <1>5
  <2>4. c <= ri * (rt + 1) /\ c <= (ri + 1) * rt
    BY <1>1, <1>2, <2>2
  <2>5. rows'[s]["transactions"] \in {rt, rt + 1} /\ rows'[s]["instructions"] \in {ri, ri + 1}
        /\ (rows'[s]["transactions"] = rt \/ rows'[s]["instructions"] = ri)
    BY <1>1, <2>1 DEF One
  <2>6. calls'[s] = c
    BY <1>6 DEF c
  <2> QED
    BY <1>1, <1>2, <1>6, <2>3, <2>4, <2>5, <2>6
<1>4. CASE /\ pc = "stage" /\ Stages[stage] \in Tables /\ InsertInto(Stages[stage])
           /\ CountCalls(Stages[stage])
  <2>1. /\ rows'[s]["transactions"] = rt + One(s = Sig /\ stage = 1)
        /\ rows'[s]["instructions"] = ri + One(s = Sig /\ stage = 2)
        /\ calls'[s] = c + IF s = Sig /\ stage = 2 THEN m ELSE 0
    BY <1>4, JoinedInsert
  <2>2. CASE s = Sig /\ stage = 1
    <3>1. ri * (rt + 1) = ri * rt + ri
      BY <1>1
    <3>2. rows'[s]["transactions"] = rt + 1 /\ rows'[s]["instructions"] = ri /\ calls'[s] = c
      BY <1>1, <2>1, <2>2 DEF One
    <3> HIDE DEF rt, ri, c
    <3> QED
      BY <1>1, <1>2, <1>5, <3>1, <3>2
  <2>3. CASE s = Sig /\ stage = 2
    <3>1. Past(s, 1) /\ ~Past(s, 2)
      BY <1>4, <2>3, InHand DEF Past, HandlingOK
    <3>2. /\ Stages[1] = "transactions" /\ Stages[2] = "instructions" /\ Len(Stages) = 9
          /\ "transactions" \in Tables /\ Concerns(s, 1) /\ Concerns(s, 2)
      BY StagesAre DEF Concerns, Tables
    <3>3. ~Reached(s, 2, 1)
      BY <1>4, <2>3, <3>1, RowsHaveNoInstruction DEF Reached
    <3>4. Effects(s, 2, 1) + One(Past(s, 1) /\ ~Reached(s, 2, 1)) <= rt
      BY <3>2, DecoderAssumption DEF StagesInOrder
    <3>8. Effects(s, 2, 1) = ri
      BY <3>2 DEF Effects
    <3>5. ri + 1 <= rt
      BY <3>1, <3>3, <3>4, <3>8 DEF One
    <3>6. (ri + 1) * rt = ri * rt + rt
      BY <1>1
    <3> HIDE DEF rt, ri, c, m
    <3>7. m >= 1
      BY <1>1, <3>5
    <3>9. rows'[s]["transactions"] = rt /\ rows'[s]["instructions"] = ri + 1 /\ calls'[s] = c + m
      BY <1>1, <2>1, <2>3 DEF One
    <3> QED
      BY <1>1, <1>2, <1>5, <3>6, <3>7, <3>9
  <2>4. CASE ~(s = Sig /\ stage \in {1, 2})
    <3>1. rows'[s]["transactions"] = rt /\ rows'[s]["instructions"] = ri /\ calls'[s] = c
      BY <1>1, <2>1, <2>4 DEF One
    <3> HIDE DEF rt, ri, c
    <3> QED
      BY <1>1, <1>2, <1>5, <3>1
  <2> QED
    BY <2>2, <2>3, <2>4
<1> QED
  BY <1>3, <1>4, <1>6, RowVarsStep

\* A row that is written is covered by the decoding that wrote it, and stays
\* covered when that decoding is acknowledged or cut off.
LEMMA RowsCountedStep ==
  ASSUME TypeOK, HandlingOK, RowsAreCounted, [PipelineNext]_allVars
  PROVE  RowsAreCounted'
<1> SUFFICES ASSUME NEW s \in Sigs, NEW k \in 1 .. Len(Stages), Stages[k] \in Tables
             PROVE  rows'[s][Stages[k]] <=
                      Cardinality(Decoded(s)') + One(Past(s, k)') + disturb'
  BY DEF RowsAreCounted, One
<1> DEFINE r == rows[s][Stages[k]]
           d == Cardinality(Decoded(s))
           dd == Cardinality(Decoded(s)')
           p == One(Past(s, k))
           pp == One(Past(s, k)')
<1>1. r <= d + p + disturb
  BY DEF RowsAreCounted
<1>2. r \in Nat /\ d \in Nat /\ disturb \in Nat /\ disturb' \in {disturb, disturb + 1}
  <2>1. r \in Nat
    BY DEF TypeOK
  <2>2. d \in Nat
    BY DecodedStep
  <2> QED
    BY <2>1, <2>2, DisturbIs
<1>3. dd = d \/ dd = d + 1
  <2>1. CASE Decoded(s)' = Decoded(s)
    BY <2>1
  <2>2. CASE Ack /\ s = Sig /\ Decoded(s)' = Decoded(s) \cup {cur}
    <3>1. cur \notin Decoded(s) /\ IsFiniteSet(Decoded(s))
      BY <2>2, DecodedStep, InHand DEF Ack
    <3> QED
      BY <2>2, <3>1, FS_AddElement
  <2> QED
    BY <2>1, <2>2, DecodedStep
<1>4. p \in {0, 1} /\ pp \in {0, 1} /\ (Past(s, k) <=> p = 1) /\ (Past(s, k)' <=> pp = 1)
  BY DEF One
<1>5. rows'[s][Stages[k]] = r \/ (rows'[s][Stages[k]] = r + 1 /\ pp = 1 /\ p = 0)
  BY <1>4, RowsStep
<1>6. p = 1 /\ pp = 0 => disturb' = disturb + 1 \/ dd = d + 1
  BY <1>4, PastStays, DecodedStep
<1> HIDE DEF r, d, dd, p, pp
<1>7. rows'[s][Stages[k]] <= dd + pp + disturb'
  BY <1>1, <1>2, <1>3, <1>4, <1>5, <1>6
<1> QED
  BY <1>7 DEF dd, pp

\* What is acknowledged, and the decoding under way, was announced.
LEMMA CountedIsBounded ==
  ASSUME TypeOK, HandlingOK, RowsAreCounted
  PROVE  RowsAreBounded
<1> SUFFICES ASSUME NEW s \in Sigs, NEW t \in Tables
             PROVE  rows[s][t] <= Announcements(s) + disturb
  BY DEF RowsAreBounded
<1> DEFINE A == {i \in DOMAIN rawTx : rawTx[i].body.sig = s /\ Announcement(rawTx[i].body)}
<1>1. PICK k \in 1 .. Len(Stages) : Stages[k] = t
  BY StagesAre DEF Tables
<1>2. rows[s][t] <= Cardinality(Decoded(s)) + One(Past(s, k)) + disturb
  BY <1>1 DEF RowsAreCounted
<1>3. rows[s][t] \in Nat /\ disturb \in Nat
  BY DEF TypeOK
<1>4. IsFiniteSet(A) /\ Cardinality(A) \in Nat
  BY FiniteDomain DEF TypeOK
<1>5. IsFiniteSet(Decoded(s)) /\ Cardinality(Decoded(s)) \in Nat
  BY FiniteDomain DEF TypeOK, Decoded
<1>6. Cardinality(Decoded(s)) + One(Past(s, k)) <= Cardinality(A)
  <2>1. CASE Past(s, k)
    <3>1. cur \in A /\ cur \notin Decoded(s)
      BY <2>1, InHand DEF Past, Sig, Decoded
    <3>2. Decoded(s) \cup {cur} \subseteq A
      BY <3>1 DEF Decoded
    <3>3. Cardinality(Decoded(s) \cup {cur}) = Cardinality(Decoded(s)) + 1
      BY <1>5, <3>1, FS_AddElement
    <3>4. Cardinality(Decoded(s) \cup {cur}) <= Cardinality(A)
      BY <1>4, <3>2, FS_Subset
    <3> QED
      BY <2>1, <3>3, <3>4 DEF One
  <2>2. CASE ~Past(s, k)
    <3>1. Decoded(s) \subseteq A
      BY DEF Decoded
    <3>2. Cardinality(Decoded(s)) <= Cardinality(A)
      BY <1>4, <3>1, FS_Subset
    <3> QED
      BY <1>4, <1>5, <2>2, <3>2 DEF One
  <2> QED
    BY <2>1, <2>2
<1>7. One(Past(s, k)) \in {0, 1}
  BY DEF One
<1>8. Cardinality(A) = Announcements(s)
  BY DEF Announcements
<1> QED
  BY <1>2, <1>3, <1>4, <1>5, <1>6, <1>7, <1>8

\* What the grouper has acknowledged.
LEMMA GrouperSettles ==
  ASSUME TypeOK, GroupingOK, GrouperStep
  PROVE  /\ Len(failures') = Len(failures)
         /\ \/ Settled(failures)' = Settled(failures) /\ ~G!Ack
            \/ /\ G!Ack
               /\ Cardinality(Settled(failures)') = Cardinality(Settled(failures)) + 1
<1>0. failures \in Seq(Entries(FailureMessages))
  BY DEF TypeOK
<1>1. CASE failures' = failures /\ ~G!Ack
  BY <1>1 DEF Settled
<1>2. CASE G!Fetch
  <2>1. failures' = Deliver(failures)
    BY <1>2, GrouperStream DEF G!Fetch
  <2>2. /\ Len(failures') = Len(failures) /\ DOMAIN failures' = DOMAIN failures
        /\ \A i \in DOMAIN failures :
             failures'[i].at = IF i \in Waiting(failures) THEN "out" ELSE failures[i].at
    BY <1>0, <2>1, DeliverKeeps
  <2> QED
    BY <1>2, <2>2 DEF Settled, Waiting, G!Fetch, G!Ack
<1>3. CASE G!Ack
  <2>1. gcur \in DOMAIN failures /\ failures[gcur].at = "out"
    <3>1. gcur # Idle
      BY <1>3 DEF GroupingOK, G!Ack
    <3> QED
      BY <3>1 DEF GroupingOK, TypeOK
  <2>2. failures' = Acknowledge(failures, gcur)
    BY <1>3, GrouperStream DEF G!Ack
  <2>3. "acked" \in States
    BY DEF States
  <2>4. /\ Len(failures') = Len(failures) /\ DOMAIN failures' = DOMAIN failures
        /\ \A j \in DOMAIN failures :
             failures'[j].at = IF j = gcur THEN "acked" ELSE failures[j].at
    BY <1>0, <2>1, <2>2, <2>3, MarkKeeps DEF Acknowledge
  <2>5. Settled(failures)' = Settled(failures) \cup {gcur} /\ gcur \notin Settled(failures)
    BY <2>1, <2>4 DEF Settled
  <2>6. IsFiniteSet(Settled(failures))
    BY <1>0, FiniteDomain DEF Settled
  <2>7. Cardinality(Settled(failures) \cup {gcur}) = Cardinality(Settled(failures)) + 1
    BY <2>5, <2>6, FS_AddElement
  <2> QED
    BY <1>3, <2>4, <2>5, <2>7
<1>4. CASE G!AckWaitPasses
  <2>1. PICK i \in DOMAIN failures : failures[i].at = "out" /\ failures' = Expire(failures, i)
    BY <1>4, GrouperStream DEF G!AckWaitPasses
  <2>2. "again" \in States
    BY DEF States
  <2>3. /\ Len(failures') = Len(failures) /\ DOMAIN failures' = DOMAIN failures
        /\ \A j \in DOMAIN failures :
             failures'[j].at = IF j = i THEN "again" ELSE failures[j].at
    BY <1>0, <2>1, <2>2, MarkKeeps DEF Expire
  <2>4. Settled(failures)' = Settled(failures)
    BY <2>1, <2>3 DEF Settled
  <2> QED
    BY <1>3, <2>3, <2>4
<1> QED
  BY <1>1, <1>2, <1>3, <1>4
     DEF GrouperStep, G!Next, G!Loop, G!NextFailure, G!UpsertIssue, G!TrimSamples,
         G!InsertSample, G!Restart, G!StatementFails, G!AckIsLost, G!Exit, G!Ack

LEMMA FailingIsFinite ==
  ASSUME TypeOK
  PROVE  IsFiniteSet(Failing) /\ IsFiniteSet(FailingDecoded)
         /\ Cardinality(Failing) \in Nat /\ Cardinality(FailingDecoded) \in Nat
<1>1. IsFiniteSet(DOMAIN rawTx)
  BY FiniteDomain DEF TypeOK
<1>2. IsFiniteSet(1 .. MaxInstrs)
  BY FS_Interval, DecoderAssumption
<1>3. IsFiniteSet((DOMAIN rawTx) \X (1 .. MaxInstrs))
  BY <1>1, <1>2, FS_Product
<1>4. Failing \subseteq (DOMAIN rawTx) \X (1 .. MaxInstrs) /\ FailingDecoded \subseteq Failing
  BY DEF Failing, FailingDecoded
<1>5. IsFiniteSet(Failing)
  BY <1>3, <1>4, FS_Subset
<1>6. IsFiniteSet(FailingDecoded)
  BY <1>4, <1>5, FS_Subset
<1> QED
  BY <1>5, <1>6, FS_CardinalityType

\* What the loop takes in hand it has not begun to decode.
LEMMA CurMoves ==
  ASSUME TypeOK, HandlingOK, [PipelineNext]_allVars
  PROVE  \/ cur' = cur
         \/ cur' = Idle
         \/ pc' \in {"rollback", "promotion", "load"}
BY DEF PipelineNext, Feed, DecoderStep, GrouperStep, OthersPause, Next, Loop, Disturbance,
       Start, MergeTransactions, NextMessage, Route, RecordRollback, RecordPromotion, Verdict,
       LoadBlob, Insert, PublishFailure, PublishLive, RecordDecodeError, Decoding,
       AckIsLost, Exit, VerdictIsLost, LoadFails, InsertFails, PublishIsLost,
       DecodeErrorIsLost, Fetch, Ack, AckWaitPasses, Handled, allVars, vars, loopVars

\* Message i has been decoded, or its decoding has published instruction n.
Done(i, n) ==
  rawTx[i].at = "acked" \/ (i = cur /\ Reached(rawTx[i].body.sig, 3, n))

\* Acknowledgement settles a message, and nothing unsettles it.
LEMMA AckedAt ==
  ASSUME TypeOK, HandlingOK, [PipelineNext]_allVars, NEW i \in DOMAIN rawTx
  PROVE  /\ rawTx'[i].at = "acked" <=> rawTx[i].at = "acked" \/ (Ack /\ i = cur)
         /\ i = cur => rawTx[i].at = "out"
<1>1. DOMAIN rawTx \subseteq DOMAIN rawTx'
  BY RawStep
<1>2. rawTx[i].at = "acked" <=> i \in Settled(rawTx)
  BY DEF Settled
<1>3. rawTx'[i].at = "acked" <=> i \in Settled(rawTx)'
  BY <1>1 DEF Settled
<1>4. i = cur => rawTx[i].at = "out"
  BY DEF HandlingOK
<1>5. ASSUME Ack, i = cur PROVE rawTx'[i].at = "acked"
  <2>1. rawTx \in Seq(Entries(Messages)) /\ "acked" \in States
    BY DEF TypeOK, States
  <2>2. \A j \in DOMAIN rawTx : rawTx'[j].at = IF j = cur THEN "acked" ELSE rawTx[j].at
    BY <1>5, <2>1, MarkKeeps DEF Ack, Acknowledge
  <2> QED
    BY <1>5, <2>2
<1> QED
  BY <1>2, <1>3, <1>4, <1>5, SettledStep

\* The decoding of a failed transaction goes through all its failures unless it
\* is disturbed.
LEMMA DoneStays ==
  ASSUME TypeOK, HandlingOK, [PipelineNext]_allVars, cur \in DOMAIN rawTx,
         Announcement(rawTx[cur].body), Sig \in Failed,
         NEW n \in 1 .. MaxInstrs, n <= Instrs[Sig],
         disturb' = disturb, ~PublishFailure, ~Ack
  PROVE  cur' = cur /\ (Reached(Sig, 3, n)' <=> Reached(Sig, 3, n)) /\ Sig' = Sig
<1> DEFINE s == Sig
<1>1. rawTx'[cur].body = rawTx[cur].body /\ cur # Idle
  <2>1. cur # Idle
    BY DEF Idle, TypeOK
  <2> QED
    BY <2>1, RawStep
<1>2. disturb' # disturb + 1
  BY DisturbIs
<1>3. Stages[3] = "failures" /\ Len(Stages) = 9
  BY StagesAre
<1>4. CASE UNCHANGED <<pc, cur, place>>
  <2>1. stage' = stage /\ row' = row
    BY <1>4 DEF place
  <2> QED
    BY <1>1, <1>4, <2>1 DEF Reached, Past, Sig
<1>5. CASE pc \in {"rollback", "promotion"}
  BY <1>5 DEF HandlingOK, Announcement, Promotion
<1>6. CASE pc = "load" /\ pc' = "stage" /\ stage' = 1 /\ UNCHANGED <<rawTx, cur>>
  BY <1>6 DEF Reached, Past, Sig
<1>7. CASE pc = "error" /\ pc' = "ack" /\ UNCHANGED <<rawTx, cur>>
  BY <1>1, <1>7 DEF Reached, Past, Sig
<1>8. CASE /\ pc = "stage" /\ UNCHANGED <<rawTx, cur>>
           /\ Advance \/ (Stages[stage] \notin Tables /\ NextInstruction)
           /\ Stages[stage] = "failures" => PublishFailure
  <2>1. stage \in 1 .. 9 /\ stage # 3
    BY <1>3, <1>8, StageKinds DEF HandlingOK
  <2>2. Sig' = s
    BY <1>8 DEF Sig
  <2>3. CASE stage > 3
    <3>1. Past(s, 3)
      BY <1>1, <1>8, <2>3 DEF Past
    <3>2. \/ pc' = "ack"
          \/ pc' = "stage" /\ stage' \in stage + 1 .. 9
          \/ pc' = "stage" /\ stage' = stage
      BY <1>3, <1>8, <2>1, AdvanceGoesOn, InstructionGoesOn
    <3>3. pc' = "ack" \/ (pc' = "stage" /\ 3 < stage')
      BY <2>1, <2>3, <3>2
    <3>4. Past(s, 3)'
      BY <1>1, <1>8, <2>2, <3>3 DEF Past
    <3> QED
      BY <1>8, <2>2, <3>1, <3>4 DEF Reached
  <2>4. CASE stage < 3
    <3>1. stage \in {1, 2}
      BY <2>1, <2>4
    <3>2. Advance
      BY <1>3, <1>8, <3>1, StageKinds
    <3>3. Concerns(s, 3)
      BY <1>3, DecoderAssumption DEF Concerns
    <3>4. \/ pc' = "ack" /\ \A j \in stage + 1 .. 9 : ~Concerns(s, j)
          \/ /\ pc' = "stage" /\ row' = 1 /\ stage' \in stage + 1 .. 9
             /\ \A j \in stage + 1 .. stage' - 1 : ~Concerns(s, j)
      BY <1>3, <2>1, <3>2, AdvanceGoesOn
    <3>5. 3 \in stage + 1 .. 9
      BY <3>1
    <3>6. pc' = "stage" /\ row' = 1 /\ stage' \in stage + 1 .. 9
      BY <3>3, <3>4, <3>5
    <3>7. ~(3 < stage')
      <4>1. stage \in Int /\ 3 \in Int /\ stage' \in Int
        BY <3>1, <3>6
      <4>2. 3 < stage' => 3 \in stage + 1 .. stage' - 1
        BY <2>4, <4>1, Between
      <4> QED
        BY <3>3, <3>4, <3>6, <4>2
    <3>8. ~Reached(s, 3, n)'
      BY <3>6, <3>7 DEF Reached, Past
    <3>9. ~Reached(s, 3, n)
      BY <1>8, <3>1 DEF Reached, Past
    <3> QED
      BY <1>8, <2>2, <3>8, <3>9
  <2> QED
    BY <2>1, <2>3, <2>4
<1>9. pc \notin {"down", "fetch", "next"}
  BY <1>1 DEF HandlingOK
<1> QED
  BY <1>1, <1>2, <1>4, <1>5, <1>6, <1>7, <1>8, <1>9, LoopMoves

\* Message by message: only the decoding in hand changes what is done, by
\* publishing, unless it is disturbed.
LEMMA DoneStep ==
  ASSUME TypeOK, HandlingOK, [PipelineNext]_allVars,
         NEW i \in DOMAIN rawTx, NEW n \in 1 .. MaxInstrs, <<i, n>> \in Failing
  PROVE  /\ i # cur => (Done(i, n)' <=> Done(i, n))
         /\ disturb' = disturb /\ ~PublishFailure => (Done(i, n)' <=> Done(i, n))
         /\ PublishFailure => (Done(i, n)' <=> Done(i, n) \/ <<i, n>> = <<cur, row>>)
<1> DEFINE s == rawTx[i].body.sig
<1>1. Announcement(rawTx[i].body) /\ s \in Failed /\ n <= Instrs[s]
  BY DEF Failing
<1>2. rawTx'[i].body = rawTx[i].body
  BY RawStep
<1>3. rawTx'[i].at = "acked" <=> rawTx[i].at = "acked" \/ (Ack /\ i = cur)
  BY AckedAt
<1>4. i # Idle
  BY DEF TypeOK, Idle
<1>5. ASSUME i # cur PROVE Done(i, n)' <=> Done(i, n)
  <2>1. i = cur' => ~Reached(s, 3, n)'
    BY <1>4, <1>5, CurMoves DEF Reached, Past
  <2> QED
    BY <1>2, <1>3, <1>5, <2>1 DEF Done
<1>6. ASSUME i = cur, Ack PROVE Done(i, n)' /\ Done(i, n)
  <2>1. Reached(s, 3, n)
    BY <1>1, <1>4, <1>6 DEF Ack, Reached, Past, Sig
  <2> QED
    BY <1>3, <1>6, <2>1 DEF Done
<1>7. ASSUME i = cur, ~Ack, disturb' = disturb, ~PublishFailure
      PROVE  Done(i, n)' <=> Done(i, n)
  <2>1. s = Sig
    BY <1>7 DEF Sig
  <2>2. cur' = cur /\ (Reached(Sig, 3, n)' <=> Reached(Sig, 3, n)) /\ Sig' = Sig
    BY <1>1, <1>7, <2>1, DoneStays
  <2>3. rawTx'[i].body.sig = Sig
    BY <1>2, <2>1
  <2>4. Done(i, n)' <=> rawTx'[i].at = "acked" \/ Reached(Sig, 3, n)'
    BY <1>7, <2>2, <2>3 DEF Done
  <2> QED
    BY <1>3, <1>7, <2>1, <2>2, <2>4 DEF Done
<1>8. ASSUME PublishFailure, i = cur
      PROVE  Done(i, n)' <=> Done(i, n) \/ n = row
  <2>1. s = Sig /\ Stages[stage] = "failures" /\ pc = "stage" /\ NextInstruction
        /\ UNCHANGED <<rawTx, cur>> /\ stage = 3
    BY <1>8, FailurePublished DEF Sig, PublishFailure, Decoding
  <2>2. (Reached(s, 3, n) <=> n < row) /\ (Reached(s, 3, n)' <=> n <= row)
    BY <1>1, <2>1, InstructionReached
  <2>3. rawTx[i].at # "acked"
    BY <1>8, AckedAt
  <2>4. s = rawTx'[i].body.sig
    BY <1>2
  <2>5. row \in Nat
    BY DEF TypeOK
  <2>6. Done(i, n) <=> n < row
    BY <1>8, <2>2, <2>3 DEF Done
  <2>7. Done(i, n)' <=> n <= row
    BY <1>8, <2>1, <2>2, <2>3, <2>4 DEF Done
  <2> QED
    BY <2>5, <2>6, <2>7
<1>9. PublishFailure => ~Ack /\ disturb' = disturb
  BY DEF PublishFailure, Ack
<1> QED
  BY <1>5, <1>6, <1>7, <1>8

\* A decoding that is done, or has published its failures, keeps that; another
\* comes about by publishing one, and a disturbance adds or takes those of one
\* decoding at most.
LEMMA DecodedFailures ==
  ASSUME TypeOK, TypeOK', HandlingOK, [PipelineNext]_allVars
  PROVE  LET d == Cardinality(FailingDecoded)
             e == Cardinality(FailingDecoded')
         IN  /\ d \in Nat /\ e \in Nat
             /\ PublishFailure => e = d + 1
             /\ ~PublishFailure /\ disturb' = disturb => e = d
             /\ e <= d + MaxInstrs /\ d <= e + MaxInstrs
<1>1. FailingDecoded = {p \in Failing : Done(p[1], p[2])}
  BY FailureStageIs DEF FailingDecoded, Done
<1>2. FailingDecoded' = {p \in Failing' : Done(p[1], p[2])'}
  BY FailureStageIs DEF FailingDecoded, Done, FailureStage, Reached, Past, Sig
<1>3. ASSUME NEW p \in Failing' PROVE /\ p \in Failing \/ ~Done(p[1], p[2])'
  <2>1. PICK i \in DOMAIN rawTx', n \in 1 .. MaxInstrs : p = <<i, n>>
    BY DEF Failing
  <2>2. CASE i \in DOMAIN rawTx
    BY <2>1, <2>2, RawStep DEF Failing
  <2>3. CASE i \notin DOMAIN rawTx
    <3>1. \E s \in Sigs : Feed(s)
      BY <2>3, RawStep
    <3>2. PICK m \in Messages : rawTx' = Publish(rawTx, m)
      BY <2>3, <3>1 DEF Feed, Emit, Messages
    <3>3. rawTx \in Seq(Entries(Messages))
      BY DEF TypeOK
    <3>7. DOMAIN rawTx' = DOMAIN rawTx \cup {Len(rawTx) + 1}
      BY <3>2, <3>3, PublishGrows
    <3>8. rawTx'[Len(rawTx) + 1].at = "new"
      BY <3>2, <3>3, PublishedLast
    <3>4. i = Len(rawTx) + 1 /\ rawTx'[i].at = "new"
      BY <2>1, <2>3, <3>7, <3>8
    <3>5. cur' = cur
      BY <3>1 DEF Feed, loopVars
    <3>6. i # cur
      BY <2>1, <2>3, <3>4, <3>3, LenProperties DEF TypeOK, Idle
    <3> QED
      BY <2>1, <3>4, <3>5, <3>6 DEF Done
  <2> QED
    BY <2>2, <2>3
<1>4. Failing \subseteq Failing'
  BY RawStep DEF Failing
<1>5. FailingDecoded' = {p \in Failing : Done(p[1], p[2])'}
  BY <1>2, <1>3, <1>4
<1>6. \A p \in Failing : p[1] \in DOMAIN rawTx /\ p[2] \in 1 .. MaxInstrs /\ p = <<p[1], p[2]>>
  BY DEF Failing
<1>7. IsFiniteSet(FailingDecoded) /\ IsFiniteSet(FailingDecoded')
  <2>1. FailingDecoded \subseteq Failing /\ FailingDecoded' \subseteq Failing
    BY <1>1, <1>5
  <2> QED
    BY <2>1, FailingIsFinite, FS_Subset
<1>8. Cardinality(FailingDecoded) \in Nat /\ Cardinality(FailingDecoded') \in Nat
  BY <1>7, FS_CardinalityType
<1>9. ASSUME PublishFailure
      PROVE  Cardinality(FailingDecoded') = Cardinality(FailingDecoded) + 1
  <2> DEFINE q == <<cur, row>>
  <2>1. cur \in DOMAIN rawTx /\ Sig \in Failed /\ row \in 1 .. MaxInstrs /\ row <= Instrs[Sig]
        /\ Announcement(rawTx[cur].body) /\ pc = "stage" /\ stage = 3
    BY <1>9, FailurePublished, InHand DEF PublishFailure, HandlingOK
  <2>2. q \in Failing
    BY <2>1 DEF Failing, Sig
  <2>3. ~Done(cur, row)
    <3>1. rawTx[cur].at # "acked"
      BY <2>1, AckedAt
    <3>2. ~Reached(Sig, 3, row)
      BY <2>1 DEF Reached, Past
    <3> QED
      BY <3>1, <3>2 DEF Done, Sig
  <2>4. \A p \in Failing : Done(p[1], p[2])' <=> Done(p[1], p[2]) \/ p = q
    BY <1>6, <1>9, DoneStep
  <2>5. FailingDecoded' = FailingDecoded \cup {q} /\ q \notin FailingDecoded
    BY <1>1, <1>5, <2>2, <2>3, <2>4
  <2> QED
    BY <1>7, <2>5, FS_AddElement
<1>10. ASSUME ~PublishFailure, disturb' = disturb PROVE FailingDecoded' = FailingDecoded
  <2>1. \A p \in Failing : Done(p[1], p[2])' <=> Done(p[1], p[2])
    BY <1>6, <1>10, DoneStep
  <2> QED
    BY <1>1, <1>5, <2>1
<1>11. /\ Cardinality(FailingDecoded') <= Cardinality(FailingDecoded) + MaxInstrs
       /\ Cardinality(FailingDecoded) <= Cardinality(FailingDecoded') + MaxInstrs
  <2> DEFINE C == {cur} \X (1 .. MaxInstrs)
  <2>1. IsFiniteSet(C) /\ Cardinality(C) = MaxInstrs
    <3>1. IsFiniteSet({cur}) /\ Cardinality({cur}) = 1
      BY FS_Singleton
    <3>2. IsFiniteSet(1 .. MaxInstrs) /\ Cardinality(1 .. MaxInstrs) = MaxInstrs
      <4>1. MaxInstrs \in Nat \ {0}
        BY DecoderAssumption
      <4>2. Cardinality(1 .. MaxInstrs) = IF 1 > MaxInstrs THEN 0 ELSE MaxInstrs - 1 + 1
        BY <4>1, FS_Interval
      <4> QED
        BY <4>1, <4>2, FS_Interval
    <3>3. IsFiniteSet(C) /\ Cardinality(C) = 1 * MaxInstrs
      BY <3>1, <3>2, FS_Product
    <3> QED
      BY <3>3, DecoderAssumption
  <2>2. \A p \in Failing : p \in C \/ (Done(p[1], p[2])' <=> Done(p[1], p[2]))
    <3>1. \A p \in Failing : p[1] = cur => p \in C
      BY <1>6
    <3>2. \A p \in Failing : p[1] # cur => (Done(p[1], p[2])' <=> Done(p[1], p[2]))
      BY <1>6, DoneStep
    <3> QED
      BY <3>1, <3>2
  <2> HIDE DEF C
  <2>3. /\ FailingDecoded' \subseteq FailingDecoded \cup C
        /\ FailingDecoded \subseteq FailingDecoded' \cup C
    BY <1>1, <1>5, <2>2
  <2>4. ASSUME NEW A, NEW B, IsFiniteSet(A), IsFiniteSet(B), A \subseteq B \cup C
        PROVE  Cardinality(A) <= Cardinality(B) + MaxInstrs
    <3>1. /\ IsFiniteSet(B \cup C) /\ IsFiniteSet(B \cap C)
          /\ Cardinality(B \cup C) = Cardinality(B) + Cardinality(C) - Cardinality(B \cap C)
      BY <2>1, <2>4, FS_Union, FS_Intersection
    <3>2. Cardinality(A) <= Cardinality(B \cup C)
      BY <2>4, <3>1, FS_Subset
    <3>3. Cardinality(B \cap C) \in Nat /\ Cardinality(B) \in Nat /\ MaxInstrs \in Nat
          /\ Cardinality(A) \in Nat
      BY <2>4, <3>1, FS_CardinalityType, DecoderAssumption
    <3> QED
      BY <2>1, <3>1, <3>2, <3>3
  <2> QED
    BY <1>7, <2>3, <2>4
<1> QED
  BY <1>8, <1>9, <1>10, <1>11

\* What the grouper has counted, and what it still holds or waits for.
LEMMA GrouperCounts ==
  ASSUME TypeOK, GroupingOK, GrouperStep
  PROVE  LET a == Cardinality(Settled(failures))
             b == Cardinality(Settled(failures)')
             c == total + (Len(failures) - a) - One(gpc \in {"trim", "sample", "ack"})
             d == total' + (Len(failures') - b) - One(gpc' \in {"trim", "sample", "ack"})
         IN  /\ c \in Int /\ d \in Int
             /\ disturb' = disturb => d = c
             /\ d <= c + 1 /\ c <= d + 1
<1>1. total \in Nat /\ Len(failures) \in Nat /\ disturb \in Nat
  BY DEF TypeOK
<1>2. Cardinality(Settled(failures)) \in Nat
  BY FiniteDomain DEF TypeOK, Settled
<1>3. CASE G!Ack
  <2>1. gpc = "ack" /\ gpc' \in {"fetch", "next"} /\ total' = total
    BY <1>3 DEF G!Ack, G!Handled, G!issueVars
  <2> QED
    BY <1>1, <1>2, <1>3, <2>1, GrouperSettles DEF One
<1>4. CASE ~G!Ack
  <2>1. Settled(failures)' = Settled(failures) /\ Len(failures') = Len(failures)
    BY <1>4, GrouperSettles
  <2>2. LET x == One(gpc \in {"trim", "sample", "ack"})
            y == One(gpc' \in {"trim", "sample", "ack"})
        IN  \/ total' = total /\ x = y
            \/ total' = total + 1 /\ y = x + 1
            \/ total' = total /\ disturb' = disturb + 1
            \/ total' = total + 1 /\ y = x + 1
    BY <1>4
       DEF GrouperStep, G!Next, G!Loop, G!Fetch, G!NextFailure, G!UpsertIssue, G!TrimSamples,
           G!InsertSample, G!Restart, G!AckWaitPasses, G!StatementFails, G!AckIsLost, G!Exit,
           G!Disturb, G!Handled, G!issueVars, G!loopVars, One
  <2>3. One(gpc \in {"trim", "sample", "ack"}) \in {0, 1}
        /\ One(gpc' \in {"trim", "sample", "ack"}) \in {0, 1}
    BY DEF One
  <2> QED
    BY <1>1, <1>2, <2>1, <2>2, <2>3
<1> QED
  BY <1>3, <1>4

\* Counting keeps up with decoding: both move together but for disturbances.
LEMMA CountsStep ==
  ASSUME TypeOK, TypeOK', HandlingOK, GroupingOK, CountsAgree, [PipelineNext]_allVars
  PROVE  CountsAgree'
<1> DEFINE d == Cardinality(FailingDecoded)
           e == Cardinality(FailingDecoded')
           c == total + (Len(failures) - Cardinality(Settled(failures)))
                  - One(gpc \in {"trim", "sample", "ack"})
           f == total' + (Len(failures') - Cardinality(Settled(failures)'))
                  - One(gpc' \in {"trim", "sample", "ack"})
           w == disturb * MaxInstrs
           x == disturb' * MaxInstrs
<1>1. MaxInstrs \in Nat /\ MaxInstrs >= 1
  BY DecoderAssumption
<1>2. d <= c + w /\ c <= d + w
  BY DEF CountsAgree, Slack
<1>7. ASSUME e <= f + x, f <= e + x PROVE CountsAgree'
  BY <1>7 DEF CountsAgree, Slack
<1>3. disturb \in Nat /\ disturb' \in {disturb, disturb + 1}
  BY DisturbIs
<1>4. /\ d \in Nat /\ e \in Nat
      /\ PublishFailure => e = d + 1
      /\ ~PublishFailure /\ disturb' = disturb => e = d
      /\ e <= d + MaxInstrs /\ d <= e + MaxInstrs
  BY DecodedFailures
<1>8. w \in Nat /\ x \in Nat /\ w <= x /\ (disturb' = disturb + 1 => x = w + MaxInstrs)
      /\ (disturb' = disturb => x = w)
  <2>1. (disturb + 1) * MaxInstrs = w + MaxInstrs /\ w \in Nat
    BY <1>1, <1>3
  <2>2. disturb' = disturb => x = w
    OBVIOUS
  <2>3. disturb' = disturb + 1 => x = w + MaxInstrs
    BY <2>1
  <2> HIDE DEF w, x
  <2> QED
    BY <1>1, <1>3, <2>1, <2>2, <2>3
<1>5. CASE GrouperStep
  <2>1. /\ c \in Int /\ f \in Int
        /\ disturb' = disturb => f = c
        /\ f <= c + 1 /\ c <= f + 1
    BY <1>5, GrouperCounts
  <2>2. UNCHANGED <<rawTx, pc, cur, place>>
    BY <1>5 DEF GrouperStep, OthersPause, loopVars, place
  <2>3. FailingDecoded' = FailingDecoded
    BY <2>2 DEF FailingDecoded, Failing, Reached, Past, Sig, place
  <2>4. e = d
    BY <2>3
  <2> HIDE DEF c, d, e, f, w, x
  <2>5. e <= f + x /\ f <= e + x
    <3>1. CASE disturb' = disturb
      BY <1>2, <1>8, <2>1, <2>4, <3>1
    <3>2. CASE disturb' = disturb + 1
      BY <1>1, <1>2, <1>4, <1>8, <2>1, <2>4, <3>2
    <3> QED
      BY <1>3, <3>1, <3>2
  <2> QED
    BY <1>7, <2>5
<1>6. CASE ~GrouperStep
  <2>1. UNCHANGED <<total, gpc>>
    BY <1>6 DEF PipelineNext, Feed, DecoderStep, OthersWait, grouperVars, allVars
  <2>2. c \in Int
    <3>1. total \in Nat /\ Len(failures) \in Nat
      BY DEF TypeOK
    <3>2. Cardinality(Settled(failures)) \in Nat
      BY FiniteDomain DEF TypeOK, Settled
    <3> QED
      BY <3>1, <3>2 DEF One
  <2>3. IF PublishFailure THEN f = c + 1 ELSE f = c
    <3>1. CASE PublishFailure
      <4>0. PICK m \in FailureMessages : failures' = Publish(failures, m)
        BY <3>1, FailurePublished
      <4>1. failures \in Seq(Entries(FailureMessages))
        BY DEF TypeOK
      <4> DEFINE n == Len(failures) + 1
      <4>2. DOMAIN failures' = DOMAIN failures \cup {n} /\ n \notin DOMAIN failures
            /\ Len(failures') = Len(failures) + 1
        BY <4>0, <4>1, PublishGrows
      <4>3. failures'[n].at = "new"
        BY <4>0, <4>1, PublishedLast
      <4>4. \A i \in DOMAIN failures : failures'[i] = failures[i]
        BY <4>0, <4>1, PublishKeeps
      <4> HIDE DEF n
      <4>5. Settled(failures)' = Settled(failures)
        BY <4>2, <4>3, <4>4 DEF Settled
      <4>6. Len(failures) \in Nat /\ total \in Nat /\ Cardinality(Settled(failures)) \in Nat
        BY FiniteDomain DEF TypeOK, Settled
      <4> QED
        BY <2>1, <3>1, <4>2, <4>5, <4>6 DEF One
    <3>2. CASE ~PublishFailure
      <4>1. failures' = failures
        BY <1>6, <3>2
           DEF PipelineNext, Feed, DecoderStep, Next, Loop,
               Disturbance, Start, MergeTransactions, NextMessage, RecordRollback,
               RecordPromotion, Verdict, LoadBlob, Insert, PublishLive,
               RecordDecodeError, AckIsLost, Exit, VerdictIsLost, LoadFails, InsertFails,
               PublishIsLost, DecodeErrorIsLost, Fetch, Ack, AckWaitPasses, Handled, allVars, vars
      <4> QED
        BY <2>1, <3>2, <4>1 DEF Settled
    <3> QED
      BY <3>1, <3>2
  <2>4. PublishFailure => disturb' = disturb
    BY DEF PublishFailure
  <2> HIDE DEF c, d, e, f, w, x
  <2>5. e <= f + x /\ f <= e + x
    <3>1. CASE PublishFailure
      BY <1>2, <1>4, <1>8, <2>2, <2>3, <2>4, <3>1
    <3>2. CASE ~PublishFailure /\ disturb' = disturb
      BY <1>2, <1>4, <1>8, <2>2, <2>3, <3>2
    <3>3. CASE ~PublishFailure /\ disturb' = disturb + 1
      BY <1>1, <1>2, <1>4, <1>8, <2>2, <2>3, <3>3
    <3> QED
      BY <1>3, <3>1, <3>2, <3>3
  <2> QED
    BY <1>7, <2>5
<1> QED
  BY <1>5, <1>6

\* What an issue counts, seen from outside: the announcements that were decoded
\* are among all of them, and the failure in hand is among the published.
LEMMA AgreementCounts ==
  ASSUME TypeOK, HandlingOK, GroupingOK, StagesInOrder, CountsAgree
  PROVE  FailuresAreCounted
<1> DEFINE d == Cardinality(FailingDecoded)
           x == Cardinality(Failing)
           u == Cardinality(Settled(failures))
           g == One(gpc \in {"trim", "sample", "ack"})
           c == total + (Len(failures) - u) - g
           w == Slack
<1>1. d <= c + w /\ c <= d + w
  BY DEF CountsAgree
<1>2. total \in Nat /\ Len(failures) \in Nat /\ w \in Nat /\ g \in {0, 1}
  BY DecoderAssumption DEF TypeOK, One, Slack
<1>3. IsFiniteSet(FailingDecoded) /\ Cardinality(FailingDecoded) \in Nat
  BY FailingIsFinite
<1>4. IsFiniteSet(Failing) /\ Cardinality(Failing) \in Nat
  BY FailingIsFinite
<1>5. IsFiniteSet(Settled(failures)) /\ u \in Nat /\ u <= Len(failures)
  BY FiniteDomain DEF TypeOK, Settled
<1>6. ASSUME NEW s \in Sigs, NEW n \in 1 .. MaxInstrs
      PROVE  Published(s, n) <= rows[s]["instructions"]
  <2>1. rows[s]["instructions"] \in Nat
    BY DEF TypeOK, Tables
  <2>2. CASE s \in Failed /\ Instrs[s] > 0
    <3>1. /\ Len(Stages) = 9 /\ Stages[2] = "instructions" /\ Stages[3] = "failures"
          /\ "instructions" \in Tables /\ Concerns(s, 2) /\ Concerns(s, 3)
      BY <2>2, StagesAre DEF Tables, Concerns
    <3>2. Effects(s, 3, n) + One(Past(s, 2) /\ ~Reached(s, 3, n)) <= rows[s]["instructions"]
      BY <3>1 DEF StagesInOrder
    <3>3. Effects(s, 3, n) = Published(s, n)
      BY <3>1 DEF Effects
    <3>4. Published(s, n) \in Nat
      BY FiniteDomain DEF TypeOK, Published
    <3> QED
      BY <2>1, <3>2, <3>3, <3>4 DEF One
  <2>3. CASE ~(s \in Failed /\ Instrs[s] > 0)
    <3>0. Instrs[s] \in Nat
      BY DecoderAssumption
    <3>1. \A i \in DOMAIN failures : failures[i].body \in FailureMessages
      BY EntryOf DEF TypeOK
    <3>2. [sig |-> s, instr |-> n] \notin FailureMessages
      BY <2>3, <3>0 DEF FailureMessages
    <3>3. {i \in DOMAIN failures : failures[i].body = [sig |-> s, instr |-> n]} = {}
      BY <3>1, <3>2
    <3>4. Published(s, n) = 0
      BY <3>3, FS_EmptySet DEF Published
    <3> QED
      BY <2>1, <3>4
  <2> QED
    BY <2>2, <2>3
<1>7. d <= x
  <2>1. FailingDecoded \subseteq Failing
    BY DEF FailingDecoded
  <2> QED
    BY <1>4, <2>1, FS_Subset
<1>8. g <= Len(failures) - u
  <2>1. CASE gpc \in {"trim", "sample", "ack"}
    <3>1. gcur \in DOMAIN failures /\ failures[gcur].at = "out"
      <4>1. gcur # Idle
        BY <2>1 DEF GroupingOK
      <4> QED
        BY <4>1 DEF GroupingOK, TypeOK
    <3>2. gcur \notin Settled(failures)
      BY <3>1 DEF Settled
    <3>3. Cardinality(Settled(failures) \cup {gcur}) = u + 1
      BY <1>5, <3>2, FS_AddElement
    <3>4. Cardinality(Settled(failures) \cup {gcur}) <= Len(failures)
      <4>1. Settled(failures) \cup {gcur} \in SUBSET DOMAIN failures
        BY <3>1 DEF Settled
      <4> QED
        BY <4>1, FiniteDomain DEF TypeOK
    <3> QED
      BY <1>2, <1>5, <2>1, <3>3, <3>4 DEF One
  <2>2. CASE gpc \notin {"trim", "sample", "ack"}
    BY <1>2, <1>5, <2>2 DEF One
  <2> QED
    BY <2>1, <2>2
<1>9. d \in Nat /\ x \in Nat
  BY <1>3, <1>4
<1>10. total <= x + w
  <2> HIDE DEF d, x, u, g, w
  <2> QED
    BY <1>1, <1>2, <1>5, <1>7, <1>8, <1>9
<1>11. ASSUME Settled(rawTx) = DOMAIN rawTx, Settled(failures) = DOMAIN failures
       PROVE  x <= total + w
  <2>1. FailingDecoded = Failing
    <3>1. \A p \in Failing : p[1] \in Settled(rawTx)
      BY <1>11 DEF Failing
    <3> QED
      BY <3>1 DEF FailingDecoded, Settled
  <2>2. u = Len(failures)
    <3>1. DOMAIN failures = 1 .. Len(failures)
      BY DEF TypeOK
    <3> QED
      BY <1>2, <1>11, <3>1, FS_Interval
  <2>3. x <= d
    BY <1>9, <2>1
  <2> HIDE DEF d, x, u, g, w
  <2> QED
    BY <1>1, <1>2, <1>5, <1>9, <2>2, <2>3
<1> QED
  BY <1>6, <1>10, <1>11 DEF FailuresAreCounted
-----------------------------------------------------------------------------
(* The invariants of the pipeline. *)

PipelineInv ==
  /\ TypeOK /\ HandlingOK /\ GroupingOK /\ SamplesAreLatest /\ FeedOK
  /\ StagesInOrder /\ MergedOK /\ CallsAreBounded /\ RowsAreCounted
  /\ AckedIsAccountedFor /\ VerdictsTakeEffect /\ CountsAgree

LEMMA PipelineStarts == PipelineInit => PipelineInv
<1> SUFFICES ASSUME PipelineInit PROVE PipelineInv
  OBVIOUS
<1>1. TypeOK /\ HandlingOK /\ GroupingOK /\ FeedOK
  BY InitTypes
<1>2. /\ rawTx = <<>> /\ failures = <<>> /\ cur = Idle /\ disturb = 0 /\ pc = "fetch"
      /\ DOMAIN rawTx = {} /\ DOMAIN failures = {} /\ Len(failures) = 0
      /\ rows = [s \in Sigs |-> [t \in Tables |-> 0]]
      /\ merged = [s \in Sigs |-> 0] /\ calls = [s \in Sigs |-> 0]
      /\ live = [s \in Sigs |-> [n \in 1 .. MaxInstrs |-> 0]]
  BY DEF PipelineInit, Init
<1>3. gpc = "fetch" /\ total = 0 /\ samples = <<>> /\ sampled = <<>>
  BY DEF PipelineInit, G!Init
<1>4. \A s \in Sigs : \A k \in 1 .. Len(Stages) : ~Past(s, k)
  BY <1>2 DEF Past
<1>5. \A s \in Sigs : \A t \in Tables : rows[s][t] = 0
  BY <1>2
<1>6. ASSUME NEW s \in Sigs, NEW n \in 1 .. MaxInstrs PROVE Published(s, n) = 0
  <2>1. {i \in DOMAIN failures : failures[i].body = [sig |-> s, instr |-> n]} = {}
    BY <1>2
  <2> QED
    BY <2>1, FS_EmptySet DEF Published
<1>7. StagesInOrder
  <2>1. ASSUME NEW s \in Sigs, NEW k \in 1 .. Len(Stages), NEW n \in 1 .. MaxInstrs
        PROVE  Effects(s, k, n) = 0
    BY <1>2, <1>5, <1>6, StageKinds DEF Effects
  <2> QED
    BY <1>4, <1>5, <2>1 DEF StagesInOrder, One
<1>8. MergedOK /\ CallsAreBounded
  <2>1. "transactions" \in Tables /\ "instructions" \in Tables
    BY DEF Tables
  <2> QED
    BY <1>2, <1>5, <2>1 DEF MergedOK, CallsAreBounded
<1>9. RowsAreCounted
  <2>1. ASSUME NEW s \in Sigs PROVE Cardinality(Decoded(s)) = 0
    <3>1. Decoded(s) = {}
      BY <1>2 DEF Decoded
    <3> QED
      BY <3>1, FS_EmptySet
  <2> QED
    BY <1>2, <1>4, <1>5, <2>1 DEF RowsAreCounted, One
<1>10. AckedIsAccountedFor /\ VerdictsTakeEffect
  <2>1. Concluded = {}
    BY <1>2 DEF Concluded, Settled
  <2> QED
    BY <2>1 DEF AckedIsAccountedFor, VerdictsTakeEffect
<1>11. CountsAgree
  <2>1. FailingDecoded = {} /\ Settled(failures) = {}
    BY <1>2 DEF FailingDecoded, Failing, Settled
  <2>4. Slack = 0
    BY <1>2, DecoderAssumption DEF Slack
  <2>2. Cardinality(FailingDecoded) = 0 /\ Cardinality(Settled(failures)) = 0
    BY <2>1, FS_EmptySet
  <2> QED
    BY <1>2, <1>3, <2>2, <2>4 DEF CountsAgree, One
<1>12. SamplesAreLatest
  BY <1>3, PipelineAssumption DEF SamplesAreLatest
<1> QED
  BY <1>1, <1>7, <1>8, <1>9, <1>10, <1>11, <1>12 DEF PipelineInv

LEMMA PipelineStep == PipelineInv /\ [PipelineNext]_allVars => PipelineInv'
<1> SUFFICES ASSUME PipelineInv, [PipelineNext]_allVars PROVE PipelineInv'
  OBVIOUS
<1>1. /\ TypeOK /\ HandlingOK /\ GroupingOK /\ SamplesAreLatest /\ FeedOK
      /\ StagesInOrder /\ MergedOK /\ CallsAreBounded /\ RowsAreCounted
      /\ AckedIsAccountedFor /\ VerdictsTakeEffect /\ CountsAgree
  BY DEF PipelineInv
<1>2. TypeOK' /\ HandlingOK'
  BY <1>1, TypeStep, HandlingStep
<1>3. GroupingOK' /\ SamplesAreLatest'
  BY <1>1, GroupingStep, SamplesStep
<1>4. FeedOK' /\ StagesInOrder'
  BY <1>1, FeedStep, OrderStep
<1>5. MergedOK' /\ CallsAreBounded' /\ RowsAreCounted'
  BY <1>1, MergedStep, CallsStep, RowsCountedStep
<1>6. AckedIsAccountedFor' /\ VerdictsTakeEffect'
  BY <1>1, <1>2, AckedStep, VerdictsStep
<1>7. CountsAgree'
  BY <1>1, <1>2, CountsStep
<1> QED
  BY <1>2, <1>3, <1>4, <1>5, <1>6, <1>7 DEF PipelineInv

LEMMA PipelineHolds == Spec => []PipelineInv
BY PipelineStarts, PipelineStep, PTL DEF Spec

LEMMA ViewStarts == PipelineInit => View!Init
<1> SUFFICES ASSUME PipelineInit PROVE View!Init
  OBVIOUS
<1>1. DOMAIN rawTx = {} /\ rollbacks = {} /\ promotions = {} /\ final = {}
      /\ rows = [s \in Sigs |-> [t \in Tables |-> 0]] /\ "transactions" \in Tables
  BY DEF PipelineInit, Init, F!Init, Tables
<1>2. Announced = {} /\ Retracted = {} /\ Visible = {}
  BY <1>1 DEF Announced, Retracted, Visible
<1> QED
  BY <1>1, <1>2 DEF View!Init

\* Every step of the pipeline is a step of the readers' view, or none.
LEMMA ViewStep == PipelineInv /\ [PipelineNext]_allVars => [View!Next]_(View!vars)
<1> SUFFICES ASSUME PipelineInv, [PipelineNext]_allVars PROVE [View!Next]_(View!vars)
  OBVIOUS
<1> DEFINE view == [s \in Sigs |-> IF s \in rollbacks THEN "hidden"
                                   ELSE IF s \in Visible THEN "shown" ELSE "absent"]
<1>0. TypeOK /\ HandlingOK /\ FeedOK
  BY DEF PipelineInv
<1>1. ASSUME NEW s \in Sigs, Feed(s) PROVE [View!Next]_(View!vars)
  <2>1. view' = view /\ promotions' = promotions
    BY <1>1 DEF Feed, Visible, rowVars, verdictVars
  <2>2. CASE F!Settle(s) /\ UNCHANGED rawTx
    BY <2>1, <2>2 DEF F!Settle, View!Next, View!Settle, View!vars, Announced, Retracted
  <2>3. CASE F!Announce(s) /\ Emit(s, "processed", FALSE)
    <3>1. Announced' = Announced \cup {s} /\ Retracted' = Retracted
      BY <1>0, <2>3, EmitStep
    <3> QED
      BY <2>1, <2>3, <3>1 DEF F!Announce, View!Next, View!Announce, View!vars
  <2>4. CASE F!Confirm(s) /\ Emit(s, "confirmed", FALSE)
    <3>1. Announced' = Announced /\ Retracted' = Retracted
      BY <1>0, <2>4, EmitStep
    <3> QED
      BY <2>1, <2>4, <3>1 DEF F!Confirm, View!vars
  <2>5. CASE F!Retract(s) /\ Emit(s, "processed", TRUE)
    <3>1. Announced' = Announced /\ Retracted' = Retracted \cup {s}
      BY <1>0, <2>5, EmitStep
    <3>2. s \in Announced
      BY <1>0, <2>5 DEF F!Retract, FeedOK
    <3> QED
      BY <2>1, <2>5, <3>1, <3>2 DEF F!Retract, View!Next, View!Retract, View!vars
  <2> QED
    BY <1>1, <2>2, <2>3, <2>4, <2>5 DEF Feed
<1>2. ASSUME ~ \E s \in Sigs : Feed(s) PROVE [View!Next]_(View!vars)
  <2>1. Announced' = Announced /\ Retracted' = Retracted
    BY <1>0, <1>2, BodiesKept
  <2>2. final' = final
    BY <1>2 DEF PipelineNext, DecoderStep, GrouperStep, OthersWait, OthersPause, feedVars, allVars
  <2>3. CASE RecordRollback
    <3>1. cur \in DOMAIN rawTx /\ Sig \in Sigs /\ rawTx[cur].body.rollback
      BY <1>0, <2>3, InHand DEF RecordRollback, HandlingOK
    <3>2. PICK s \in Sigs : s = Sig
      BY <3>1
    <3>3. s \in Retracted
      BY <3>1, <3>2 DEF Retracted, Sig
    <3>4. rollbacks' = rollbacks \cup {s} /\ UNCHANGED <<rows, promotions>>
      BY <2>3, <3>2 DEF RecordRollback, Verdict, rowVars
    <3>5. Visible' = Visible \ {s}
      BY <3>4 DEF Visible
    <3>6. view' = [view EXCEPT ![s] = "hidden"]
      BY <3>4, <3>5
    <3> QED
      BY <2>1, <2>2, <3>3, <3>4, <3>6 DEF View!Next, View!Hide
  <2>4. CASE RecordPromotion
    <3>1. cur \in DOMAIN rawTx /\ Sig \in Sigs /\ Promotion(rawTx[cur].body)
      BY <1>0, <2>4, InHand DEF RecordPromotion, HandlingOK
    <3>2. PICK s \in Sigs : s = Sig
      BY <3>1
    <3>3. s \in final \cap Announced
      BY <1>0, <3>1, <3>2 DEF FeedOK, Sig
    <3>4. promotions' = promotions \cup {s} /\ UNCHANGED <<rows, rollbacks>>
      BY <2>4, <3>2 DEF RecordPromotion, Verdict, rowVars
    <3>5. view' = view
      BY <3>4 DEF Visible
    <3> QED
      BY <2>1, <2>2, <3>3, <3>4, <3>5 DEF View!Next, View!CallConfirmed
  <2>5. CASE ~RecordRollback /\ ~RecordPromotion
    <3>1. UNCHANGED <<rollbacks, promotions>>
      BY <1>2, <2>5
         DEF PipelineNext, DecoderStep, GrouperStep, OthersPause, Next, Loop,
             Disturbance, Start, MergeTransactions, NextMessage, Verdict, LoadBlob, Insert,
             PublishFailure, PublishLive, RecordDecodeError, Decoding, AckIsLost, Exit,
             VerdictIsLost, LoadFails, InsertFails, PublishIsLost, DecodeErrorIsLost, Fetch,
             Ack, AckWaitPasses, Handled, verdictVars, allVars, vars
    <3>2. CASE UNCHANGED rows
      <4>1. view' = view
        BY <3>1, <3>2 DEF Visible
      <4> QED
        BY <2>1, <2>2, <3>1, <4>1 DEF View!vars
    <3>3. CASE pc = "stage" /\ Stages[stage] \in Tables /\ InsertInto(Stages[stage])
      <4>1. cur \in DOMAIN rawTx /\ Sig \in Sigs /\ Announcement(rawTx[cur].body)
        BY <1>0, <3>3, InHand DEF HandlingOK
      <4>2. PICK s \in Sigs : s = Sig
        BY <4>1
      <4>3. s \in Announced
        BY <4>1, <4>2 DEF Announced, Sig
      <4>4. \A z \in Sigs : rows'[z]["transactions"] =
                              rows[z]["transactions"] + One(z = s /\ stage = 1)
        BY <1>0, <3>3, <4>2, JoinedInsert
      <4>5. \A z \in Sigs : rows[z]["transactions"] \in Nat
        BY <1>0 DEF TypeOK, Tables
      <4>6. Visible' = IF stage = 1 THEN Visible \cup ({s} \ rollbacks) ELSE Visible
        BY <3>1, <4>4, <4>5 DEF Visible, One
      <4>7. CASE view[s] = "absent" /\ stage = 1
        <5>1. s \notin rollbacks
          BY <4>7
        <5>2. view' = [view EXCEPT ![s] = "shown"]
          BY <3>1, <4>6, <4>7, <5>1
        <5> QED
          BY <2>1, <2>2, <3>1, <4>3, <4>7, <5>2 DEF View!Next, View!Show
      <4>8. CASE ~(view[s] = "absent" /\ stage = 1)
        <5>1. Visible' = Visible
          BY <4>6, <4>8
        <5>2. view' = view
          BY <3>1, <5>1
        <5> QED
          BY <2>1, <2>2, <3>1, <5>2 DEF View!vars
      <4> QED
        BY <4>7, <4>8
    <3> QED
      BY <3>2, <3>3, RowVarsStep
  <2> QED
    BY <2>3, <2>4, <2>5
<1> QED
  BY <1>1, <1>2
-----------------------------------------------------------------------------
(* Results. *)

\* Whatever is redelivered, repeated, cut off or lost: rows are written in the
\* order of the stages, the join that counts calls finds its transactions, and
\* no table gets more rows than announcements and disturbances account for.
THEOREM BoundedEffects == Spec => []EffectsAreBounded
<1>1. PipelineInv => EffectsAreBounded
  BY CountedIsBounded DEF PipelineInv, EffectsAreBounded
<1> QED
  BY <1>1, PipelineHolds, PTL

\* Acknowledging never loses a decoding silently (decode_tx_message and its
\* caller in services/decoder/src/main.rs).
THEOREM NothingDroppedSilently == Spec => []AckedIsAccountedFor
<1>1. PipelineInv => AckedIsAccountedFor
  BY DEF PipelineInv
<1> QED
  BY <1>1, PipelineHolds, PTL

\* Rollbacks and promotions take effect in any order of delivery.
THEOREM VerdictsTake == Spec => []VerdictsTakeEffect
<1>1. PipelineInv => VerdictsTakeEffect
  BY DEF PipelineInv
<1> QED
  BY <1>1, PipelineHolds, PTL

\* The counters of an issue and its samples, for any number of failures, any
\* cap and any number of disturbances of either service.
THEOREM AccurateIssue == Spec => []IssueIsAccurate
<1>1. PipelineInv => IssueIsAccurate
  BY AgreementCounts DEF PipelineInv, IssueIsAccurate
<1> QED
  BY <1>1, PipelineHolds, PTL

\* What readers see of a transaction, and what they are told is confirmed,
\* develops as ReaderView says.
THEOREM ViewRefinement == Spec => ImplementsView
BY ViewStarts, ViewStep, PipelineHolds, PTL DEF Spec, ImplementsView, View!Spec
=============================================================================
