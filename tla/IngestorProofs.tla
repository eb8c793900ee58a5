--------------------------- MODULE IngestorProofs ---------------------------
(***************************************************************************)
(* Proofs about Ingestor for every set of signatures and every value of    *)
(* the reorg window, the page size and the bounds: type correctness, the   *)
(* inductive invariant IInv, the safety properties it implies, and that    *)
(* the worker implements CommitmentFeed.                                   *)
(***************************************************************************)
EXTENDS Ingestor, TLAPS

-----------------------------------------------------------------------------
(* Facts about the pieces several actions share. *)

LEMMA DisturbType == ASSUME disturb \in Nat, Disturb PROVE disturb' \in Nat
BY DEF Disturb

LEMMA TaskReset ==
  ASSUME ResetTask
  PROVE  /\ mode' = "backfill" /\ ws' = "none"
         /\ feed' = {} /\ todo' = {} /\ cur' = NoNote
         /\ pending' \in [Sigs -> Nat \cup {Absent}]
         /\ \A s \in Sigs : pending'[s] = Absent
         /\ seen' = {} /\ listed' = {}
         /\ now' = 0 /\ okd' = {} /\ sweep' = {}
BY DEF ResetTask, Absent

LEMMA PublishType ==
  ASSUME TypeOK, NEW kind \in {"processed", "confirmed", "rollback"}, NEW n \in Notes, Publish(kind, n)
  PROVE  kept' \subseteq Messages /\ lost' \in Nat
BY DEF Publish, TypeOK, Messages

LEMMA PendingSlot ==
  ASSUME TypeOK, NEW s \in Sigs, pending[s] # Absent
  PROVE  [sig |-> s, slot |-> pending[s]] \in Notes
BY DEF TypeOK, Notes

-----------------------------------------------------------------------------
(* Type correctness.  It needs SweepIsPending: a rollback names the slot of *)
(* a pending signature.                                                    *)

LEMMA TypeStep == ASSUME TypeOK, SweepIsPending, [Next]_vars PROVE TypeOK'
<1>1. CASE UNCHANGED vars
  BY <1>1 DEF vars, TypeOK, Gone, InLoop, Ingesting, chainVars, batchVars, sweepVars, blobVars, sentVars
<1>2. CASE ChainNext
  <2>1. ASSUME NEW s \in Sigs, NEW x \in 1 .. MaxSlot, ChainInclude(s, x) PROVE TypeOK'
    BY <2>1, ConstantsAssumption DEF ChainInclude, Notes, TypeOK, Gone, InLoop, Ingesting, chainVars, batchVars, sweepVars, blobVars, sentVars
  <2>2. ASSUME NEW s \in Sigs, ChainSettle(s) PROVE TypeOK'
    BY <2>2 DEF ChainSettle, TypeOK, Gone, InLoop, Ingesting, chainVars, batchVars, sweepVars, blobVars, sentVars
  <2>3. CASE ChainFinalize
    BY <2>3 DEF ChainFinalize, TypeOK, Gone, InLoop, Ingesting, chainVars, batchVars, sweepVars, blobVars, sentVars
  <2> QED
    BY <1>2, <2>1, <2>2, <2>3 DEF ChainNext
<1>3. CASE Enable
  BY <1>3 DEF Enable, TypeOK, Gone, InLoop, Ingesting, chainVars, batchVars, sweepVars, blobVars, sentVars
<1>4. CASE Disable
  BY <1>4, DisturbType DEF Disable, TypeOK, Gone, InLoop, Ingesting, chainVars, batchVars, sweepVars, blobVars, sentVars
<1>5. CASE SocketLost
  BY <1>5, DisturbType DEF SocketLost, TypeOK, Gone, InLoop, Ingesting, chainVars, batchVars, sweepVars, blobVars, sentVars
<1>6. CASE Reconcile
  BY <1>6, TaskReset DEF Reconcile, ReconcileStart, ReconcileStop, Lives, TypeOK, Gone, InLoop, Ingesting, chainVars, batchVars, sweepVars, blobVars, sentVars
<1>7. CASE ProcessExit
  BY <1>7, TaskReset, DisturbType DEF ProcessExit, Lives, TypeOK, Gone, InLoop, Ingesting, chainVars, batchVars, sweepVars, blobVars, sentVars
<1>8. CASE BackfillPage
  BY <1>8 DEF BackfillPage, NewestOf, Finalized, Note, Notes, TypeOK, Gone, InLoop, Ingesting, chainVars, batchVars, sweepVars, blobVars, sentVars
<1>9. CASE BackfillListFails \/ VerdictFails
  BY <1>9, TaskReset, DisturbType DEF BackfillListFails, VerdictFails, Crash, Lives, TypeOK, Gone, InLoop, Ingesting, chainVars, batchVars, sweepVars, blobVars, sentVars
<1>10. CASE Subscribe
  BY <1>10, DisturbType DEF Subscribe, TypeOK, Gone, InLoop, Ingesting, chainVars, batchVars, sweepVars, blobVars, sentVars
<1>11. CASE GatherFromSocket
  BY <1>11 DEF GatherFromSocket, TypeOK, Gone, InLoop, Ingesting, chainVars, batchVars, sweepVars, blobVars, sentVars
<1>12. CASE GatherByPolling
  BY <1>12, DisturbType DEF GatherByPolling, NewestOf, Finalized, Note, Notes, TypeOK, Gone, InLoop, Ingesting, chainVars, batchVars, sweepVars, blobVars, sentVars
<1>13. CASE Take \/ BatchDone
  BY <1>13 DEF Take, BatchDone, TypeOK, Gone, InLoop, Ingesting, chainVars, batchVars, sweepVars, blobVars, sentVars
<1>14. CASE FetchBlob
  BY <1>14, DisturbType DEF FetchBlob, PutBlob, TypeOK, Gone, InLoop, Ingesting, chainVars, batchVars, sweepVars, blobVars, sentVars
<1>15. CASE PublishProcessed
  <2>1. cur \in Notes /\ cur.sig \in Sigs
    BY <1>15 DEF PublishProcessed, TypeOK, Ingesting, Notes
  <2>2. kept' \subseteq Messages /\ lost' \in Nat
    BY <1>15, <2>1, PublishType DEF PublishProcessed, TypeOK
  <2> QED
    BY <1>15, <2>1, <2>2 DEF PublishProcessed, Notes, TypeOK, Gone, InLoop, Ingesting, chainVars, batchVars, sweepVars, blobVars, sentVars
<1>16. CASE RecordProgress
  BY <1>16 DEF RecordProgress, Notes, TypeOK, Gone, InLoop, Ingesting, chainVars, batchVars, sweepVars, blobVars, sentVars
<1>17. CASE IngestFails
  BY <1>17, TaskReset, DisturbType DEF IngestFails, Crash, Lives, TypeOK, Gone, InLoop, Ingesting, chainVars, batchVars, sweepVars, blobVars, sentVars
<1>18. CASE ReadSlot
  BY <1>18, DisturbType DEF ReadSlot, TypeOK, Gone, InLoop, Ingesting, chainVars, batchVars, sweepVars, blobVars, sentVars
<1>19. CASE ReadStatuses
  BY <1>19, DisturbType DEF ReadStatuses, StatusOk, TypeOK, Gone, InLoop, Ingesting, chainVars, batchVars, sweepVars, blobVars, sentVars
<1>20. CASE SweepDone
  BY <1>20 DEF SweepDone, TypeOK, Gone, InLoop, Ingesting, chainVars, batchVars, sweepVars, blobVars, sentVars
<1>21. ASSUME NEW s \in Sigs, Promote(s) PROVE TypeOK'
  <2>1. PromotedNote(s) \in Notes
    BY <1>21 DEF Promote, PromotedNote, SweepIsPending, TypeOK, Notes
  <2>2. kept' \subseteq Messages /\ lost' \in Nat
    BY <1>21, <2>1, PublishType DEF Promote, TypeOK
  <2> QED
    BY <1>21, <2>2 DEF Promote, TypeOK, Gone, InLoop, Ingesting, chainVars, batchVars, sweepVars, blobVars, sentVars
<1>22. ASSUME NEW s \in Sigs, SendRollback(s)
       PROVE  /\ rolled' \subseteq Notes /\ rbk' \in [Sigs -> Nat]
              /\ kept' \subseteq Messages /\ lost' \in Nat
  <2>1. [sig |-> s, slot |-> pending[s]] \in Notes
    BY <1>22, PendingSlot DEF SendRollback, SweepIsPending, TypeOK
  <2>2. kept' \subseteq Messages /\ lost' \in Nat
    BY <1>22, <2>1, PublishType DEF SendRollback, TypeOK
  <2> QED
    BY <1>22, <2>1, <2>2 DEF SendRollback, TypeOK
<1>23. ASSUME NEW s \in Sigs, Rollback(s) PROVE TypeOK'
  BY <1>23, <1>22 DEF Rollback, SendRollback, TypeOK, Gone, InLoop, Ingesting, chainVars, batchVars, sweepVars, blobVars, sentVars
<1>24. ASSUME NEW s \in Sigs, RollbackUnrecorded(s) PROVE TypeOK'
  <2>1. SendRollback(s) /\ Crash
    BY <1>24 DEF RollbackUnrecorded
  <2>2. UNCHANGED <<chainVars, enabled, lastRow, blobVars, announced, ann, con, statusFault>>
    BY <2>1 DEF SendRollback
  <2> QED
    BY <1>22, <2>1, <2>2, TaskReset, DisturbType DEF Crash, TypeOK, Gone, InLoop, Ingesting, chainVars, batchVars, sweepVars, blobVars, sentVars
<1>25. ASSUME NEW s \in Sigs, Keep(s) PROVE TypeOK'
  BY <1>25 DEF Keep, TypeOK, Gone, InLoop, Ingesting, chainVars, batchVars, sweepVars, blobVars, sentVars
<1> QED
  BY <1>1, <1>2, <1>3, <1>4, <1>5, <1>6, <1>7, <1>8, <1>9, <1>10, <1>11, <1>12, <1>13,
     <1>14, <1>15, <1>16, <1>17, <1>18, <1>19, <1>20, <1>21, <1>23, <1>24, <1>25
     DEF Next, WorkerStep, IngestStep, SweepStep

-----------------------------------------------------------------------------
(* The cluster: what is confirmed stays confirmed, where it is. *)

LEMMA OnlyChainMoves ==
  ASSUME [Next]_vars PROVE ChainNext \/ UNCHANGED chainVars
BY DEF Next, vars, Enable, Disable, Reconcile, ReconcileStart, ReconcileStop,
       ProcessExit, SocketLost, Lives, WorkerStep, BackfillPage,
       BackfillListFails, Subscribe, GatherFromSocket, GatherByPolling,
       IngestStep, Take, BatchDone, FetchBlob, PublishProcessed,
       RecordProgress, IngestFails, SweepStep, ReadSlot, ReadStatuses,
       VerdictFails, SweepDone, Promote, Rollback, SendRollback,
       RollbackUnrecorded, Keep

LEMMA FinalityStep ==
  ASSUME TypeOK, Finality, [Next]_vars PROVE Finality'
<1>1. CASE UNCHANGED chainVars
  BY <1>1 DEF Finality, chainVars
<1>2. ASSUME NEW s \in Sigs, NEW x \in 1 .. MaxSlot, ChainInclude(s, x) PROVE Finality'
  BY <1>2, ConstantsAssumption DEF ChainInclude, Finality, TypeOK
<1>3. ASSUME NEW s \in Sigs, ChainSettle(s) PROVE Finality'
  BY <1>3 DEF ChainSettle, Finality, TypeOK
<1>4. CASE ChainFinalize
  BY <1>4 DEF ChainFinalize, Finality, TypeOK
<1> QED
  BY <1>1, <1>2, <1>3, <1>4, OnlyChainMoves DEF ChainNext

\* A confirmed signature keeps its fate; finality only advances; and a note
\* whose slot is finalized and that is not on the chain never gets there.
LEMMA ChainIsStable ==
  ASSUME TypeOK, Finality, [Next]_vars
  PROVE  /\ \A s \in Sigs : chain[s] = "confirmed" => chain'[s] = "confirmed"
         /\ head <= head' /\ head' \in Nat
         /\ \A n \in Notes : n.slot <= head /\ ~OnChain(n) => ~OnChain(n)'
<1>1. CASE UNCHANGED chainVars
  BY <1>1 DEF chainVars, OnChain, TypeOK
<1>2. ASSUME NEW s \in Sigs, NEW x \in 1 .. MaxSlot, ChainInclude(s, x)
      PROVE  /\ \A t \in Sigs : chain[t] = "confirmed" => chain'[t] = "confirmed"
             /\ head <= head' /\ head' \in Nat
             /\ \A n \in Notes : n.slot <= head /\ ~OnChain(n) => ~OnChain(n)'
  BY <1>2 DEF ChainInclude, OnChain, TypeOK, Notes
<1>3. ASSUME NEW s \in Sigs, ChainSettle(s)
      PROVE  /\ \A t \in Sigs : chain[t] = "confirmed" => chain'[t] = "confirmed"
             /\ head <= head' /\ head' \in Nat
             /\ \A n \in Notes : n.slot <= head /\ ~OnChain(n) => ~OnChain(n)'
  BY <1>3 DEF ChainSettle, OnChain, TypeOK, Notes, Finality
<1>4. CASE ChainFinalize
  BY <1>4 DEF ChainFinalize, OnChain, TypeOK, Notes
<1> QED
  BY <1>1, <1>2, <1>3, <1>4, OnlyChainMoves DEF ChainNext

-----------------------------------------------------------------------------
(* Most steps leave what the invariant speaks of alone.  They come in three *)
(* kinds; the rest are treated one by one.                                 *)

\* The cluster, the backend or the socket moves, or nothing does.
Elsewhere ==
  UNCHANGED <<lastRow, pc, cur, pending, sweepVars, blobVars, sentVars, statusFault>>

\* A task ends or starts.
Restart ==
  /\ ResetTask
  /\ pc' \in {"absent", "dead"} \/ (pc = "absent" /\ pc' = "list")
  /\ UNCHANGED <<lastRow, blobVars, sentVars, statusFault>>

\* The worker decides what to ingest next.
Prepare ==
  /\ pc # "sweep" /\ pc' \in {"list", "subscribe", "gather", "take", "fetch", "slot"}
  /\ UNCHANGED <<lastRow, pending, sweepVars, blobVars, sentVars, statusFault>>

LEMMA StepKinds ==
  ASSUME TypeOK, [Next]_vars
  PROVE  \/ Elsewhere \/ Restart \/ Prepare
         \/ FetchBlob \/ PublishProcessed \/ RecordProgress
         \/ ReadSlot \/ ReadStatuses \/ SweepDone
         \/ \E s \in Sigs : Promote(s) \/ Rollback(s) \/ RollbackUnrecorded(s) \/ Keep(s)
<1>1. CASE UNCHANGED vars \/ ChainNext \/ Enable \/ Disable \/ SocketLost
  BY <1>1 DEF Elsewhere, vars, ChainNext, ChainInclude, ChainSettle, ChainFinalize,
              Enable, Disable, SocketLost, batchVars, sweepVars, blobVars, sentVars
<1>2. CASE Reconcile \/ ProcessExit \/ BackfillListFails \/ VerdictFails
  BY <1>2 DEF Restart, Reconcile, ReconcileStart, ReconcileStop, ProcessExit,
              BackfillListFails, VerdictFails, Crash, Lives
<1>3. CASE BackfillPage \/ Subscribe \/ GatherFromSocket \/ GatherByPolling \/ Take \/ BatchDone
  BY <1>3 DEF Prepare, BackfillPage, Subscribe, GatherFromSocket, GatherByPolling, Take, BatchDone
<1>4. CASE IngestFails
  BY <1>4 DEF Prepare, Restart, IngestFails, Crash, Lives, Ingesting
<1> QED
  BY <1>1, <1>2, <1>3, <1>4 DEF Next, WorkerStep, IngestStep, SweepStep

(* The parts of the invariant, one by one. *)

LEMMA SweepIsPendingStep ==
  ASSUME TypeOK, SweepIsPending, [Next]_vars PROVE SweepIsPending'
<1>1. CASE Elsewhere
  BY <1>1 DEF Elsewhere, SweepIsPending, TypeOK, sweepVars, blobVars, sentVars
<1>2. CASE Restart
  BY <1>2, TaskReset DEF Restart, SweepIsPending, TypeOK, blobVars, sentVars
<1>3. CASE Prepare
  BY <1>3 DEF Prepare, SweepIsPending, TypeOK, sweepVars, blobVars, sentVars
<1>4. CASE FetchBlob
  BY <1>4 DEF FetchBlob, PutBlob, SweepIsPending, TypeOK, sweepVars, blobVars, sentVars, chainVars, batchVars
<1>5. CASE PublishProcessed
  BY <1>5 DEF PublishProcessed, SweepIsPending, TypeOK, sweepVars, blobVars, sentVars, chainVars, batchVars
<1>6. CASE RecordProgress
  BY <1>6 DEF RecordProgress, SweepIsPending, TypeOK, sweepVars, blobVars, sentVars, chainVars, batchVars
<1>7. CASE ReadSlot
  BY <1>7 DEF ReadSlot, SweepIsPending, TypeOK, sweepVars, blobVars, sentVars, chainVars, batchVars
<1>8. CASE ReadStatuses
  BY <1>8 DEF ReadStatuses, StatusOk, SweepIsPending, TypeOK, sweepVars, blobVars, sentVars, chainVars, batchVars
<1>9. CASE SweepDone
  BY <1>9 DEF SweepDone, SweepIsPending, TypeOK, sweepVars, blobVars, sentVars, chainVars, batchVars
<1>10. ASSUME NEW s \in Sigs, Promote(s) PROVE SweepIsPending'
  BY <1>10 DEF Promote, SweepIsPending, TypeOK, sweepVars, blobVars, sentVars, chainVars, batchVars
<1>11. ASSUME NEW s \in Sigs, Rollback(s) PROVE SweepIsPending'
  BY <1>11 DEF Rollback, SendRollback, SweepIsPending, TypeOK, sweepVars, blobVars, sentVars, chainVars, batchVars
<1>12. ASSUME NEW s \in Sigs, RollbackUnrecorded(s) PROVE SweepIsPending'
  BY <1>12, TaskReset DEF RollbackUnrecorded, SendRollback, Crash, SweepIsPending, TypeOK, sweepVars, blobVars, sentVars, chainVars, batchVars
<1>13. ASSUME NEW s \in Sigs, Keep(s) PROVE SweepIsPending'
  BY <1>13 DEF Keep, SweepIsPending, TypeOK, sweepVars, blobVars, sentVars, chainVars, batchVars
<1> QED
  BY <1>1, <1>2, <1>3, <1>4, <1>5, <1>6, <1>7, <1>8, <1>9, <1>10, <1>11, <1>12, <1>13, StepKinds

LEMMA GoneForgetsStep ==
  ASSUME TypeOK, GoneForgets, [Next]_vars PROVE GoneForgets'
<1> USE DEF GoneForgets, Gone
<1>1. CASE Elsewhere \/ Prepare \/ SweepDone
  BY <1>1 DEF Elsewhere, Prepare, SweepDone
<1>2. CASE Restart
  BY <1>2, TaskReset DEF Restart
<1>3. CASE FetchBlob \/ PublishProcessed \/ RecordProgress \/ ReadSlot \/ ReadStatuses
  BY <1>3 DEF FetchBlob, PublishProcessed, RecordProgress, ReadSlot, ReadStatuses
<1>4. ASSUME NEW s \in Sigs, Promote(s) \/ Rollback(s) \/ Keep(s) PROVE GoneForgets'
  BY <1>4 DEF Promote, Rollback, SendRollback, Keep
<1>5. ASSUME NEW s \in Sigs, RollbackUnrecorded(s) PROVE GoneForgets'
  BY <1>5, TaskReset DEF RollbackUnrecorded, Crash
<1> QED
  BY <1>1, <1>2, <1>3, <1>4, <1>5, StepKinds

LEMMA ReadsStayTrueStep ==
  ASSUME TypeOK, Finality, ReadsStayTrue, [Next]_vars PROVE ReadsStayTrue'
<1>1. /\ \A s \in Sigs : chain[s] = "confirmed" => chain'[s] = "confirmed"
      /\ head <= head' /\ head' \in Nat
  BY ChainIsStable
<1>2. head \in Nat /\ now \in Nat /\ okd \subseteq Sigs
  BY DEF TypeOK
<1>3. CASE UNCHANGED <<now, okd>>
  BY <1>1, <1>2, <1>3 DEF ReadsStayTrue
<1>4. CASE now' = 0 /\ okd' = {}
  BY <1>1, <1>2, <1>4 DEF ReadsStayTrue
<1>5. CASE ReadSlot
  BY <1>1, <1>2, <1>5 DEF ReadSlot, ReadsStayTrue
<1>6. CASE ReadStatuses
  BY <1>1, <1>2, <1>6 DEF ReadStatuses, StatusOk, ReadsStayTrue
<1>7. CASE Elsewhere \/ Prepare \/ FetchBlob \/ PublishProcessed \/ RecordProgress
  BY <1>7, <1>3 DEF Elsewhere, Prepare, FetchBlob, PublishProcessed, RecordProgress, sweepVars
<1>8. CASE Restart \/ SweepDone
  BY <1>8, <1>4, TaskReset DEF Restart, SweepDone
<1>9. ASSUME NEW s \in Sigs, Promote(s) \/ Rollback(s) \/ Keep(s) PROVE ReadsStayTrue'
  BY <1>9, <1>3 DEF Promote, Rollback, Keep
<1>10. ASSUME NEW s \in Sigs, RollbackUnrecorded(s) PROVE ReadsStayTrue'
  BY <1>10, <1>4, TaskReset DEF RollbackUnrecorded, Crash
<1> QED
  BY <1>5, <1>6, <1>7, <1>8, <1>9, <1>10, StepKinds

LEMMA ExpiredIsGoneStep ==
  ASSUME TypeOK, Finality, SweepIsPending, ReadsStayTrue, ExpiredIsGone, [Next]_vars
  PROVE  ExpiredIsGone'
<1>1. /\ \A s \in Sigs : chain[s] = "confirmed" => chain'[s] = "confirmed"
      /\ \A n \in Notes : n.slot <= head /\ ~OnChain(n) => ~OnChain(n)'
  BY ChainIsStable
<1>2. CASE sweep' = {}
  BY <1>2 DEF ExpiredIsGone
<1>3. CASE /\ sweep' \subseteq sweep
           /\ UNCHANGED <<now, okd, statusFault>>
           /\ \A t \in sweep' : pending'[t] = pending[t]
  <2> SUFFICES ASSUME ~statusFault, NEW t \in sweep' \ okd', Expired(t)'
               PROVE  ~OnChain([sig |-> t, slot |-> pending[t]])'
    BY <1>3 DEF ExpiredIsGone, OnChain
  <2>1. t \in Sigs /\ t \in sweep \ okd /\ pending[t] # Absent /\ Expired(t)
    BY <1>3 DEF SweepIsPending, TypeOK, Expired
  <2>2. PICK n \in Notes : n = [sig |-> t, slot |-> pending[t]]
    BY <2>1, PendingSlot
  <2>3. ~OnChain(n)
    BY <2>1, <2>2 DEF ExpiredIsGone
  <2>4. n.slot <= head
    BY <2>1, <2>2, ConstantsAssumption DEF Expired, ReadsStayTrue, TypeOK, Absent
  <2>5. ~OnChain(n)'
    BY <2>3, <2>4, <1>1
  <2> QED
    BY <2>2, <2>5, <1>3
<1>4. CASE ReadStatuses
  <2>1. UNCHANGED chain
    BY <1>4 DEF ReadStatuses, chainVars
  <2> QED
    BY <1>4, <2>1 DEF ReadStatuses, StatusOk, ExpiredIsGone, OnChain, TypeOK
<1>5. CASE Elsewhere
  BY <1>5, <1>3 DEF Elsewhere, sweepVars
<1>6. CASE Restart
  BY <1>6, <1>2, TaskReset DEF Restart
<1>7. CASE Prepare \/ FetchBlob \/ PublishProcessed \/ RecordProgress \/ ReadSlot \/ SweepDone
  <2>1. sweep = {}
    BY <1>7 DEF Prepare, FetchBlob, PublishProcessed, RecordProgress, ReadSlot, SweepDone, SweepIsPending
  <2> QED
    BY <2>1, <1>7, <1>2 DEF Prepare, FetchBlob, PublishProcessed, RecordProgress, ReadSlot, SweepDone, sweepVars
<1>8. ASSUME NEW s \in Sigs, Promote(s) \/ Rollback(s) \/ Keep(s) PROVE ExpiredIsGone'
  BY <1>8, <1>3 DEF Promote, Rollback, SendRollback, Keep, TypeOK
<1>9. ASSUME NEW s \in Sigs, RollbackUnrecorded(s) PROVE ExpiredIsGone'
  BY <1>9, <1>2, TaskReset DEF RollbackUnrecorded, Crash
<1> QED
  BY <1>4, <1>5, <1>6, <1>7, <1>8, <1>9, StepKinds

LEMMA AnnouncementsCoverStep ==
  ASSUME TypeOK, SweepIsPending, AnnouncementsCover, [Next]_vars PROVE AnnouncementsCover'
<1>1. CASE /\ UNCHANGED <<ann, con, rbk>>
           /\ \A s \in Sigs : pending'[s] # Absent => pending[s] # Absent
           /\ pc' = "record" => pc = "record" /\ cur' = cur
  BY <1>1 DEF AnnouncementsCover
<1>2. CASE Elsewhere \/ Prepare \/ FetchBlob \/ ReadSlot \/ ReadStatuses \/ SweepDone
  BY <1>2, <1>1 DEF Elsewhere, Prepare, FetchBlob, ReadSlot, ReadStatuses, SweepDone, sentVars
<1>3. CASE Restart
  BY <1>3, <1>1, TaskReset DEF Restart, sentVars
<1>4. CASE PublishProcessed
  BY <1>4 DEF PublishProcessed, AnnouncementsCover, TypeOK, Notes, batchVars, Ingesting
<1>5. CASE RecordProgress
  BY <1>5 DEF RecordProgress, AnnouncementsCover, TypeOK, Notes, sentVars, Ingesting
<1>6. ASSUME NEW s \in Sigs, Promote(s) PROVE AnnouncementsCover'
  BY <1>6 DEF Promote, AnnouncementsCover, SweepIsPending, TypeOK, batchVars
<1>7. ASSUME NEW s \in Sigs, Rollback(s) PROVE AnnouncementsCover'
  BY <1>7 DEF Rollback, SendRollback, AnnouncementsCover, SweepIsPending, TypeOK, batchVars
<1>8. ASSUME NEW s \in Sigs, RollbackUnrecorded(s) PROVE AnnouncementsCover'
  BY <1>8, TaskReset DEF RollbackUnrecorded, SendRollback, Crash, AnnouncementsCover, SweepIsPending, TypeOK
<1>9. ASSUME NEW s \in Sigs, Keep(s) PROVE AnnouncementsCover'
  BY <1>9, <1>1 DEF Keep, sentVars, batchVars
<1> QED
  BY <1>2, <1>3, <1>4, <1>5, <1>6, <1>7, <1>8, <1>9, StepKinds

\* Messages and announcements only accumulate.
LEMMA StoreThenPublishStep ==
  ASSUME TypeOK, StoreThenPublish, [Next]_vars PROVE StoreThenPublish'
<1> USE DEF StoreThenPublish
<1>1. CASE /\ UNCHANGED <<stored, announced>>
           /\ pc' \in {"publish", "record"} => pc' = pc /\ cur' = cur
  BY <1>1
<1>2. CASE Elsewhere \/ Prepare \/ ReadSlot \/ ReadStatuses \/ SweepDone
  BY <1>2, <1>1 DEF Elsewhere, Prepare, ReadSlot, ReadStatuses, SweepDone, blobVars, sentVars
<1>3. CASE Restart
  BY <1>3, <1>1 DEF Restart, blobVars, sentVars
<1>4. CASE FetchBlob
  BY <1>4 DEF FetchBlob, PutBlob, TypeOK, batchVars, blobVars, sentVars
<1>5. CASE PublishProcessed
  BY <1>5 DEF PublishProcessed, batchVars, blobVars
<1>6. CASE RecordProgress
  BY <1>6 DEF RecordProgress, blobVars, sentVars
<1>7. ASSUME NEW s \in Sigs, Promote(s) \/ Rollback(s) \/ RollbackUnrecorded(s) \/ Keep(s)
      PROVE  StoreThenPublish'
  BY <1>7, <1>1 DEF Promote, Rollback, SendRollback, RollbackUnrecorded, Crash, Keep, blobVars, sentVars, batchVars
<1> QED
  BY <1>2, <1>3, <1>4, <1>5, <1>6, <1>7, StepKinds

\* A verdict sent leaves the announcements alone; what it names was announced.
LEMMA VerdictIsGrounded ==
  ASSUME TypeOK, SentIsKept, NEW kind \in {"confirmed", "rollback"}, NEW v \in Notes,
         NEW s \in Sigs, pending[s] # Absent, v.sig = s, pending[s] <= v.slot,
         Publish(kind, v), UNCHANGED announced,
         \A t \in Sigs : pending'[t] # Absent => pending'[t] = pending[t]
  PROVE  SentIsKept'
<1>1. PICK n \in announced : n.sig = v.sig /\ n.slot <= v.slot
  BY DEF SentIsKept
<1>2. \A t \in Sigs : pending'[t] # Absent => [sig |-> t, slot |-> pending'[t]] \in announced
  BY DEF SentIsKept
<1>3. CASE UNCHANGED kept /\ lost' = lost + 1
  BY <1>2, <1>3 DEF SentIsKept, TypeOK
<1>4. CASE UNCHANGED lost /\ kept' = kept \cup {[kind |-> kind, note |-> v]}
  <2>1. \A m \in kept' : /\ m.kind = "processed" => m.note \in announced
                         /\ \E k \in announced : k.sig = m.note.sig /\ k.slot <= m.note.slot
    BY <1>1, <1>4 DEF SentIsKept
  <2>2. lost' = 0 => \A k \in announced : [kind |-> "processed", note |-> k] \in kept'
    BY <1>4 DEF SentIsKept, Kept
  <2> QED
    BY <1>2, <2>1, <2>2 DEF SentIsKept, Kept
<1> QED
  BY <1>3, <1>4 DEF Publish

LEMMA SentIsKeptStep ==
  ASSUME TypeOK, SweepIsPending, StoreThenPublish, SentIsKept, [Next]_vars PROVE SentIsKept'
<1>1. CASE /\ UNCHANGED <<announced, kept, lost>>
           /\ \A s \in Sigs : pending'[s] # Absent => pending'[s] = pending[s]
  BY <1>1 DEF SentIsKept, Kept
<1>2. CASE Elsewhere \/ Prepare \/ FetchBlob \/ ReadSlot \/ ReadStatuses \/ SweepDone
  BY <1>2, <1>1 DEF Elsewhere, Prepare, FetchBlob, ReadSlot, ReadStatuses, SweepDone, sentVars
<1>3. CASE Restart
  BY <1>3, <1>1, TaskReset DEF Restart, sentVars
<1>4. CASE PublishProcessed
  <2>1. cur \in Notes /\ announced' = announced \cup {cur} /\ UNCHANGED pending
    BY <1>4 DEF PublishProcessed, TypeOK, Ingesting
  <2>2. Publish("processed", cur)
    BY <1>4 DEF PublishProcessed
  <2>3. \A s \in Sigs : pending'[s] # Absent => [sig |-> s, slot |-> pending'[s]] \in announced'
    BY <2>1 DEF SentIsKept
  <2>4. cur.slot <= cur.slot
    BY <2>1 DEF Notes
  <2>5. \A m \in kept' : /\ m.kind = "processed" => m.note \in announced'
                         /\ \E n \in announced' : n.sig = m.note.sig /\ n.slot <= m.note.slot
    BY <2>1, <2>2, <2>4 DEF SentIsKept, Publish
  <2>6. lost' = 0 => \A n \in announced' : [kind |-> "processed", note |-> n] \in kept'
    <3>1. ASSUME lost' = 0 PROVE lost = 0 /\ kept' = kept \cup {[kind |-> "processed", note |-> cur]}
      BY <2>2, <3>1 DEF Publish, TypeOK
    <3> QED
      BY <2>1, <3>1 DEF SentIsKept, Kept
  <2> QED
    BY <2>3, <2>5, <2>6 DEF SentIsKept, Kept
<1>5. CASE RecordProgress
  <2>1. cur \in Notes /\ cur \in announced /\ UNCHANGED <<announced, kept, lost>>
    BY <1>5 DEF RecordProgress, TypeOK, Ingesting, StoreThenPublish, sentVars
  <2>2. [sig |-> cur.sig, slot |-> cur.slot] = cur
    BY <2>1 DEF Notes
  <2>3. \A s \in Sigs : pending'[s] # Absent => [sig |-> s, slot |-> pending'[s]] \in announced
    BY <1>5, <2>1, <2>2 DEF RecordProgress, SentIsKept, TypeOK
  <2> QED
    BY <2>1, <2>3 DEF SentIsKept, Kept
<1>6. ASSUME NEW s \in Sigs, Promote(s) PROVE SentIsKept'
  <2>1. pending[s] # Absent /\ pending[s] \in Nat /\ slotOf[s] \in Nat
    BY <1>6 DEF Promote, SweepIsPending, TypeOK
  <2>2. PICK v \in Notes : v = PromotedNote(s)
    <3>1. (IF slotOf[s] > pending[s] THEN slotOf[s] ELSE pending[s]) \in Nat
      BY <2>1
    <3>2. PromotedNote(s) \in Notes
      BY <3>1 DEF PromotedNote, Notes
    <3> QED
      BY <3>2
  <2>3. v.sig = s /\ pending[s] <= v.slot
    BY <2>1, <2>2 DEF PromotedNote
  <2>4. /\ Publish("confirmed", v) /\ UNCHANGED announced
        /\ \A t \in Sigs : pending'[t] # Absent => pending'[t] = pending[t]
    BY <1>6, <2>2 DEF Promote, TypeOK
  <2> QED
    BY <2>1, <2>3, <2>4, VerdictIsGrounded
<1>7. ASSUME NEW s \in Sigs, SendRollback(s),
             \A t \in Sigs : pending'[t] # Absent => pending'[t] = pending[t]
      PROVE  SentIsKept'
  <2>1. pending[s] # Absent /\ pending[s] \in Nat
    BY <1>7 DEF SendRollback, SweepIsPending, TypeOK
  <2>2. PICK v \in Notes : v = [sig |-> s, slot |-> pending[s]]
    BY <2>1 DEF Notes
  <2>3. v.sig = s /\ pending[s] <= v.slot
    BY <2>1, <2>2
  <2>4. Publish("rollback", v) /\ UNCHANGED announced
    BY <1>7, <2>2 DEF SendRollback
  <2> QED
    BY <1>7, <2>1, <2>3, <2>4, VerdictIsGrounded
<1>8. ASSUME NEW s \in Sigs, Rollback(s) \/ RollbackUnrecorded(s) PROVE SentIsKept'
  <2>1. SendRollback(s) /\ \A t \in Sigs : pending'[t] # Absent => pending'[t] = pending[t]
    BY <1>8, TaskReset DEF Rollback, RollbackUnrecorded, Crash, TypeOK
  <2> QED
    BY <2>1, <1>7
<1>9. ASSUME NEW s \in Sigs, Keep(s) PROVE SentIsKept'
  BY <1>9, <1>1 DEF Keep, sentVars
<1> QED
  BY <1>2, <1>3, <1>4, <1>5, <1>6, <1>8, <1>9, StepKinds

LEMMA RowStep ==
  ASSUME TypeOK, StoreThenPublish, lastRow \in announced \cup {NoNote}, [Next]_vars
  PROVE  lastRow' \in announced' \cup {NoNote}
<1>1. CASE UNCHANGED lastRow /\ announced \subseteq announced'
  BY <1>1
<1>2. CASE RecordProgress
  BY <1>2 DEF RecordProgress, StoreThenPublish, sentVars
<1>3. CASE Elsewhere \/ Restart \/ Prepare \/ FetchBlob \/ PublishProcessed
           \/ ReadSlot \/ ReadStatuses \/ SweepDone
  BY <1>1, <1>3 DEF Elsewhere, Restart, Prepare, FetchBlob, PublishProcessed, ReadSlot, ReadStatuses, SweepDone, sentVars
<1>4. ASSUME NEW s \in Sigs, Promote(s) \/ Rollback(s) \/ RollbackUnrecorded(s) \/ Keep(s)
      PROVE  UNCHANGED lastRow /\ announced \subseteq announced'
  BY <1>4 DEF Promote, Rollback, SendRollback, RollbackUnrecorded, Keep, sentVars
<1> QED
  BY <1>1, <1>2, <1>3, <1>4, StepKinds

LEMMA TracesStep ==
  ASSUME TypeOK, SweepIsPending, StoreThenPublish, SentIsKept, TracesAreGrounded, [Next]_vars
  PROVE  StoreThenPublish' /\ SentIsKept' /\ TracesAreGrounded'
<1>1. StoreThenPublish' /\ SentIsKept' /\ TypeOK'
  BY StoreThenPublishStep, SentIsKeptStep, TypeStep
<1>2. lastRow' \in announced' \cup {NoNote}
  BY RowStep DEF TracesAreGrounded
<1>3. TracesAreGrounded'
  BY <1>1, <1>2 DEF TracesAreGrounded, StoreThenPublish, SentIsKept, Kept
<1> QED
  BY <1>1, <1>3

LEMMA WholeIsConfirmedStep ==
  ASSUME TypeOK, Finality, WholeIsConfirmed, [Next]_vars
  PROVE  WholeIsConfirmed' /\ stored \ hollow \subseteq stored' \ hollow'
<1>1. /\ \A s \in Sigs : chain[s] = "confirmed" => chain'[s] = "confirmed"
      /\ \A n \in stored : n.sig \in Sigs
  BY ChainIsStable DEF TypeOK, Notes
<1>2. CASE UNCHANGED blobVars
  BY <1>1, <1>2 DEF WholeIsConfirmed, blobVars
<1>3. CASE FetchBlob
  <2>1. cur \in Notes /\ cur.sig \in Sigs
    BY <1>3 DEF FetchBlob, TypeOK, Ingesting, Notes
  <2>2. CASE PutBlob(cur)
    BY <1>1, <2>1, <2>2 DEF PutBlob, FetchedNull, WholeIsConfirmed
  <2> QED
    BY <1>2, <1>3, <2>2 DEF FetchBlob
<1>4. ASSUME NEW s \in Sigs, Promote(s) \/ Rollback(s) \/ RollbackUnrecorded(s) \/ Keep(s)
      PROVE  UNCHANGED blobVars
  BY <1>4 DEF Promote, Rollback, SendRollback, RollbackUnrecorded, Keep
<1> QED
  BY <1>2, <1>3, <1>4, StepKinds DEF Elsewhere, Restart, Prepare, PublishProcessed,
     RecordProgress, ReadSlot, ReadStatuses, SweepDone

\* Only the four sweep actions touch the verdicts.
LEMMA VerdictsFrame ==
  ASSUME TypeOK, [Next]_vars
  PROVE  \/ UNCHANGED <<con, rolled, statusFault>>
         \/ UNCHANGED <<con, rolled>> /\ statusFault'
         \/ \E s \in Sigs : Promote(s) \/ SendRollback(s)
<1>1. CASE ReadStatuses
  BY <1>1 DEF ReadStatuses, sentVars
<1> QED
  BY <1>1, StepKinds DEF Elsewhere, Restart, Prepare, FetchBlob, PublishProcessed, RecordProgress,
     ReadSlot, SweepDone, Rollback, RollbackUnrecorded, Keep, sentVars

LEMMA PromotedIsConfirmedStep ==
  ASSUME TypeOK, Finality, ReadsStayTrue, PromotedIsConfirmed, [Next]_vars
  PROVE  PromotedIsConfirmed'
<1>1. \A s \in Sigs : chain[s] = "confirmed" => chain'[s] = "confirmed"
  BY ChainIsStable
<1>2. CASE UNCHANGED con
  BY <1>1, <1>2 DEF PromotedIsConfirmed
<1>3. ASSUME NEW s \in Sigs, Promote(s) PROVE PromotedIsConfirmed'
  BY <1>1, <1>3 DEF Promote, PromotedIsConfirmed, ReadsStayTrue, TypeOK
<1>4. ASSUME NEW s \in Sigs, SendRollback(s) PROVE UNCHANGED con
  BY <1>4 DEF SendRollback
<1> QED
  BY <1>2, <1>3, <1>4, VerdictsFrame

LEMMA RollbackStep ==
  ASSUME TypeOK, Finality, SweepIsPending, ReadsStayTrue, ExpiredIsGone, RolledIsFinal,
         RollbackIsSound, [Next]_vars
  PROVE  RolledIsFinal' /\ RollbackIsSound'
<1>1. /\ head <= head' /\ head' \in Nat
      /\ \A n \in Notes : n.slot <= head /\ ~OnChain(n) => ~OnChain(n)'
  BY ChainIsStable
<1>2. head \in Nat /\ rolled \subseteq Notes
  BY DEF TypeOK
<1>3. \A n \in rolled : n.slot < head' /\ (~statusFault => ~OnChain(n)')
  BY <1>1, <1>2 DEF RolledIsFinal, RollbackIsSound, Notes
<1>4. CASE UNCHANGED rolled /\ (statusFault' = statusFault \/ statusFault')
  BY <1>3, <1>4 DEF RolledIsFinal, RollbackIsSound, OnChain
<1>5. ASSUME NEW s \in Sigs, SendRollback(s) PROVE RolledIsFinal' /\ RollbackIsSound'
  <2>1. s \in sweep \ okd /\ Expired(s) /\ pending[s] # Absent
    BY <1>5 DEF SendRollback, SweepIsPending
  <2>2. PICK n \in Notes : n = [sig |-> s, slot |-> pending[s]]
    BY <2>1, PendingSlot DEF SweepIsPending, TypeOK
  <2>3. n.slot < head
    BY <2>1, <2>2, ConstantsAssumption DEF Expired, ReadsStayTrue, TypeOK, Absent
  <2>4. ~statusFault => ~OnChain(n)
    BY <2>1, <2>2 DEF ExpiredIsGone
  <2>5. ~statusFault => ~OnChain(n)'
    BY <2>3, <2>4, <1>1, <1>2 DEF Notes
  <2>6. rolled' = rolled \cup {n} /\ UNCHANGED statusFault
    BY <1>5, <2>2 DEF SendRollback
  <2>7. \A m \in rolled' : m.slot < head' /\ (~statusFault => ~OnChain(m)')
    BY <1>1, <1>2, <1>3, <2>3, <2>5, <2>6 DEF Notes
  <2> QED
    BY <2>6, <2>7 DEF RolledIsFinal, RollbackIsSound, OnChain
<1>6. ASSUME NEW s \in Sigs, Promote(s) PROVE UNCHANGED <<rolled, statusFault>>
  BY <1>6 DEF Promote
<1> QED
  BY <1>4, <1>5, <1>6, VerdictsFrame

-----------------------------------------------------------------------------
(* The theorems. *)

LEMMA InitEstablishesIInv == Init => IInv
<1>1. Init => TypeOK
  <2>1. Init => /\ chain \in [Sigs -> {"unseen", "processed", "confirmed", "dropped"}]
                /\ slotOf \in [Sigs -> Nat]
                /\ pending \in [Sigs -> Nat \cup {Absent}]
                /\ ann \in [Sigs -> Nat] /\ con \in [Sigs -> Nat] /\ rbk \in [Sigs -> Nat]
    BY DEF Init
  <2>2. Init => /\ head \in Nat /\ now \in Nat /\ disturb \in Nat
                /\ lastRow \in Notes \cup {NoNote}
                /\ cur \in IF pc \in Ingesting THEN Notes ELSE {NoNote}
    BY DEF Init, Ingesting
  <2>3. Init => /\ included \subseteq Notes /\ feed \subseteq Notes /\ todo \subseteq Notes
                /\ seen \subseteq Sigs /\ listed \subseteq Sigs
                /\ okd \subseteq Sigs /\ sweep \subseteq Sigs
                /\ stored \subseteq Notes /\ hollow \subseteq stored
                /\ announced \subseteq Notes /\ rolled \subseteq Notes
                /\ kept \subseteq Messages /\ lost \in Nat
    BY DEF Init
  <2>4. Init => /\ enabled \in BOOLEAN /\ statusFault \in BOOLEAN
                /\ pc \in Gone \cup InLoop
                /\ mode \in {"backfill", "lastpage", "live"}
                /\ ws \in {"none", "open", "closed"}
    BY DEF Init, Gone
  <2> QED
    BY <2>1, <2>2, <2>3, <2>4 DEF TypeOK
<1>2. Init => Finality /\ SweepIsPending /\ GoneForgets /\ ReadsStayTrue /\ ExpiredIsGone
  BY DEF Init, Finality, SweepIsPending, GoneForgets, ReadsStayTrue, ExpiredIsGone
<1>3. Init => AnnouncementsCover
  BY DEF Init, AnnouncementsCover
<1>4. Init => /\ StoreThenPublish /\ SentIsKept /\ WholeIsConfirmed /\ TracesAreGrounded
              /\ RolledIsFinal /\ PromotedIsConfirmed /\ RollbackIsSound
  BY DEF Init, StoreThenPublish, SentIsKept, WholeIsConfirmed, RolledIsFinal,
         PromotedIsConfirmed, RollbackIsSound, TracesAreGrounded
<1> QED
  BY <1>1, <1>2, <1>3, <1>4 DEF IInv

LEMMA NextKeepsIInv == IInv /\ [Next]_vars => IInv'
BY TypeStep, FinalityStep, SweepIsPendingStep, GoneForgetsStep, ReadsStayTrueStep, ExpiredIsGoneStep,
   AnnouncementsCoverStep, TracesStep, WholeIsConfirmedStep, PromotedIsConfirmedStep, RollbackStep DEF IInv

\* The inductive invariant holds in every state of every behaviour: it is what
\* makes promote_or_rollback and ingest_signature correct together.
THEOREM Invariance == Spec => []IInv
BY InitEstablishesIInv, NextKeepsIInv, PTL DEF Spec

\* Type correctness.
THEOREM TypeCorrectness == Spec => []TypeOK
BY Invariance, PTL DEF IInv

\* However many workers came and went, verdicts never outnumber announcements.
THEOREM VerdictsAnnounced == Spec => []VerdictsWereAnnounced
<1>1. IInv => VerdictsWereAnnounced
  BY DEF IInv, AnnouncementsCover, VerdictsWereAnnounced
<1> QED
  BY <1>1, Invariance, PTL

\* No promotion of an unconfirmed transaction.
THEOREM PromotionSound == Spec => []PromotedIsConfirmed
BY Invariance, PTL DEF IInv

\* For every reorg window: a rollback is wrong only after a failed status query.
THEOREM RollbackSound == Spec => []RollbackIsSound
BY Invariance, PTL DEF IInv

\* What the stream and the progress row show is backed by what was done before,
\* and short of a lost message by what the stream holds.
THEOREM TracesGrounded == Spec => []TracesAreGrounded
BY Invariance, PTL DEF IInv

\* A stored transaction is never replaced by a null answer.
THEOREM BlobsKeepTheirTransaction == Spec => BlobIsNeverHollowed
<1>1. IInv /\ [Next]_vars => stored \ hollow \subseteq stored' \ hollow'
  BY WholeIsConfirmedStep DEF IInv
<1> QED
  BY <1>1, Invariance, PTL DEF Spec, BlobIsNeverHollowed

\* A live worker forgets a pending signature only with a verdict.
THEOREM PendingIsNotForgotten == Spec => PendingLeavesByVerdict
<1>1. ASSUME IInv, [Next]_vars, NEW s \in Sigs, pending[s] # Absent, pending'[s] = Absent
      PROVE  con'[s] + rbk'[s] > con[s] + rbk[s] \/ pc' \in Gone
  <2>1. TypeOK /\ GoneForgets
    BY <1>1 DEF IInv
  <2>2. CASE UNCHANGED pending
    BY <1>1, <2>2
  <2>3. CASE Restart
    BY <1>1, <2>1, <2>3 DEF Restart, GoneForgets, Gone
  <2>4. CASE RecordProgress
    BY <1>1, <2>1, <2>4 DEF RecordProgress, TypeOK, Ingesting, Notes, Absent
  <2>5. ASSUME NEW t \in Sigs, Promote(t) \/ Rollback(t) PROVE con'[s] + rbk'[s] > con[s] + rbk[s]
    BY <1>1, <2>1, <2>5 DEF Promote, Rollback, SendRollback, TypeOK
  <2>6. ASSUME NEW t \in Sigs, RollbackUnrecorded(t) PROVE pc' \in Gone
    BY <2>6 DEF RollbackUnrecorded, Crash, Gone
  <2> QED
    BY <1>1, <2>1, <2>2, <2>3, <2>4, <2>5, <2>6, StepKinds DEF Elsewhere, Prepare, FetchBlob,
       PublishProcessed, ReadSlot, ReadStatuses, SweepDone, Keep, sweepVars
<1>2. IInv /\ [Next]_vars =>
        [\A s \in Sigs : pending[s] # Absent /\ pending'[s] = Absent
           => con'[s] + rbk'[s] > con[s] + rbk[s] \/ pc' \in Gone]_vars
  BY <1>1
<1> QED
  BY <1>2, Invariance, PTL DEF Spec, PendingLeavesByVerdict

\* The worker implements the abstract commitment stream.
THEOREM Refinement == Spec => ImplementsFeed
<1>1. Init => Feed!Init
  BY DEF Init, Feed!Init
<1>2. ASSUME IInv, [Next]_vars PROVE [Feed!Next]_(Feed!vars)
  <2>1. TypeOK /\ Finality
    BY <1>2 DEF IInv
  <2>2. CASE UNCHANGED <<ann, con, rbk>> /\ UNCHANGED chain
    BY <2>2 DEF Feed!vars
  <2>3. CASE UNCHANGED sentVars /\ ChainNext
    <3>1. ASSUME NEW s \in Sigs, NEW x \in 1 .. MaxSlot, ChainInclude(s, x)
          PROVE UNCHANGED {t \in Sigs : chain[t] = "confirmed"}
      BY <2>1, <3>1 DEF ChainInclude, TypeOK
    <3>2. ASSUME NEW s \in Sigs, ChainSettle(s)
          PROVE {t \in Sigs : chain'[t] = "confirmed"} =
                  IF chain'[s] = "confirmed" THEN {t \in Sigs : chain[t] = "confirmed"} \cup {s}
                  ELSE {t \in Sigs : chain[t] = "confirmed"}
      BY <2>1, <3>2 DEF ChainSettle, TypeOK
    <3> QED
      BY <2>2, <2>3, <3>1, <3>2 DEF ChainNext, ChainFinalize, sentVars, Feed!vars, Feed!Next, Feed!Settle
  <2>4. CASE PublishProcessed
    <3>1. PICK s \in Sigs : s = cur.sig
      BY <2>1, <2>4 DEF PublishProcessed, TypeOK, Notes, Ingesting
    <3>2. /\ UNCHANGED <<chain, con, rbk>>
          /\ \A t \in Sigs : ann'[t] - con[t] - rbk[t] =
               IF t = s THEN (ann[t] - con[t] - rbk[t]) + 1 ELSE ann[t] - con[t] - rbk[t]
      BY <2>1, <2>4, <3>1 DEF PublishProcessed, TypeOK, chainVars
    <3>3. [t \in Sigs |-> ann[t] - con[t] - rbk[t]]' =
            [[t \in Sigs |-> ann[t] - con[t] - rbk[t]] EXCEPT ![s] = @ + 1]
      BY <3>2
    <3>4. Feed!Announce(s)
      BY <3>2, <3>3 DEF Feed!Announce
    <3> QED
      BY <3>4 DEF Feed!Next
  <2>5. ASSUME NEW s \in Sigs, Promote(s) PROVE Feed!Confirm(s)
    <3>1. ann[s] - con[s] - rbk[s] > 0 /\ chain[s] = "confirmed"
      BY <1>2, <2>1, <2>5 DEF Promote, IInv, SweepIsPending, AnnouncementsCover, ReadsStayTrue, TypeOK
    <3>2. /\ UNCHANGED <<chain, rbk, ann>>
          /\ \A t \in Sigs : ann[t] - con'[t] - rbk[t] =
               IF t = s THEN (ann[t] - con[t] - rbk[t]) - 1 ELSE ann[t] - con[t] - rbk[t]
          /\ \A t \in Sigs : con'[t] > 0 <=> t = s \/ con[t] > 0
      BY <2>1, <2>5 DEF Promote, TypeOK, chainVars
    <3>3. [t \in Sigs |-> ann[t] - con[t] - rbk[t]]' =
            [[t \in Sigs |-> ann[t] - con[t] - rbk[t]] EXCEPT ![s] = @ - 1]
      BY <3>2
    <3>4. {t \in Sigs : con[t] > 0}' = {t \in Sigs : con[t] > 0} \cup {s}
      BY <3>2
    <3> QED
      BY <3>1, <3>2, <3>3, <3>4 DEF Feed!Confirm
  <2>6. ASSUME NEW s \in Sigs, SendRollback(s) PROVE Feed!Retract(s)
    <3>1. ann[s] - con[s] - rbk[s] > 0
      BY <1>2, <2>1, <2>6 DEF SendRollback, IInv, SweepIsPending, AnnouncementsCover, TypeOK
    <3>2. /\ UNCHANGED <<chain, con, ann>>
          /\ \A t \in Sigs : ann[t] - con[t] - rbk'[t] =
               IF t = s THEN (ann[t] - con[t] - rbk[t]) - 1 ELSE ann[t] - con[t] - rbk[t]
      BY <2>1, <2>6 DEF SendRollback, TypeOK, chainVars
    <3>3. [t \in Sigs |-> ann[t] - con[t] - rbk[t]]' =
            [[t \in Sigs |-> ann[t] - con[t] - rbk[t]] EXCEPT ![s] = @ - 1]
      BY <3>2
    <3> QED
      BY <3>1, <3>2, <3>3 DEF Feed!Retract
  <2>7. ChainNext => UNCHANGED sentVars
    BY DEF ChainNext, ChainInclude, ChainSettle, ChainFinalize
  <2>8. \/ UNCHANGED <<ann, con, rbk>> \/ PublishProcessed
        \/ \E s \in Sigs : Promote(s) \/ SendRollback(s)
    BY <1>2, <2>1, StepKinds DEF Elsewhere, Restart, Prepare, FetchBlob, RecordProgress, ReadSlot,
       ReadStatuses, SweepDone, Rollback, RollbackUnrecorded, Keep, sentVars
  <2> QED
    BY <1>2, <2>2, <2>3, <2>4, <2>5, <2>6, <2>7, <2>8, OnlyChainMoves DEF chainVars, Feed!Next
<1> QED
  BY <1>1, <1>2, Invariance, PTL DEF Spec, ImplementsFeed, Feed!Spec
=============================================================================
