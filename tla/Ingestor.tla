------------------------------ MODULE Ingestor ------------------------------
(***************************************************************************)
(* One program worker of services/ingestor, the supervisor that starts and *)
(* aborts it, the part of Solana it watches, and what it leaves behind:    *)
(* blobs in S3, messages on the RAW_TX stream, the ingestion_state row.    *)
(*                                                                         *)
(* The worker is one tokio task; a step of the model is the code between   *)
(* two awaits whose order matters.  An abort, a process exit and every     *)
(* step of the chain may fall between any two of them.                     *)
(*                                                                         *)
(* A "note" is one sighting of a transaction: a signature at a slot.  The  *)
(* same signature can be sighted at two slots when a fork is abandoned.    *)
(***************************************************************************)
EXTENDS Integers, FiniteSets

CONSTANTS
  Sigs,        \* transaction signatures that mention the program
  Window,      \* the reorg window of promote_or_rollback (32 slots in the code)
  Lead,        \* how far processed slots run ahead of the finalized slot
  PageLimit,   \* rows asked of getSignaturesForAddress (100 in the code)
  MaxSlot,     \* bound: last finalized slot of a behaviour
  MaxDisturb   \* bound: failed calls, lost sockets and messages, exits, disablings

ASSUME ConstantsAssumption ==
  /\ Window \in Nat
  /\ Lead \in Nat \ {0}
  /\ PageLimit \in Nat \ {0}
  /\ MaxSlot \in Nat
  /\ MaxDisturb \in Nat

VARIABLES
  \* the cluster, external
  chain,       \* what became of each signature
  slotOf,      \* slot of its latest inclusion
  head,        \* finalized slot, what getSlot reports by default
  included,    \* every note any fork has contained
  \* Postgres and the supervisor
  enabled,     \* ingestion_configs.enabled
  lastRow,     \* last_processed_* of ingestion_state
  \* the worker task
  pc,          \* where it is; "absent": not in the workers map, "dead": ended
               \* but its JoinHandle is still in the map
  mode,        \* "backfill", "lastpage" or "live"
  ws,          \* the receiver: "none", "open", "closed" (sender gone)
  feed,        \* notifications buffered in the channel
  todo,        \* rest of the batch or page being ingested
  cur,         \* the note inside ingest_signature
  pending,     \* slot of each signature waiting for a verdict
  seen,        \* the poller's ring of signatures already handed out
  listed,      \* signatures of the backfill pages read so far
  now,         \* current_slot of promote_or_rollback
  okd,         \* signatures whose status came back confirmed or finalized
  sweep,       \* keys promote_or_rollback has still to visit
  \* S3 and JetStream
  stored,      \* notes whose blob key holds an object
  hollow,      \* those whose object is a null transaction
  announced,   \* notes sent with commitment "processed"
  ann,         \* how often each signature was announced, that is sent
  con,         \* how often it was sent as "confirmed"
  rbk,         \* how often it was sent as a rollback
  rolled,      \* the notes those rollbacks name
  kept,        \* the messages JetStream stored
  \* bookkeeping of the model
  lost,        \* history: how many messages were sent and never stored
  statusFault, \* history: some getSignatureStatuses call failed
  disturb      \* disturbances so far

chainVars == <<chain, slotOf, head, included>>
batchVars == <<mode, ws, feed, todo, cur, seen, listed>>
sweepVars == <<now, okd, sweep>>
blobVars  == <<stored, hollow>>
sentVars  == <<announced, ann, con, rbk, rolled, kept, lost>>
vars == <<chainVars, enabled, lastRow, pc, batchVars, pending, sweepVars,
          blobVars, sentVars, statusFault, disturb>>

Absent == -1
Notes  == [sig : Sigs, slot : Nat]
NoNote == [sig |-> "none", slot |-> Absent]
Note(s) == [sig |-> s, slot |-> slotOf[s]]
Messages == [kind : {"processed", "confirmed", "rollback"}, note : Notes]

Gone   == {"absent", "dead"}
Ingesting == {"fetch", "publish", "record"}   \* inside ingest_signature
InLoop == {"list", "subscribe", "gather", "take", "fetch", "publish", "record",
           "slot", "status", "sweep"}

Kept(kind, n) == [kind |-> kind, note |-> n] \in kept

\* The transaction of note n is part of the confirmed chain.
OnChain(n) == chain[n.sig] = "confirmed" /\ slotOf[n.sig] = n.slot

Disturb == disturb + lost < MaxDisturb /\ disturb' = disturb + 1

\* js.publish(..).await? is over when the message is sent: it drops the future
\* of JetStream's acknowledgement, and nobody learns that one was not stored.
Publish(kind, n) ==
  \/ kept' = kept \cup {[kind |-> kind, note |-> n]} /\ UNCHANGED lost
  \/ disturb + lost < MaxDisturb /\ lost' = lost + 1 /\ UNCHANGED kept
-----------------------------------------------------------------------------
(* The cluster.  Nothing here is code of the repository: it is what the RPC *)
(* calls of the ingestor rely on.  A slot is finalized only when every     *)
(* transaction it or an earlier slot contains is settled.                  *)

ChainInclude(s, x) ==
  /\ chain[s] \in {"unseen", "dropped"}
  /\ x \in head + 1 .. head + Lead
  /\ x + Window < MaxSlot
  /\ [sig |-> s, slot |-> x] \notin included
  /\ chain' = [chain EXCEPT ![s] = "processed"]
  /\ slotOf' = [slotOf EXCEPT ![s] = x]
  /\ included' = included \cup {[sig |-> s, slot |-> x]}
  /\ feed' = IF ws = "open" THEN feed \cup {[sig |-> s, slot |-> x]} ELSE feed
  /\ UNCHANGED <<head, enabled, lastRow, pc, mode, ws, todo, cur, seen, listed,
                 pending, sweepVars, blobVars, sentVars, statusFault, disturb>>

ChainSettle(s) ==
  /\ chain[s] = "processed"
  /\ \E fate \in {"confirmed", "dropped"} : chain' = [chain EXCEPT ![s] = fate]
  /\ UNCHANGED <<slotOf, head, included, enabled, lastRow, pc, batchVars,
                 pending, sweepVars, blobVars, sentVars, statusFault, disturb>>

ChainFinalize ==
  /\ head < MaxSlot
  /\ \A s \in Sigs : chain[s] = "processed" => slotOf[s] > head + 1
  /\ head' = head + 1
  /\ UNCHANGED <<chain, slotOf, included, enabled, lastRow, pc, batchVars,
                 pending, sweepVars, blobVars, sentVars, statusFault, disturb>>

\* What getSignaturesForAddress lists: transactions of finalized slots.
Finalized == {s \in Sigs : chain[s] = "confirmed" /\ slotOf[s] <= head}

\* The pages of at most PageLimit rows, newest slot first, that S can yield.
NewestOf(S) ==
  {R \in SUBSET S :
     /\ Cardinality(R) <= PageLimit
     /\ R # S => Cardinality(R) = PageLimit
     /\ \A r \in R, q \in S \ R : slotOf[q] <= slotOf[r]}
-----------------------------------------------------------------------------
(* The supervisor and the life of the task. *)

\* The state a new task starts from, and what is lost with an old one.
ResetTask ==
  /\ mode' = "backfill"
  /\ ws' = "none"
  /\ feed' = {}
  /\ todo' = {}
  /\ cur' = NoNote
  /\ seen' = {}
  /\ listed' = {}
  /\ pending' = [s \in Sigs |-> Absent]
  /\ now' = 0
  /\ okd' = {}
  /\ sweep' = {}

Lives == UNCHANGED <<chainVars, enabled, lastRow, blobVars, sentVars, statusFault>>

\* The backend enables or disables ingestion of the program.
Enable ==
  /\ ~enabled
  /\ enabled' = TRUE
  /\ UNCHANGED <<chainVars, lastRow, pc, batchVars, pending, sweepVars, blobVars,
                 sentVars, statusFault, disturb>>

Disable ==
  /\ enabled
  /\ Disturb
  /\ enabled' = FALSE
  /\ UNCHANGED <<chainVars, lastRow, pc, batchVars, pending, sweepVars, blobVars,
                 sentVars, statusFault>>

\* reconcile_workers: abort when disabled, start when enabled and the map has
\* no entry.  A task that ended keeps its entry.
ReconcileStop ==
  /\ ~enabled
  /\ pc # "absent"
  /\ pc' = "absent"
  /\ ResetTask /\ Lives /\ UNCHANGED disturb

ReconcileStart ==
  /\ enabled
  /\ pc = "absent"
  /\ pc' = "list"
  /\ ResetTask /\ Lives /\ UNCHANGED disturb

\* A failed query in reconcile_workers ends the process, and the map with it.
ProcessExit ==
  /\ Disturb
  /\ pc # "absent"
  /\ pc' = "absent"
  /\ ResetTask /\ Lives

\* An error that reaches run_program_worker's caller.
Crash ==
  /\ Disturb
  /\ pc' = "dead"
  /\ ResetTask
-----------------------------------------------------------------------------
(* backfill_window: pages from the newest to the oldest, until an empty one *)
(* or one with a row older than the cutoff.                                *)

BackfillPage ==
  /\ pc = "list"
  /\ \E rows \in NewestOf({s \in Finalized \ listed :
                             \A t \in listed : slotOf[s] <= slotOf[t]}),
        cutoff \in 0 .. MaxSlot :
       /\ listed' = listed \cup rows
       /\ todo' = {Note(s) : s \in {r \in rows : slotOf[r] >= cutoff}}
       /\ mode' = IF rows # {} /\ \A r \in rows : slotOf[r] >= cutoff
                    THEN "backfill" ELSE "lastpage"
  /\ pc' = "take"
  /\ UNCHANGED <<chainVars, enabled, lastRow, ws, feed, cur, seen, pending,
                 sweepVars, blobVars, sentVars, statusFault, disturb>>

BackfillListFails == pc = "list" /\ Crash /\ Lives

\* logs_subscribe(...).await.ok(): without a socket the worker polls.
Subscribe ==
  /\ pc = "subscribe"
  /\ \/ ws' = "open" /\ UNCHANGED disturb
     \/ ws' = "none" /\ Disturb
  /\ mode' = "live"
  /\ pc' = "gather"
  /\ UNCHANGED <<chainVars, enabled, lastRow, feed, todo, cur, seen, listed,
                 pending, sweepVars, blobVars, sentVars, statusFault>>

\* The socket ends: the sender is dropped, buffered notifications remain.
SocketLost ==
  /\ ws = "open"
  /\ Disturb
  /\ ws' = "closed"
  /\ UNCHANGED <<chainVars, enabled, lastRow, pc, mode, feed, todo, cur, seen,
                 listed, pending, sweepVars, blobVars, sentVars, statusFault>>

\* The drain loop takes what the 200 ms waits let it see, at least one
\* notification if there is one; it finds the channel ended only when empty.
GatherFromSocket ==
  /\ pc = "gather"
  /\ ws # "none"
  /\ \E batch \in SUBSET feed :
       /\ batch = {} => feed = {}
       /\ todo' = batch
       /\ feed' = feed \ batch
       /\ \/ ws' = ws /\ (ws = "closed" => batch # {})
          \/ ws = "closed" /\ batch = feed /\ ws' = "none"
  /\ pc' = "take"
  /\ UNCHANGED <<chainVars, enabled, lastRow, mode, cur, seen, listed, pending,
                 sweepVars, blobVars, sentVars, statusFault, disturb>>

\* poll_logs_like marks what it hands out as seen before it is ingested.
GatherByPolling ==
  /\ pc = "gather"
  /\ ws = "none"
  /\ \/ /\ \E rows \in NewestOf(Finalized) :
             /\ todo' = {Note(s) : s \in rows \ seen}
             /\ seen' = seen \cup rows
        /\ UNCHANGED disturb
     \/ todo' = {} /\ UNCHANGED seen /\ Disturb
  /\ pc' = "take"
  /\ UNCHANGED <<chainVars, enabled, lastRow, mode, ws, feed, cur, listed,
                 pending, sweepVars, blobVars, sentVars, statusFault>>
-----------------------------------------------------------------------------
(* ingest_signature, shared by the backfill and the live loop. *)

Take ==
  /\ pc = "take"
  /\ todo # {}
  /\ \E n \in todo : cur' = n /\ todo' = todo \ {n}
  /\ pc' = "fetch"
  /\ UNCHANGED <<chainVars, enabled, lastRow, mode, ws, feed, seen, listed,
                 pending, sweepVars, blobVars, sentVars, statusFault, disturb>>

BatchDone ==
  /\ pc = "take"
  /\ todo = {}
  /\ pc' = CASE mode = "backfill" -> "list"
             [] mode = "lastpage" -> "subscribe"
             [] OTHER -> "slot"
  /\ UNCHANGED <<chainVars, enabled, lastRow, batchVars, pending, sweepVars,
                 blobVars, sentVars, statusFault, disturb>>

\* Mutant of FetchedNull: getTransaction at commitment "processed".
FetchedNullProcessed(n) == chain[n.sig] \notin {"processed", "confirmed"}

\* getTransaction at commitment "confirmed" answers null for a transaction that
\* is only processed, and null is stored like any other answer.
FetchedNull(n) == chain[n.sig] # "confirmed"

\* Mutant of PutBlob: a failed getTransaction is stored like a null answer.
PutBlobOrNull(n) ==
  /\ stored' = stored \cup {n}
  /\ \/ hollow' = hollow \cup {n}
     \/ ~FetchedNull(n) /\ hollow' = hollow \ {n}

PutBlob(n) ==
  /\ stored' = stored \cup {n}
  /\ hollow' = IF FetchedNull(n) THEN hollow \cup {n} ELSE hollow \ {n}

\* An object already there is kept; a failed HEAD counts as a missing object.
FetchBlob ==
  /\ pc = "fetch"
  /\ \/ cur \in stored /\ UNCHANGED <<blobVars, disturb>>
     \/ cur \notin stored /\ PutBlob(cur) /\ UNCHANGED disturb
     \/ cur \in stored /\ PutBlob(cur) /\ Disturb
  /\ pc' = "publish"
  /\ UNCHANGED <<chainVars, enabled, lastRow, batchVars, pending, sweepVars,
                 sentVars, statusFault>>

\* Mutant of PublishProcessed: an error of the send is ignored.
PublishIgnoringErrors ==
  /\ pc = "publish"
  /\ \/ /\ announced' = announced \cup {cur}
        /\ ann' = [ann EXCEPT ![cur.sig] = @ + 1]
        /\ Publish("processed", cur)
        /\ UNCHANGED disturb
     \/ UNCHANGED <<announced, ann, kept, lost>> /\ Disturb
  /\ pc' = "record"
  /\ UNCHANGED <<chainVars, enabled, lastRow, batchVars, pending, sweepVars,
                 blobVars, con, rbk, rolled, statusFault>>

PublishProcessed ==
  /\ pc = "publish"
  /\ announced' = announced \cup {cur}
  /\ ann' = [ann EXCEPT ![cur.sig] = @ + 1]
  /\ Publish("processed", cur)
  /\ pc' = "record"
  /\ UNCHANGED <<chainVars, enabled, lastRow, batchVars, pending, sweepVars,
                 blobVars, con, rbk, rolled, statusFault, disturb>>

\* The ingestion_state upsert, then the return to the caller: the live loop
\* adds the signature to pending, the backfill does not.
RecordProgress ==
  /\ pc = "record"
  /\ lastRow' = cur
  /\ pending' = IF mode = "live" THEN [pending EXCEPT ![cur.sig] = cur.slot]
                ELSE pending
  /\ cur' = NoNote
  /\ pc' = "take"
  /\ UNCHANGED <<chainVars, enabled, mode, ws, feed, todo, seen, listed,
                 sweepVars, blobVars, sentVars, statusFault, disturb>>

\* Mutant of IngestFails: after the error the signature is pending all the same.
IngestFailsPending ==
  /\ pc \in Ingesting
  /\ IF mode = "live"
       THEN /\ Disturb
            /\ pending' = [pending EXCEPT ![cur.sig] = cur.slot]
            /\ cur' = NoNote
            /\ pc' = "take"
            /\ UNCHANGED <<mode, ws, feed, todo, seen, listed, sweepVars>>
       ELSE Crash
  /\ Lives

\* Any step of ingest_signature fails: fatal in the backfill, logged and
\* forgotten in the live loop.
IngestFails ==
  /\ pc \in Ingesting
  /\ IF mode = "live"
       THEN /\ Disturb
            /\ cur' = NoNote
            /\ pc' = "take"
            /\ UNCHANGED <<mode, ws, feed, todo, seen, listed, pending, sweepVars>>
       ELSE Crash
  /\ Lives
-----------------------------------------------------------------------------
(* promote_or_rollback. *)

ReadSlot ==
  /\ pc = "slot"
  /\ \/ /\ \A s \in Sigs : pending[s] = Absent
        /\ pc' = "gather"
        /\ UNCHANGED <<now, disturb>>
     \/ /\ \E s \in Sigs : pending[s] # Absent
        /\ pc' = "status"
        /\ \/ now' = head /\ UNCHANGED disturb
           \/ now' = 0 /\ Disturb
  /\ UNCHANGED <<chainVars, enabled, lastRow, batchVars, pending, okd, sweep,
                 blobVars, sentVars, statusFault>>

\* Mutant of StatusOk: any status will do.
StatusAny(s) == chain[s] \in {"processed", "confirmed"}

\* The status is there, confirmed or finalized.
StatusOk(s) == chain[s] = "confirmed"

\* A failed call reads like an answer in which no signature has a status.
ReadStatuses ==
  /\ pc = "status"
  /\ sweep' = {s \in Sigs : pending[s] # Absent}
  /\ \/ /\ okd' = {s \in sweep' : StatusOk(s)}
        /\ UNCHANGED <<statusFault, disturb>>
     \/ okd' = {} /\ statusFault' = TRUE /\ Disturb
  /\ pc' = "sweep"
  /\ UNCHANGED <<chainVars, enabled, lastRow, batchVars, pending, now, blobVars,
                 sentVars>>

\* Mutant of Expired: the operands swapped.
ExpiredSwapped(s) == pending[s] - now > Window

Expired(s) == now - pending[s] > Window

\* A promotion carries the later of the status's slot and the one sighted.
PromotedNote(s) ==
  [sig |-> s, slot |-> IF slotOf[s] > pending[s] THEN slotOf[s] ELSE pending[s]]

\* Mutant of Promote: the signature stays pending.
PromoteKeepsPending(s) ==
  /\ pc = "sweep" /\ s \in sweep /\ s \in okd
  /\ con' = [con EXCEPT ![s] = @ + 1]
  /\ Publish("confirmed", PromotedNote(s))
  /\ sweep' = sweep \ {s}
  /\ UNCHANGED <<chainVars, enabled, lastRow, pc, batchVars, pending, now, okd,
                 blobVars, announced, ann, rbk, rolled, statusFault, disturb>>

Promote(s) ==
  /\ pc = "sweep" /\ s \in sweep /\ s \in okd
  /\ con' = [con EXCEPT ![s] = @ + 1]
  /\ Publish("confirmed", PromotedNote(s))
  /\ pending' = [pending EXCEPT ![s] = Absent]
  /\ sweep' = sweep \ {s}
  /\ UNCHANGED <<chainVars, enabled, lastRow, pc, batchVars, now, okd, blobVars,
                 announced, ann, rbk, rolled, statusFault, disturb>>

\* Mutant of SendRollback: the window is not awaited.
RollbackAtOnce(s) ==
  /\ pc = "sweep" /\ s \in sweep \ okd
  /\ rbk' = [rbk EXCEPT ![s] = @ + 1]
  /\ rolled' = rolled \cup {[sig |-> s, slot |-> pending[s]]}
  /\ Publish("rollback", [sig |-> s, slot |-> pending[s]])
  /\ UNCHANGED <<chainVars, enabled, lastRow, blobVars, announced, ann, con,
                 statusFault>>

SendRollback(s) ==
  /\ pc = "sweep" /\ s \in sweep \ okd /\ Expired(s)
  /\ rbk' = [rbk EXCEPT ![s] = @ + 1]
  /\ rolled' = rolled \cup {[sig |-> s, slot |-> pending[s]]}
  /\ Publish("rollback", [sig |-> s, slot |-> pending[s]])
  /\ UNCHANGED <<chainVars, enabled, lastRow, blobVars, announced, ann, con,
                 statusFault>>

Rollback(s) ==
  /\ SendRollback(s)
  /\ pending' = [pending EXCEPT ![s] = Absent]
  /\ sweep' = sweep \ {s}
  /\ UNCHANGED <<pc, batchVars, now, okd, disturb>>

\* The rollback is out, the ingestion_errors insert fails and ends the worker.
RollbackUnrecorded(s) == SendRollback(s) /\ Crash

\* Mutant of Keep: a signature without a verdict is forgotten.
KeepForgets(s) ==
  /\ pc = "sweep" /\ s \in sweep \ okd /\ ~Expired(s)
  /\ pending' = [pending EXCEPT ![s] = Absent]
  /\ sweep' = sweep \ {s}
  /\ UNCHANGED <<chainVars, enabled, lastRow, pc, batchVars, now, okd,
                 blobVars, sentVars, statusFault, disturb>>

Keep(s) ==
  /\ pc = "sweep" /\ s \in sweep \ okd /\ ~Expired(s)
  /\ sweep' = sweep \ {s}
  /\ UNCHANGED <<chainVars, enabled, lastRow, pc, batchVars, pending, now, okd,
                 blobVars, sentVars, statusFault, disturb>>

\* A publish of a verdict fails and ends the worker.
VerdictFails ==
  /\ pc = "sweep"
  /\ \E s \in sweep : s \in okd \/ Expired(s)
  /\ Crash
  /\ Lives

SweepDone ==
  /\ pc = "sweep"
  /\ sweep = {}
  /\ now' = 0
  /\ okd' = {}
  /\ pc' = "gather"
  /\ UNCHANGED <<chainVars, enabled, lastRow, batchVars, pending, sweep, blobVars,
                 sentVars, statusFault, disturb>>
-----------------------------------------------------------------------------
Init ==
  /\ chain = [s \in Sigs |-> "unseen"]
  /\ slotOf = [s \in Sigs |-> 0]
  /\ head = 0
  /\ included = {}
  /\ enabled = FALSE
  /\ lastRow = NoNote
  /\ pc = "absent"
  /\ mode = "backfill" /\ ws = "none" /\ feed = {} /\ todo = {}
  /\ cur = NoNote /\ seen = {} /\ listed = {}
  /\ pending = [s \in Sigs |-> Absent]
  /\ now = 0 /\ okd = {} /\ sweep = {}
  /\ stored = {} /\ hollow = {}
  /\ announced = {} /\ rolled = {} /\ kept = {}
  /\ ann = [s \in Sigs |-> 0]
  /\ con = [s \in Sigs |-> 0]
  /\ rbk = [s \in Sigs |-> 0]
  /\ lost = 0
  /\ statusFault = FALSE
  /\ disturb = 0

ChainNext ==
  \/ \E s \in Sigs : (\E x \in 1 .. MaxSlot : ChainInclude(s, x)) \/ ChainSettle(s)
  \/ ChainFinalize

IngestStep ==
  Take \/ BatchDone \/ FetchBlob \/ PublishProcessed \/ RecordProgress \/ IngestFails

SweepStep ==
  \/ ReadSlot \/ ReadStatuses \/ VerdictFails \/ SweepDone
  \/ \E s \in Sigs : Promote(s) \/ Rollback(s) \/ RollbackUnrecorded(s) \/ Keep(s)

WorkerStep ==
  \/ BackfillPage \/ BackfillListFails \/ Subscribe
  \/ GatherFromSocket \/ GatherByPolling
  \/ IngestStep \/ SweepStep

Reconcile == ReconcileStart \/ ReconcileStop

Next == ChainNext \/ Enable \/ Disable \/ Reconcile \/ ProcessExit \/ SocketLost \/ WorkerStep

\* The cluster goes on settling and finalizing, the supervisor loops every five
\* seconds, and the executor polls a task that is ready.
Fairness ==
  /\ WF_vars(ChainFinalize)
  /\ \A s \in Sigs : WF_vars(ChainSettle(s))
  /\ WF_vars(Reconcile)
  /\ WF_vars(WorkerStep)

Spec == Init /\ [][Next]_vars
FairSpec == Spec /\ Fairness
-----------------------------------------------------------------------------
(* Properties. *)

\* Type invariant of every variable.
TypeOK ==
  /\ chain \in [Sigs -> {"unseen", "processed", "confirmed", "dropped"}]
  /\ slotOf \in [Sigs -> Nat]
  /\ head \in Nat
  /\ included \subseteq Notes
  /\ enabled \in BOOLEAN
  /\ lastRow \in Notes \cup {NoNote}
  /\ pc \in Gone \cup InLoop
  /\ mode \in {"backfill", "lastpage", "live"}
  /\ ws \in {"none", "open", "closed"}
  /\ feed \subseteq Notes
  /\ todo \subseteq Notes
  /\ cur \in IF pc \in Ingesting THEN Notes ELSE {NoNote}
  /\ pending \in [Sigs -> Nat \cup {Absent}]
  /\ seen \subseteq Sigs
  /\ listed \subseteq Sigs
  /\ now \in Nat
  /\ okd \subseteq Sigs
  /\ sweep \subseteq Sigs
  /\ stored \subseteq Notes
  /\ hollow \subseteq stored
  /\ announced \subseteq Notes
  /\ ann \in [Sigs -> Nat]
  /\ con \in [Sigs -> Nat]
  /\ rbk \in [Sigs -> Nat]
  /\ rolled \subseteq Notes
  /\ kept \subseteq Messages
  /\ lost \in Nat
  /\ statusFault \in BOOLEAN
  /\ disturb \in Nat

\* No verdict without an announcement of its own: however batches, repeated
\* sightings, failed publishes and restarts fall, the promotions and rollbacks
\* the worker has sent of a signature never outnumber the times it announced
\* the signature as processed.
VerdictsWereAnnounced == \A s \in Sigs : con[s] + rbk[s] <= ann[s]

\* A promotion is sent only of a transaction the cluster has confirmed, although
\* the statuses are read before the publishes of a whole sweep.
PromotedIsConfirmed == \A s \in Sigs : con[s] > 0 => chain[s] = "confirmed"

\* As long as no status query has failed, a sighting that was rolled back is on
\* no confirmed chain, then or later: the slot read before the query, the status
\* and the seen slot together exclude it, also when the transaction was
\* included again at another slot in the meantime.
RollbackIsSound == ~statusFault => \A n \in rolled : ~OnChain(n)

\* The error row written with a rollback says "signature not confirmed within
\* reorg window": no rolled back sighting is on the confirmed chain.
RolledBackIsUnconfirmed == \A n \in rolled : ~OnChain(n)

\* What a consumer of the stream may build on, although no acknowledgement is
\* awaited and a worker may end between any two steps.  The blob of every
\* message to decode is stored; the ingestion_state row names a sighting that
\* was sent.  Of a signature with a verdict on the stream, and of the sighting
\* of the row, the stream has the announcement too, unless a message was lost
\* after its send: then the row, or a verdict, may be all that is left of it.
TracesAreGrounded ==
  /\ \A m \in kept : m.kind = "processed" => m.note \in stored
  /\ lastRow \in announced \cup {NoNote}
  /\ lost = 0 =>
       /\ lastRow # NoNote => Kept("processed", lastRow)
       /\ \A m \in kept : \E n \in announced :
            n.sig = m.note.sig /\ n.slot <= m.note.slot /\ Kept("processed", n)

\* A blob that holds the transaction is never overwritten by a null one, though
\* a failed HEAD fetches and stores it again.
BlobIsNeverHollowed == [][stored \ hollow \subseteq stored' \ hollow']_blobVars

\* While the task lives, a pending signature is only forgotten together with a
\* verdict about it.
PendingLeavesByVerdict ==
  [][\A s \in Sigs :
       pending[s] # Absent /\ pending'[s] = Absent
         => con'[s] + rbk'[s] > con[s] + rbk[s] \/ pc' \in Gone]_vars

\* Every pending signature gets its verdict or is lost with the task.
PendingIsResolved == \A s \in Sigs : pending[s] # Absent ~> pending[s] = Absent
-----------------------------------------------------------------------------
(* The inductive invariant behind the safety properties. *)

\* A transaction of a finalized slot is settled.
Finality == \A s \in Sigs : chain[s] = "processed" => slotOf[s] > head

\* A status or a verdict is about a signature that is still pending.
SweepIsPending == sweep # {} => pc = "sweep" /\ \A s \in sweep : pending[s] # Absent

\* Nothing is pending without a task.
GoneForgets == pc \in Gone => \A s \in Sigs : pending[s] = Absent

\* A confirmed status stays true, and no slot was read from the future.
ReadsStayTrue ==
  /\ \A s \in okd : chain[s] = "confirmed"
  /\ now <= head

\* What the sweep is about to roll back has already lost its place.
ExpiredIsGone ==
  ~statusFault =>
    \A s \in sweep \ okd : Expired(s) => ~OnChain([sig |-> s, slot |-> pending[s]])

\* Verdicts never outnumber announcements, counting the one still owed to a
\* pending signature and the one owed to the signature being recorded.
AnnouncementsCover ==
  \A s \in Sigs :
    /\ con[s] + rbk[s] <= ann[s]
    /\ pending[s] # Absent \/ (pc = "record" /\ cur.sig = s)
         => con[s] + rbk[s] < ann[s]

\* ingest_signature works in the order store, send, record.
StoreThenPublish ==
  /\ pc \in {"publish", "record"} => cur \in stored
  /\ pc = "record" => cur \in announced
  /\ announced \subseteq stored

\* What is pending was sent, and what was sent is stored unless one was lost.
SentIsKept ==
  /\ \A s \in Sigs : pending[s] # Absent => [sig |-> s, slot |-> pending[s]] \in announced
  /\ \A m \in kept :
       /\ m.kind = "processed" => m.note \in announced
       /\ \E n \in announced : n.sig = m.note.sig /\ n.slot <= m.note.slot
  /\ lost = 0 => \A n \in announced : Kept("processed", n)

\* A blob holds the transaction only if the cluster has confirmed it.
WholeIsConfirmed == \A n \in stored \ hollow : chain[n.sig] = "confirmed"

\* A rollback names a slot below the finalized one.
RolledIsFinal == \A n \in rolled : n.slot < head

IInv ==
  /\ TypeOK
  /\ Finality
  /\ SweepIsPending
  /\ GoneForgets
  /\ ReadsStayTrue
  /\ ExpiredIsGone
  /\ AnnouncementsCover
  /\ StoreThenPublish
  /\ SentIsKept
  /\ WholeIsConfirmed
  /\ RolledIsFinal
  /\ PromotedIsConfirmed
  /\ RollbackIsSound
  /\ TracesAreGrounded
-----------------------------------------------------------------------------
(* The stream seen by its consumer. *)

Feed == INSTANCE CommitmentFeed WITH
          open <- [s \in Sigs |-> ann[s] - con[s] - rbk[s]],
          final <- {s \in Sigs : chain[s] = "confirmed"},
          promoted <- {s \in Sigs : con[s] > 0}

\* The worker, with its crashes, restarts and failed calls, sends nothing the
\* abstract stream could not: each verdict sent answers an open announcement,
\* and a confirmation comes after the cluster's.
ImplementsFeed == Feed!Spec
=============================================================================
