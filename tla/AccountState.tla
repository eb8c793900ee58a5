---------------------------- MODULE AccountState -----------------------------
(***************************************************************************)
(* A tracked account on its way from the cluster to the state timeline:    *)
(* ingest_tracked_accounts of the ingestor, once per loop of a program's   *)
(* worker, the stream RAW_ACCOUNT, and run_account_loop of the decoder     *)
(* with its three tables.  Programs may track the same account; its rows   *)
(* are keyed without the program.                                          *)
(*                                                                         *)
(* What the account holds is a number that grows with every write to it.   *)
(* The worker reads it as processed, and dates it by the program's newest  *)
(* finalized transaction, which it has asked for before.  Nobody else      *)
(* writes the tables, so that one step stands for all statements of a      *)
(* message: those up to the one that fails.                                *)
(***************************************************************************)
EXTENDS Naturals, Sequences, FiniteSets

CONSTANTS
  Trackers,    \* programs that may track the account
  MaxFinal,    \* bound: slots that are finalized
  MaxWrites,   \* bound: writes to the account
  MaxSnaps,    \* bound: messages
  MaxUpsets    \* bound: calls that fail, lost acknowledgements, exits, and programs
               \* beyond the first

ASSUME AccountStateAssumption ==
  /\ IsFiniteSet(Trackers)
  /\ MaxFinal \in Nat /\ MaxWrites \in Nat /\ MaxSnaps \in Nat /\ MaxUpsets \in Nat

Stream == INSTANCE JetStream

VARIABLES
  tracking,  \* the programs that have added it to their tracked accounts
  ledger,    \* external: the finalized slot, of each program the slot of its newest
             \* finalized transaction, what the account holds, and what it held
             \* when a slot became the newest of a program
  dated,     \* of each worker: the slot it has read for its snapshot, or NoSlot
  blobs,     \* S3: raw/<cluster>/<program>/<slot>/account-<account>
  rawAccount,    \* the stream
  batch,     \* messages of the fetch that the decoder has still to handle
  written,   \* account_writes
  current,   \* account_state, one row
  timeline,  \* account_state_history: of each slot the row, or NoRow
  upsets

acctVars == <<tracking, ledger, dated, blobs, rawAccount, batch, written, current, timeline, upsets>>
tableVars == <<written, current, timeline>>

SlotsSeen == 0 .. MaxFinal
NoSlot == MaxFinal + 1
Row(p, s, c) == [prog |-> p, slot |-> s, holds |-> c]
NoRow == Row(CHOOSE p \in Trackers : TRUE, NoSlot, 0)

AccountStateInit ==
  /\ tracking \in (SUBSET Trackers) \ {{}}
  /\ ledger = [slot |-> 0, newest |-> [p \in Trackers |-> 0], holds |-> 0,
               held |-> [p \in Trackers |-> [s \in SlotsSeen |-> 0]]]
  /\ dated = [p \in Trackers |-> NoSlot]
  /\ blobs = [p \in Trackers |-> [s \in SlotsSeen |-> 0]]
  /\ rawAccount = <<>> /\ batch = {} /\ written = {} /\ current = NoRow
  /\ timeline = [s \in SlotsSeen |-> NoRow] /\ upsets = 0

Upset == upsets + Cardinality(tracking) <= MaxUpsets /\ upsets' = upsets + 1
-----------------------------------------------------------------------------
(* External: the cluster. *)

SlotIsFinalized == \E S \in (SUBSET tracking) \ {{}} :
  /\ ledger.slot < MaxFinal
  /\ ledger' = [ledger EXCEPT !.slot = @ + 1,
       !.newest = [p \in Trackers |-> IF p \in S THEN ledger.slot + 1 ELSE @[p]],
       !.held = [p \in Trackers |-> IF p \in S THEN [@[p] EXCEPT ![ledger.slot + 1] = ledger.holds] ELSE @[p]]]
  /\ UNCHANGED <<tracking, dated, blobs, rawAccount, batch, tableVars, upsets>>

AccountIsWritten ==
  /\ ledger.holds < MaxWrites
  /\ ledger' = [ledger EXCEPT !.holds = @ + 1]
  /\ UNCHANGED <<tracking, dated, blobs, rawAccount, batch, tableVars, upsets>>
-----------------------------------------------------------------------------
(* ingest_tracked_accounts. *)

\* getSignaturesForAddress, whose failure reads like a program without transactions.
ReadNewestSlot(p) ==
  /\ dated[p] = NoSlot /\ Len(rawAccount) < MaxSnaps
  /\ \/ dated' = [dated EXCEPT ![p] = ledger.newest[p]] /\ UNCHANGED upsets
     \/ Upset /\ dated' = [dated EXCEPT ![p] = 0]
  /\ UNCHANGED <<tracking, ledger, blobs, rawAccount, batch, tableVars>>

\* The account is read, stored under the slot, where the next snapshot of the slot
\* replaces it, and announced.
TakeSnapshot(p) ==
  /\ dated[p] # NoSlot /\ Len(rawAccount) < MaxSnaps
  /\ blobs' = [blobs EXCEPT ![p][dated[p]] = ledger.holds]
  /\ rawAccount' = Stream!Publish(rawAccount, [prog |-> p, slot |-> dated[p]])
  /\ dated' = [dated EXCEPT ![p] = NoSlot]
  /\ UNCHANGED <<tracking, ledger, batch, tableVars, upsets>>

\* A call fails, and its error is dropped; or the task is aborted and started anew.
SnapshotFails(p) ==
  /\ dated[p] # NoSlot /\ Upset
  /\ \/ blobs' = [blobs EXCEPT ![p][dated[p]] = ledger.holds]
     \/ UNCHANGED blobs
  /\ dated' = [dated EXCEPT ![p] = NoSlot]
  /\ UNCHANGED <<tracking, ledger, rawAccount, batch, tableVars>>
-----------------------------------------------------------------------------
(* run_account_loop and decode_account_message. *)

FetchAccounts ==
  /\ batch = {} /\ Stream!Waiting(rawAccount) # {}
  /\ batch' = Stream!Waiting(rawAccount) /\ rawAccount' = Stream!Deliver(rawAccount)
  /\ UNCHANGED <<tracking, ledger, dated, blobs, tableVars, upsets>>

InsertWrite(row) == written' = written \cup {row}

\* ON CONFLICT (account) DO UPDATE, of all but the program, whatever the slots.
UpsertCurrent(row) == current' = IF current = NoRow THEN row ELSE [row EXCEPT !.prog = current.prog]

\* ON CONFLICT (account, slot) DO NOTHING.
InsertTimeline(row) ==
  timeline' = IF timeline[row.slot] = NoRow THEN [timeline EXCEPT ![row.slot] = row] ELSE timeline

\* The message names the blob; what the blob holds by now is decoded and stored.
Stored(m) == Row(m.prog, m.slot, blobs[m.prog][m.slot])

DecodeAccount(i) ==
  LET row == Stored(rawAccount[i].body)
  IN InsertWrite(row) /\ UpsertCurrent(row) /\ InsertTimeline(row)

\* The blob, the first, the second or the third statement fails.
DecodeAccountFails(i) ==
  LET row == Stored(rawAccount[i].body)
  IN \/ UNCHANGED tableVars
     \/ InsertWrite(row) /\ UNCHANGED <<current, timeline>>
     \/ InsertWrite(row) /\ UpsertCurrent(row) /\ UNCHANGED timeline

\* Either way the message is acknowledged.
HandleAccount == \E i \in batch :
  /\ Stream!Foremost(rawAccount, batch, i)
  /\ \/ DecodeAccount(i) /\ UNCHANGED upsets
     \/ DecodeAccountFails(i) /\ Upset
  /\ rawAccount' = Stream!Acknowledge(rawAccount, i) /\ batch' = batch \ {i}
  /\ UNCHANGED <<tracking, ledger, dated, blobs>>

\* The acknowledgement is lost.
AccountAckIsLost == \E i \in batch :
  /\ Stream!Foremost(rawAccount, batch, i)
  /\ DecodeAccount(i) /\ Upset /\ batch' = batch \ {i}
  /\ UNCHANGED <<tracking, ledger, dated, blobs, rawAccount>>

\* The decoder ends, for whatever reason, and is started again.
AccountLoopEnds ==
  /\ batch # {} /\ Upset /\ batch' = {}
  /\ \/ \E i \in batch : Stream!Foremost(rawAccount, batch, i) /\ DecodeAccountFails(i)
     \/ UNCHANGED tableVars
  /\ UNCHANGED <<tracking, ledger, dated, blobs, rawAccount>>

AccountWaitPasses == \E i \in DOMAIN rawAccount \ batch :
  /\ rawAccount[i].at = "out"
  /\ rawAccount' = Stream!Expire(rawAccount, i)
  /\ UNCHANGED <<tracking, ledger, dated, blobs, batch, tableVars, upsets>>

AccountLoop == FetchAccounts \/ HandleAccount \/ AccountAckIsLost \/ AccountLoopEnds

AcctNext ==
  \/ SlotIsFinalized \/ AccountIsWritten \/ AccountLoop \/ AccountWaitPasses
  \/ \E p \in tracking : ReadNewestSlot(p) \/ TakeSnapshot(p) \/ SnapshotFails(p)

AcctSpec == AccountStateInit /\ [][AcctNext]_acctVars
-----------------------------------------------------------------------------

Rows == {r \in {timeline[s] : s \in SlotsSeen} : r # NoRow}
Alone == Cardinality(tracking) = 1

AcctTypeOK ==
  /\ dated \in [Trackers -> SlotsSeen \cup {NoSlot}] /\ upsets \in 0 .. MaxUpsets
  /\ rawAccount \in Seq(Stream!Entries([prog : Trackers, slot : SlotsSeen])) /\ batch \subseteq DOMAIN rawAccount

\* A row dated by a slot never shows what the account held before that slot was
\* finalized for the program that was read; it may show what it held much later.
NothingIsDatedTooLate == \A r \in Rows \cup written : r.holds >= ledger.held[r.prog][r.slot]

\* The timeline keeps the first snapshot of a slot and the row of the account its
\* latest: when one program tracks the account, the row never shows less than any
\* row of the timeline that was stored for its slot, whatever is delivered again.
TimelineIsNoNewerThanTheRow ==
  Alone /\ current # NoRow /\ timeline[current.slot] # NoRow =>
    /\ timeline[current.slot].holds <= current.holds
    /\ \A w \in written : w.slot = current.slot /\ upsets = 0 => timeline[current.slot].holds <= w.holds

\* The row is of the newest slot that was stored, except after a failure, a redelivery,
\* or when several programs date the account.
BackNeedsAnUpset == Alone /\ upsets = 0 => \A r \in Rows : r.slot <= current.slot

\* Every row of the account has its entry in account_writes, on which alerts are
\* evaluated, and without a failure in the timeline.
TablesAgree ==
  /\ Rows \subseteq written
  /\ current # NoRow => \E w \in written : w.slot = current.slot /\ w.holds = current.holds
  /\ current # NoRow /\ upsets = 0 => timeline[current.slot] # NoRow

AcctInv == AcctTypeOK /\ NothingIsDatedTooLate /\ TimelineIsNoNewerThanTheRow /\ BackNeedsAnUpset /\ TablesAgree
=============================================================================
