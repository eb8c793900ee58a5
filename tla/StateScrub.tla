----------------------------- MODULE StateScrub -----------------------------
(***************************************************************************)
(* The state timeline: GET /state/... of routes/programs.ts and the state  *)
(* panel, which reads the history of an account, the state at the slot of  *)
(* its slider and the state at the slot before, each by an effect of its   *)
(* own and none of them cancelled.  The decoder writes rows of the history *)
(* meanwhile, in any order of their slots.  Next answers the server        *)
(* actions of a tab in order; a call that throws is caught by nobody, and  *)
(* a refusal is an answer like any other.                                  *)
(*                                                                         *)
(* A state is a set of fields with values; what a field holds is a number, *)
(* and a field that is missing holds none.                                 *)
(***************************************************************************)
EXTENDS Naturals, Sequences, FiniteSets

CONSTANTS
  Accounts,     \* tracked accounts
  NoAccount,    \* nothing selected
  Fields,
  MaxSlot,      \* bound: slots
  MaxWritten,   \* bound: rows of all accounts
  HistoryTake,  \* rows a history answer holds: 500
  MaxMoves      \* bound: clicks and moves of the slider

ASSUME StateScrubAssumption ==
  /\ NoAccount \notin Accounts
  /\ MaxSlot \in Nat /\ HistoryTake \in Nat \ {0} /\ MaxMoves \in Nat
  /\ MaxWritten \in Nat

VARIABLES
  hist,    \* account_state_history: of each account, slot and field the value
           \* held, where a row with no field at all is no row
  calls,   \* server actions of the tab, in order
  seen,    \* account, deltas, slot, stateAtSlot, prevState of the panel
  moves,
  \* for the properties alone:
  prevRaced,   \* whether the state before was reset while a read of one was under way
  failed       \* kinds of calls whose last one threw or was refused

scrubVars == <<hist, calls, seen, moves, prevRaced, failed>>

Slots == 1 .. MaxSlot
Values == 0 .. 1
State == [Fields -> Values \cup {2}]   \* 2: the field is missing
Missing == 2
Nothing == [f \in Fields |-> Missing]
HeldAt(a, s) == IF a \in Accounts /\ s \in Slots THEN hist[a][s] ELSE Nothing
RowsOf(a) == {s \in Slots : hist[a][s] # Nothing}

ScrubInit ==
  /\ hist = [a \in Accounts |-> [s \in Slots |-> Nothing]]
  /\ calls = <<>>
  /\ seen = [account |-> NoAccount, deltas |-> {}, slot |-> 0, cur |-> Nothing, prev |-> Nothing]
  /\ moves = 0 /\ prevRaced = FALSE /\ failed = {}

\* The decoder.  Messages come out of order and more than once: a row may be older than
\* the others, and is never written over.
Decode == \E a \in Accounts, s \in Slots, v \in State \ {Nothing} :
  /\ s \notin RowsOf(a) /\ Cardinality(UNION {{<<b, r>> : r \in RowsOf(b)} : b \in Accounts}) < MaxWritten
  /\ hist' = [hist EXCEPT ![a][s] = v]
  /\ UNCHANGED <<calls, seen, moves, prevRaced, failed>>
-----------------------------------------------------------------------------
(* GET /state/:account/history and GET /state/:account?slot.                *)

\* The rows are taken in ascending order: the earliest ones.
Earliest(a) == {s \in RowsOf(a) : Cardinality({r \in RowsOf(a) : r < s}) < HistoryTake}

Before(rows, s) == {r \in rows : r < s}
LastRow(rows) == CHOOSE s \in rows : \A r \in rows : r <= s

\* A field that is gone is no changed field.
ChangedFields(rows, a, s) ==
  LET prev == IF Before(rows, s) = {} THEN Nothing ELSE HeldAt(a, LastRow(Before(rows, s)))
  IN {f \in Fields : HeldAt(a, s)[f] # Missing /\ HeldAt(a, s)[f] # prev[f]}

Deltas(a) == {[slot |-> s, fields |-> ChangedFields(Earliest(a), a, s)] : s \in Earliest(a)}
SlotsOf(deltas) == {d.slot : d \in deltas}
-----------------------------------------------------------------------------
(* The panel. *)

ScrubCall(op, a, s) == [op |-> op, account |-> a, slot |-> s, served |-> FALSE, answer |-> Nothing, rows |-> {}]

\* Mutant of Effect: the slot before is asked for, whether it has a row or not.
EffectSlotBefore(p, q) ==
  IF p.account = NoAccount \/ p.slot = 0 THEN seen' = p /\ calls' = q /\ UNCHANGED <<prevRaced, failed>>
  ELSE /\ seen' = p
       /\ calls' = q \o <<ScrubCall("cur", p.account, p.slot), ScrubCall("prev", p.account, p.slot - 1)>>
       /\ prevRaced' = FALSE /\ UNCHANGED failed

\* The effect of account, slot and deltas: asks for the state at the slot and
\* for the one before; without one before it resets prevState at once.
Effect(p, q) ==
  LET before == Before(SlotsOf(p.deltas), p.slot)
  IN IF p.account = NoAccount \/ p.slot = 0 THEN seen' = p /\ calls' = q /\ UNCHANGED <<prevRaced, failed>>
     ELSE IF before = {}
     THEN /\ seen' = [p EXCEPT !.prev = Nothing]
          /\ calls' = Append(q, ScrubCall("cur", p.account, p.slot))
          /\ prevRaced' = (\E n \in 1 .. Len(q) : q[n].op = "prev") /\ failed' = failed \ {"prev"}
     ELSE /\ seen' = p
          /\ calls' = q \o <<ScrubCall("cur", p.account, p.slot), ScrubCall("prev", p.account, LastRow(before))>>
          /\ prevRaced' = FALSE /\ UNCHANGED failed

\* Choosing an account asks for its history, and for its states at the slot
\* the slider has from the last one.
Choose(a) ==
  /\ a # seen.account
  /\ moves < MaxMoves /\ moves' = moves + 1
  /\ Effect([seen EXCEPT !.account = a], Append(calls, ScrubCall("history", a, 0)))
  /\ UNCHANGED hist

Slide(s) ==
  /\ s # seen.slot
  /\ \E d, e \in seen.deltas : d.slot <= s /\ s <= e.slot
  /\ moves < MaxMoves /\ moves' = moves + 1
  /\ Effect([seen EXCEPT !.slot = s], calls)
  /\ UNCHANGED hist

ServeScrub ==
  /\ calls # <<>> /\ ~Head(calls).served
  /\ LET c == Head(calls)
     IN calls' = [calls EXCEPT ![1] = [@ EXCEPT !.served = TRUE,
                    !.answer = IF c.op = "history" THEN Nothing ELSE HeldAt(c.account, c.slot),
                    !.rows = IF c.op = "history" THEN Deltas(c.account) ELSE {}]]
  /\ failed' = failed \ {Head(calls).op}
  /\ UNCHANGED <<hist, seen, moves, prevRaced>>

\* The session or the membership is gone: an answer without rows and without a row.
RefuseScrub ==
  /\ calls # <<>> /\ ~Head(calls).served
  /\ calls' = [calls EXCEPT ![1] = [@ EXCEPT !.served = TRUE, !.answer = Nothing, !.rows = {}]]
  /\ failed' = failed \cup {Head(calls).op}
  /\ UNCHANGED <<hist, seen, moves, prevRaced>>

\* The call throws, or its answer is lost: what is shown stays, whatever it was of.
ScrubCallFails ==
  /\ calls # <<>> /\ calls' = Tail(calls)
  /\ failed' = failed \cup {Head(calls).op}
  /\ UNCHANGED <<hist, seen, moves, prevRaced>>

\* The slider goes to the end of a history that has one.
HistoryRead ==
  /\ calls # <<>> /\ Head(calls).served /\ Head(calls).op = "history"
  /\ LET rows == Head(calls).rows
     IN Effect([seen EXCEPT !.deltas = rows,
                            !.slot = IF rows = {} THEN @ ELSE LastRow(SlotsOf(rows))], Tail(calls))
  /\ UNCHANGED <<hist, moves>>

StateRead ==
  /\ calls # <<>> /\ Head(calls).served /\ Head(calls).op # "history"
  /\ seen' = IF Head(calls).op = "cur" THEN [seen EXCEPT !.cur = Head(calls).answer]
             ELSE [seen EXCEPT !.prev = Head(calls).answer]
  /\ calls' = Tail(calls)
  /\ UNCHANGED <<hist, moves, prevRaced, failed>>

ScrubNext ==
  \/ Decode \/ ServeScrub \/ RefuseScrub \/ ScrubCallFails \/ HistoryRead \/ StateRead
  \/ \E a \in Accounts : Choose(a)
  \/ \E s \in Slots : Slide(s)

ScrubSpec == ScrubInit /\ [][ScrubNext]_scrubVars
-----------------------------------------------------------------------------
(* What the panel shows. *)

SimpleDiff == {f \in Fields : seen.prev[f] # seen.cur[f]}

ScrubTypeOK ==
  /\ seen.slot \in 0 .. MaxSlot /\ seen.cur \in State /\ seen.prev \in State
  /\ seen.account \in Accounts \cup {NoAccount}

Settled == calls = <<>> /\ seen.account # NoAccount

\* However fast the slider moves and accounts are chosen: the state shown in the end is
\* the one at the slot, of the account chosen last, unless reading it failed.  A row
\* written after the reading is not shown, but never one the panel had in its history.
StateIsAtTheSlot == Settled /\ seen.slot > 0 /\ "cur" \notin failed =>
  \/ seen.cur = HeldAt(seen.account, seen.slot)
  \/ seen.cur = Nothing /\ (seen.slot \notin SlotsOf(seen.deltas) \/ "history" \in failed)

\* And it is compared with the row before it in the history read, unless reading that
\* failed or the slider went to the first row while an earlier one was being read.
ComparedWithTheRowBefore ==
  LET before == Before(SlotsOf(seen.deltas), seen.slot)
  IN Settled /\ seen.slot > 0 /\ ~prevRaced /\ "prev" \notin failed =>
       \/ before = {} /\ seen.prev = Nothing
       \/ before # {} /\ seen.prev = HeldAt(seen.account, LastRow(before))
       \/ seen.prev = Nothing /\ "history" \in failed

\* The fields the backend calls changed at a slot are in the difference shown
\* there, and what else is shown there has gone from the account: also after rows
\* older than those read were written.
DiffAgreesWithTheHistory == \A d \in seen.deltas :
  Settled /\ ~prevRaced /\ failed = {} /\ d.slot = seen.slot =>
    /\ d.fields \subseteq SimpleDiff
    /\ \A f \in SimpleDiff \ d.fields : seen.cur[f] = Missing

\* What the state panel shows at rest of calls that were answered is what the history
\* held: the state, what it is compared with, and the difference.
ScrubInv ==
  /\ ScrubTypeOK /\ StateIsAtTheSlot /\ ComparedWithTheRowBefore
  /\ DiffAgreesWithTheHistory
=============================================================================
