------------------------------- MODULE Outbox -------------------------------
(***************************************************************************)
(* What a notification outbox with idempotency keys promises: an item is   *)
(* queued once, tried only while it is queued, and settled once; it counts *)
(* as sent only after a try, unless it is one that has nowhere to go: such *)
(* an item is never tried.  Alerter implements this specification.         *)
(***************************************************************************)
EXTENDS Naturals

CONSTANTS
  Items,   \* idempotency keys
  Mute     \* those for which no request is made

VARIABLES
  phase,   \* "absent", "queued", "sent" or "failed"
  tries    \* requests made for each item

vars == <<phase, tries>>

Enqueue(k) ==
  /\ phase[k] = "absent"
  /\ phase' = [phase EXCEPT ![k] = "queued"]
  /\ UNCHANGED tries

Try(k) ==
  /\ phase[k] = "queued"
  /\ k \notin Mute
  /\ tries' = [tries EXCEPT ![k] = @ + 1]
  /\ UNCHANGED phase

Settle(k) ==
  /\ phase[k] = "queued"
  /\ \/ phase' = [phase EXCEPT ![k] = "sent"] /\ (tries[k] > 0 \/ k \in Mute)
     \/ phase' = [phase EXCEPT ![k] = "failed"]
  /\ UNCHANGED tries

Init ==
  /\ phase = [k \in Items |-> "absent"]
  /\ tries = [k \in Items |-> 0]

Next == \E k \in Items : Enqueue(k) \/ Try(k) \/ Settle(k)

Spec == Init /\ [][Next]_vars
=============================================================================
