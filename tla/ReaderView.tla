----------------------------- MODULE ReaderView -----------------------------
(***************************************************************************)
(* What readers of the transaction tables are promised: a transaction is   *)
(* shown only if it was announced, disappears only if the cluster gave it  *)
(* up according to the stream, does not come back, and is called confirmed *)
(* only if the cluster has confirmed it - whatever is lost, repeated or    *)
(* reordered on the way.  Pipeline implements this specification.          *)
(***************************************************************************)
EXTENDS Naturals

CONSTANT Sigs   \* transaction signatures

VARIABLES
  final,      \* signatures the cluster has confirmed
  announced,  \* signatures the stream has announced
  retracted,  \* signatures the stream has rolled back
  view,       \* what readers see of each signature
  confirmed   \* signatures readers are told are confirmed

vars == <<final, announced, retracted, view, confirmed>>

Settle(s) ==
  /\ final' = final \cup {s}
  /\ UNCHANGED <<announced, retracted, view, confirmed>>

Announce(s) ==
  /\ announced' = announced \cup {s}
  /\ UNCHANGED <<final, retracted, view, confirmed>>

Retract(s) ==
  /\ s \in announced
  /\ retracted' = retracted \cup {s}
  /\ UNCHANGED <<final, announced, view, confirmed>>

Show(s) ==
  /\ s \in announced
  /\ view[s] = "absent"
  /\ view' = [view EXCEPT ![s] = "shown"]
  /\ UNCHANGED <<final, announced, retracted, confirmed>>

Hide(s) ==
  /\ s \in retracted
  /\ view' = [view EXCEPT ![s] = "hidden"]
  /\ UNCHANGED <<final, announced, retracted, confirmed>>

CallConfirmed(s) ==
  /\ s \in final \cap announced
  /\ confirmed' = confirmed \cup {s}
  /\ UNCHANGED <<final, announced, retracted, view>>

Init ==
  /\ final = {}
  /\ announced = {}
  /\ retracted = {}
  /\ view = [s \in Sigs |-> "absent"]
  /\ confirmed = {}

Next ==
  \E s \in Sigs : \/ Settle(s) \/ Announce(s) \/ Retract(s)
                  \/ Show(s) \/ Hide(s) \/ CallConfirmed(s)

Spec == Init /\ [][Next]_vars
=============================================================================
