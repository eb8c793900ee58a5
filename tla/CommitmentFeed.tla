--------------------------- MODULE CommitmentFeed ---------------------------
(***************************************************************************)
(* What the RAW_TX stream promises its consumer about commitment: every    *)
(* verdict answers an announcement made before it, and a signature is      *)
(* called confirmed only after the cluster has confirmed it.  How often a  *)
(* signature is announced is left open: the stream is at-least-once.       *)
(* Ingestor implements this specification, where a step is a message sent: *)
(* the ingestor does not wait for the acknowledgement that it is stored.   *)
(***************************************************************************)
EXTENDS Naturals

CONSTANT Sigs   \* transaction signatures

VARIABLES
  open,      \* announcements of each signature without a verdict so far
  final,     \* signatures the cluster has confirmed
  promoted   \* signatures the stream has called confirmed

vars == <<open, final, promoted>>

Settle(s) ==
  /\ final' = final \cup {s}
  /\ UNCHANGED <<open, promoted>>

Announce(s) ==
  /\ open' = [open EXCEPT ![s] = @ + 1]
  /\ UNCHANGED <<final, promoted>>

Confirm(s) ==
  /\ open[s] > 0
  /\ s \in final
  /\ open' = [open EXCEPT ![s] = @ - 1]
  /\ promoted' = promoted \cup {s}
  /\ UNCHANGED final

Retract(s) ==
  /\ open[s] > 0
  /\ open' = [open EXCEPT ![s] = @ - 1]
  /\ UNCHANGED <<final, promoted>>

Init ==
  /\ open = [s \in Sigs |-> 0]
  /\ final = {}
  /\ promoted = {}

Next == \E s \in Sigs : Settle(s) \/ Announce(s) \/ Confirm(s) \/ Retract(s)

Spec == Init /\ [][Next]_vars
=============================================================================
