------------------------------ MODULE JetStream ------------------------------
(***************************************************************************)
(* External: a stream of NATS JetStream with one durable pull consumer, as *)
(* the services rely on it.  A stream is the sequence of what was          *)
(* published, each entry with the state the server keeps for the consumer: *)
(*                                                                         *)
(*   "new"    not delivered yet                                            *)
(*   "out"    delivered, its acknowledgement outstanding                   *)
(*   "again"  the acknowledgement did not come in time: to be redelivered  *)
(*   "acked"  done                                                         *)
(*                                                                         *)
(* "tries" counts deliveries.  There is no limit on them: no service sets  *)
(* max_deliver.  A fetch takes all there is (at most 50 in the code, more  *)
(* than any instance here publishes), redeliveries before new messages and *)
(* new ones in order.                                                      *)
(***************************************************************************)
EXTENDS Naturals, Sequences

States == {"new", "out", "again", "acked"}

\* The entries of a stream of messages with bodies in B.
Entries(B) == [body : B, at : States, tries : Nat]

Publish(q, b) == Append(q, [body |-> b, at |-> "new", tries |-> 0])

Waiting(q) == {i \in DOMAIN q : q[i].at \in {"new", "again"}}

\* All that waits is handed to the client that asked.
Deliver(q) ==
  [i \in DOMAIN q |->
     IF i \in Waiting(q)
       THEN [q[i] EXCEPT !.at = "out", !.tries = @ + 1]
       ELSE q[i]]

\* The entry of a batch that the client may see next.
Foremost(q, batch, i) ==
  /\ i \in batch
  /\ q[i].tries > 1 \/ \A j \in batch : q[j].tries = 1 /\ i <= j

Acknowledge(q, i) == [q EXCEPT ![i].at = "acked"]

\* AckWait of a message passes.  While the client still works through its
\* batch it has no fetch open, so this shows only in the next one.
Expire(q, i) == [q EXCEPT ![i].at = "again"]

Settled(q) == {i \in DOMAIN q : q[i].at = "acked"}
=============================================================================
