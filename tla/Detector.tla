------------------------------ MODULE Detector -------------------------------
(***************************************************************************)
(* services/intel: the detector of sandwiches.  It consumes the decoded    *)
(* transactions of all programs that opted in, in the order in which they  *)
(* were decoded, keeps the last of them in a window, and looks in it for   *)
(* two transactions of one signer around the one that has just arrived.    *)
(*                                                                         *)
(* The stream it consumes, DECODED_LIVE, is created by none of the         *)
(* services: unless an operator did, the detector ends when it starts.     *)
(* External: the stream, which may deliver again what was acknowledged     *)
(* too late.                                                               *)
(***************************************************************************)
EXTENDS Naturals, Integers, Sequences, FiniteSets, FiniteSetsExt

CONSTANTS
  Signers,
  Sites,        \* programs that opted in
  SlotRange,    \* SLOT_RANGE: 2
  WindowSize,   \* WIN: 256
  MaxSeen,      \* bound: transactions decoded, and those looked at, again or not
  MaxSlots      \* bound: slots

ASSUME DetectorAssumption ==
  /\ SlotRange \in Nat /\ WindowSize \in Nat \ {0} /\ MaxSeen \in Nat /\ MaxSlots \in Nat

VARIABLES
  decoded,    \* transactions in the order in which each was first looked at, named by their place
  window,     \* the ring: their names
  arrived,    \* all that were looked at, again or not, in order
  findings,   \* mev_findings: transaction, the two related ones, the delivery
  detecting   \* whether there was a stream when the service started, and no error since

detectorVars == <<decoded, window, arrived, findings, detecting>>

Spotted == [slot : 1 .. MaxSlots, signer : Signers, site : Sites]

DetectorInit ==
  /\ decoded = <<>> /\ window = <<>> /\ arrived = <<>> /\ findings = {}
  /\ detecting \in BOOLEAN

\* push_back, and pop_front while there are too many.
Pushed(ring, n) == IF Len(ring) = WindowSize THEN Append(Tail(ring), n) ELSE Append(ring, n)

Distance(a, b) == IF a < b THEN b - a ELSE a - b

\* The others' transactions nearby, by their places in the ring.
Nearby(txs, ring, n) ==
  {k \in DOMAIN ring : /\ ring[k] # n /\ txs[ring[k]].signer # txs[n].signer
                       /\ Distance(txs[ring[k]].slot, txs[n].slot) <= SlotRange}

\* detect_sandwich: of those of earlier and of later slots the last ones in the ring,
\* and only these two, are compared; none, or the pair around transaction n.
Detect(txs, ring, n) ==
  LET earlier == {k \in Nearby(txs, ring, n) : txs[ring[k]].slot < txs[n].slot}
      later == {k \in Nearby(txs, ring, n) : txs[ring[k]].slot > txs[n].slot}
  IN IF earlier = {} \/ later = {} THEN {}
     ELSE {p \in {<<ring[Max(earlier)], ring[Max(later)]>>} : txs[p[1]].signer = txs[p[2]].signer}

\* The message is acknowledged before it is looked at: what fails then is lost.
LookAt(txs, n) ==
  LET ring == Pushed(window, n)
  IN /\ window' = ring /\ arrived' = Append(arrived, n)
     /\ \/ findings' = findings \cup {[of |-> n, before |-> r[1], after |-> r[2], at |-> Len(arrived')]
                                        : r \in Detect(txs, ring, n)}
        \/ UNCHANGED findings

\* Of a program that opted in.  One whose query of mev_detection_enabled fails reads
\* like one that did not, and leaves no trace here.
TransactionArrives == \E t \in Spotted :
  /\ detecting /\ Len(decoded) < MaxSeen
  /\ decoded' = Append(decoded, t)
  /\ LookAt(decoded', Len(decoded'))
  /\ UNCHANGED detecting

ArrivesAgain == \E n \in DOMAIN decoded :
  /\ detecting /\ Len(arrived) < MaxSeen
  /\ LookAt(decoded, n)
  /\ UNCHANGED <<decoded, detecting>>

\* An error of the consumer ends the loop, with its window; the process goes on.
LoopBreaks ==
  /\ detecting /\ detecting' = FALSE /\ window' = <<>>
  /\ UNCHANGED <<decoded, arrived, findings>>

DetectorNext == TransactionArrives \/ ArrivesAgain \/ LoopBreaks

DetectorSpec == DetectorInit /\ [][DetectorNext]_detectorVars
-----------------------------------------------------------------------------

DetectorTypeOK ==
  /\ decoded \in Seq(Spotted) /\ Len(window) <= WindowSize
  /\ \A k \in DOMAIN window : window[k] \in DOMAIN decoded

\* What is recorded is a sandwich by its slots and signers; the programs may differ.
FindingsAreSandwiches == \A f \in findings :
  /\ decoded[f.before].slot < decoded[f.of].slot /\ decoded[f.of].slot < decoded[f.after].slot
  /\ decoded[f.before].signer = decoded[f.after].signer /\ decoded[f.before].signer # decoded[f.of].signer
  /\ decoded[f.after].slot - decoded[f.before].slot <= 2 * SlotRange

\* While transactions arrive in the order of their slots, each once, nothing is found,
\* whatever they do: the third of a sandwich arrives after the one it surrounds.
OrderFindsNothing ==
  (\A k, l \in DOMAIN arrived : k < l => decoded[arrived[k]].slot <= decoded[arrived[l]].slot) => findings = {}

\* A finding needs a transaction that arrives, or arrives again, after one of a later
\* slot which is still in the window.
FindingsAreLate == \A f \in findings : \E k \in 1 .. f.at - 1 :
  f.at - k < WindowSize /\ arrived[k] = f.after

DetectorInv == DetectorTypeOK /\ FindingsAreSandwiches /\ OrderFindsNothing /\ FindingsAreLate
=============================================================================
