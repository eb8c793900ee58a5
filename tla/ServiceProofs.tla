----------------------------- MODULE ServiceProofs ---------------------------
(***************************************************************************)
(* Proofs about the services' own state: what the detector of sandwiches   *)
(* records, what the tables of a tracked account tell of each other, and   *)
(* that the registry hides no version without a reason and resolves for    *)
(* good; then of the three side by side.                                   *)
(***************************************************************************)
EXTENDS MCServices, FiniteSetTheorems, SequenceTheorems, WellFoundedInduction, TLAPS

-----------------------------------------------------------------------------
(* Detector. *)

\* A nonempty set of places in a sequence has a last one.
LEMMA MaxIsMember ==
  ASSUME NEW n \in Nat, NEW S \in SUBSET (1 .. n), S # {}
  PROVE  Max(S) \in S /\ \A y \in S : Max(S) >= y
<1> DEFINE R == OpToRel(<, Nat)
           T == {n - x : x \in S}
<1>1. T \subseteq Nat /\ T # {}
  <2>1. \A x \in S : n - x \in Nat
    OBVIOUS
  <2> QED
    BY <2>1
<1>2. IsWellFoundedOn(R, Nat)
  BY NatLessThanWellFounded, Zenon
<1>3. PICK m \in T : \A y \in T : ~(<<y, m>> \in R)
  BY <1>1, <1>2, WFMin, Zenon
<1>4. PICK x \in S : m = n - x
  BY <1>3
<1>5. \A y \in S : x >= y
  <2> TAKE y \in S
  <2>1. n - y \in T /\ n - y \in Nat /\ m \in Nat
    BY <1>1, <1>3
  <2>2. ~(n - y < m)
    BY <1>3, <2>1 DEF OpToRel
  <2> QED
    BY <1>4, <2>1, <2>2
<1>6. Max(S) \in S /\ \A y \in S : Max(S) >= y
  BY <1>5 DEF Max
<1> QED
  BY <1>6

\* The ring holds the last arrivals, in their order.
RingIsTheEnd ==
  /\ Len(window) <= WindowSize /\ Len(window) <= Len(arrived)
  /\ \A k \in 1 .. Len(window) : window[k] = arrived[Len(arrived) - Len(window) + k]

\* Findings name transactions there are; each was made when the transaction it is of
\* arrived, after the later of the two around it, and that one was in the ring.
FindingOK(f) ==
  /\ f.of \in DOMAIN decoded /\ f.before \in DOMAIN decoded /\ f.after \in DOMAIN decoded
  /\ f.at \in 1 .. Len(arrived) /\ arrived[f.at] = f.of
  /\ decoded[f.before].slot < decoded[f.of].slot /\ decoded[f.of].slot < decoded[f.after].slot
  /\ decoded[f.before].signer = decoded[f.after].signer /\ decoded[f.before].signer # decoded[f.of].signer
  /\ decoded[f.after].slot - decoded[f.before].slot <= 2 * SlotRange
  /\ \E k \in 1 .. f.at - 1 : f.at - k < WindowSize /\ arrived[k] = f.after

DetectorIInv ==
  /\ decoded \in Seq(Spotted)
  /\ arrived \in Seq(Nat) /\ \A k \in 1 .. Len(arrived) : arrived[k] \in DOMAIN decoded
  /\ window \in Seq(Nat) /\ RingIsTheEnd
  /\ \A f \in findings : FindingOK(f)

\* What the ring and the arrivals are after one more.
OneMore(ring, seen, n) ==
  /\ ring \in Seq(Nat) /\ Len(ring) \in 1 .. WindowSize /\ ring[Len(ring)] = n
  /\ seen \in Seq(Nat) /\ Len(seen) = Len(arrived) + 1 /\ Len(ring) <= Len(seen)
  /\ \A k \in 1 .. Len(ring) : ring[k] = seen[Len(seen) - Len(ring) + k]
  /\ \A k \in 1 .. Len(arrived) : seen[k] = arrived[k]
  /\ seen[Len(seen)] = n

LEMMA PushedIsTheEnd ==
  ASSUME DetectorIInv, NEW n \in Nat, NEW ring, ring = Pushed(window, n), NEW seen, seen = Append(arrived, n)
  PROVE  OneMore(ring, seen, n)
<1>1. /\ arrived \in Seq(Nat) /\ window \in Seq(Nat) /\ WindowSize \in Nat \ {0}
      /\ Len(window) <= WindowSize /\ Len(window) <= Len(arrived)
      /\ \A k \in 1 .. Len(window) : window[k] = arrived[Len(arrived) - Len(window) + k]
  BY DetectorAssumption DEF DetectorIInv, RingIsTheEnd
<1>2. /\ seen \in Seq(Nat) /\ Len(seen) = Len(arrived) + 1 /\ seen[Len(seen)] = n
      /\ \A k \in 1 .. Len(arrived) : seen[k] = arrived[k]
  BY <1>1
<1>3. CASE Len(window) = WindowSize
  <2>1. ring = Append(Tail(window), n) /\ window # <<>>
    BY <1>1, <1>3 DEF Pushed
  <2>2. /\ Tail(window) \in Seq(Nat) /\ Len(Tail(window)) = WindowSize - 1
        /\ \A k \in 1 .. WindowSize - 1 : Tail(window)[k] = window[k + 1]
    BY <1>1, <1>3, <2>1
  <2>3. /\ ring \in Seq(Nat) /\ Len(ring) = WindowSize /\ ring[WindowSize] = n
        /\ \A k \in 1 .. WindowSize - 1 : ring[k] = window[k + 1]
    BY <1>1, <2>1, <2>2
  <2>4. ASSUME NEW k \in 1 .. WindowSize - 1
        PROVE  ring[k] = seen[Len(seen) - Len(ring) + k]
    <3>1. k + 1 \in 1 .. Len(window) /\ Len(arrived) - Len(window) + (k + 1) \in 1 .. Len(arrived)
          /\ Len(seen) - Len(ring) + k = Len(arrived) - Len(window) + (k + 1)
      BY <1>1, <1>2, <1>3, <2>3
    <3> QED
      BY <1>1, <1>2, <2>3, <3>1
  <2>5. seen[Len(seen) - Len(ring) + WindowSize] = n
    <3>1. Len(seen) - Len(ring) + WindowSize = Len(seen)
      BY <1>1, <1>2, <2>3
    <3> QED
      BY <1>2, <3>1
  <2>6. \A k \in 1 .. Len(ring) : ring[k] = seen[Len(seen) - Len(ring) + k]
    <3>1. \A k \in 1 .. Len(ring) : k \in 1 .. WindowSize - 1 \/ k = WindowSize
      BY <1>1, <2>3
    <3> QED
      BY <2>3, <2>4, <2>5, <3>1
  <2>7. Len(ring) \in 1 .. WindowSize /\ Len(ring) <= Len(seen)
    BY <1>1, <1>2, <1>3, <2>3
  <2> QED
    BY <1>2, <2>3, <2>6, <2>7 DEF OneMore
<1>4. CASE Len(window) # WindowSize
  <2>1. ring = Append(window, n)
    BY <1>4 DEF Pushed
  <2>2. /\ ring \in Seq(Nat) /\ Len(ring) = Len(window) + 1 /\ ring[Len(ring)] = n
        /\ \A k \in 1 .. Len(window) : ring[k] = window[k]
    BY <1>1, <2>1
  <2>3. ASSUME NEW k \in 1 .. Len(window)
        PROVE  ring[k] = seen[Len(seen) - Len(ring) + k]
    <3>1. Len(arrived) - Len(window) + k \in 1 .. Len(arrived)
          /\ Len(seen) - Len(ring) + k = Len(arrived) - Len(window) + k
      BY <1>1, <1>2, <2>2
    <3> QED
      BY <1>1, <1>2, <2>2, <3>1
  <2>4. seen[Len(seen) - Len(ring) + Len(ring)] = n
    <3>1. Len(seen) - Len(ring) + Len(ring) = Len(seen)
      BY <1>1, <1>2, <2>2
    <3> QED
      BY <1>2, <3>1
  <2>5. \A k \in 1 .. Len(ring) : ring[k] = seen[Len(seen) - Len(ring) + k]
    <3>1. \A k \in 1 .. Len(ring) : k \in 1 .. Len(window) \/ k = Len(ring)
      BY <1>1, <2>2
    <3> QED
      BY <2>2, <2>3, <2>4, <3>1
  <2>6. Len(ring) \in 1 .. WindowSize /\ Len(ring) <= Len(seen)
    BY <1>1, <1>2, <1>4, <2>2
  <2> QED
    BY <1>2, <2>2, <2>5, <2>6 DEF OneMore
<1> QED
  BY <1>3, <1>4

\* A sandwich around transaction n, of which the later part is another in the ring.
Sandwich(txs, ring, n, r) ==
  /\ r[1] \in DOMAIN txs /\ r[2] \in DOMAIN txs
  /\ txs[r[1]].slot < txs[n].slot /\ txs[n].slot < txs[r[2]].slot
  /\ txs[r[1]].signer = txs[r[2]].signer /\ txs[r[1]].signer # txs[n].signer
  /\ txs[r[2]].slot - txs[r[1]].slot <= 2 * SlotRange
  /\ \E k \in 1 .. Len(ring) : ring[k] = r[2] /\ ring[k] # n

LEMMA SpottedSlots ==
  ASSUME NEW txs \in Seq(Spotted), NEW k \in DOMAIN txs
  PROVE  txs[k].slot \in Int
<1>1. txs[k] \in Spotted
  OBVIOUS
<1> QED
  BY <1>1, DetectorAssumption DEF Spotted

\* What the detector returns, of transactions in its ring.
LEMMA DetectIsASandwich ==
  ASSUME NEW txs \in Seq(Spotted), NEW ring \in Seq(Nat), NEW n \in DOMAIN txs,
         \A k \in 1 .. Len(ring) : ring[k] \in DOMAIN txs, NEW r \in Detect(txs, ring, n)
  PROVE  Sandwich(txs, ring, n, r)
<1> DEFINE earlier == {k \in Nearby(txs, ring, n) : txs[ring[k]].slot < txs[n].slot}
           later == {k \in Nearby(txs, ring, n) : txs[ring[k]].slot > txs[n].slot}
<1>1. earlier # {} /\ later # {} /\ r = <<ring[Max(earlier)], ring[Max(later)]>>
      /\ txs[r[1]].signer = txs[r[2]].signer
  BY DEF Detect
<1>2. Nearby(txs, ring, n) \subseteq 1 .. Len(ring) /\ Len(ring) \in Nat
  BY DEF Nearby
<1>3. Max(earlier) \in earlier /\ Max(later) \in later
  BY <1>1, <1>2, MaxIsMember
<1>4. PICK e \in 1 .. Len(ring), l \in 1 .. Len(ring) :
        /\ r[1] = ring[e] /\ r[2] = ring[l] /\ e \in earlier /\ l \in later
  BY <1>1, <1>2, <1>3
<1>5. \A k \in DOMAIN txs : txs[k].slot \in Int
  BY SpottedSlots
<1>6. /\ txs[ring[e]].slot < txs[n].slot /\ txs[n].slot < txs[ring[l]].slot
      /\ txs[ring[e]].signer # txs[n].signer /\ ring[l] # n
      /\ Distance(txs[ring[e]].slot, txs[n].slot) <= SlotRange
      /\ Distance(txs[ring[l]].slot, txs[n].slot) <= SlotRange
  BY <1>4, <1>5 DEF Nearby
<1>7. txs[ring[l]].slot - txs[ring[e]].slot <= 2 * SlotRange
  <2>1. PICK a, b, c : a = txs[ring[e]].slot /\ b = txs[n].slot /\ c = txs[ring[l]].slot
    OBVIOUS
  <2>2. a \in Int /\ b \in Int /\ c \in Int
    BY <1>4, <1>5, <2>1
  <2>3. b - a <= SlotRange /\ c - b <= SlotRange
    BY <1>6, <2>1, <2>2 DEF Distance
  <2>4. PICK s \in Nat : s = SlotRange
    BY DetectorAssumption
  <2>5. c - a <= s + s
    BY <2>2, <2>3, <2>4
  <2> QED
    BY <2>1, <2>4, <2>5
<1> QED
  BY <1>1, <1>4, <1>6, <1>7 DEF Sandwich

\* A transaction is looked at: the old findings stay sound, the new ones are.
LEMMA LookStep ==
  ASSUME DetectorIInv, NEW n \in DOMAIN decoded', decoded' \in Seq(Spotted), Len(decoded) <= Len(decoded'),
         \A k \in 1 .. Len(decoded) : decoded'[k] = decoded[k], LookAt(decoded', n)
  PROVE  DetectorIInv'
<1>1. n \in Nat /\ DOMAIN decoded \subseteq DOMAIN decoded' /\ DOMAIN decoded = 1 .. Len(decoded)
      /\ DOMAIN decoded' = 1 .. Len(decoded')
  BY DEF DetectorIInv
<1>2. PICK ring, seen : ring = Pushed(window, n) /\ seen = Append(arrived, n) /\ window' = ring /\ arrived' = seen
  BY DEF LookAt
<1>3. /\ ring \in Seq(Nat) /\ Len(ring) \in 1 .. WindowSize /\ ring[Len(ring)] = n
      /\ seen \in Seq(Nat) /\ Len(seen) = Len(arrived) + 1 /\ Len(ring) <= Len(seen)
      /\ \A k \in 1 .. Len(ring) : ring[k] = seen[Len(seen) - Len(ring) + k]
      /\ \A k \in 1 .. Len(arrived) : seen[k] = arrived[k]
      /\ seen[Len(seen)] = n
  <2>1. OneMore(ring, seen, n)
    BY <1>1, <1>2, PushedIsTheEnd
  <2> QED
    BY <2>1 DEF OneMore
<1>4. Len(arrived) \in Nat /\ \A k \in 1 .. Len(seen) : seen[k] \in DOMAIN decoded'
  <2>1. Len(arrived) \in Nat /\ \A k \in 1 .. Len(arrived) : arrived[k] \in DOMAIN decoded'
    BY <1>1 DEF DetectorIInv
  <2>2. \A k \in 1 .. Len(seen) : k \in 1 .. Len(arrived) \/ k = Len(seen)
    BY <1>3, <2>1
  <2> QED
    BY <1>3, <2>1, <2>2
<1>5. \A k \in 1 .. Len(ring) : ring[k] \in DOMAIN decoded'
  <2> TAKE k \in 1 .. Len(ring)
  <2>1. Len(seen) - Len(ring) + k \in 1 .. Len(seen)
    BY <1>3
  <2> QED
    BY <1>3, <1>4, <2>1
<1>6. RingIsTheEnd'
  <2>1. Len(ring) <= WindowSize
    BY <1>3, DetectorAssumption
  <2> QED
    BY <1>2, <1>3, <2>1 DEF RingIsTheEnd
<1>7. ASSUME NEW f \in findings
      PROVE  FindingOK(f)'
  <2>1. FindingOK(f)
    BY DEF DetectorIInv
  <2>2. /\ decoded'[f.of] = decoded[f.of] /\ decoded'[f.before] = decoded[f.before]
        /\ decoded'[f.after] = decoded[f.after] /\ f.at \in 1 .. Len(arrived') /\ arrived'[f.at] = arrived[f.at]
    <3>1. /\ f.of \in 1 .. Len(decoded) /\ f.before \in 1 .. Len(decoded) /\ f.after \in 1 .. Len(decoded)
          /\ f.at \in 1 .. Len(arrived)
      BY <1>1, <2>1 DEF FindingOK
    <3>2. f.at \in 1 .. Len(seen) /\ seen[f.at] = arrived[f.at]
      <4>1. PICK a \in 1 .. Len(arrived) : a = f.at
        BY <3>1
      <4>2. a \in 1 .. Len(seen)
        BY <1>3, <1>4
      <4>3. seen[a] = arrived[a]
        BY <1>3
      <4> QED
        BY <4>1, <4>2, <4>3
    <3> QED
      BY <1>2, <3>1, <3>2
  <2>3. PICK k \in 1 .. f.at - 1 : f.at - k < WindowSize /\ arrived[k] = f.after
    BY <2>1 DEF FindingOK
  <2>4. k \in 1 .. Len(arrived)
    BY <1>4, <2>1, <2>3 DEF FindingOK
  <2>5. arrived'[k] = f.after
    BY <1>2, <1>3, <2>3, <2>4
  <2> QED
    BY <1>1, <2>1, <2>2, <2>3, <2>5 DEF FindingOK
<1>8. ASSUME NEW r \in Detect(decoded', ring, n), NEW f,
             f = [of |-> n, before |-> r[1], after |-> r[2], at |-> Len(seen)]
      PROVE  FindingOK(f)'
  <2>1. /\ r[1] \in DOMAIN decoded' /\ r[2] \in DOMAIN decoded'
        /\ decoded'[r[1]].slot < decoded'[n].slot /\ decoded'[n].slot < decoded'[r[2]].slot
        /\ decoded'[r[1]].signer = decoded'[r[2]].signer /\ decoded'[r[1]].signer # decoded'[n].signer
        /\ decoded'[r[2]].slot - decoded'[r[1]].slot <= 2 * SlotRange
        /\ \E k \in 1 .. Len(ring) : ring[k] = r[2] /\ ring[k] # n
    <3>1. PICK txs : txs = decoded'
      OBVIOUS
    <3>2. txs \in Seq(Spotted) /\ n \in DOMAIN txs /\ r \in Detect(txs, ring, n)
          /\ \A k \in 1 .. Len(ring) : ring[k] \in DOMAIN txs
      BY <1>5, <3>1
    <3>3. Sandwich(txs, ring, n, r)
      BY <1>3, <3>2, DetectIsASandwich
    <3> QED
      BY <3>1, <3>3 DEF Sandwich
  <2>2. PICK k \in 1 .. Len(ring) : ring[k] = r[2] /\ ring[k] # n
    BY <2>1
  <2>3. k # Len(ring)
    BY <1>3, <2>2
  <2>4. PICK j \in 1 .. Len(seen) - 1 : j = Len(seen) - Len(ring) + k
    BY <1>3, <1>4, <2>3
  <2>5. Len(seen) - j < WindowSize /\ seen[j] = r[2]
    BY <1>3, <1>4, <2>2, <2>4, DetectorAssumption
  <2>6. Len(seen) \in 1 .. Len(seen)
    BY <1>3, <1>4
  <2> QED
    BY <1>2, <1>3, <1>8, <2>1, <2>5, <2>6 DEF FindingOK
<1>9. \A f \in findings' : FindingOK(f)'
  <2> TAKE f \in findings'
  <2>1. f \in findings \/ \E r \in Detect(decoded', ring, n) :
          f = [of |-> n, before |-> r[1], after |-> r[2], at |-> Len(seen)]
    BY <1>2 DEF LookAt
  <2> QED
    BY <1>7, <1>8, <2>1
<1> QED
  BY <1>1, <1>2, <1>3, <1>4, <1>6, <1>9 DEF DetectorIInv

LEMMA DetectorStarts == DetectorInit => DetectorIInv
BY DetectorAssumption DEF DetectorInit, DetectorIInv, RingIsTheEnd

LEMMA DetectorStep == DetectorIInv /\ [DetectorNext]_detectorVars => DetectorIInv'
<1> SUFFICES ASSUME DetectorIInv, [DetectorNext]_detectorVars PROVE DetectorIInv'
  OBVIOUS
<1>1. CASE TransactionArrives
  <2>1. PICK t \in Spotted : decoded' = Append(decoded, t) /\ LookAt(decoded', Len(decoded'))
    BY <1>1 DEF TransactionArrives
  <2>2. /\ decoded' \in Seq(Spotted) /\ Len(decoded') = Len(decoded) + 1 /\ Len(decoded) \in Nat
        /\ \A k \in 1 .. Len(decoded) : decoded'[k] = decoded[k]
    BY <2>1 DEF DetectorIInv
  <2>3. Len(decoded') \in DOMAIN decoded' /\ Len(decoded) <= Len(decoded')
    BY <2>2
  <2> QED
    BY <2>1, <2>2, <2>3, LookStep
<1>2. CASE ArrivesAgain
  <2>1. PICK n \in DOMAIN decoded : LookAt(decoded, n) /\ decoded' = decoded
    BY <1>2 DEF ArrivesAgain
  <2>2. LookAt(decoded', n)
    BY <2>1
  <2>3. decoded \in Seq(Spotted) /\ Len(decoded) <= Len(decoded')
    BY <2>1 DEF DetectorIInv
  <2> QED
    BY <2>1, <2>2, <2>3, LookStep
<1>3. CASE LoopBreaks
  <2>1. window' = <<>> /\ UNCHANGED <<decoded, arrived, findings>>
    BY <1>3 DEF LoopBreaks
  <2>2. RingIsTheEnd'
    BY <2>1, DetectorAssumption DEF DetectorIInv, RingIsTheEnd
  <2> QED
    BY <2>1, <2>2 DEF DetectorIInv, FindingOK
<1>4. CASE UNCHANGED detectorVars
  BY <1>4 DEF detectorVars, DetectorIInv, RingIsTheEnd, FindingOK
<1> QED
  BY <1>1, <1>2, <1>3, <1>4 DEF DetectorNext

LEMMA DetectorImplies == DetectorIInv => DetectorInv
<1> SUFFICES ASSUME DetectorIInv PROVE DetectorInv
  OBVIOUS
<1>1. DetectorTypeOK
  <2>1. \A k \in 1 .. Len(window) : window[k] \in DOMAIN decoded
    <3> TAKE k \in 1 .. Len(window)
    <3>1. Len(arrived) - Len(window) + k \in 1 .. Len(arrived)
      BY DEF DetectorIInv, RingIsTheEnd
    <3> QED
      BY <3>1 DEF DetectorIInv, RingIsTheEnd
  <2> QED
    <3>1. DOMAIN window = 1 .. Len(window)
      BY DEF DetectorIInv
    <3> QED
      BY <2>1, <3>1 DEF DetectorIInv, RingIsTheEnd, DetectorTypeOK
<1>2. FindingsAreSandwiches /\ FindingsAreLate
  BY DEF DetectorIInv, FindingOK, FindingsAreSandwiches, FindingsAreLate
<1>3. OrderFindsNothing
  <2> SUFFICES ASSUME \A k, l \in DOMAIN arrived : k < l => decoded[arrived[k]].slot <= decoded[arrived[l]].slot,
                      NEW f \in findings
               PROVE  FALSE
    BY DEF OrderFindsNothing
  <2>1. FindingOK(f) /\ arrived \in Seq(Nat)
    BY DEF DetectorIInv
  <2>2. PICK k \in 1 .. f.at - 1 : arrived[k] = f.after
    BY <2>1 DEF FindingOK
  <2>3. k \in DOMAIN arrived /\ f.at \in DOMAIN arrived /\ k < f.at
    BY <2>1, <2>2 DEF FindingOK
  <2>4. decoded[f.after].slot <= decoded[f.of].slot /\ decoded[f.of].slot < decoded[f.after].slot
    BY <2>1, <2>2, <2>3 DEF FindingOK
  <2>5. decoded[f.after].slot \in Int /\ decoded[f.of].slot \in Int
    <3>1. \A n \in DOMAIN decoded : decoded[n].slot \in Int
      BY SpottedSlots DEF DetectorIInv
    <3> QED
      BY <2>1, <3>1 DEF FindingOK
  <2> QED
    BY <2>4, <2>5
<1> QED
  BY <1>1, <1>2, <1>3 DEF DetectorInv

\* However transactions arrive, again or not, and whenever the loop ends: what the
\* detector records is a sandwich by slots and signers, it was found only because a
\* transaction of a later slot came first and was still in the ring, and in the order
\* of the slots nothing is ever found.
THEOREM DetectorInvariant == DetectorSpec => []DetectorInv
<1>1. DetectorSpec => []DetectorIInv
  BY DetectorStarts, DetectorStep, PTL DEF DetectorSpec
<1> QED
  BY <1>1, DetectorImplies, PTL
-----------------------------------------------------------------------------
(* AccountState. *)

Msgs == [prog : tracking, slot : SlotsSeen]
StoredRows == [prog : tracking, slot : SlotsSeen, holds : Nat]

\* The cluster leads: what it held when a slot was finalized and what is stored under
\* a slot is no more than what it holds, and no date is ahead of its finalized slot.
LedgerOK ==
  /\ tracking \in SUBSET Trackers /\ tracking # {}
  /\ ledger = [slot |-> ledger.slot, newest |-> ledger.newest, holds |-> ledger.holds, held |-> ledger.held]
  /\ ledger.slot \in SlotsSeen /\ ledger.holds \in Nat
  /\ ledger.newest \in [Trackers -> SlotsSeen] /\ ledger.held \in [Trackers -> [SlotsSeen -> Nat]]
  /\ blobs \in [Trackers -> [SlotsSeen -> Nat]]
  /\ dated \in [Trackers -> SlotsSeen \cup {NoSlot}]
  /\ \A p \in Trackers :
       /\ ledger.newest[p] <= ledger.slot
       /\ dated[p] # NoSlot => p \in tracking /\ dated[p] <= ledger.slot
       /\ \A s \in SlotsSeen : ledger.held[p][s] <= ledger.holds /\ blobs[p][s] <= ledger.holds
  /\ upsets \in 0 .. MaxUpsets

\* What a message names is stored, and is no older than its date.
MessageOK(m) == m.slot <= ledger.slot /\ ledger.held[m.prog][m.slot] <= blobs[m.prog][m.slot]
QueueOK ==
  /\ rawAccount \in Seq(Stream!Entries(Msgs)) /\ batch \subseteq DOMAIN rawAccount
  /\ \A i \in DOMAIN rawAccount : MessageOK(rawAccount[i].body)

RowOK(w) ==
  /\ w.slot <= ledger.slot /\ ledger.held[w.prog][w.slot] <= w.holds
  /\ w.holds <= blobs[w.prog][w.slot]

TablesOK ==
  /\ written \subseteq StoredRows /\ current \in StoredRows \cup {NoRow}
  /\ timeline \in [SlotsSeen -> written \cup {NoRow}]
  /\ \A s \in SlotsSeen : timeline[s] # NoRow => timeline[s].slot = s
  /\ \A w \in written : RowOK(w)
  /\ current # NoRow => \E w \in written : w.slot = current.slot /\ w.holds = current.holds
  /\ upsets = 0 => \A w \in written : timeline[w.slot] # NoRow
  /\ Alone /\ current # NoRow /\ timeline[current.slot] # NoRow => timeline[current.slot].holds <= current.holds
  /\ Alone /\ upsets = 0 => \A w \in written : timeline[w.slot].holds <= w.holds

\* With one program and before anything fails, slots are published, delivered and
\* stored in their order.
Slot(i) == rawAccount[i].body.slot
InOrder == Alone /\ upsets = 0 =>
  /\ \A i, j \in DOMAIN rawAccount : i < j =>
       /\ Slot(i) <= Slot(j) /\ (rawAccount[j].at = "acked" => rawAccount[i].at = "acked")
       /\ j \in batch => rawAccount[i].at # "new"
  /\ \A i \in DOMAIN rawAccount :
       /\ rawAccount[i].at # "again" /\ (rawAccount[i].at = "out" <=> i \in batch)
       /\ rawAccount[i].at = "new" => rawAccount[i].tries = 0
       /\ rawAccount[i].at = "out" => rawAccount[i].tries = 1
  /\ \A p \in tracking :
       /\ dated[p] = NoSlot \/ dated[p] <= ledger.newest[p]
       /\ \A i \in DOMAIN rawAccount : Slot(i) <= ledger.newest[p] /\ Slot(i) <= dated[p]
       /\ \A w \in written : w.slot <= ledger.newest[p] /\ w.slot <= dated[p]
  /\ \A w \in written :
       /\ w.slot <= current.slot
       /\ \A i \in DOMAIN rawAccount : rawAccount[i].at # "acked" => w.slot <= Slot(i)

AcctIInv == LedgerOK /\ QueueOK /\ TablesOK /\ InOrder

LEMMA NoRowIsNone == NoRow \notin StoredRows /\ NoRow.slot = NoSlot /\ NoSlot \notin SlotsSeen
                     /\ NoSlot \in Nat /\ \A s \in SlotsSeen : s \in Nat /\ s < NoSlot
BY AccountStateAssumption DEF NoRow, Row, StoredRows, SlotsSeen, NoSlot

LEMMA AcctStarts == AccountStateInit => AcctIInv
<1> SUFFICES ASSUME AccountStateInit PROVE AcctIInv
  OBVIOUS
<1>1. 0 \in SlotsSeen /\ 0 \in 0 .. MaxUpsets
  BY AccountStateAssumption DEF SlotsSeen
<1>2. LedgerOK
  <2>1. tracking \in (SUBSET Trackers) \ {{}}
    BY DEF AccountStateInit
  <2>2. \A p \in Trackers : ledger.newest[p] = 0 /\ dated[p] = NoSlot
                           /\ \A s \in SlotsSeen : ledger.held[p][s] = 0 /\ blobs[p][s] = 0
    BY DEF AccountStateInit
  <2>3. /\ ledger = [slot |-> ledger.slot, newest |-> ledger.newest, holds |-> ledger.holds, held |-> ledger.held]
        /\ ledger.slot = 0 /\ ledger.holds = 0 /\ upsets = 0
        /\ ledger.newest \in [Trackers -> SlotsSeen] /\ ledger.held \in [Trackers -> [SlotsSeen -> Nat]]
        /\ blobs \in [Trackers -> [SlotsSeen -> Nat]]
        /\ dated \in [Trackers -> SlotsSeen \cup {NoSlot}]
    BY <1>1 DEF AccountStateInit
  <2> QED
    BY <1>1, <2>1, <2>2, <2>3 DEF LedgerOK
<1>3. QueueOK /\ InOrder
  BY DEF AccountStateInit, QueueOK, InOrder
<1>4. TablesOK
  BY DEF AccountStateInit, TablesOK
<1> QED
  BY <1>2, <1>3, <1>4 DEF AcctIInv

\* An upset stays within its bound, and is one.
LEMMA UpsetCounts == LedgerOK /\ Upset => upsets' \in 0 .. MaxUpsets /\ upsets' # 0
<1> SUFFICES ASSUME LedgerOK, Upset PROVE upsets' \in 0 .. MaxUpsets /\ upsets' # 0
  OBVIOUS
<1>1. IsFiniteSet(tracking)
  BY AccountStateAssumption, FS_Subset DEF LedgerOK
<1>2. Cardinality(tracking) \in Nat /\ Cardinality(tracking) # 0
  BY <1>1, FS_CardinalityType, FS_EmptySet DEF LedgerOK
<1> QED
  <2>1. upsets \in Nat /\ MaxUpsets \in Nat /\ upsets + Cardinality(tracking) <= MaxUpsets /\ upsets' = upsets + 1
    BY AccountStateAssumption DEF LedgerOK, Upset
  <2> QED
    BY <1>2, <2>1

\* Programs and dates of one who is alone.
LEMMA AloneIsOne ==
  ASSUME LedgerOK, Alone, NEW p \in tracking, NEW q \in tracking PROVE p = q
<1>1. PICK x : tracking = {x}
  BY AccountStateAssumption, FS_Subset, FS_Singleton DEF LedgerOK, Alone
<1> QED
  BY <1>1

-----------------------------------------------------------------------------
(* The stream, as this consumer uses it. *)

LEMMA PublishAdds ==
  ASSUME NEW B, NEW q \in Seq(Stream!Entries(B)), NEW b \in B, NEW r, r = Stream!Publish(q, b)
  PROVE  /\ r \in Seq(Stream!Entries(B)) /\ Len(r) = Len(q) + 1 /\ Len(q) \in Nat
         /\ DOMAIN q = 1 .. Len(q) /\ DOMAIN r = 1 .. Len(q) + 1
         /\ \A i \in DOMAIN q : r[i] = q[i]
         /\ r[Len(q) + 1].body = b /\ r[Len(q) + 1].at = "new" /\ r[Len(q) + 1].tries = 0
<1> DEFINE e == [body |-> b, at |-> "new", tries |-> 0]
<1>1. e \in Stream!Entries(B)
  BY DEF Stream!Entries, Stream!States
<1>2. r = Append(q, e)
  BY DEF Stream!Publish
<1>3. e.body = b /\ e.at = "new" /\ e.tries = 0
  OBVIOUS
<1> HIDE DEF e
<1>4. Len(q) \in Nat /\ DOMAIN q = 1 .. Len(q)
  BY LenProperties
<1>5. r \in Seq(Stream!Entries(B)) /\ Len(r) = Len(q) + 1 /\ r[Len(q) + 1] = e
      /\ \A i \in 1 .. Len(q) : r[i] = q[i]
  BY <1>1, <1>2, AppendProperties
<1>6. DOMAIN r = 1 .. Len(q) + 1
  BY <1>5, LenProperties
<1> QED
  BY <1>3, <1>4, <1>5, <1>6

\* An entry may change its state and its count, never its body.
LEMMA SameMessages ==
  ASSUME NEW B, NEW q \in Seq(Stream!Entries(B)), NEW r, DOMAIN r = DOMAIN q,
         r = [i \in DOMAIN q |-> r[i]],
         \A i \in DOMAIN q : r[i] \in Stream!Entries(B)
  PROVE  r \in Seq(Stream!Entries(B))
<1>1. Len(q) \in Nat /\ DOMAIN q = 1 .. Len(q)
  BY LenProperties
<1>2. r \in [1 .. Len(q) -> Stream!Entries(B)]
  BY <1>1
<1> QED
  BY <1>1, <1>2, SeqDef

LEMMA DeliverMoves ==
  ASSUME NEW B, NEW q \in Seq(Stream!Entries(B)), NEW r, r = Stream!Deliver(q)
  PROVE  /\ r \in Seq(Stream!Entries(B)) /\ DOMAIN r = DOMAIN q
         /\ \A i \in DOMAIN q :
              /\ r[i].body = q[i].body
              /\ q[i].at \in {"new", "again"} => r[i].at = "out" /\ r[i].tries = q[i].tries + 1
              /\ q[i].at \notin {"new", "again"} => r[i] = q[i]
<1>1. DOMAIN r = DOMAIN q /\ r = [i \in DOMAIN q |-> r[i]]
  BY DEF Stream!Deliver
<1>2. ASSUME NEW i \in DOMAIN q
      PROVE  /\ r[i] \in Stream!Entries(B) /\ r[i].body = q[i].body
             /\ q[i].at \in {"new", "again"} => r[i].at = "out" /\ r[i].tries = q[i].tries + 1
             /\ q[i].at \notin {"new", "again"} => r[i] = q[i]
  <2>1. q[i] \in [body : B, at : Stream!States, tries : Nat]
    BY LenProperties, ElementOfSeq DEF Stream!Entries
  <2>2. r[i] = IF q[i].at \in {"new", "again"} THEN [q[i] EXCEPT !.at = "out", !.tries = @ + 1] ELSE q[i]
    BY DEF Stream!Deliver, Stream!Waiting
  <2>3. "out" \in Stream!States /\ q[i].tries + 1 \in Nat
    BY <2>1 DEF Stream!States
  <2> QED
    BY <2>1, <2>2, <2>3 DEF Stream!Entries
<1> QED
  BY <1>1, <1>2, SameMessages

LEMMA MarkMoves ==
  ASSUME NEW B, NEW q \in Seq(Stream!Entries(B)), NEW i \in DOMAIN q, NEW to \in Stream!States,
         NEW r, r = [q EXCEPT ![i].at = to]
  PROVE  /\ r \in Seq(Stream!Entries(B)) /\ DOMAIN r = DOMAIN q
         /\ \A j \in DOMAIN q : j # i => r[j] = q[j]
         /\ r[i].body = q[i].body /\ r[i].at = to /\ r[i].tries = q[i].tries
<1>1. DOMAIN r = DOMAIN q /\ r = [j \in DOMAIN q |-> r[j]]
  OBVIOUS
<1>2. q[i] \in [body : B, at : Stream!States, tries : Nat]
  BY LenProperties, ElementOfSeq DEF Stream!Entries
<1>3. r[i] = [q[i] EXCEPT !.at = to]
  OBVIOUS
<1>4. r[i] \in Stream!Entries(B) /\ r[i].body = q[i].body /\ r[i].at = to /\ r[i].tries = q[i].tries
  BY <1>2, <1>3 DEF Stream!Entries
<1>5. \A j \in DOMAIN q : j # i => r[j] = q[j]
  OBVIOUS
<1>6. \A j \in DOMAIN q : r[j] \in Stream!Entries(B)
  BY <1>4, <1>5, LenProperties, ElementOfSeq
<1> QED
  BY <1>1, <1>4, <1>5, <1>6, SameMessages

-----------------------------------------------------------------------------
(* Steps that write no table. *)

LEMMA TablesStand ==
  ASSUME TablesOK, UNCHANGED <<tracking, tableVars>>, upsets' = 0 => upsets = 0,
         \A w \in written : RowOK(w)'
  PROVE  TablesOK'
<1>1. Alone' = Alone /\ StoredRows' = StoredRows
  BY DEF Alone, StoredRows
<1>2. UNCHANGED <<written, current, timeline>>
  BY DEF tableVars
<1> QED
  BY <1>1, <1>2 DEF TablesOK

\* Slots and rows are numbers.
LEMMA AcctNumbers ==
  ASSUME LedgerOK
  PROVE  /\ ledger.slot \in Nat /\ MaxFinal \in Nat /\ NoSlot = MaxFinal + 1 /\ SlotsSeen = 0 .. MaxFinal
         /\ \A p \in Trackers : /\ ledger.newest[p] \in Nat /\ dated[p] \in 0 .. NoSlot
                                /\ \A s \in SlotsSeen : ledger.held[p][s] \in Nat /\ blobs[p][s] \in Nat
         /\ tracking \subseteq Trackers
<1>1. MaxFinal \in Nat /\ NoSlot = MaxFinal + 1 /\ SlotsSeen = 0 .. MaxFinal
  BY AccountStateAssumption DEF NoSlot, SlotsSeen
<1>2. ledger.slot \in SlotsSeen /\ \A p \in Trackers : ledger.newest[p] \in SlotsSeen /\ dated[p] \in SlotsSeen \cup {NoSlot}
  BY DEF LedgerOK
<1>3. \A p \in Trackers : \A s \in SlotsSeen : ledger.held[p][s] \in Nat /\ blobs[p][s] \in Nat
  BY DEF LedgerOK
<1>4. \A p \in Trackers : dated[p] \in 0 .. NoSlot
  BY <1>1, <1>2
<1> QED
  BY <1>1, <1>2, <1>3, <1>4 DEF LedgerOK

LEMMA RowNumbers ==
  ASSUME LedgerOK, TablesOK, NEW w \in written
  PROVE  w.prog \in tracking /\ w.slot \in SlotsSeen /\ w.slot \in Nat /\ w.holds \in Nat
<1>1. w \in StoredRows
  BY DEF TablesOK
<1> QED
  BY <1>1, AcctNumbers DEF StoredRows

LEMMA BodyOf == ASSUME QueueOK, NEW i \in DOMAIN rawAccount PROVE rawAccount[i].body \in Msgs
<1>1. rawAccount[i] \in Stream!Entries(Msgs)
  BY LenProperties, ElementOfSeq DEF QueueOK
<1> QED
  BY <1>1 DEF Stream!Entries

LEMMA MessageNumbers ==
  ASSUME LedgerOK, QueueOK, NEW i \in DOMAIN rawAccount
  PROVE  /\ rawAccount[i].body.prog \in tracking /\ Slot(i) = rawAccount[i].body.slot
         /\ Slot(i) \in SlotsSeen /\ Slot(i) \in Nat /\ Slot(i) < NoSlot
<1>1. rawAccount[i] \in Stream!Entries(Msgs)
  BY LenProperties, ElementOfSeq DEF QueueOK
<1>2. rawAccount[i].body \in Msgs
  BY <1>1 DEF Stream!Entries
<1>3. rawAccount[i].body.prog \in tracking /\ rawAccount[i].body.slot \in SlotsSeen
  BY <1>2 DEF Msgs
<1> QED
  BY <1>3, AcctNumbers DEF Slot

LEMMA ClusterStep ==
  ASSUME AcctIInv, SlotIsFinalized \/ AccountIsWritten
  PROVE  AcctIInv'
<1>1. /\ UNCHANGED <<tracking, dated, blobs, rawAccount, batch, tableVars, upsets>>
      /\ UNCHANGED <<written, current, timeline>>
      /\ LedgerOK /\ QueueOK /\ TablesOK /\ InOrder
  BY DEF SlotIsFinalized, AccountIsWritten, AcctIInv, tableVars
<1>2. /\ ledger' = [slot |-> ledger'.slot, newest |-> ledger'.newest, holds |-> ledger'.holds, held |-> ledger'.held]
      /\ ledger'.slot \in SlotsSeen /\ ledger.slot <= ledger'.slot
      /\ ledger'.holds \in Nat /\ ledger.holds <= ledger'.holds
      /\ ledger'.newest \in [Trackers -> SlotsSeen] /\ ledger'.held \in [Trackers -> [SlotsSeen -> Nat]]
      /\ \A p \in Trackers : ledger.newest[p] <= ledger'.newest[p] /\ ledger'.newest[p] <= ledger'.slot
      /\ \A p \in Trackers : \A s \in SlotsSeen :
           ledger'.held[p][s] <= ledger'.holds /\ (s <= ledger.slot => ledger'.held[p][s] = ledger.held[p][s])
  <2>1. CASE SlotIsFinalized
    <3>1. PICK S \in (SUBSET tracking) \ {{}} :
            /\ ledger.slot < MaxFinal
            /\ ledger' = [ledger EXCEPT !.slot = @ + 1,
                 !.newest = [p \in Trackers |-> IF p \in S THEN ledger.slot + 1 ELSE @[p]],
                 !.held = [p \in Trackers |-> IF p \in S THEN [@[p] EXCEPT ![ledger.slot + 1] = ledger.holds] ELSE @[p]]]
      BY <2>1 DEF SlotIsFinalized
    <3>2. PICK n, h : n = ledger.slot + 1 /\ h = ledger.holds
      OBVIOUS
    <3>3. PICK nw : nw = [p \in Trackers |-> IF p \in S THEN n ELSE ledger.newest[p]]
      OBVIOUS
    <3>4. PICK hd : hd = [p \in Trackers |-> IF p \in S THEN [ledger.held[p] EXCEPT ![n] = h] ELSE ledger.held[p]]
      OBVIOUS
    <3>5. ledger' = [slot |-> n, newest |-> nw, holds |-> h, held |-> hd]
      <4>1. ledger = [slot |-> ledger.slot, newest |-> ledger.newest, holds |-> ledger.holds, held |-> ledger.held]
        BY <1>1 DEF LedgerOK
      <4> QED
        BY <3>1, <3>2, <3>3, <3>4, <4>1
    <3>6. n \in SlotsSeen /\ ledger.slot <= n /\ ledger.slot < n /\ h \in Nat /\ ledger.holds <= h
      <4>1. ledger.slot \in Nat /\ MaxFinal \in Nat /\ SlotsSeen = 0 .. MaxFinal
        BY <1>1, AcctNumbers
      <4>2. ledger.holds \in Nat
        BY <1>1 DEF LedgerOK
      <4> QED
        BY <3>1, <3>2, <4>1, <4>2
    <3>7. nw \in [Trackers -> SlotsSeen] /\ \A p \in Trackers : ledger.newest[p] <= nw[p] /\ nw[p] <= n
      <4>1. ASSUME NEW p \in Trackers
            PROVE  nw[p] \in SlotsSeen /\ ledger.newest[p] <= nw[p] /\ nw[p] <= n
        <5>1. ledger.newest[p] \in SlotsSeen /\ ledger.newest[p] <= ledger.slot
          BY <1>1 DEF LedgerOK
        <5>2. ledger.newest[p] \in Nat /\ ledger.slot \in Nat /\ n \in Nat
          BY <1>1, <3>6, AcctNumbers
        <5>3. nw[p] = IF p \in S THEN n ELSE ledger.newest[p]
          BY <3>3
        <5> QED
          BY <3>6, <5>1, <5>2, <5>3
      <4> QED
        BY <3>3, <4>1
    <3>8. ASSUME NEW p \in Trackers
          PROVE  /\ hd[p] \in [SlotsSeen -> Nat]
                 /\ \A s \in SlotsSeen : hd[p][s] = IF p \in S /\ s = n THEN h ELSE ledger.held[p][s]
      <4>1. ledger.held[p] \in [SlotsSeen -> Nat]
        BY <1>1 DEF LedgerOK
      <4> QED
        BY <3>4, <3>6, <4>1
    <3>9. hd \in [Trackers -> [SlotsSeen -> Nat]]
      BY <3>4, <3>8
    <3>10. \A p \in Trackers : \A s \in SlotsSeen : hd[p][s] <= h /\ (s <= ledger.slot => hd[p][s] = ledger.held[p][s])
      <4> TAKE p \in Trackers
      <4> TAKE s \in SlotsSeen
      <4>1. ledger.held[p][s] <= ledger.holds
        BY <1>1 DEF LedgerOK
      <4>2. s \in Nat /\ ledger.slot \in Nat /\ n \in Nat
        BY <1>1, <3>6, AcctNumbers
      <4>3. s = n => ~(s <= ledger.slot)
        BY <3>6, <4>2
      <4> QED
        BY <3>2, <3>6, <3>8, <4>1, <4>3
    <3>11. ledger'.slot = n /\ ledger'.newest = nw /\ ledger'.holds = h /\ ledger'.held = hd
      BY <3>5
    <3> QED
      BY <3>5, <3>6, <3>7, <3>9, <3>10, <3>11
  <2>2. CASE AccountIsWritten
    <3>1. ledger' = [slot |-> ledger.slot, newest |-> ledger.newest, holds |-> ledger.holds + 1, held |-> ledger.held]
      BY <1>1, <2>2 DEF AccountIsWritten, LedgerOK
    <3>2. /\ ledger.slot \in SlotsSeen /\ ledger.slot <= ledger.slot /\ ledger.holds + 1 \in Nat
          /\ ledger.holds <= ledger.holds + 1
          /\ ledger.newest \in [Trackers -> SlotsSeen] /\ ledger.held \in [Trackers -> [SlotsSeen -> Nat]]
          /\ \A p \in Trackers : ledger.newest[p] <= ledger.newest[p] /\ ledger.newest[p] <= ledger.slot
      <4>1. /\ ledger.slot \in SlotsSeen /\ ledger.holds \in Nat
            /\ ledger.newest \in [Trackers -> SlotsSeen] /\ ledger.held \in [Trackers -> [SlotsSeen -> Nat]]
            /\ \A p \in Trackers : ledger.newest[p] <= ledger.slot
        BY <1>1 DEF LedgerOK
      <4>2. ledger.slot \in Nat /\ \A p \in Trackers : ledger.newest[p] \in Nat
        BY <1>1, AcctNumbers
      <4> QED
        BY <4>1, <4>2
    <3>3. \A p \in Trackers : \A s \in SlotsSeen : ledger.held[p][s] <= ledger.holds + 1
      <4> TAKE p \in Trackers
      <4> TAKE s \in SlotsSeen
      <4>1. ledger.held[p][s] <= ledger.holds /\ ledger.held[p][s] \in Nat /\ ledger.holds \in Nat
        BY <1>1, AcctNumbers DEF LedgerOK
      <4> QED
        BY <4>1
    <3>4. /\ ledger'.slot = ledger.slot /\ ledger'.newest = ledger.newest
          /\ ledger'.holds = ledger.holds + 1 /\ ledger'.held = ledger.held
      BY <3>1
    <3> QED
      BY <3>1, <3>2, <3>3, <3>4
  <2> QED
    BY <2>1, <2>2
<1>3. PICK n, h, nw : ledger'.slot = n /\ ledger'.holds = h /\ ledger'.newest = nw
  OBVIOUS
<1>4. LedgerOK'
  <2>1. n \in Nat /\ ledger.slot \in Nat
    BY <1>1, <1>2, <1>3, AcctNumbers
  <2>2. ASSUME NEW p \in Trackers, NEW s \in SlotsSeen
        PROVE  blobs[p][s] <= h
    <3>1. blobs[p][s] \in Nat /\ ledger.holds \in Nat /\ blobs[p][s] <= ledger.holds
      BY <1>1, AcctNumbers DEF LedgerOK
    <3> QED
      BY <1>2, <1>3, <3>1
  <2>3. ASSUME NEW p \in Trackers, dated[p] # NoSlot
        PROVE  p \in tracking /\ dated[p] <= n
    <3>1. p \in tracking /\ dated[p] <= ledger.slot /\ dated[p] \in Nat
      BY <1>1, <2>3, AcctNumbers DEF LedgerOK
    <3> QED
      BY <1>2, <1>3, <2>1, <3>1
  <2> QED
    BY <1>1, <1>2, <1>3, <2>2, <2>3 DEF LedgerOK
<1>5. QueueOK'
  <2>1. ASSUME NEW i \in DOMAIN rawAccount
        PROVE  MessageOK(rawAccount[i].body)'
    <3>1. PICK m : m = rawAccount[i].body
      OBVIOUS
    <3>2. m.prog \in Trackers /\ m.slot \in SlotsSeen /\ m.slot \in Nat /\ MessageOK(m)
      BY <1>1, <3>1, MessageNumbers, AcctNumbers DEF QueueOK
    <3>3. m.slot <= ledger.slot /\ ledger.slot \in Nat /\ n \in Nat
      BY <1>1, <1>2, <1>3, <3>2, AcctNumbers DEF MessageOK
    <3> QED
      BY <1>1, <1>2, <1>3, <3>1, <3>2, <3>3 DEF MessageOK
  <2>2. Msgs' = Msgs
    BY <1>1 DEF Msgs
  <2> QED
    BY <1>1, <2>1, <2>2 DEF QueueOK
<1>6. TablesOK'
  <2>1. ASSUME NEW w \in written
        PROVE  RowOK(w)'
    <3>1. w.prog \in Trackers /\ w.slot \in SlotsSeen /\ w.slot \in Nat /\ RowOK(w)
      BY <1>1, RowNumbers, AcctNumbers DEF TablesOK
    <3>2. w.slot <= ledger.slot /\ ledger.slot \in Nat /\ n \in Nat
      BY <1>1, <1>2, <1>3, <3>1, AcctNumbers DEF RowOK
    <3> QED
      BY <1>1, <1>2, <1>3, <3>1, <3>2 DEF RowOK
  <2> QED
    BY <1>1, <2>1, TablesStand
<1>7. InOrder'
  <2>1. ASSUME NEW p \in tracking, NEW x \in Nat, x <= ledger.newest[p]
        PROVE  x <= ledger'.newest[p]
    <3>1. p \in Trackers /\ ledger.newest[p] \in Nat /\ nw[p] \in Nat
      BY <1>1, <1>2, <1>3, AcctNumbers
    <3> QED
      BY <1>2, <1>3, <2>1, <3>1
  <2>2. SUFFICES ASSUME Alone, upsets = 0, InOrder
                 PROVE  \A p \in tracking :
                          /\ dated[p] = NoSlot \/ dated[p] <= ledger'.newest[p]
                          /\ \A i \in DOMAIN rawAccount : Slot(i) <= ledger'.newest[p]
                          /\ \A w \in written : w.slot <= ledger'.newest[p]
    BY <1>1 DEF InOrder, Alone, Slot
  <2> TAKE p \in tracking
  <2>3. /\ dated[p] = NoSlot \/ dated[p] <= ledger.newest[p]
        /\ \A i \in DOMAIN rawAccount : Slot(i) <= ledger.newest[p]
        /\ \A w \in written : w.slot <= ledger.newest[p]
    BY <2>2 DEF InOrder
  <2>4. /\ dated[p] \in Nat /\ (\A i \in DOMAIN rawAccount : Slot(i) \in Nat)
        /\ \A w \in written : w.slot \in Nat
    BY <1>1, AcctNumbers, RowNumbers, MessageNumbers
  <2> QED
    BY <2>1, <2>3, <2>4
<1> QED
  BY <1>4, <1>5, <1>6, <1>7 DEF AcctIInv

LEMMA DateStep ==
  ASSUME AcctIInv, NEW p \in tracking, ReadNewestSlot(p)
  PROVE  AcctIInv'
<1>1. /\ UNCHANGED <<tracking, ledger, blobs, rawAccount, batch, tableVars>> /\ dated[p] = NoSlot
      /\ UNCHANGED <<written, current, timeline>>
      /\ LedgerOK /\ QueueOK /\ TablesOK /\ InOrder
  BY DEF ReadNewestSlot, AcctIInv, tableVars
<1>2. PICK d : /\ dated' = [dated EXCEPT ![p] = d] /\ d \in {0, ledger.newest[p]}
               /\ upsets' \in 0 .. MaxUpsets /\ (upsets' = 0 => upsets = 0 /\ d = ledger.newest[p])
  <2>1. upsets \in 0 .. MaxUpsets
    BY <1>1 DEF LedgerOK
  <2> QED
    BY <1>1, <2>1, UpsetCounts DEF ReadNewestSlot
<1>3. p \in Trackers /\ d \in SlotsSeen /\ d <= ledger.slot /\ d \in Nat
  <2>1. p \in Trackers /\ ledger.newest[p] \in SlotsSeen /\ ledger.newest[p] <= ledger.slot
    BY <1>1 DEF LedgerOK
  <2>2. 0 \in SlotsSeen /\ ledger.newest[p] \in Nat /\ ledger.slot \in Nat
    BY <1>1, <2>1, AcctNumbers
  <2> QED
    BY <1>2, <2>1, <2>2
<1>4. LedgerOK'
  <2>1. dated' \in [Trackers -> SlotsSeen \cup {NoSlot}]
    BY <1>1, <1>2, <1>3 DEF LedgerOK
  <2>2. \A q \in Trackers : dated'[q] # NoSlot => q \in tracking /\ dated'[q] <= ledger.slot
    BY <1>1, <1>2, <1>3 DEF LedgerOK
  <2> QED
    BY <1>1, <1>2, <2>1, <2>2 DEF LedgerOK
<1>5. QueueOK' /\ TablesOK'
  <2>1. \A w \in written : RowOK(w)'
    BY <1>1 DEF TablesOK, RowOK
  <2>2. QueueOK'
    BY <1>1 DEF QueueOK, MessageOK, Msgs
  <2> QED
    BY <1>1, <1>2, <2>1, <2>2, TablesStand
<1>6. InOrder'
  <2> SUFFICES ASSUME Alone, upsets' = 0
               PROVE  \A q \in tracking :
                        /\ dated'[q] = NoSlot \/ dated'[q] <= ledger.newest[q]
                        /\ \A i \in DOMAIN rawAccount : Slot(i) <= dated'[q]
                        /\ \A w \in written : w.slot <= dated'[q]
    BY <1>1, <1>2 DEF InOrder, Alone, Slot
  <2> TAKE q \in tracking
  <2>1. q = p /\ dated'[p] = ledger.newest[p] /\ ledger.newest[p] <= ledger.newest[p]
    <3>1. q = p
      BY <1>1, AloneIsOne
    <3>2. dated'[p] = ledger.newest[p]
      BY <1>1, <1>2, <1>3 DEF LedgerOK
    <3> QED
      BY <1>1, <1>3, <3>1, <3>2, AcctNumbers
  <2>2. /\ \A i \in DOMAIN rawAccount : Slot(i) <= ledger.newest[p]
        /\ \A w \in written : w.slot <= ledger.newest[p]
    BY <1>1, <1>2 DEF InOrder
  <2> QED
    BY <2>1, <2>2
<1> QED
  BY <1>4, <1>5, <1>6 DEF AcctIInv

\* What is stored under a slot grows: rows and messages of it stay sound.
LEMMA BlobsGrow ==
  ASSUME LedgerOK, TablesOK, UNCHANGED <<tracking, ledger>>,
         \A p \in Trackers : \A s \in SlotsSeen : blobs'[p][s] \in Nat /\ blobs[p][s] <= blobs'[p][s]
  PROVE  /\ \A m \in Msgs : MessageOK(m) => MessageOK(m)'
         /\ \A w \in written : RowOK(w)'
<1>1. ASSUME NEW m \in Msgs, MessageOK(m)
      PROVE  MessageOK(m)'
  <2>1. m.prog \in Trackers /\ m.slot \in SlotsSeen
    BY AcctNumbers DEF Msgs
  <2>2. /\ ledger.held[m.prog][m.slot] \in Nat /\ blobs[m.prog][m.slot] \in Nat
        /\ blobs'[m.prog][m.slot] \in Nat /\ blobs[m.prog][m.slot] <= blobs'[m.prog][m.slot]
    BY <2>1, AcctNumbers
  <2> QED
    BY <1>1, <2>2 DEF MessageOK
<1>2. ASSUME NEW w \in written
      PROVE  RowOK(w)'
  <2>1. w.prog \in Trackers /\ w.slot \in SlotsSeen /\ w.holds \in Nat /\ RowOK(w)
    BY RowNumbers, AcctNumbers DEF TablesOK
  <2>2. blobs[w.prog][w.slot] \in Nat /\ blobs'[w.prog][w.slot] \in Nat /\ blobs[w.prog][w.slot] <= blobs'[w.prog][w.slot]
    BY <2>1, AcctNumbers
  <2> QED
    BY <2>1, <2>2 DEF RowOK
<1> QED
  BY <1>1, <1>2

LEMMA SnapshotStep ==
  ASSUME AcctIInv, NEW p \in tracking, TakeSnapshot(p) \/ SnapshotFails(p)
  PROVE  AcctIInv'
<1>1. /\ UNCHANGED <<tracking, ledger, batch, tableVars>> /\ dated[p] # NoSlot
      /\ UNCHANGED <<written, current, timeline>> /\ dated' = [dated EXCEPT ![p] = NoSlot]
      /\ LedgerOK /\ QueueOK /\ TablesOK /\ InOrder
  BY DEF TakeSnapshot, SnapshotFails, AcctIInv, tableVars
<1>2. PICK s : s = dated[p] /\ s \in SlotsSeen /\ s <= ledger.slot /\ s \in Nat /\ p \in Trackers
  <2>1. p \in Trackers /\ dated[p] \in SlotsSeen /\ dated[p] <= ledger.slot
    BY <1>1 DEF LedgerOK
  <2> QED
    BY <1>1, <2>1, AcctNumbers
<1>3. /\ \/ rawAccount' = Stream!Publish(rawAccount, [prog |-> p, slot |-> s]) /\ upsets' = upsets
            /\ blobs' = [blobs EXCEPT ![p][s] = ledger.holds]
         \/ /\ rawAccount' = rawAccount /\ Upset
            /\ blobs' = [blobs EXCEPT ![p][s] = ledger.holds] \/ blobs' = blobs
      /\ upsets' \in 0 .. MaxUpsets /\ (upsets' = 0 => upsets = 0)
  <2>1. upsets \in 0 .. MaxUpsets
    BY <1>1 DEF LedgerOK
  <2> QED
    BY <1>1, <1>2, <2>1, UpsetCounts DEF TakeSnapshot, SnapshotFails
<1>4. /\ blobs' \in [Trackers -> [SlotsSeen -> Nat]]
      /\ \A q \in Trackers : \A x \in SlotsSeen :
           blobs'[q][x] \in Nat /\ blobs[q][x] <= blobs'[q][x] /\ blobs'[q][x] <= ledger.holds
  <2>1. ledger.holds \in Nat /\ blobs \in [Trackers -> [SlotsSeen -> Nat]]
    BY <1>1 DEF LedgerOK
  <2>2. \A q \in Trackers : \A x \in SlotsSeen : blobs[q][x] \in Nat /\ blobs[q][x] <= ledger.holds
    BY <1>1 DEF LedgerOK
  <2> HIDE DEF SlotsSeen
  <2>3. CASE blobs' = blobs
    BY <2>1, <2>2, <2>3
  <2>4. CASE blobs' = [blobs EXCEPT ![p][s] = ledger.holds]
    <3>1. blobs' \in [Trackers -> [SlotsSeen -> Nat]]
      BY <1>2, <2>1, <2>4
    <3>2. \A q \in Trackers : \A x \in SlotsSeen :
            blobs'[q][x] = IF q = p /\ x = s THEN ledger.holds ELSE blobs[q][x]
      BY <1>2, <2>1, <2>4
    <3> QED
      BY <2>1, <2>2, <3>1, <3>2
  <2> QED
    BY <1>3, <2>3, <2>4
<1>5. LedgerOK'
  <2>1. dated' \in [Trackers -> SlotsSeen \cup {NoSlot}]
    BY <1>1, <1>2 DEF LedgerOK
  <2>2. \A q \in Trackers : dated'[q] # NoSlot => q \in tracking /\ dated'[q] <= ledger.slot
    BY <1>1, <1>2 DEF LedgerOK
  <2> QED
    BY <1>1, <1>3, <1>4, <2>1, <2>2 DEF LedgerOK
<1>6. /\ \A m \in Msgs : MessageOK(m) => MessageOK(m)'
      /\ \A w \in written : RowOK(w)'
  BY <1>1, <1>4, BlobsGrow
<1>7. TablesOK'
  BY <1>1, <1>3, <1>6, TablesStand
<1>8. CASE rawAccount' = rawAccount /\ Upset
  <2>1. \A i \in DOMAIN rawAccount' : MessageOK(rawAccount[i].body)'
    <3> TAKE i \in DOMAIN rawAccount'
    <3>1. PICK m : m = rawAccount[i].body
      OBVIOUS
    <3>2. m \in Msgs /\ MessageOK(m) /\ rawAccount'[i].body = m
      BY <1>1, <1>8, <3>1, BodyOf DEF QueueOK
    <3>3. MessageOK(m)'
      BY <1>6, <3>2
    <3> QED
      BY <3>2, <3>3 DEF MessageOK
  <2>2. Msgs' = Msgs
    BY <1>1 DEF Msgs
  <2>3. QueueOK'
    BY <1>1, <1>8, <2>1, <2>2 DEF QueueOK
  <2>4. upsets' # 0
    BY <1>1, <1>8, UpsetCounts
  <2>5. InOrder'
    BY <2>4 DEF InOrder
  <2> QED
    BY <1>5, <1>7, <2>3, <2>5 DEF AcctIInv
<1>9. CASE /\ rawAccount' = Stream!Publish(rawAccount, [prog |-> p, slot |-> s]) /\ upsets' = upsets
           /\ blobs' = [blobs EXCEPT ![p][s] = ledger.holds]
  <2>1. PICK m : m = [prog |-> p, slot |-> s]
    OBVIOUS
  <2>2. m \in Msgs /\ m.slot = s /\ m.prog = p
    BY <1>2, <2>1 DEF Msgs
  <2>3. PICK r, n : r = rawAccount' /\ n = Len(rawAccount) + 1
    OBVIOUS
  <2>4. /\ r \in Seq(Stream!Entries(Msgs)) /\ Len(rawAccount) \in Nat
        /\ DOMAIN rawAccount = 1 .. Len(rawAccount) /\ DOMAIN r = 1 .. n
        /\ \A i \in DOMAIN rawAccount : r[i] = rawAccount[i]
        /\ r[n].body = m /\ r[n].at = "new" /\ r[n].tries = 0
    BY <1>1, <1>9, <2>1, <2>2, <2>3, PublishAdds DEF QueueOK
  <2>5. /\ \A i \in DOMAIN r : i \in DOMAIN rawAccount \/ i = n
        /\ n \notin DOMAIN rawAccount /\ DOMAIN rawAccount \subseteq DOMAIN r
        /\ \A i \in DOMAIN rawAccount : i < n
    BY <2>3, <2>4
  <2>6. MessageOK(m)'
    <3>1. blobs'[p][s] = ledger.holds
      BY <1>1, <1>2, <1>9 DEF LedgerOK
    <3>2. ledger.held[p][s] <= ledger.holds
      BY <1>1, <1>2 DEF LedgerOK
    <3> QED
      BY <1>1, <1>2, <2>2, <3>1, <3>2 DEF MessageOK
  <2>7. \A i \in DOMAIN r : MessageOK(r[i].body)'
    <3> TAKE i \in DOMAIN r
    <3>1. CASE i = n
      BY <2>4, <2>6, <3>1 DEF MessageOK
    <3>2. CASE i \in DOMAIN rawAccount
      <4>1. PICK x : x = r[i].body
        OBVIOUS
      <4>2. x \in Msgs /\ MessageOK(x)
        BY <1>1, <2>4, <3>2, <4>1, BodyOf DEF QueueOK
      <4>3. MessageOK(x)'
        BY <1>6, <4>2
      <4> QED
        BY <4>1, <4>3 DEF MessageOK
    <3> QED
      BY <2>5, <3>1, <3>2
  <2>8. QueueOK'
    BY <1>1, <2>3, <2>4, <2>5, <2>7 DEF QueueOK, Msgs, MessageOK
  <2>9. ASSUME Alone, upsets = 0
        PROVE  /\ \A i, j \in DOMAIN r : i < j =>
                    /\ r[i].body.slot <= r[j].body.slot /\ (r[j].at = "acked" => r[i].at = "acked")
                    /\ j \in batch => r[i].at # "new"
               /\ \A i \in DOMAIN r :
                    /\ r[i].at # "again" /\ (r[i].at = "out" <=> i \in batch)
                    /\ r[i].at = "new" => r[i].tries = 0
                    /\ r[i].at = "out" => r[i].tries = 1
               /\ \A q \in tracking :
                    /\ dated'[q] = NoSlot \/ dated'[q] <= ledger.newest[q]
                    /\ \A i \in DOMAIN r : r[i].body.slot <= ledger.newest[q] /\ r[i].body.slot <= dated'[q]
                    /\ \A w \in written : w.slot <= ledger.newest[q] /\ w.slot <= dated'[q]
               /\ \A w \in written :
                    /\ w.slot <= current.slot
                    /\ \A i \in DOMAIN r : r[i].at # "acked" => w.slot <= r[i].body.slot
    <3>1. /\ \A i \in DOMAIN rawAccount : Slot(i) <= s /\ Slot(i) <= ledger.newest[p] /\ Slot(i) <= NoSlot
          /\ \A w \in written : w.slot <= s /\ w.slot <= ledger.newest[p] /\ w.slot <= NoSlot
          /\ s <= ledger.newest[p] /\ s <= NoSlot
      <4>1. \A i \in DOMAIN rawAccount : Slot(i) < NoSlot /\ Slot(i) \in Nat
        BY <1>1, MessageNumbers
      <4>2. \A w \in written : w.slot \in SlotsSeen
        BY <1>1, RowNumbers
      <4>3. \A x \in SlotsSeen : x <= NoSlot
        BY NoRowIsNone
      <4>4. /\ \A i \in DOMAIN rawAccount : Slot(i) <= s /\ Slot(i) <= ledger.newest[p]
            /\ \A w \in written : w.slot <= s /\ w.slot <= ledger.newest[p]
            /\ s <= ledger.newest[p]
        BY <1>1, <1>2, <2>9 DEF InOrder
      <4>5. \A i \in DOMAIN rawAccount : Slot(i) <= NoSlot
        BY <4>1, NoRowIsNone
      <4> QED
        BY <1>2, <4>2, <4>3, <4>4, <4>5
    <3>2. \A q \in tracking : q = p
      BY <1>1, <2>9, AloneIsOne
    <3>3. dated'[p] = NoSlot
      BY <1>1, <1>2 DEF LedgerOK
    <3>4. /\ r[n].body.slot = s /\ r[n].at = "new" /\ n \notin batch
          /\ \A i \in DOMAIN rawAccount : r[i].body.slot = Slot(i) /\ r[i] = rawAccount[i]
      BY <1>1, <2>2, <2>4, <2>5 DEF Slot, QueueOK
    <3>5. \A i, j \in DOMAIN r : i < j =>
            /\ r[i].body.slot <= r[j].body.slot /\ (r[j].at = "acked" => r[i].at = "acked")
            /\ j \in batch => r[i].at # "new"
      <4>1. \A i, j \in DOMAIN r : i < j => i \in DOMAIN rawAccount
        BY <2>3, <2>4
      <4>2. SUFFICES ASSUME NEW i \in DOMAIN rawAccount, NEW j \in DOMAIN r, i < j
                     PROVE  /\ r[i].body.slot <= r[j].body.slot /\ (r[j].at = "acked" => r[i].at = "acked")
                            /\ j \in batch => r[i].at # "new"
        BY <4>1
      <4>3. CASE j = n
        BY <3>1, <3>4, <4>3
      <4>4. CASE j \in DOMAIN rawAccount
        BY <1>1, <2>9, <3>4, <4>2, <4>4 DEF InOrder
      <4> QED
        BY <2>5, <4>3, <4>4
    <3>6. \A i \in DOMAIN r :
            /\ r[i].at # "again" /\ (r[i].at = "out" <=> i \in batch)
            /\ r[i].at = "new" => r[i].tries = 0
            /\ r[i].at = "out" => r[i].tries = 1
      <4> TAKE i \in DOMAIN r
      <4>1. CASE i = n
        BY <2>4, <3>4, <4>1
      <4>2. CASE i \in DOMAIN rawAccount
        BY <1>1, <2>9, <3>4, <4>2 DEF InOrder
      <4> QED
        BY <2>5, <4>1, <4>2
    <3>7. \A i \in DOMAIN r : r[i].body.slot <= ledger.newest[p] /\ r[i].body.slot <= NoSlot
      BY <2>5, <3>1, <3>4
    <3>8. \A w \in written :
            /\ w.slot <= current.slot
            /\ \A i \in DOMAIN r : r[i].at # "acked" => w.slot <= r[i].body.slot
      <4> TAKE w \in written
      <4>1. w.slot <= current.slot /\ \A i \in DOMAIN rawAccount : rawAccount[i].at # "acked" => w.slot <= Slot(i)
        BY <1>1, <2>9 DEF InOrder
      <4> QED
        BY <2>5, <3>1, <3>4, <4>1
    <3> QED
      BY <3>1, <3>2, <3>3, <3>5, <3>6, <3>7, <3>8
  <2>10. InOrder'
    <3>1. Alone' = Alone
      BY <1>1 DEF Alone
    <3>2. \A i : Slot(i)' = r[i].body.slot
      BY <2>3 DEF Slot
    <3> QED
      BY <1>1, <1>9, <2>3, <2>9, <3>1, <3>2 DEF InOrder
  <2> QED
    BY <1>5, <1>7, <2>8, <2>10 DEF AcctIInv
<1> QED
  BY <1>3, <1>8, <1>9

\* Entries of the stream change their state, not their bodies.
LEMMA QueueStands ==
  ASSUME QueueOK, UNCHANGED <<tracking, ledger, blobs>>, rawAccount' \in Seq(Stream!Entries(Msgs)),
         DOMAIN rawAccount' = DOMAIN rawAccount, batch' \subseteq DOMAIN rawAccount,
         \A i \in DOMAIN rawAccount : rawAccount'[i].body = rawAccount[i].body
  PROVE  QueueOK' /\ \A i \in DOMAIN rawAccount : Slot(i)' = Slot(i)
<1>1. Msgs' = Msgs
  BY DEF Msgs
<1>2. ASSUME NEW i \in DOMAIN rawAccount
      PROVE  MessageOK(rawAccount[i].body)'
  <2>1. PICK m : m = rawAccount[i].body
    OBVIOUS
  <2>2. MessageOK(m) /\ rawAccount'[i].body = m
    BY <2>1 DEF QueueOK
  <2> QED
    BY <2>2 DEF MessageOK
<1> QED
  BY <1>1, <1>2 DEF QueueOK, Slot

LEMMA StreamStep ==
  ASSUME AcctIInv, FetchAccounts \/ AccountWaitPasses
  PROVE  AcctIInv'
<1>1. /\ UNCHANGED <<tracking, ledger, dated, blobs, tableVars, upsets>>
      /\ UNCHANGED <<written, current, timeline>>
      /\ LedgerOK /\ QueueOK /\ TablesOK /\ InOrder
  BY DEF FetchAccounts, AccountWaitPasses, AcctIInv, tableVars
<1>2. LedgerOK'
  BY <1>1 DEF LedgerOK
<1>3. TablesOK'
  <2>1. \A w \in written : RowOK(w)'
    BY <1>1 DEF TablesOK, RowOK
  <2> QED
    BY <1>1, <2>1, TablesStand
<1>4. CASE FetchAccounts
  <2>1. PICK q, r : q = rawAccount /\ r = rawAccount' /\ r = Stream!Deliver(q)
    BY <1>4 DEF FetchAccounts
  <2>2. batch = {} /\ batch' = {i \in DOMAIN q : q[i].at \in {"new", "again"}}
    BY <1>4, <2>1 DEF FetchAccounts, Stream!Waiting
  <2>3. /\ r \in Seq(Stream!Entries(Msgs)) /\ DOMAIN r = DOMAIN q
        /\ \A i \in DOMAIN q :
             /\ r[i].body = q[i].body
             /\ q[i].at \in {"new", "again"} => r[i].at = "out" /\ r[i].tries = q[i].tries + 1
             /\ q[i].at \notin {"new", "again"} => r[i] = q[i]
    BY <1>1, <2>1, DeliverMoves DEF QueueOK
  <2>4. QueueOK' /\ \A i \in DOMAIN q : Slot(i)' = Slot(i)
    BY <1>1, <2>1, <2>2, <2>3, QueueStands
  <2>5. InOrder'
    <3>1. SUFFICES ASSUME Alone, upsets = 0
                   PROVE  /\ \A i, j \in DOMAIN q : i < j =>
                               /\ r[j].at = "acked" => r[i].at = "acked"
                               /\ j \in batch' => r[i].at # "new"
                          /\ \A i \in DOMAIN q :
                               /\ r[i].at # "again" /\ (r[i].at = "out" <=> i \in batch')
                               /\ r[i].at = "new" => r[i].tries = 0
                               /\ r[i].at = "out" => r[i].tries = 1
                               /\ r[i].at # "acked" => q[i].at # "acked"
      <4>1. Alone' = Alone
        BY <1>1 DEF Alone
      <4> QED
        BY <1>1, <2>1, <2>3, <2>4, <4>1 DEF InOrder
    <3>2. ASSUME NEW i \in DOMAIN q
          PROVE  /\ q[i].at \in {"new", "acked"} /\ (q[i].at = "new" => q[i].tries = 0)
                 /\ (q[i].at = "new" <=> i \in batch')
                 /\ (q[i].at = "new" => r[i].at = "out" /\ r[i].tries = 1)
                 /\ (q[i].at = "acked" => r[i].at = "acked")
      <4>1. q[i].at \in Stream!States
        <5>1. q \in Seq(Stream!Entries(Msgs))
          BY <1>1, <2>1 DEF QueueOK
        <5>2. q[i] \in Stream!Entries(Msgs)
          BY <5>1, LenProperties, ElementOfSeq
        <5> QED
          BY <5>2 DEF Stream!Entries
      <4>2. q[i].at # "again" /\ q[i].at # "out" /\ (q[i].at = "new" => q[i].tries = 0)
        BY <1>1, <2>1, <2>2, <3>1 DEF InOrder
      <4>3. q[i].at \in {"new", "acked"}
        BY <4>1, <4>2 DEF Stream!States
      <4>4. q[i].at = "new" => r[i].tries = 0 + 1
        BY <2>3, <4>2
      <4> QED
        BY <2>2, <2>3, <4>2, <4>3, <4>4
    <3>3. \A i, j \in DOMAIN q : i < j => (q[j].at = "acked" => q[i].at = "acked")
      BY <1>1, <2>1, <3>1 DEF InOrder
    <3>4. \A i \in DOMAIN q : r[i].at \in {"out", "acked"} /\ (r[i].at = "acked" <=> q[i].at = "acked")
      BY <3>2
    <3> QED
      BY <3>2, <3>3, <3>4
  <2> QED
    BY <1>2, <1>3, <2>4, <2>5 DEF AcctIInv
<1>5. CASE AccountWaitPasses
  <2>1. PICK i \in DOMAIN rawAccount \ batch :
          rawAccount[i].at = "out" /\ rawAccount' = [rawAccount EXCEPT ![i].at = "again"] /\ batch' = batch
    BY <1>5 DEF AccountWaitPasses, Stream!Expire
  <2>2. /\ rawAccount' \in Seq(Stream!Entries(Msgs)) /\ DOMAIN rawAccount' = DOMAIN rawAccount
        /\ \A j \in DOMAIN rawAccount : rawAccount'[j].body = rawAccount[j].body
    <3>1. PICK q, r : q = rawAccount /\ r = rawAccount'
      OBVIOUS
    <3>2. q \in Seq(Stream!Entries(Msgs)) /\ i \in DOMAIN q /\ "again" \in Stream!States
          /\ r = [q EXCEPT ![i].at = "again"]
      BY <1>1, <2>1, <3>1 DEF QueueOK, Stream!States
    <3>3. /\ r \in Seq(Stream!Entries(Msgs)) /\ DOMAIN r = DOMAIN q
          /\ \A j \in DOMAIN q : j # i => r[j] = q[j]
          /\ r[i].body = q[i].body
      BY <3>2, MarkMoves
    <3> QED
      BY <3>1, <3>3
  <2>3. QueueOK'
    BY <1>1, <2>1, <2>2, QueueStands DEF QueueOK
  <2>4. ~(Alone /\ upsets = 0)
    BY <1>1, <2>1 DEF InOrder
  <2>5. InOrder'
    BY <1>1, <2>4 DEF InOrder, Alone
  <2> QED
    BY <1>2, <1>3, <2>3, <2>5 DEF AcctIInv
<1> QED
  BY <1>4, <1>5

-----------------------------------------------------------------------------
(* A message is handled. *)

\* The three statements, or those before one that fails.
LEMMA StoreStep ==
  ASSUME LedgerOK, QueueOK, TablesOK, NEW i \in DOMAIN rawAccount, UNCHANGED <<tracking, ledger, blobs>>,
         upsets' = 0 => upsets = 0,
         DecodeAccount(i) \/ (DecodeAccountFails(i) /\ upsets' # 0)
  PROVE  /\ TablesOK' /\ written' \subseteq written \cup {Stored(rawAccount[i].body)}
         /\ DecodeAccount(i) => current'.slot = Slot(i)
<1>1. PICK m, row : m = rawAccount[i].body /\ row = Stored(m)
  OBVIOUS
<1>2. /\ m.prog \in tracking /\ m.slot \in SlotsSeen /\ m.slot <= ledger.slot
      /\ ledger.held[m.prog][m.slot] <= blobs[m.prog][m.slot] /\ blobs[m.prog][m.slot] \in Nat
  <2>1. m \in Msgs /\ MessageOK(m)
    BY <1>1, BodyOf DEF QueueOK
  <2>2. m.prog \in tracking /\ m.slot \in SlotsSeen
    BY <2>1 DEF Msgs
  <2> QED
    BY <2>1, <2>2, AcctNumbers DEF MessageOK
<1>3. /\ row \in StoredRows /\ row.prog = m.prog /\ row.slot = m.slot /\ row.holds = blobs[m.prog][m.slot]
      /\ row.holds \in Nat /\ RowOK(row) /\ row # NoRow /\ Slot(i) = row.slot
  <2>1. row = [prog |-> m.prog, slot |-> m.slot, holds |-> blobs[m.prog][m.slot]]
    BY <1>1 DEF Stored, Row
  <2>2. row \in StoredRows /\ row.prog = m.prog /\ row.slot = m.slot /\ row.holds = blobs[m.prog][m.slot]
    BY <1>2, <2>1 DEF StoredRows
  <2>3. row.holds <= blobs[row.prog][row.slot]
    BY <1>2, <2>2
  <2> QED
    BY <1>1, <1>2, <2>2, <2>3, NoRowIsNone DEF RowOK, Slot
<1>4. /\ Alone' = Alone /\ StoredRows' = StoredRows
      /\ \A w : RowOK(w)' <=> RowOK(w)
  BY DEF Alone, StoredRows, RowOK
<1>5. /\ \/ UNCHANGED tableVars /\ upsets' # 0
         \/ written' = written \cup {row} /\ UNCHANGED <<current, timeline>> /\ upsets' # 0
         \/ written' = written \cup {row} /\ UpsertCurrent(row) /\ UNCHANGED timeline /\ upsets' # 0
         \/ written' = written \cup {row} /\ UpsertCurrent(row) /\ InsertTimeline(row)
      /\ DecodeAccount(i) => UpsertCurrent(row)
  BY <1>1 DEF DecodeAccount, DecodeAccountFails, InsertWrite
<1>6. UpsertCurrent(row) => /\ current' \in StoredRows /\ current' # NoRow
                            /\ current'.slot = row.slot /\ current'.holds = row.holds
  <2>1. CASE current = NoRow
    BY <1>3, <2>1 DEF UpsertCurrent
  <2>2. CASE current # NoRow
    <3>1. current \in StoredRows
      BY <2>2 DEF TablesOK
    <3>2. PICK p \in tracking : p = current.prog
      BY <3>1 DEF StoredRows
    <3>3. UpsertCurrent(row) => current' = [row EXCEPT !.prog = p]
      BY <2>2, <3>2 DEF UpsertCurrent
    <3> QED
      BY <1>3, <3>2, <3>3, NoRowIsNone DEF StoredRows
  <2> QED
    BY <2>1, <2>2
\* In one program's rows, a stored row of this slot shows no more than this one.
<1>7. ASSUME NEW w \in written, w.slot = row.slot, Alone PROVE w.holds <= row.holds
  <2>1. w.prog = row.prog
    BY <1>2, <1>3, <1>7, AloneIsOne, RowNumbers
  <2> QED
    BY <1>3, <1>7, <2>1 DEF TablesOK, RowOK
<1>8. CASE UNCHANGED tableVars /\ upsets' # 0
  BY <1>4, <1>5, <1>6, <1>8, <1>3 DEF TablesOK, tableVars
<1>9. CASE written' = written \cup {row} /\ UNCHANGED timeline /\ upsets' # 0 /\ (UNCHANGED current \/ UpsertCurrent(row))
  <2>1. written' \subseteq StoredRows' /\ \A w \in written' : RowOK(w)'
    BY <1>3, <1>4, <1>9 DEF TablesOK
  <2>2. current' \in StoredRows \cup {NoRow}
        /\ (current' # NoRow => \E w \in written' : w.slot = current'.slot /\ w.holds = current'.holds)
    BY <1>6, <1>9 DEF TablesOK
  <2>3. timeline' \in [SlotsSeen -> written' \cup {NoRow}] /\ \A s \in SlotsSeen : timeline'[s] # NoRow => timeline'[s].slot = s
    <3>1. timeline \in [SlotsSeen -> written \cup {NoRow}] /\ \A s \in SlotsSeen : timeline[s] # NoRow => timeline[s].slot = s
      BY DEF TablesOK
    <3> QED
      BY <1>9, <3>1
  <2>4. Alone /\ current' # NoRow /\ timeline'[current'.slot] # NoRow => timeline'[current'.slot].holds <= current'.holds
    <3>1. CASE UNCHANGED current
      BY <1>9, <3>1 DEF TablesOK
    <3>2. CASE UpsertCurrent(row)
      <4>1. timeline[row.slot] # NoRow => timeline[row.slot] \in written /\ timeline[row.slot].slot = row.slot
        BY <1>2, <1>3 DEF TablesOK
      <4> QED
        BY <1>6, <1>7, <1>9, <3>2, <4>1
    <3> QED
      BY <1>9, <3>1, <3>2
  <2>5. NoRow' = NoRow
    BY DEF NoRow, Row
  <2>6. TablesOK'
    BY <1>4, <1>9, <2>1, <2>2, <2>3, <2>4, <2>5 DEF TablesOK
  <2> QED
    BY <1>1, <1>3, <1>5, <1>6, <1>9, <2>6
<1>10. CASE written' = written \cup {row} /\ UpsertCurrent(row) /\ InsertTimeline(row)
  <2>1. written' \subseteq StoredRows' /\ \A w \in written' : RowOK(w)'
    BY <1>3, <1>4, <1>10 DEF TablesOK
  <2>2. current' \in StoredRows /\ current' # NoRow
        /\ (\E w \in written' : w.slot = current'.slot /\ w.holds = current'.holds)
    BY <1>6, <1>10
  <2>3. timeline \in [SlotsSeen -> written \cup {NoRow}] /\ \A s \in SlotsSeen : timeline[s] # NoRow => timeline[s].slot = s
    BY DEF TablesOK
  <2>4. /\ timeline' \in [SlotsSeen -> written' \cup {NoRow}]
        /\ \A s \in SlotsSeen : s # row.slot => timeline'[s] = timeline[s]
        /\ timeline[row.slot] # NoRow => timeline'[row.slot] = timeline[row.slot]
        /\ timeline[row.slot] = NoRow => timeline'[row.slot] = row
    <3>1. row.slot \in SlotsSeen
      BY <1>2, <1>3
    <3>2. timeline' = IF timeline[row.slot] = NoRow THEN [timeline EXCEPT ![row.slot] = row] ELSE timeline
      BY <1>10 DEF InsertTimeline
    <3> HIDE DEF SlotsSeen
    <3> QED
      BY <1>10, <2>3, <3>1, <3>2
  <2>5. \A s \in SlotsSeen : timeline'[s] # NoRow => timeline'[s].slot = s
    BY <2>3, <2>4
  <2>6. timeline'[row.slot] # NoRow /\ (Alone => timeline'[row.slot].holds <= row.holds)
    <3>1. CASE timeline[row.slot] = NoRow
      BY <1>3, <2>4, <3>1
    <3>2. CASE timeline[row.slot] # NoRow
      <4>1. timeline[row.slot] \in written /\ timeline[row.slot].slot = row.slot
        BY <1>2, <1>3, <2>3, <3>2
      <4> QED
        BY <1>7, <2>4, <3>2, <4>1
    <3> QED
      BY <3>1, <3>2
  <2>7. upsets' = 0 => \A w \in written' : timeline'[w.slot] # NoRow /\ (Alone => timeline'[w.slot].holds <= w.holds)
    <3> SUFFICES ASSUME upsets = 0, NEW w \in written'
                 PROVE  timeline'[w.slot] # NoRow /\ (Alone => timeline'[w.slot].holds <= w.holds)
      OBVIOUS
    <3>1. CASE w = row
      BY <2>6, <3>1
    <3>2. CASE w \in written
      <4>1. w.slot \in SlotsSeen /\ timeline[w.slot] # NoRow /\ (Alone => timeline[w.slot].holds <= w.holds)
        BY <3>2, RowNumbers DEF TablesOK
      <4>2. timeline'[w.slot] = timeline[w.slot]
        BY <2>4, <4>1
      <4> QED
        BY <4>1, <4>2
    <3> QED
      BY <1>10, <3>1, <3>2
  <2>8. NoRow' = NoRow
    BY DEF NoRow, Row
  <2>9. Alone => timeline'[current'.slot].holds <= current'.holds
    BY <1>6, <1>10, <2>6
  <2>10. TablesOK'
    BY <1>4, <2>1, <2>2, <2>4, <2>5, <2>7, <2>8, <2>9 DEF TablesOK
  <2> QED
    BY <1>1, <1>3, <1>6, <1>10, <2>10
<1> QED
  BY <1>5, <1>8, <1>9, <1>10

\* Handled in order, while nothing has failed: the foremost of the batch is the oldest
\* message that is not acknowledged.
LEMMA HandledInOrder ==
  ASSUME LedgerOK, QueueOK, TablesOK, InOrder, UNCHANGED <<tracking, ledger, dated, upsets>>, NEW i \in batch,
         Stream!Foremost(rawAccount, batch, i), batch' = batch \ {i}, DOMAIN rawAccount' = DOMAIN rawAccount,
         \A j \in DOMAIN rawAccount : j # i => rawAccount'[j] = rawAccount[j],
         rawAccount'[i].body = rawAccount[i].body, rawAccount'[i].at = "acked",
         written' \subseteq written \cup {Stored(rawAccount[i].body)}, current'.slot = Slot(i)
  PROVE  InOrder'
<1> DEFINE q == rawAccount
           r == rawAccount'
<1>1. i \in DOMAIN q
  BY DEF QueueOK
<1>2. /\ \A j \in DOMAIN q : Slot(j)' = Slot(j) /\ Slot(j) \in Nat
      /\ Alone' = Alone
  BY <1>1, MessageNumbers DEF Slot, Alone
<1>3. SUFFICES ASSUME Alone, upsets = 0
               PROVE  /\ \A k, l \in DOMAIN q : k < l =>
                           /\ Slot(k) <= Slot(l) /\ (r[l].at = "acked" => r[k].at = "acked")
                           /\ l \in batch' => r[k].at # "new"
                      /\ \A k \in DOMAIN q :
                           /\ r[k].at # "again" /\ (r[k].at = "out" <=> k \in batch')
                           /\ r[k].at = "new" => r[k].tries = 0
                           /\ r[k].at = "out" => r[k].tries = 1
                      /\ \A p \in tracking :
                           /\ dated[p] = NoSlot \/ dated[p] <= ledger.newest[p]
                           /\ \A k \in DOMAIN q : Slot(k) <= ledger.newest[p] /\ Slot(k) <= dated[p]
                           /\ \A w \in written' : w.slot <= ledger.newest[p] /\ w.slot <= dated[p]
                      /\ \A w \in written' :
                           /\ w.slot <= current'.slot
                           /\ \A k \in DOMAIN q : r[k].at # "acked" => w.slot <= Slot(k)
  BY <1>2 DEF InOrder
<1>4. /\ \A k, l \in DOMAIN q : k < l =>
           /\ Slot(k) <= Slot(l) /\ (q[l].at = "acked" => q[k].at = "acked")
           /\ l \in batch => q[k].at # "new"
      /\ \A k \in DOMAIN q :
           /\ q[k].at # "again" /\ (q[k].at = "out" <=> k \in batch)
           /\ q[k].at = "new" => q[k].tries = 0
           /\ q[k].at = "out" => q[k].tries = 1
  BY <1>3 DEF InOrder
<1>5. /\ \A p \in tracking :
           /\ dated[p] = NoSlot \/ dated[p] <= ledger.newest[p]
           /\ \A k \in DOMAIN q : Slot(k) <= ledger.newest[p] /\ Slot(k) <= dated[p]
           /\ \A w \in written : w.slot <= ledger.newest[p] /\ w.slot <= dated[p]
      /\ \A w \in written : \A k \in DOMAIN q : q[k].at # "acked" => w.slot <= Slot(k)
  BY <1>3 DEF InOrder
<1>6. DOMAIN q = 1 .. Len(q) /\ Len(q) \in Nat
  BY LenProperties DEF QueueOK
<1>7. q[i].at = "out" /\ q[i].tries = 1 /\ \A k \in batch : i <= k
  BY <1>1, <1>4 DEF Stream!Foremost
<1>8. \A k \in DOMAIN q : k < i => q[k].at = "acked"
  <2> TAKE k \in DOMAIN q
  <2> HAVE k < i
  <2>1. q[k].at # "new" /\ q[k].at # "again"
    BY <1>1, <1>4
  <2>2. k \notin batch
    BY <1>1, <1>6, <1>7
  <2>3. q[k].at \in Stream!States
    <3>1. q[k] \in Stream!Entries(Msgs)
      BY LenProperties, ElementOfSeq DEF QueueOK
    <3> QED
      BY <3>1 DEF Stream!Entries
  <2> QED
    BY <1>4, <2>1, <2>2, <2>3 DEF Stream!States
<1>9. \A k \in DOMAIN q : r[k].at = (IF k = i THEN "acked" ELSE q[k].at) /\ (k # i => r[k].tries = q[k].tries)
  OBVIOUS
<1>10. \A k, l \in DOMAIN q : k < l =>
         /\ Slot(k) <= Slot(l) /\ (r[l].at = "acked" => r[k].at = "acked")
         /\ l \in batch' => r[k].at # "new"
  BY <1>4, <1>8, <1>9
<1>11. \A k \in DOMAIN q :
         /\ r[k].at # "again" /\ (r[k].at = "out" <=> k \in batch')
         /\ r[k].at = "new" => r[k].tries = 0
         /\ r[k].at = "out" => r[k].tries = 1
  BY <1>4, <1>9
<1>12. \A w \in written' : w \in written \/ w.slot = Slot(i)
  BY DEF Stored, Row, Slot
<1>13. \A w \in written' : w.slot <= Slot(i)
  BY <1>1, <1>2, <1>5, <1>7, <1>12
<1>14. \A k \in DOMAIN q : r[k].at # "acked" => Slot(i) <= Slot(k)
  <2> TAKE k \in DOMAIN q
  <2> HAVE r[k].at # "acked"
  <2>1. ~(k < i) /\ k # i
    BY <1>8, <1>9
  <2>2. i < k
    BY <1>1, <1>6, <2>1
  <2> QED
    BY <1>1, <1>4, <2>2
<1>15. \A w \in written' : w.slot \in Nat
  BY <1>1, <1>2, <1>12, RowNumbers
<1>16. \A w \in written' : w.slot <= current'.slot
                           /\ \A k \in DOMAIN q : r[k].at # "acked" => w.slot <= Slot(k)
  BY <1>1, <1>2, <1>13, <1>14, <1>15
<1>17. \A p \in tracking : \A w \in written' : w.slot <= ledger.newest[p] /\ w.slot <= dated[p]
  BY <1>1, <1>5, <1>12
<1> HIDE DEF q, r
<1> QED
  BY <1>5, <1>10, <1>11, <1>16, <1>17

LEMMA HandleStep ==
  ASSUME AcctIInv, HandleAccount \/ AccountAckIsLost \/ AccountLoopEnds
  PROVE  AcctIInv'
<1>1. /\ UNCHANGED <<tracking, ledger, dated, blobs>>
      /\ LedgerOK /\ QueueOK /\ TablesOK /\ InOrder
  BY DEF HandleAccount, AccountAckIsLost, AccountLoopEnds, AcctIInv
<1>2. /\ upsets' \in 0 .. MaxUpsets /\ (Upset => upsets' # 0)
      /\ UNCHANGED upsets \/ Upset
  <2>1. upsets \in 0 .. MaxUpsets /\ (UNCHANGED upsets \/ Upset)
    BY <1>1 DEF LedgerOK, HandleAccount, AccountAckIsLost, AccountLoopEnds
  <2> QED
    BY <1>1, <2>1, UpsetCounts
<1>3. LedgerOK'
  BY <1>1, <1>2 DEF LedgerOK
<1>4. \A i \in batch : i \in DOMAIN rawAccount
  BY <1>1 DEF QueueOK
<1>5. ASSUME UNCHANGED rawAccount, batch' \subseteq batch, Upset, TablesOK'
      PROVE  AcctIInv'
  <2>1. QueueOK'
    <3>1. /\ rawAccount' \in Seq(Stream!Entries(Msgs)) /\ DOMAIN rawAccount' = DOMAIN rawAccount
          /\ batch' \subseteq DOMAIN rawAccount
          /\ \A i \in DOMAIN rawAccount : rawAccount'[i].body = rawAccount[i].body
      BY <1>1, <1>4, <1>5 DEF QueueOK
    <3> QED
      BY <1>1, <3>1, QueueStands
  <2>2. InOrder'
    BY <1>2, <1>5 DEF InOrder
  <2> QED
    BY <1>3, <1>5, <2>1, <2>2 DEF AcctIInv
<1>6. CASE HandleAccount
  <2>1. PICK i \in batch :
          /\ Stream!Foremost(rawAccount, batch, i)
          /\ (DecodeAccount(i) /\ UNCHANGED upsets) \/ (DecodeAccountFails(i) /\ Upset)
          /\ rawAccount' = [rawAccount EXCEPT ![i].at = "acked"] /\ batch' = batch \ {i}
    BY <1>6 DEF HandleAccount, Stream!Acknowledge
  <2>2. /\ TablesOK' /\ written' \subseteq written \cup {Stored(rawAccount[i].body)}
        /\ DecodeAccount(i) => current'.slot = Slot(i)
    BY <1>1, <1>2, <1>4, <2>1, StoreStep
  <2>3. /\ rawAccount' \in Seq(Stream!Entries(Msgs)) /\ DOMAIN rawAccount' = DOMAIN rawAccount
        /\ \A j \in DOMAIN rawAccount : j # i => rawAccount'[j] = rawAccount[j]
        /\ rawAccount'[i].body = rawAccount[i].body /\ rawAccount'[i].at = "acked"
    <3>1. PICK q, r : q = rawAccount /\ r = rawAccount'
      OBVIOUS
    <3>2. q \in Seq(Stream!Entries(Msgs)) /\ i \in DOMAIN q /\ "acked" \in Stream!States
          /\ r = [q EXCEPT ![i].at = "acked"]
      BY <1>1, <1>4, <2>1, <3>1 DEF QueueOK, Stream!States
    <3>3. /\ r \in Seq(Stream!Entries(Msgs)) /\ DOMAIN r = DOMAIN q
          /\ \A j \in DOMAIN q : j # i => r[j] = q[j]
          /\ r[i].body = q[i].body /\ r[i].at = "acked"
      BY <3>2, MarkMoves
    <3> QED
      BY <3>1, <3>3
  <2>4. QueueOK'
    <3>1. batch' \subseteq DOMAIN rawAccount /\ \A j \in DOMAIN rawAccount : rawAccount'[j].body = rawAccount[j].body
      BY <1>4, <2>1, <2>3
    <3> QED
      BY <1>1, <2>3, <3>1, QueueStands
  <2>5. InOrder'
    <3>1. CASE DecodeAccount(i) /\ UNCHANGED upsets
      BY <1>1, <2>1, <2>2, <2>3, <3>1, HandledInOrder
    <3>2. CASE Upset
      BY <1>2, <3>2 DEF InOrder
    <3> QED
      BY <2>1, <3>1, <3>2
  <2> QED
    BY <1>3, <2>2, <2>4, <2>5 DEF AcctIInv
<1>7. CASE AccountAckIsLost
  <2>1. PICK i \in batch : DecodeAccount(i) /\ Upset /\ batch' = batch \ {i} /\ UNCHANGED rawAccount
    BY <1>7 DEF AccountAckIsLost
  <2>2. TablesOK'
    BY <1>1, <1>2, <1>4, <2>1, StoreStep
  <2> QED
    BY <1>5, <2>1, <2>2
<1>8. CASE AccountLoopEnds
  <2>1. Upset /\ batch' = {} /\ UNCHANGED rawAccount
        /\ (UNCHANGED tableVars \/ \E i \in batch : DecodeAccountFails(i))
    BY <1>8 DEF AccountLoopEnds
  <2>2. TablesOK'
    <3>1. CASE UNCHANGED tableVars
      <4>1. \A w \in written : RowOK(w)'
        BY <1>1 DEF TablesOK, RowOK
      <4> QED
        BY <1>1, <1>2, <2>1, <3>1, <4>1, TablesStand
    <3>2. CASE \E i \in batch : DecodeAccountFails(i)
      BY <1>1, <1>2, <1>4, <2>1, <3>2, StoreStep
    <3> QED
      BY <2>1, <3>1, <3>2
  <2> QED
    BY <1>5, <2>1, <2>2
<1> QED
  BY <1>6, <1>7, <1>8

LEMMA AcctStep == AcctIInv /\ [AcctNext]_acctVars => AcctIInv'
<1> SUFFICES ASSUME AcctIInv, [AcctNext]_acctVars PROVE AcctIInv'
  OBVIOUS
<1>1. CASE UNCHANGED acctVars
  <2>1. UNCHANGED <<tracking, ledger, dated, blobs, rawAccount, batch, tableVars, upsets>>
        /\ UNCHANGED <<written, current, timeline>>
    BY <1>1 DEF acctVars, tableVars
  <2>2. LedgerOK'
    BY <2>1 DEF AcctIInv, LedgerOK
  <2>3. QueueOK'
    BY <2>1 DEF AcctIInv, QueueOK, MessageOK, Msgs
  <2>4. TablesOK'
    <3>1. \A w \in written : RowOK(w)'
      BY <2>1 DEF AcctIInv, TablesOK, RowOK
    <3> QED
      BY <2>1, <3>1, TablesStand DEF AcctIInv
  <2>5. InOrder'
    BY <2>1 DEF AcctIInv, InOrder, Alone, Slot
  <2> QED
    BY <2>2, <2>3, <2>4, <2>5 DEF AcctIInv
<1>2. CASE SlotIsFinalized \/ AccountIsWritten
  BY <1>2, ClusterStep
<1>3. CASE FetchAccounts \/ AccountWaitPasses
  BY <1>3, StreamStep
<1>4. CASE HandleAccount \/ AccountAckIsLost \/ AccountLoopEnds
  BY <1>4, HandleStep
<1>5. ASSUME NEW p \in tracking, ReadNewestSlot(p) \/ TakeSnapshot(p) \/ SnapshotFails(p)
      PROVE  AcctIInv'
  BY <1>5, DateStep, SnapshotStep
<1> QED
  BY <1>1, <1>2, <1>3, <1>4, <1>5 DEF AcctNext, AccountLoop

LEMMA AcctImplies == AcctIInv => AcctInv
<1> SUFFICES ASSUME AcctIInv PROVE AcctInv
  OBVIOUS
<1>1. LedgerOK /\ QueueOK /\ TablesOK /\ InOrder
  BY DEF AcctIInv
<1>2. AcctTypeOK
  <2>1. rawAccount \in Seq(Stream!Entries([prog : Trackers, slot : SlotsSeen]))
    <3>1. Msgs \subseteq [prog : Trackers, slot : SlotsSeen]
      BY <1>1 DEF LedgerOK, Msgs
    <3>2. Stream!Entries(Msgs) \subseteq Stream!Entries([prog : Trackers, slot : SlotsSeen])
      BY <3>1 DEF Stream!Entries
    <3> QED
      <4>1. \A i \in 1 .. Len(rawAccount) : rawAccount[i] \in Stream!Entries(Msgs)
        BY <1>1, ElementOfSeq DEF QueueOK
      <4>2. rawAccount = [i \in 1 .. Len(rawAccount) |-> rawAccount[i]] /\ Len(rawAccount) \in Nat
        BY <1>1, LenProperties DEF QueueOK
      <4>3. rawAccount \in [1 .. Len(rawAccount) -> Stream!Entries([prog : Trackers, slot : SlotsSeen])]
        BY <3>2, <4>1, <4>2
      <4> QED
        BY <4>2, <4>3, SeqDef
  <2> QED
    BY <1>1, <2>1 DEF LedgerOK, QueueOK, AcctTypeOK
<1>3. Rows \subseteq written
  BY <1>1 DEF TablesOK, Rows
<1>4. NothingIsDatedTooLate
  <2>1. \A w \in written : w.holds >= ledger.held[w.prog][w.slot]
    <3> TAKE w \in written
    <3>1. ledger.held[w.prog][w.slot] \in Nat /\ w.holds \in Nat /\ ledger.held[w.prog][w.slot] <= w.holds
      BY <1>1, RowNumbers, AcctNumbers DEF TablesOK, RowOK
    <3> QED
      BY <3>1
  <2> QED
    BY <1>3, <2>1 DEF NothingIsDatedTooLate
<1>5. current # NoRow => current.slot \in SlotsSeen
  BY <1>1 DEF TablesOK, StoredRows
<1>6. TimelineIsNoNewerThanTheRow
  BY <1>1 DEF TablesOK, TimelineIsNoNewerThanTheRow
<1>7. BackNeedsAnUpset
  BY <1>1, <1>3 DEF InOrder, BackNeedsAnUpset
<1>8. TablesAgree
  BY <1>1, <1>3 DEF TablesOK, TablesAgree
<1> QED
  BY <1>2, <1>4, <1>6, <1>7, <1>8 DEF AcctInv

\* Whatever fails, is delivered again or overwritten: no row is dated before what it
\* shows was there, a row of the account has its entry in account_writes, and with
\* one program and no failure the timeline is complete and never ahead of the row.
THEOREM AcctInvariant == AcctSpec => []AcctInv
<1>1. AcctSpec => []AcctIInv
  BY AcctStarts, AcctStep, PTL DEF AcctSpec
<1> QED
  BY <1>1, AcctImplies, PTL
-----------------------------------------------------------------------------
(* The registry. *)

Fetching == {"fill", "refresh", "replace"}
RegistryPlaces == {"start", "fill", "connect", "subscribe", "listen", "told", "refresh", "poll", "replace", "sleep", "deaf"}

\* Beyond what is checked: rows that were read and not stored yet lag behind the
\* table for a reason too, what waits was committed, and what an uncommitted upload
\* or a later one adds does not concern a transaction that was decoded for good.
RegistryIInv ==
  /\ RegistryTypeOK /\ CacheIsAPrefix /\ StaleHasAReason
  /\ reg \in [at : RegistryPlaces, heard : BOOLEAN, inbox : Nat, rows : Seq(Nat), cache : Seq(Nat)]
  /\ judged \in [time : Nat, version : Nat, excused : BOOLEAN]
  /\ IsPrefix(reg.rows, idls) /\ reg.inbox <= Len(idls)
  /\ reg.at \in Fetching /\ reg.rows # idls => reg.inbox > 0 \/ missed
  /\ uploading # Idle => uploading <= second /\ Len(idls) < MaxVersions
  /\ ~judged.excused => /\ judged.version = Resolve(idls, judged.time) /\ idls # <<>>
                        /\ judged.time < second /\ judged.time < uploading

LEMMA PrefixIs ==
  ASSUME NEW s \in Seq(Nat), NEW t \in Seq(Nat)
  PROVE  IsPrefix(s, t) <=> Len(s) <= Len(t) /\ \A i \in 1 .. Len(s) : s[i] = t[i]
<1>1. Len(s) \in Nat /\ Len(t) \in Nat
  OBVIOUS
<1>2. ASSUME Len(s) <= Len(t) PROVE SubSeq(s, 1, Len(s)) = SubSeq(t, 1, Len(s)) <=> \A i \in 1 .. Len(s) : s[i] = t[i]
  <2>1. /\ SubSeq(s, 1, Len(s)) \in Seq(Nat) /\ Len(SubSeq(s, 1, Len(s))) = Len(s)
        /\ \A i \in 1 .. Len(s) : SubSeq(s, 1, Len(s))[i] = s[i]
    BY <1>1
  <2>2. /\ SubSeq(t, 1, Len(s)) \in Seq(Nat) /\ Len(SubSeq(t, 1, Len(s))) = Len(s)
        /\ \A i \in 1 .. Len(s) : SubSeq(t, 1, Len(s))[i] = t[i]
    BY <1>1, <1>2
  <2> QED
    BY <2>1, <2>2, SeqEqual
<1> QED
  BY <1>1, <1>2 DEF IsPrefix

LEMMA PrefixOfAll == ASSUME NEW t \in Seq(Nat) PROVE IsPrefix(t, t) /\ IsPrefix(<<>>, t)
<1>1. IsPrefix(t, t)
  <2>1. Len(t) \in Nat
    OBVIOUS
  <2> QED
    BY <2>1, PrefixIs
<1>2. <<>> \in Seq(Nat)
  OBVIOUS
<1>3. PICK s : s = <<>>
  OBVIOUS
<1>4. s \in Seq(Nat) /\ Len(s) = 0 /\ 0 <= Len(t)
  BY <1>2, <1>3
<1>5. \A i \in 1 .. Len(s) : s[i] = t[i]
  BY <1>4
<1>6. IsPrefix(s, t)
  BY <1>4, <1>5, PrefixIs
<1> QED
  BY <1>1, <1>3, <1>6

LEMMA PrefixGrows ==
  ASSUME NEW s \in Seq(Nat), NEW t \in Seq(Nat), IsPrefix(s, t), NEW x \in Nat, NEW u, u = Append(t, x)
  PROVE  u \in Seq(Nat) /\ Len(u) = Len(t) + 1 /\ IsPrefix(s, u) /\ s # u /\ u # <<>>
<1>1. u \in Seq(Nat) /\ Len(u) = Len(t) + 1 /\ \A i \in 1 .. Len(t) : u[i] = t[i]
  OBVIOUS
<1>2. Len(s) <= Len(t) /\ \A i \in 1 .. Len(s) : s[i] = t[i]
  BY PrefixIs
<1>3. Len(s) \in Nat /\ Len(t) \in Nat
  OBVIOUS
<1>4. Len(s) <= Len(u) /\ \A i \in 1 .. Len(s) : s[i] = u[i]
  BY <1>1, <1>2, <1>3
<1>5. IsPrefix(s, u)
  BY <1>1, <1>4, PrefixIs
<1>6. Len(s) # Len(u) /\ Len(u) # 0
  BY <1>1, <1>2, <1>3
<1> QED
  BY <1>1, <1>5, <1>6

\* What a version's loop keeps after n of them.
InForce(versions, time, n) == {i \in 1 .. n : versions[i] <= time}
Kept(versions, time, n) ==
  IF versions = <<>> THEN 0 ELSE IF InForce(versions, time, n) = {} THEN 1 ELSE Max(InForce(versions, time, n))

LEMMA KeptNext ==
  ASSUME NEW v \in Seq(Nat), NEW time \in Nat, NEW n \in 1 .. Len(v)
  PROVE  Kept(v, time, n) = IF v[n] <= time THEN n ELSE Kept(v, time, n - 1)
<1>1. Len(v) \in Nat /\ n \in Nat /\ n - 1 \in Nat /\ v # <<>> /\ n \in 1 .. n
  OBVIOUS
<1>2. CASE v[n] <= time
  <2>1. n \in InForce(v, time, n) /\ InForce(v, time, n) \in SUBSET (1 .. n)
    BY <1>1, <1>2 DEF InForce
  <2>2. Max(InForce(v, time, n)) \in InForce(v, time, n) /\ \A y \in InForce(v, time, n) : Max(InForce(v, time, n)) >= y
    BY <1>1, <2>1, MaxIsMember
  <2>3. Max(InForce(v, time, n)) = n
    BY <1>1, <2>1, <2>2
  <2> QED
    BY <1>1, <1>2, <2>1, <2>3 DEF Kept
<1>3. CASE ~(v[n] <= time)
  <2>1. \A i \in 1 .. n : i = n \/ i \in 1 .. n - 1
    BY <1>1
  <2>2. \A i \in 1 .. n - 1 : i \in 1 .. n
    BY <1>1
  <2>3. InForce(v, time, n) = InForce(v, time, n - 1)
    BY <1>3, <2>1, <2>2 DEF InForce
  <2> QED
    BY <1>3, <2>3 DEF Kept
<1> QED
  BY <1>2, <1>3

\* The loop keeps the last version in force: two functions that agree at first and
\* go on alike agree throughout, for there is no first place where they differ.
LEMMA ResolveIs ==
  ASSUME NEW v \in Seq(Nat), NEW time \in Nat, time # NoTime
  PROVE  Resolve(v, time) = Kept(v, time, Len(v))
<1> DEFINE Next(f) == [n \in 0 .. Len(v) |-> IF n = 0 THEN IF v = <<>> THEN 0 ELSE 1
                                             ELSE IF v[n] <= time THEN n ELSE f[n - 1]]
           g == [n \in 0 .. Len(v) |-> Kept(v, time, n)]
           h == CHOOSE f : f = Next(f)
           R == OpToRel(<, Nat)
           T == {n \in 0 .. Len(v) : h[n] # g[n]}
<1>1. Len(v) \in Nat
  OBVIOUS
<1>2. Resolve(v, time) = h[Len(v)]
  BY DEF Resolve
<1>3. g = Next(g)
  <2>1. Kept(v, time, 0) = IF v = <<>> THEN 0 ELSE 1
    <3>1. InForce(v, time, 0) = {}
      BY DEF InForce
    <3> QED
      BY <3>1 DEF Kept
  <2>2. ASSUME NEW n \in 0 .. Len(v), n # 0 PROVE g[n] = IF v[n] <= time THEN n ELSE g[n - 1]
    <3>1. n \in 1 .. Len(v) /\ n - 1 \in 0 .. Len(v)
      BY <1>1, <2>2
    <3> QED
      BY <3>1, KeptNext
  <2>3. g[0] = IF v = <<>> THEN 0 ELSE 1
    BY <1>1, <2>1
  <2>4. \A n \in 0 .. Len(v) : g[n] = Next(g)[n]
    BY <2>2, <2>3
  <2> QED
    BY <2>4
<1>4. h = Next(h)
  <2> HIDE DEF Next, g
  <2> QED
    BY <1>3
<1>5. T = {}
  <2> SUFFICES ASSUME T # {} PROVE FALSE
    OBVIOUS
  <2>1. T \subseteq Nat
    BY <1>1
  <2>2. IsWellFoundedOn(R, Nat)
    BY NatLessThanWellFounded, Zenon
  <2>3. PICK n \in T : \A y \in T : ~(<<y, n>> \in R)
    BY <2>1, <2>2, WFMin, Zenon
  <2>4. n \in 0 .. Len(v) /\ h[n] # g[n]
    BY <2>3
  <2>5. h[n] = Next(h)[n] /\ g[n] = Next(g)[n]
    <3> HIDE DEF Next, g, h
    <3> QED
      BY <1>3, <1>4
  <2>6. n # 0 /\ h[n - 1] # g[n - 1]
    <3> HIDE DEF g, h
    <3> QED
      BY <2>4, <2>5
  <2>7. n - 1 \in T /\ n - 1 < n /\ n - 1 \in Nat /\ n \in Nat
    BY <1>1, <2>4, <2>6
  <2>8. <<n - 1, n>> \in R
    BY <2>7 DEF OpToRel
  <2> QED
    BY <2>3, <2>7, <2>8
<1>6. h[Len(v)] = g[Len(v)]
  <2> HIDE DEF g, h
  <2> QED
    BY <1>1, <1>5
<1> QED
  BY <1>1, <1>2, <1>6

\* A version that is not yet in force changes nothing.
LEMMA ResolveStays ==
  ASSUME NEW v \in Seq(Nat), v # <<>>, NEW time \in Nat, time # NoTime, NEW x \in Nat, x > time,
         NEW u, u = Append(v, x)
  PROVE  Resolve(u, time) = Resolve(v, time)
<1>1. /\ u \in Seq(Nat) /\ Len(v) \in Nat /\ Len(u) = Len(v) + 1 /\ u[Len(u)] = x /\ u # <<>>
      /\ \A i \in 1 .. Len(v) : u[i] = v[i]
  OBVIOUS
<1>2. InForce(u, time, Len(u)) = InForce(v, time, Len(v))
  <2>1. ASSUME NEW i \in 1 .. Len(u), u[i] <= time PROVE i \in 1 .. Len(v) /\ v[i] <= time
    BY <1>1, <2>1
  <2>2. ASSUME NEW i \in 1 .. Len(v), v[i] <= time PROVE i \in 1 .. Len(u) /\ u[i] <= time
    BY <1>1, <2>2
  <2> QED
    BY <2>1, <2>2 DEF InForce
<1> QED
  BY <1>1, <1>2, ResolveIs DEF Kept

\* What was decoded without a time got a version that is in the list still, or is in
\* the rows that were read to fill it; a refresh never reads fewer rows than it has.
NewestOK ==
  /\ judged.time = NoTime =>
       /\ judged.version <= Len(idls)
       /\ reg.at \notin {"start", "fill"} => judged.version <= Len(reg.cache)
       /\ reg.at = "fill" => judged.version <= Len(reg.rows)
  /\ reg.at \in {"refresh", "replace"} => Len(reg.cache) <= Len(reg.rows)

LEMMA NewestStarts == RegistryInit => NewestOK
<1> SUFFICES ASSUME RegistryInit PROVE NewestOK
  OBVIOUS
<1>1. judged.time = 0 /\ reg.at = "start"
  BY DEF RegistryInit, NewRegistry, NoJudgement
<1>2. 0 # NoTime
  BY SchemaRegistryAssumption DEF NoTime
<1> QED
  BY <1>1, <1>2 DEF NewestOK

LEMMA RegistryStarts == RegistryInit => RegistryIInv
<1> SUFFICES ASSUME RegistryInit PROVE RegistryIInv
  OBVIOUS
<1>1. /\ reg \in [at : RegistryPlaces, heard : BOOLEAN, inbox : Nat, rows : Seq(Nat), cache : Seq(Nat)]
      /\ reg.at = "start" /\ reg.heard = FALSE /\ reg.inbox = 0 /\ reg.rows = <<>> /\ reg.cache = <<>>
  BY DEF RegistryInit, NewRegistry, RegistryPlaces
<1>2. judged \in [time : Nat, version : Nat, excused : BOOLEAN] /\ judged.excused
  BY DEF RegistryInit, NoJudgement
<1>3. idls = <<>> /\ idls \in Seq(Nat) /\ idls \in Seq(0 .. MaxSeconds) /\ Len(idls) = 0 /\ IsPrefix(<<>>, <<>>)
  <2>1. idls = <<>>
    BY DEF RegistryInit
  <2>2. <<>> \in Seq(Nat) /\ <<>> \in Seq(0 .. MaxSeconds) /\ Len(<<>>) = 0
    OBVIOUS
  <2>3. IsPrefix(<<>>, <<>>)
    BY <2>2, PrefixOfAll
  <2> QED
    BY <2>1, <2>2, <2>3
<1>4. RegistryTypeOK
  <2>1. 0 <= MaxVersions /\ uploading \in 0 .. Idle /\ second \in 0 .. MaxSeconds /\ gaps \in 0 .. MaxGaps
    BY SchemaRegistryAssumption DEF RegistryInit, Idle
  <2>2. missed \in BOOLEAN
    BY DEF RegistryInit
  <2>3. reg.inbox \in 0 .. MaxVersions
    BY <1>1, SchemaRegistryAssumption
  <2> QED
    BY <1>1, <1>3, <2>1, <2>2, <2>3 DEF RegistryTypeOK
<1> QED
  BY <1>1, <1>2, <1>3, <1>4 DEF RegistryInit, RegistryIInv, CacheIsAPrefix, StaleHasAReason, Fetching

\* What the invariant says of the table alone, and of a decoded transaction.
TableOK ==
  /\ idls \in Seq(0 .. MaxSeconds) /\ idls \in Seq(Nat) /\ Len(idls) <= MaxVersions /\ uploading \in 0 .. Idle
  /\ second \in 0 .. MaxSeconds /\ gaps \in 0 .. MaxGaps
  /\ uploading # Idle => uploading <= second /\ Len(idls) < MaxVersions
JudgedOK ==
  /\ judged \in [time : Nat, version : Nat, excused : BOOLEAN]
  /\ ~judged.excused => /\ judged.version = Resolve(idls, judged.time) /\ idls # <<>>
                        /\ judged.time < second /\ judged.time < uploading
RegOK ==
  /\ reg \in [at : RegistryPlaces, heard : BOOLEAN, inbox : Nat, rows : Seq(Nat), cache : Seq(Nat)]
  /\ missed \in BOOLEAN
  /\ IsPrefix(reg.cache, idls) /\ IsPrefix(reg.rows, idls) /\ reg.inbox <= Len(idls)
  /\ reg.at \in Fetching /\ reg.rows # idls => reg.inbox > 0 \/ missed
  /\ StaleHasAReason

LEMMA RegistryParts == RegistryIInv <=> TableOK /\ JudgedOK /\ RegOK
<1>1. ASSUME TableOK, JudgedOK, RegOK PROVE RegistryIInv
  <2>1. reg.inbox \in 0 .. MaxVersions /\ reg.at \in RegistryPlaces /\ reg.heard \in BOOLEAN
    <3>1. reg.inbox \in Nat /\ reg.inbox <= Len(idls) /\ Len(idls) \in Nat /\ Len(idls) <= MaxVersions
      BY <1>1 DEF TableOK, RegOK
    <3> QED
      BY <1>1, <3>1, SchemaRegistryAssumption DEF RegOK
  <2>2. RegistryTypeOK
    BY <1>1, <2>1 DEF TableOK, RegOK, RegistryTypeOK, RegistryPlaces
  <2> QED
    BY <1>1, <2>2 DEF TableOK, JudgedOK, RegOK, RegistryIInv, CacheIsAPrefix
<1>2. ASSUME RegistryIInv PROVE TableOK /\ JudgedOK /\ RegOK
  <2>1. Seq(0 .. MaxSeconds) \subseteq Seq(Nat)
    BY SchemaRegistryAssumption
  <2> QED
    BY <1>2, <2>1 DEF TableOK, JudgedOK, RegOK, RegistryIInv, CacheIsAPrefix, RegistryTypeOK
<1> QED
  BY <1>1, <1>2

\* A step of the task leaves the table and what was decoded.
LEMMA TableStands ==
  ASSUME TableOK, JudgedOK, UNCHANGED <<idls, uploading, second, judged>>, gaps' \in 0 .. MaxGaps
  PROVE  TableOK' /\ JudgedOK'
BY DEF TableOK, JudgedOK

LEMMA GapCounts == TableOK /\ Gap => gaps' \in 0 .. MaxGaps
BY SchemaRegistryAssumption DEF TableOK, Gap

LEMMA RegistryStepOK == ASSUME RegistryIInv, RegistryStep \/ RefreshFails \/ ConnectionLost \/ RegistryRestarts PROVE RegistryIInv'
<1> USE DEF RegistryPlaces, Fetching
<1>1. TableOK /\ JudgedOK /\ RegOK
  BY RegistryParts
<1>2. gaps' \in 0 .. MaxGaps /\ UNCHANGED <<idls, uploading, second, judged>>
  BY <1>1, GapCounts DEF TableOK, RegistryStep, ReadRows, StoreRows, ConnectListener, Subscribe, ReceiveNote, FiveSecondsPass,
     Reconnect, RefreshFails, ConnectionLost, RegistryRestarts
<1>3. TableOK' /\ JudgedOK'
  BY <1>1, <1>2, TableStands
<1>4. /\ idls \in Seq(Nat) /\ <<>> \in Seq(Nat) /\ IsPrefix(idls, idls) /\ IsPrefix(<<>>, idls) /\ Len(idls) \in Nat
  <2>1. idls \in Seq(Nat) /\ Len(idls) \in Nat
    BY <1>1 DEF TableOK
  <2>2. <<>> \in Seq(Nat)
    OBVIOUS
  <2>3. IsPrefix(idls, idls) /\ IsPrefix(<<>>, idls)
    BY <2>1, PrefixOfAll
  <2> QED
    BY <2>1, <2>2, <2>3
<1>5. CASE ReadRows
  <2>1. PICK at \in {"fill", "refresh", "replace"} : reg' = [reg EXCEPT !.at = at, !.rows = idls]
    BY <1>5 DEF ReadRows
  <2>2. /\ reg' \in [at : RegistryPlaces, heard : BOOLEAN, inbox : Nat, rows : Seq(Nat), cache : Seq(Nat)]
        /\ reg'.at = at /\ reg'.rows = idls /\ reg'.cache = reg.cache /\ reg'.inbox = reg.inbox
    BY <1>1, <1>4, <2>1 DEF RegOK
  <2>3. RegOK'
    BY <1>1, <1>2, <1>4, <1>5, <2>2 DEF RegOK, StaleHasAReason, ReadRows
  <2> QED
    BY <1>3, <2>3, RegistryParts, PTL
<1>6. CASE StoreRows
  <2>1. PICK at \in {"connect", "listen", "sleep"} :
          reg' = [reg EXCEPT !.at = at, !.cache = reg.rows, !.rows = <<>>] /\ reg.at \in Fetching /\ missed' = (missed /\ reg.rows # idls)
    BY <1>6 DEF StoreRows
  <2>2. /\ reg' \in [at : RegistryPlaces, heard : BOOLEAN, inbox : Nat, rows : Seq(Nat), cache : Seq(Nat)]
        /\ reg'.at = at /\ reg'.rows = <<>> /\ reg'.cache = reg.rows /\ reg'.inbox = reg.inbox
    BY <1>1, <1>4, <2>1 DEF RegOK
  <2>3. RegOK'
    BY <1>1, <1>2, <1>4, <2>1, <2>2 DEF RegOK, StaleHasAReason
  <2> QED
    BY <1>3, <2>3, RegistryParts, PTL
<1>7. CASE RefreshFails
  <2>1. PICK at \in {"listen", "sleep"} : reg' = [reg EXCEPT !.at = at] /\ missed' = (reg.cache # idls)
    BY <1>7 DEF RefreshFails
  <2>2. /\ reg' \in [at : RegistryPlaces, heard : BOOLEAN, inbox : Nat, rows : Seq(Nat), cache : Seq(Nat)]
        /\ reg'.at = at /\ reg'.rows = reg.rows /\ reg'.cache = reg.cache /\ reg'.inbox = reg.inbox
    BY <1>1, <2>1 DEF RegOK
  <2>3. RegOK'
    BY <1>1, <1>2, <2>1, <2>2 DEF RegOK, StaleHasAReason
  <2> QED
    BY <1>3, <2>3, RegistryParts, PTL
<1>8. CASE ConnectListener \/ Subscribe \/ Reconnect
  <2>1. PICK at \in RegistryPlaces \ Fetching, heard \in BOOLEAN :
          /\ reg' = [reg EXCEPT !.at = at, !.heard = heard] /\ missed' = missed
          /\ reg.at \in {"connect", "subscribe", "listen"}
    <3>1. reg.at \in RegistryPlaces /\ reg.heard \in BOOLEAN
      BY <1>1 DEF RegOK
    <3>2. reg = [reg EXCEPT !.heard = reg.heard] /\ reg = [reg EXCEPT !.at = reg.at]
      BY <1>1 DEF RegOK
    <3>3. CASE ConnectListener
      <4>1. PICK at \in {"subscribe", "poll"} : reg' = [reg EXCEPT !.at = at] /\ missed' = missed /\ reg.at = "connect"
        BY <3>3 DEF ConnectListener
      <4>2. reg' = [reg EXCEPT !.at = at, !.heard = reg.heard]
        BY <1>1, <4>1 DEF RegOK
      <4> QED
        BY <3>1, <4>1, <4>2
    <3>4. CASE Subscribe
      <4>1. CASE reg' = [reg EXCEPT !.at = "listen", !.heard = TRUE]
        BY <3>4, <4>1 DEF Subscribe
      <4>2. CASE reg' = [reg EXCEPT !.at = "deaf"]
        <5>1. reg' = [reg EXCEPT !.at = "deaf", !.heard = reg.heard]
          BY <1>1, <4>2 DEF RegOK
        <5> QED
          BY <3>1, <3>4, <5>1 DEF Subscribe
      <4> QED
        BY <3>4, <4>1, <4>2 DEF Subscribe
    <3>5. CASE Reconnect
      <4>1. reg' = [reg EXCEPT !.at = "listen", !.heard = TRUE]
        BY <1>1, <3>5 DEF Reconnect, RegOK
      <4> QED
        BY <3>5, <4>1 DEF Reconnect
    <3> QED
      BY <1>8, <3>3, <3>4, <3>5
  <2>2. /\ reg' \in [at : RegistryPlaces, heard : BOOLEAN, inbox : Nat, rows : Seq(Nat), cache : Seq(Nat)]
        /\ reg'.at = at /\ reg'.rows = reg.rows /\ reg'.cache = reg.cache /\ reg'.inbox = reg.inbox
    BY <1>1, <2>1 DEF RegOK
  <2>3. RegOK'
    BY <1>1, <1>2, <2>1, <2>2 DEF RegOK, StaleHasAReason
  <2> QED
    BY <1>3, <2>3, RegistryParts, PTL
<1>9. CASE ReceiveNote
  <2>0. reg.inbox \in Nat /\ reg.inbox > 0
    BY <1>1, <1>9 DEF ReceiveNote, RegOK
  <2>a. PICK n \in Nat : n = reg.inbox - 1
    BY <2>0
  <2>1. reg' = [reg EXCEPT !.at = "told", !.inbox = n] /\ missed' = missed /\ n = reg.inbox - 1
    BY <1>9, <2>a DEF ReceiveNote
  <2>2. /\ reg' \in [at : RegistryPlaces, heard : BOOLEAN, inbox : Nat, rows : Seq(Nat), cache : Seq(Nat)]
        /\ reg'.at = "told" /\ reg'.rows = reg.rows /\ reg'.cache = reg.cache /\ reg'.inbox = n
    BY <1>1, <2>1 DEF RegOK
  <2>3. n <= Len(idls)
    BY <1>1, <1>4, <2>0, <2>1 DEF RegOK
  <2>4. RegOK'
    BY <1>1, <1>2, <2>1, <2>2, <2>3 DEF RegOK, StaleHasAReason
  <2> QED
    BY <1>3, <2>4, RegistryParts, PTL
<1>10. CASE FiveSecondsPass
  <2>1. reg' = [reg EXCEPT !.at = "poll"] /\ missed' = missed
    BY <1>10 DEF FiveSecondsPass
  <2>2. /\ reg' \in [at : RegistryPlaces, heard : BOOLEAN, inbox : Nat, rows : Seq(Nat), cache : Seq(Nat)]
        /\ reg'.at = "poll" /\ reg'.rows = reg.rows /\ reg'.cache = reg.cache /\ reg'.inbox = reg.inbox
    BY <1>1, <2>1 DEF RegOK
  <2>3. RegOK'
    BY <1>1, <1>2, <2>1, <2>2 DEF RegOK, StaleHasAReason
  <2> QED
    BY <1>3, <2>3, RegistryParts, PTL
<1>11. CASE ConnectionLost
  <2>1. reg' = [reg EXCEPT !.heard = FALSE, !.inbox = 0] /\ missed' = (missed \/ reg.inbox > 0)
    BY <1>11 DEF ConnectionLost
  <2>2. /\ reg' \in [at : RegistryPlaces, heard : BOOLEAN, inbox : Nat, rows : Seq(Nat), cache : Seq(Nat)]
        /\ reg'.at = reg.at /\ reg'.rows = reg.rows /\ reg'.cache = reg.cache /\ reg'.inbox = 0
    BY <1>1, <2>1 DEF RegOK
  <2>3. 0 <= Len(idls) /\ missed' \in BOOLEAN
    BY <1>1, <1>4, <2>1 DEF RegOK
  <2>4. StaleHasAReason'
    BY <1>1, <1>2, <2>1, <2>2 DEF RegOK, StaleHasAReason
  <2>5. reg.at \in Fetching /\ reg.rows # idls => missed'
    BY <1>1, <2>1 DEF RegOK
  <2>6. RegOK'
    BY <1>1, <1>2, <2>2, <2>3, <2>4, <2>5 DEF RegOK
  <2> QED
    BY <1>3, <2>6, RegistryParts, PTL
<1>12. CASE RegistryRestarts
  <2>1. reg' = NewRegistry /\ missed' = FALSE
    BY <1>12 DEF RegistryRestarts
  <2>2. /\ reg' \in [at : RegistryPlaces, heard : BOOLEAN, inbox : Nat, rows : Seq(Nat), cache : Seq(Nat)]
        /\ reg'.at = "start" /\ reg'.rows = <<>> /\ reg'.cache = <<>> /\ reg'.inbox = 0
    BY <1>4, <2>1 DEF NewRegistry
  <2>a. missed' \in BOOLEAN
    BY <2>1
  <2>3. 0 <= Len(idls) /\ missed' \in BOOLEAN
    BY <1>4, <2>a
  <2>4. StaleHasAReason'
    BY <2>2 DEF StaleHasAReason
  <2>5. RegOK'
    BY <1>2, <1>4, <2>2, <2>3, <2>4 DEF RegOK
  <2> QED
    BY <1>3, <2>5, RegistryParts, PTL
<1> QED
  BY <1>5, <1>6, <1>7, <1>8, <1>9, <1>10, <1>11, <1>12 DEF RegistryStep

LEMMA RegistryTableStep ==
  ASSUME RegistryIInv, CreateVersion \/ CommitVersion \/ SecondPasses \/ DecodeTransaction
  PROVE  RegistryIInv'
<1>1. TableOK /\ JudgedOK /\ RegOK
  BY RegistryParts
<1>2. idls \in Seq(Nat) /\ Len(idls) \in Nat /\ second \in Nat /\ MaxSeconds \in Nat
  BY <1>1, SchemaRegistryAssumption DEF TableOK
<1>3. CASE CreateVersion
  <2>1. TableOK'
    BY <1>1, <1>3, <1>2 DEF TableOK, CreateVersion, Idle
  <2>2. JudgedOK'
    BY <1>1, <1>3 DEF JudgedOK, CreateVersion
  <2>3. RegOK'
    BY <1>1, <1>3 DEF RegOK, StaleHasAReason, CreateVersion
  <2> QED
    BY <2>1, <2>2, <2>3, RegistryParts, PTL
<1>4. CASE SecondPasses
  <2>1. TableOK'
    BY <1>1, <1>4, <1>2 DEF TableOK, SecondPasses, Idle
  <2>2. JudgedOK'
    BY <1>1, <1>2, <1>4 DEF JudgedOK, SecondPasses
  <2>3. RegOK'
    BY <1>1, <1>4 DEF RegOK, StaleHasAReason, SecondPasses
  <2> QED
    BY <2>1, <2>2, <2>3, RegistryParts, PTL
<1>5. CASE CommitVersion
  <2>1. uploading \in 0 .. MaxSeconds /\ uploading \in Nat /\ Len(idls) < MaxVersions
    BY <1>1, <1>2, <1>5 DEF TableOK, CommitVersion, Idle
  <2>2. PICK u : u = Append(idls, uploading)
    OBVIOUS
  <2>3. idls' = u /\ uploading' = Idle /\ UNCHANGED <<second, judged, gaps>>
    BY <1>5, <2>2 DEF CommitVersion
  <2>4. u \in Seq(0 .. MaxSeconds) /\ u \in Seq(Nat) /\ Len(u) = Len(idls) + 1 /\ u # <<>>
    BY <1>1, <2>1, <2>2 DEF TableOK
  <2>5. TableOK'
    BY <1>1, <1>2, <2>1, <2>3, <2>4, SchemaRegistryAssumption DEF TableOK, Idle
  <2>6. JudgedOK'
    <3>1. ASSUME ~judged.excused PROVE Resolve(u, judged.time) = Resolve(idls, judged.time) /\ judged.time < Idle
      <4>1. judged.time \in Nat /\ judged.time < uploading /\ idls # <<>>
        BY <1>1, <3>1 DEF JudgedOK
      <4>a. judged.time # NoTime
        BY <1>2, <2>1, <4>1 DEF NoTime
      <4>2. Resolve(u, judged.time) = Resolve(idls, judged.time)
        BY <1>2, <2>1, <2>2, <4>1, <4>a, ResolveStays
      <4> QED
        BY <1>2, <2>1, <4>1, <4>2 DEF Idle
    <3> QED
      BY <1>1, <2>3, <2>4, <3>1 DEF JudgedOK
  <2>7. \A s \in Seq(Nat) : IsPrefix(s, idls) => IsPrefix(s, u) /\ s # u
    BY <1>2, <2>1, <2>2, PrefixGrows
  <2>8. RegOK'
    <3>1. PICK n \in Nat : n = reg.inbox + 1
      BY <1>1 DEF RegOK
    <3>2. reg' = IF reg.heard THEN [reg EXCEPT !.inbox = n] ELSE reg
      BY <1>5, <3>1 DEF CommitVersion
    <3>3. missed' = (missed \/ ~reg.heard)
      BY <1>5 DEF CommitVersion
    <3>4. CASE reg.heard
      <4>1. /\ reg' \in [at : RegistryPlaces, heard : BOOLEAN, inbox : Nat, rows : Seq(Nat), cache : Seq(Nat)]
            /\ reg'.at = reg.at /\ reg'.rows = reg.rows /\ reg'.cache = reg.cache /\ reg'.inbox = n
        BY <1>1, <3>2, <3>4 DEF RegOK
      <4>2. n > 0 /\ n <= Len(u)
        BY <1>1, <1>2, <2>4, <3>1 DEF RegOK
      <4>3. IsPrefix(reg.cache, u) /\ IsPrefix(reg.rows, u)
        BY <1>1, <2>7 DEF RegOK
      <4> QED
        BY <1>1, <2>3, <3>3, <4>1, <4>2, <4>3 DEF RegOK, StaleHasAReason
    <3>5. CASE ~reg.heard
      <4>1. reg' = reg /\ missed'
        BY <3>2, <3>3, <3>5
      <4>2. IsPrefix(reg.cache, u) /\ IsPrefix(reg.rows, u) /\ reg.inbox <= Len(u)
        BY <1>1, <1>2, <2>4, <2>7 DEF RegOK
      <4> QED
        BY <1>1, <2>3, <3>3, <4>1, <4>2 DEF RegOK, StaleHasAReason
    <3> QED
      BY <3>4, <3>5
  <2> QED
    BY <2>5, <2>6, <2>8, RegistryParts, PTL
<1>6. CASE DecodeTransaction
  <2>1. PICK time \in (0 .. second) \cup {NoTime} :
          judged' = [time |-> time, version |-> Resolve(reg.cache, time),
                     excused |-> reg.cache # idls \/ idls = <<>> \/ time = NoTime \/ uploading <= time \/ time = second]
    BY <1>6 DEF DecodeTransaction
  <2>2. PICK excused, version :
          /\ excused = (reg.cache # idls \/ idls = <<>> \/ time = NoTime \/ uploading <= time \/ time = second)
          /\ version = Resolve(reg.cache, time) /\ excused \in BOOLEAN
    OBVIOUS
  <2>3. judged' = [time |-> time, version |-> version, excused |-> excused]
    BY <2>1, <2>2
  <2>4. version \in Nat
    <3>1. reg.cache \in Seq(Nat) /\ time \in Nat
      BY <1>1, <1>2 DEF RegOK, NoTime
    <3>2. PICK k \in Nat : k = Len(reg.cache)
      BY <3>1
    <3>3. CASE time = NoTime
      <4>1. version = k
        BY <2>2, <3>2, <3>3 DEF Resolve
      <4> QED
        BY <4>1
    <3>4. CASE time # NoTime
      <4>1. version = Kept(reg.cache, time, k)
        BY <2>2, <3>1, <3>2, <3>4, ResolveIs
      <4>2. InForce(reg.cache, time, k) \in SUBSET (1 .. k)
        BY DEF InForce
      <4>3. InForce(reg.cache, time, k) # {} => Max(InForce(reg.cache, time, k)) \in 1 .. k
        BY <4>2, MaxIsMember
      <4> QED
        BY <4>1, <4>3 DEF Kept
    <3> QED
      BY <3>3, <3>4
  <2>5. UNCHANGED <<idls, uploading, second, reg, missed, gaps>>
    BY <1>6 DEF DecodeTransaction
  <2>6. JudgedOK'
    <3>1. uploading \in Nat /\ time \in Nat
      BY <1>1, <1>2 DEF TableOK, Idle, NoTime
    <3>2. /\ judged' \in [time : Nat, version : Nat, excused : BOOLEAN]
          /\ judged'.time = time /\ judged'.version = version /\ judged'.excused = excused
      <4>1. excused \in BOOLEAN
        BY <2>2
      <4> QED
        BY <2>3, <2>4, <3>1, <4>1
    <3>3. ASSUME ~excused PROVE reg.cache = idls /\ idls # <<>> /\ time < uploading /\ time < second
      <4>1. reg.cache = idls /\ idls # <<>> /\ time # NoTime /\ ~(uploading <= time) /\ ~(time = second)
        BY <2>2, <3>3
      <4>2. time \in 0 .. second
        BY <4>1
      <4>3. time \in Nat /\ uploading \in Nat /\ second \in Nat /\ time <= second
        BY <1>2, <3>1, <4>2
      <4> QED
        BY <4>1, <4>3
    <3> QED
      BY <2>2, <2>5, <3>2, <3>3 DEF JudgedOK
  <2>7. TableOK' /\ RegOK'
    BY <1>1, <2>5 DEF TableOK, RegOK, StaleHasAReason
  <2> QED
    BY <2>6, <2>7, RegistryParts, PTL
<1> QED
  BY <1>3, <1>4, <1>5, <1>6

LEMMA RegistrySteps == RegistryIInv /\ [RegistryNext]_registryVars => RegistryIInv'
<1> SUFFICES ASSUME RegistryIInv, [RegistryNext]_registryVars PROVE RegistryIInv'
  OBVIOUS
<1>1. CASE UNCHANGED registryVars
  BY <1>1 DEF registryVars, RegistryIInv, RegistryTypeOK, CacheIsAPrefix, StaleHasAReason
<1> QED
  BY <1>1, RegistryStepOK, RegistryTableStep DEF RegistryNext

LEMMA NewestKeeps == ASSUME RegistryIInv, NewestOK, [RegistryNext]_registryVars PROVE NewestOK'
<1>1. TableOK /\ JudgedOK /\ RegOK
  BY RegistryParts
<1>2. /\ idls \in Seq(Nat) /\ reg.cache \in Seq(Nat) /\ reg.rows \in Seq(Nat) /\ Len(idls) \in Nat
      /\ Len(reg.cache) \in Nat /\ Len(reg.rows) \in Nat /\ judged.version \in Nat
  BY <1>1 DEF TableOK, JudgedOK, RegOK
<1>3. Len(reg.cache) <= Len(idls) /\ Len(reg.rows) <= Len(idls)
  BY <1>1, <1>2, PrefixIs DEF RegOK
<1>4. reg \in [at : RegistryPlaces, heard : BOOLEAN, inbox : Nat, rows : Seq(Nat), cache : Seq(Nat)]
  BY <1>1 DEF RegOK
<1>5. CASE UNCHANGED registryVars \/ CreateVersion \/ SecondPasses
  <2>1. UNCHANGED <<idls, reg, judged>>
    BY <1>5 DEF registryVars, CreateVersion, SecondPasses
  <2> QED
    BY <2>1 DEF NewestOK
<1>6. CASE CommitVersion
  <2>1. PICK n : n = reg.inbox + 1
    OBVIOUS
  <2>2. reg' = (IF reg.heard THEN [reg EXCEPT !.inbox = n] ELSE reg) /\ judged' = judged
    BY <1>6, <2>1 DEF CommitVersion
  <2>3. reg'.at = reg.at /\ reg'.cache = reg.cache /\ reg'.rows = reg.rows
    BY <1>4, <2>2
  <2>4. idls' = Append(idls, uploading)
    BY <1>6 DEF CommitVersion
  <2>5. Len(idls') = Len(idls) + 1
    BY <1>1, <2>4 DEF TableOK
  <2> QED
    BY <1>2, <2>2, <2>3, <2>5 DEF NewestOK
<1>7. CASE ReadRows
  <2>1. PICK at \in {"fill", "refresh", "replace"} : reg' = [reg EXCEPT !.at = at, !.rows = idls]
    BY <1>7 DEF ReadRows
  <2>2. reg'.at = at /\ reg'.rows = idls /\ reg'.cache = reg.cache /\ UNCHANGED <<idls, judged>>
    BY <1>4, <1>7, <2>1 DEF ReadRows
  <2>3. at = "refresh" \/ at = "replace" => reg.at \in {"told", "poll"}
    <3>1. CASE reg.at = "start"
      BY <1>4, <1>7, <2>2, <3>1 DEF ReadRows
    <3> QED
      BY <1>7, <3>1 DEF ReadRows
  <2> QED
    BY <1>2, <1>3, <2>1, <2>2, <2>3 DEF NewestOK
<1>8. CASE StoreRows
  <2>1. PICK at \in {"connect", "listen", "sleep"} :
          reg' = [reg EXCEPT !.at = at, !.cache = reg.rows, !.rows = <<>>] /\ reg.at \in Fetching
    BY <1>8 DEF StoreRows, Fetching
  <2>2. reg'.at = at /\ reg'.cache = reg.rows /\ UNCHANGED <<idls, judged>>
    BY <1>4, <1>8, <2>1 DEF StoreRows
  <2>3. judged.time = NoTime => judged.version <= Len(reg.rows)
    BY <1>2, <2>1 DEF NewestOK, Fetching
  <2> QED
    BY <2>1, <2>2, <2>3 DEF NewestOK
<1>9. CASE RefreshFails \/ ConnectListener \/ Subscribe \/ ReceiveNote \/ FiveSecondsPass \/ Reconnect
  <2>1. /\ reg.at \in {"told", "poll", "connect", "subscribe", "listen", "sleep"}
        /\ reg'.at \in {"told", "poll", "subscribe", "listen", "sleep", "deaf"}
        /\ reg'.cache = reg.cache /\ reg'.rows = reg.rows
    <3>1. CASE RefreshFails
      <4>1. PICK at \in {"listen", "sleep"} : reg' = [reg EXCEPT !.at = at]
        BY <3>1 DEF RefreshFails
      <4> QED
        BY <1>4, <3>1, <4>1 DEF RefreshFails
    <3>2. CASE ConnectListener
      BY <1>4, <3>2 DEF ConnectListener
    <3>3. CASE Subscribe
      BY <1>4, <3>3 DEF Subscribe
    <3>4. CASE ReceiveNote
      <4>1. PICK n : n = reg.inbox - 1
        OBVIOUS
      <4>2. reg' = [reg EXCEPT !.at = "told", !.inbox = n] /\ reg.at = "listen"
        BY <3>4, <4>1 DEF ReceiveNote
      <4> QED
        BY <1>4, <4>2
    <3>5. CASE FiveSecondsPass
      BY <1>4, <3>5 DEF FiveSecondsPass
    <3>6. CASE Reconnect
      BY <1>4, <3>6 DEF Reconnect
    <3> QED
      BY <1>9, <3>1, <3>2, <3>3, <3>4, <3>5, <3>6
  <2>2. UNCHANGED <<idls, judged>>
    BY <1>9 DEF RefreshFails, ConnectListener, Subscribe, ReceiveNote, FiveSecondsPass, Reconnect
  <2> QED
    BY <2>1, <2>2 DEF NewestOK
<1>10. CASE ConnectionLost
  <2>1. reg' = [reg EXCEPT !.heard = FALSE, !.inbox = 0] /\ UNCHANGED <<idls, judged>>
    BY <1>10 DEF ConnectionLost
  <2>2. reg'.at = reg.at /\ reg'.cache = reg.cache /\ reg'.rows = reg.rows
    BY <1>4, <2>1
  <2> QED
    BY <2>1, <2>2 DEF NewestOK
<1>11. CASE RegistryRestarts
  <2>1. reg'.at = "start" /\ UNCHANGED <<idls, judged>>
    BY <1>11 DEF RegistryRestarts, NewRegistry
  <2> QED
    BY <2>1 DEF NewestOK
<1>12. CASE DecodeTransaction
  <2>1. PICK time, version, excused :
          /\ judged' = [time |-> time, version |-> version, excused |-> excused]
          /\ version = Resolve(reg.cache, time) /\ reg.at \notin {"start", "fill"}
    BY <1>12 DEF DecodeTransaction
  <2>2. judged'.time = time /\ judged'.version = version
    BY <2>1
  <2>3. time = NoTime => version = Len(reg.cache)
    BY <2>1 DEF Resolve
  <2>4. UNCHANGED <<idls, reg>>
    BY <1>12 DEF DecodeTransaction
  <2> QED
    BY <1>2, <1>3, <2>1, <2>2, <2>3, <2>4 DEF NewestOK
<1> QED
  BY <1>5, <1>6, <1>7, <1>8, <1>9, <1>10, <1>11, <1>12 DEF RegistryNext, RegistryStep

LEMMA RegistryImplies == RegistryIInv /\ NewestOK => RegistryInv
<1> SUFFICES ASSUME RegistryIInv, NewestOK PROVE RegistryInv
  OBVIOUS
<1>1. TableOK
  BY RegistryParts
<1>2. RegistryTypeOK /\ CacheIsAPrefix /\ StaleHasAReason /\ DecodedOnceForAll
  BY DEF RegistryIInv, DecodedOnceForAll
<1>3. ASSUME NEW time \in 0 .. MaxSeconds, idls # <<>>
      PROVE  Resolve(idls, time) = LET inForce == {n \in DOMAIN idls : idls[n] <= time}
                                   IN IF inForce = {} THEN 1 ELSE Max(inForce)
  <2>1. idls \in Seq(Nat) /\ time \in Nat /\ time # NoTime /\ DOMAIN idls = 1 .. Len(idls)
    BY <1>1, SchemaRegistryAssumption DEF TableOK, NoTime
  <2>2. Resolve(idls, time) = Kept(idls, time, Len(idls))
    BY <2>1, ResolveIs
  <2> QED
    BY <1>3, <2>1, <2>2 DEF Kept, InForce
<1>4. ResolveIsInForce
  BY <1>3 DEF ResolveIsInForce
<1>5. NewestNeverGoesBack
  BY DEF NewestOK, NewestNeverGoesBack, Resolve
<1> QED
  BY <1>2, <1>4, <1>5 DEF RegistryInv

\* The registry's cache is the table as it was at some time and lags behind it only for
\* a reason; a transaction with a time gets the version in force, now and whenever it is
\* decoded again, and what has none gets the newest, never an older one than before.
THEOREM RegistryInvariant == RegistrySpec => []RegistryInv
<1>1. RegistryIInv /\ NewestOK /\ [RegistryNext]_registryVars => RegistryIInv' /\ NewestOK'
  BY RegistrySteps, NewestKeeps
<1> QED
  BY <1>1, RegistryStarts, NewestStarts, RegistryImplies, PTL DEF RegistrySpec
-----------------------------------------------------------------------------
(* The services side by side. *)

LEMMA ServicesStepIsAPart ==
  [ServicesNext]_servicesVars =>
    [RegistryNext]_registryVars /\ [AcctNext]_acctVars /\ [DetectorNext]_detectorVars
<1> SUFFICES ASSUME [ServicesNext]_servicesVars
             PROVE  [RegistryNext]_registryVars /\ [AcctNext]_acctVars /\ [DetectorNext]_detectorVars
  OBVIOUS
<1>1. CASE \/ UNCHANGED servicesVars
           \/ Ingestion(CPNext) \/ InPanel(PanelNext) \/ InReplay(ReplayNext) \/ InStream(StreamNext)
  BY <1>1 DEF servicesVars, serviceVars, Ingestion, InPanel, InReplay, InStream
<1>2. CASE InRegistry(RegistryNext)
  BY <1>2 DEF InRegistry
<1>3. CASE InAccounts(AcctNext)
  BY <1>3 DEF InAccounts
<1>4. CASE InDetector(DetectorNext)
  BY <1>4 DEF InDetector
<1> QED
  BY <1>1, <1>2, <1>3, <1>4 DEF ServicesNext

\* In whichever of the services a step is made: the registry hides nothing without a
\* reason, resolves a time for good and the lack of one never to an older version, the
\* tables of an account tell of each other, and what the detector finds is a sandwich.
THEOREM ServicesInvariant == ServicesSpec => []ServicesInv
<1> DEFINE IInv == RegistryIInv /\ NewestOK /\ AcctIInv /\ DetectorIInv
<1>1. ServicesInit => IInv
  BY RegistryStarts, NewestStarts, AcctStarts, DetectorStarts DEF ServicesInit
<1>2. IInv /\ [ServicesNext]_servicesVars => IInv'
  BY ServicesStepIsAPart, RegistrySteps, NewestKeeps, AcctStep, DetectorStep
<1>3. IInv => ServicesInv
  BY RegistryImplies, AcctImplies, DetectorImplies DEF ServicesInv
<1> QED
  BY <1>1, <1>2, <1>3, PTL DEF ServicesSpec
=============================================================================
