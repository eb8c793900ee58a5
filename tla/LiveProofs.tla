------------------------------ MODULE LiveProofs -----------------------------
(***************************************************************************)
(* Proofs about live mode: what is settled was asked for, what was         *)
(* confirmed is kept, the journal and the queue agree, and an answer       *)
(* handles the session it is about.  The server's half is the queue        *)
(* against the journal, the source and the agent's hands; the page's half  *)
(* is which session is current while requests are waited for.  Then what   *)
(* the page keeps by a place or a name that may go stale: the parameters   *)
(* of a variant under a hot reload, and pins under a list that changes.    *)
(***************************************************************************)
EXTENDS LiveTab, Annotations, Tuning, FiniteSetTheorems, SequenceTheorems, WellFoundedInduction, TLAPS

-----------------------------------------------------------------------------
(* Types. *)

Work == {"generate"} \cup Requests
Steps == {"handling", "replying", "cleaning"}
Event == [type : {"none", "exit"} \cup Work, id : 0 .. MaxGos, v : 0 .. 2]
QueueEntry == [ev : Event, leased : BOOLEAN]
PageStates == {"IDLE", "PICKING", "CONFIGURING", "GENERATING", "CYCLING", "SAVING", "CONFIRMED"}
Phases == PageStates \cup
  {"new", "generate_requested", "accept_requested", "discard_requested", "variants_ready", "discarded", "completed",
   "agent_error", "carbonize_required"}
Losses == {"early", "agent", "overtaken", "error", "reply"}
Posts ==
  [type : {"checkpoint"} \cup Work, id : Ids, v : 0 .. 2, epoch : Nat, phase : PageStates, rev : Nat,
   answer : {"none", "ok", "fail"}, waits : BOOLEAN, again : BOOLEAN]
Servers == [up : BOOLEAN, epoch : Nat, pending : Seq(QueueEntry), client : BOOLEAN, exit : BOOLEAN]
Agents ==
  [at : {"off", "polling"} \cup Steps, ev : Event, reply : {"none", "agent_done", "discarded", "complete", "error"},
   carbonize : BOOLEAN, epoch : Nat]
Journals == [phase : Phases, pending : Event, rev : Nat]
Sources == [at : {"absent", "wrapped", "variants", "restored", "accepted"}, v : 0 .. 2, once : BOOLEAN]
Scripts ==
  [token : Nat, state : PageStates, cur : 0 .. MaxGos, ready : BOOLEAN, seen : 0 .. 2, closed : BOOLEAN,
   timer : BOOLEAN, capture : SUBSET Ids, clean : Nat, obs : 0 .. MaxGos, scout : BOOLEAN, rev : Nat]
Sessions == [id : 0 .. MaxGos, seen : 0 .. 2, rev : Nat]
Asked == [Ids -> SUBSET (Requests \X (0 .. 2))]
Lost == [Ids -> SUBSET Losses]

ServerTypes ==
  /\ srv \in Servers /\ agent \in Agents
  /\ journal \in [Ids -> Journals] /\ src \in [Ids -> Sources]
  /\ asked \in Asked /\ lost \in Lost
WireTypes == posts \subseteq Posts /\ wire \in Seq({"done", "error"})
PageTypes ==
  /\ script \in Scripts /\ store \in [saved : Sessions, handled : 0 .. MaxGos]
  /\ gos \in 0 .. MaxGos /\ confirmed \in [Ids -> Nat] /\ own \subseteq Ids

-----------------------------------------------------------------------------
(* The queue. *)

\* Entry i of a queue is an event of a type, of a session.
IsOf(q, i, type, id) == q[i].ev.type = type /\ q[i].ev.id = id
Has(q, type, id) == \E i \in DOMAIN q : IsOf(q, i, type, id)

\* Events are requests that were journaled, generations, or the exit, which has no id.
Sound(ev, heard) ==
  \/ ev.type = "exit" /\ ev.id = 0
  \/ ev.type \in Work /\ ev.id \in Ids /\ (ev.type \in Requests => <<ev.type, ev.v>> \in heard[ev.id])

\* One event of a type and a session; a generation is behind no request of its
\* session, unless that came too early.
QueueOK(q, heard, gone) ==
  /\ q \in Seq(QueueEntry)
  /\ \A i \in DOMAIN q : Sound(q[i].ev, heard)
  /\ \A i, k \in DOMAIN q : q[i].ev.id \in Ids /\ IsOf(q, k, q[i].ev.type, q[i].ev.id) => i = k
  /\ \A i, k \in DOMAIN q : i < k /\ q[i].ev.id \in Ids /\ IsOf(q, k, "generate", q[i].ev.id) => "early" \in gone[q[i].ev.id]

\* More is journaled and lost, never less.
Grows(f, g) == \A id \in Ids : f[id] \subseteq g[id]

LEMMA QueueStands ==
  ASSUME NEW q, NEW heard, NEW gone, NEW heard2, NEW gone2, QueueOK(q, heard, gone), Grows(heard, heard2), Grows(gone, gone2)
  PROVE  QueueOK(q, heard2, gone2)
<1>1. \A i \in DOMAIN q : Sound(q[i].ev, heard2)
  BY DEF QueueOK, Sound, Grows
<1> QED
  BY <1>1 DEF QueueOK, Grows

\* A lease changes no event.
WithLease(q, i, leased) == [q EXCEPT ![i].leased = leased]
LEMMA LeasesStand ==
  ASSUME NEW q, NEW heard, NEW gone, QueueOK(q, heard, gone), NEW i \in DOMAIN q, NEW leased \in BOOLEAN,
         NEW r, r = WithLease(q, i, leased)
  PROVE  QueueOK(r, heard, gone) /\ \A type, id : Has(r, type, id) <=> Has(q, type, id)
<1>1. q \in Seq(QueueEntry) /\ DOMAIN q = 1 .. Len(q) /\ Len(q) \in Nat
  BY DEF QueueOK
<1>2. PICK e \in QueueEntry : e = [q[i] EXCEPT !.leased = leased] /\ e.ev = q[i].ev
  <2>1. q[i] \in QueueEntry
    BY <1>1
  <2>2. PICK e : e = [q[i] EXCEPT !.leased = leased]
    OBVIOUS
  <2>3. e \in QueueEntry /\ e.ev = q[i].ev
    BY <2>1, <2>2 DEF QueueEntry
  <2> QED
    BY <2>2, <2>3
<1>3. r = [q EXCEPT ![i] = e]
  BY <1>2 DEF WithLease
<1>4. r \in Seq(QueueEntry) /\ DOMAIN r = DOMAIN q /\ \A k \in DOMAIN q : r[k].ev = q[k].ev
  BY <1>1, <1>2, <1>3
<1>5. \A k \in DOMAIN q : \A type, id : IsOf(r, k, type, id) <=> IsOf(q, k, type, id)
  BY <1>4 DEF IsOf
<1>6. \A k \in DOMAIN r : Sound(r[k].ev, heard)
  BY <1>4 DEF QueueOK
<1>7. \A n, k \in DOMAIN r : r[n].ev.id \in Ids /\ IsOf(r, k, r[n].ev.type, r[n].ev.id) => n = k
  BY <1>4, <1>5 DEF QueueOK
<1>8. \A n, k \in DOMAIN r : n < k /\ r[n].ev.id \in Ids /\ IsOf(r, k, "generate", r[n].ev.id) => "early" \in gone[r[n].ev.id]
  BY <1>4, <1>5 DEF QueueOK
<1>9. QueueOK(r, heard, gone)
  BY <1>4, <1>6, <1>7, <1>8 DEF QueueOK
<1> QED
  BY <1>4, <1>5, <1>9 DEF Has

\* An event is queued behind the others, unless one of its type and session is there.
LEMMA Enqueued ==
  ASSUME NEW q, NEW heard, NEW gone, QueueOK(q, heard, gone), NEW ev \in Event, Sound(ev, heard),
         ev.type = "generate" => \A i \in DOMAIN q : q[i].ev.id = ev.id => "early" \in gone[ev.id],
         NEW r, r = Enqueue(q, ev)
  PROVE  /\ QueueOK(r, heard, gone)
         /\ \A type, id : Has(r, type, id) <=> Has(q, type, id) \/ (type = ev.type /\ id = ev.id)
<1>1. q \in Seq(QueueEntry) /\ DOMAIN q = 1 .. Len(q) /\ Len(q) \in Nat
  BY DEF QueueOK
<1>2. CASE ev.id # 0 /\ \E i \in DOMAIN q : q[i].ev.id = ev.id /\ q[i].ev.type = ev.type
  <2>1. r = q
    BY <1>2 DEF Enqueue
  <2> QED
    BY <1>2, <2>1 DEF Has, IsOf
<1>3. CASE ~(ev.id # 0 /\ \E i \in DOMAIN q : q[i].ev.id = ev.id /\ q[i].ev.type = ev.type)
  <2>1. PICK e \in QueueEntry : e = Entry(ev) /\ e.ev = ev
    <3>1. PICK leased \in BOOLEAN : leased = FALSE
      OBVIOUS
    <3>2. PICK e : e = [ev |-> ev, leased |-> leased]
      OBVIOUS
    <3>3. e \in QueueEntry /\ e.ev = ev
      BY <3>2 DEF QueueEntry
    <3>4. e = Entry(ev)
      BY <3>1, <3>2 DEF Entry
    <3> QED
      BY <3>3, <3>4
  <2>2. r = Append(q, e)
    BY <1>3, <2>1 DEF Enqueue
  <2>3. /\ r \in Seq(QueueEntry) /\ Len(r) = Len(q) + 1 /\ DOMAIN r = 1 .. Len(r) /\ r[Len(r)] = e
        /\ \A i \in DOMAIN q : r[i] = q[i]
    BY <1>1, <2>2
  <2>4. \A i \in DOMAIN r : i \in DOMAIN q \/ (i = Len(r) /\ i \notin DOMAIN q)
    BY <1>1, <2>3
  <2>5. \A i \in DOMAIN q : i \in DOMAIN r /\ i < Len(r)
    BY <1>1, <2>3
  <2>6. \A i \in DOMAIN q : \A type, id : IsOf(r, i, type, id) <=> IsOf(q, i, type, id)
    BY <2>3 DEF IsOf
  <2>7. \A type, id : IsOf(r, Len(r), type, id) <=> type = ev.type /\ id = ev.id
    BY <2>1, <2>3 DEF IsOf
  <2>8. Len(r) \in DOMAIN r
    BY <1>1, <2>3
  <2>9. \A i \in DOMAIN r : Sound(r[i].ev, heard)
    BY <2>1, <2>3, <2>4 DEF QueueOK
  <2>10. ASSUME NEW i \in DOMAIN r, NEW k \in DOMAIN r, r[i].ev.id \in Ids, IsOf(r, k, r[i].ev.type, r[i].ev.id)
         PROVE  i = k
    <3>1. CASE i \in DOMAIN q /\ k \in DOMAIN q
      BY <2>3, <2>6, <2>10, <3>1 DEF QueueOK
    <3>2. ASSUME NEW n \in DOMAIN q PROVE ~(ev.id \in Ids /\ q[n].ev.id = ev.id /\ q[n].ev.type = ev.type)
      BY <1>3, <3>2 DEF Ids
    <3> QED
      BY <2>1, <2>3, <2>4, <2>10, <3>1, <3>2 DEF IsOf
  <2>11. ASSUME NEW i \in DOMAIN r, NEW k \in DOMAIN r, i < k, r[i].ev.id \in Ids, IsOf(r, k, "generate", r[i].ev.id)
         PROVE  "early" \in gone[r[i].ev.id]
    <3>1. i \in DOMAIN q /\ r[i] = q[i]
      BY <1>1, <2>3, <2>11
    <3>2. CASE k \in DOMAIN q
      BY <2>6, <2>11, <3>1, <3>2 DEF QueueOK
    <3>3. CASE k = Len(r)
      BY <2>7, <2>11, <3>1, <3>3
    <3> QED
      BY <2>4, <3>2, <3>3
  <2> QED
    BY <2>3, <2>4, <2>5, <2>6, <2>7, <2>8, <2>9, <2>10, <2>11 DEF QueueOK, Has
<1> QED
  BY <1>2, <1>3

\* A nonempty set of places has a first one.
LEMMA FirstIsMember ==
  ASSUME NEW S \in SUBSET Nat, S # {}
  PROVE  LET first == CHOOSE i \in S : \A k \in S : i <= k
         IN first \in S /\ \A k \in S : first <= k
<1> DEFINE R == OpToRel(<, Nat)
<1>1. IsWellFoundedOn(R, Nat)
  BY NatLessThanWellFounded, Zenon
<1>2. PICK m \in S : \A y \in S : ~(<<y, m>> \in R)
  BY <1>1, WFMin, Zenon
<1>3. ASSUME NEW k \in S PROVE m <= k
  <2>1. k \in Nat /\ m \in Nat
    BY <1>2
  <2>2. ~(k < m)
    BY <1>2, <2>1 DEF OpToRel
  <2> QED
    BY <2>1, <2>2
<1> QED
  BY <1>3

LEMMA EntryRemoved ==
  ASSUME NEW q \in Seq(QueueEntry), NEW j \in DOMAIN q, NEW r, r = RemoveAt(q, j)
  PROVE  /\ r \in Seq(QueueEntry) /\ Len(r) = Len(q) - 1 /\ DOMAIN r = 1 .. Len(q) - 1
         /\ \A k \in DOMAIN r : r[k] = IF k < j THEN q[k] ELSE q[k + 1]
<1>1. Len(q) \in Nat /\ j \in 1 .. Len(q) /\ j - 1 \in Nat
  OBVIOUS
<1>2. PICK a, b : a = SubSeq(q, 1, j - 1) /\ b = SubSeq(q, j + 1, Len(q))
  OBVIOUS
<1>3. a \in Seq(QueueEntry) /\ Len(a) = j - 1 /\ \A k \in 1 .. j - 1 : a[k] = q[k]
  BY <1>1, <1>2
<1>4. b \in Seq(QueueEntry) /\ Len(b) = Len(q) - j /\ \A k \in 1 .. Len(q) - j : b[k] = q[k + j]
  BY <1>1, <1>2
<1>5. r = a \o b
  BY <1>2 DEF RemoveAt
<1>6. r \in Seq(QueueEntry) /\ Len(r) = Len(q) - 1 /\ DOMAIN r = 1 .. Len(q) - 1
  BY <1>1, <1>3, <1>4, <1>5
<1>7. ASSUME NEW k \in DOMAIN r PROVE r[k] = IF k < j THEN q[k] ELSE q[k + 1]
  <2>1. CASE k < j
    BY <1>1, <1>3, <1>4, <1>5, <1>6, <2>1
  <2>2. CASE ~(k < j)
    <3>1. r[k] = b[k - (j - 1)] /\ k - (j - 1) \in 1 .. Len(q) - j
      BY <1>1, <1>3, <1>4, <1>5, <1>6, <2>2
    <3>2. b[k - (j - 1)] = q[k - (j - 1) + j] /\ k - (j - 1) + j = k + 1
      BY <1>1, <1>4, <1>6, <3>1
    <3> QED
      BY <2>2, <3>1, <3>2
  <2> QED
    BY <2>1, <2>2
<1> QED
  BY <1>6, <1>7

\* An answer removes one event of its session: the generation, if it is there.
LEMMA Acknowledged ==
  ASSUME NEW q, NEW heard, NEW gone, QueueOK(q, heard, gone), NEW ev \in Event, ev.id \in Ids,
         NEW r, r = Acknowledge(q, ev)
  PROVE  /\ QueueOK(r, heard, gone)
         /\ \A type, id : Has(r, type, id) => Has(q, type, id)
         /\ \A type, id : id # ev.id => (Has(r, type, id) <=> Has(q, type, id))
         /\ "early" \notin gone[ev.id] /\ Has(q, "generate", ev.id) =>
              ~Has(r, "generate", ev.id) /\ \A type \in Requests : Has(r, type, ev.id) <=> Has(q, type, ev.id)
<1> DEFINE mine == {i \in DOMAIN q : q[i].ev.id = ev.id}
<1>1. q \in Seq(QueueEntry) /\ DOMAIN q = 1 .. Len(q) /\ Len(q) \in Nat
  BY DEF QueueOK
<1>2. CASE mine = {}
  <2>1. r = q
    BY <1>2 DEF Acknowledge
  <2>2. \A type : ~Has(q, type, ev.id)
    BY <1>2 DEF Has, IsOf
  <2> QED
    BY <2>1, <2>2
<1>3. CASE mine # {}
  <2>1. PICK j \in mine : r = RemoveAt(q, j) /\ \A k \in mine : j <= k
    <3>1. mine \in SUBSET Nat
      BY <1>1
    <3>2. LET first == CHOOSE i \in mine : \A k \in mine : i <= k IN first \in mine /\ \A k \in mine : first <= k
      <4> HIDE DEF mine
      <4> QED
        BY <1>3, <3>1, FirstIsMember
    <3>3. r = RemoveAt(q, CHOOSE i \in mine : \A k \in mine : i <= k)
      BY <1>3 DEF Acknowledge
    <3> HIDE DEF mine
    <3> QED
      BY <3>2, <3>3
  <2>2. /\ r \in Seq(QueueEntry) /\ Len(r) = Len(q) - 1 /\ DOMAIN r = 1 .. Len(q) - 1
        /\ \A k \in DOMAIN r : r[k] = IF k < j THEN q[k] ELSE q[k + 1]
    <3>1. q \in Seq(QueueEntry) /\ j \in DOMAIN q /\ r = RemoveAt(q, j)
      BY <1>1, <2>1
    <3> HIDE DEF mine
    <3> QED
      BY <3>1, EntryRemoved
  <2> DEFINE place(k) == IF k < j THEN k ELSE k + 1
  <2>3. \A k \in DOMAIN r : place(k) \in DOMAIN q /\ place(k) # j /\ r[k] = q[place(k)]
    BY <1>1, <2>1, <2>2
  <2>4. \A i, k \in DOMAIN r : (i < k => place(i) < place(k)) /\ (place(i) = place(k) => i = k)
    BY <1>1, <2>1, <2>2
  <2>5. ASSUME NEW i \in DOMAIN q, i # j PROVE \E k \in DOMAIN r : place(k) = i
    <3>1. CASE i < j
      BY <1>1, <2>1, <2>2, <3>1
    <3>2. CASE i > j
      <4>1. i - 1 \in DOMAIN r /\ place(i - 1) = i
        BY <1>1, <2>1, <2>2, <3>2
      <4> QED
        BY <4>1
    <3> QED
      BY <1>1, <2>1, <2>5, <3>1, <3>2
  <2> HIDE DEF place
  <2>6. \A k \in DOMAIN r : \A type, id : IsOf(r, k, type, id) <=> IsOf(q, place(k), type, id)
    BY <2>3 DEF IsOf
  <2>7. QueueOK(r, heard, gone)
    <3>1. \A k \in DOMAIN r : Sound(r[k].ev, heard)
      BY <2>3 DEF QueueOK
    <3>2. ASSUME NEW i \in DOMAIN r, NEW k \in DOMAIN r, r[i].ev.id \in Ids, IsOf(r, k, r[i].ev.type, r[i].ev.id)
          PROVE  i = k
      BY <2>3, <2>4, <2>6, <3>2 DEF QueueOK
    <3>3. ASSUME NEW i \in DOMAIN r, NEW k \in DOMAIN r, i < k, r[i].ev.id \in Ids, IsOf(r, k, "generate", r[i].ev.id)
          PROVE  "early" \in gone[r[i].ev.id]
      BY <2>3, <2>4, <2>6, <3>3 DEF QueueOK
    <3> QED
      BY <2>2, <3>1, <3>2, <3>3 DEF QueueOK
  <2>8. \A type, id : Has(r, type, id) => Has(q, type, id)
    BY <2>3, <2>6 DEF Has
  <2>9. ASSUME NEW type, NEW id, NEW i \in DOMAIN q, IsOf(q, i, type, id), i # j PROVE Has(r, type, id)
    BY <2>5, <2>6, <2>9 DEF Has
  <2>10. \A type, id : IsOf(q, j, type, id) => id = ev.id
    BY <2>1 DEF IsOf
  <2>11. ASSUME "early" \notin gone[ev.id], Has(q, "generate", ev.id) PROVE IsOf(q, j, "generate", ev.id)
    <3>1. PICK g \in DOMAIN q : IsOf(q, g, "generate", ev.id)
      BY <2>11 DEF Has
    <3>2. j <= g /\ q[j].ev.id = ev.id /\ j \in DOMAIN q
      BY <2>1, <3>1 DEF IsOf
    <3>3. ~(j < g)
      BY <2>11, <3>1, <3>2 DEF QueueOK
    <3> QED
      BY <1>1, <3>1, <3>2, <3>3
  <2>12. ASSUME IsOf(q, j, "generate", ev.id)
         PROVE  ~Has(r, "generate", ev.id) /\ \A type \in Requests : Has(r, type, ev.id) <=> Has(q, type, ev.id)
    <3>1. ASSUME NEW k \in DOMAIN r PROVE ~IsOf(r, k, "generate", ev.id)
      BY <2>1, <2>3, <2>6, <2>12 DEF QueueOK, IsOf
    <3>2. \A type \in Requests : ~IsOf(q, j, type, ev.id)
      BY <2>12 DEF IsOf, Requests
    <3> QED
      BY <2>8, <2>9, <3>1, <3>2 DEF Has
  <2> QED
    BY <2>7, <2>8, <2>9, <2>10, <2>11, <2>12 DEF Has
<1> QED
  BY <1>2, <1>3

Restarted(order, waiting) == [k \in DOMAIN order |-> Entry(waiting[order[k]])]

\* A server that starts queues one pending event of each session that has one.
LEMMA Requeued ==
  ASSUME NEW heard, NEW gone, NEW again \in SUBSET Ids, NEW waiting, NEW order \in SetToSeqs(again),
         \A id \in again : waiting[id] \in Event /\ waiting[id].id = id /\ waiting[id].type \in Work /\ Sound(waiting[id], heard),
         NEW r, r = Restarted(order, waiting)
  PROVE  /\ QueueOK(r, heard, gone)
         /\ \A type, id : Has(r, type, id) <=> id \in again /\ type = waiting[id].type
<1>1. IsFiniteSet(again) /\ Cardinality(again) \in Nat
  <2>1. IsFiniteSet(Ids)
    BY LiveBounds, FS_Interval DEF Ids
  <2> QED
    BY <2>1, FS_Subset, FS_CardinalityType
<1>2. PICK n \in Nat : n = Cardinality(again)
  BY <1>1
<1>3. order \in [1 .. n -> again] /\ \A i, k \in 1 .. n : i # k => order[i] # order[k]
  BY <1>2 DEF SetToSeqs
<1>4. \A id \in again : \E k \in 1 .. n : order[k] = id
  <2>1. order \in Injection(1 .. n, again)
    BY <1>3 DEF Injection, IsInjective
  <2>2. Cardinality(1 .. n) = n
    BY <1>2, FS_Interval
  <2>3. order \in Surjection(1 .. n, again)
    BY <1>1, <1>2, <2>1, <2>2, FS_Injection
  <2> QED
    BY <2>3 DEF Surjection
<1>5. DOMAIN r = 1 .. n /\ \A k \in 1 .. n : r[k] \in QueueEntry /\ r[k].ev = waiting[order[k]]
  <2>1. PICK leased \in BOOLEAN : leased = FALSE
    OBVIOUS
  <2>2. ASSUME NEW k \in 1 .. n PROVE r[k] \in QueueEntry /\ r[k].ev = waiting[order[k]]
    <3>1. PICK e \in Event : e = waiting[order[k]]
      BY <1>3
    <3>2. r[k] = [ev |-> e, leased |-> leased]
      BY <1>3, <2>1, <3>1 DEF Entry, Restarted
    <3> QED
      BY <3>1, <3>2 DEF QueueEntry
  <2> QED
    BY <1>3, <2>2 DEF Restarted
<1>6. r \in Seq(QueueEntry) /\ Len(r) = n
  <2>1. r \in [1 .. n -> QueueEntry]
    BY <1>5 DEF Restarted
  <2> QED
    BY <2>1
<1>7. \A k \in 1 .. n : /\ order[k] \in again /\ r[k].ev.id = order[k] /\ r[k].ev.type = waiting[order[k]].type
                        /\ Sound(r[k].ev, heard)
  BY <1>3, <1>5
<1>8. \A i, k \in 1 .. n : r[i].ev.id = r[k].ev.id => i = k
  BY <1>3, <1>7
<1>9. QueueOK(r, heard, gone)
  BY <1>5, <1>6, <1>7, <1>8 DEF QueueOK, IsOf
<1>10. \A type, id : Has(r, type, id) <=> id \in again /\ type = waiting[id].type
  BY <1>4, <1>5, <1>7 DEF Has, IsOf
<1> QED
  BY <1>9, <1>10

-----------------------------------------------------------------------------
(* The server's invariant. *)

Early(id) == "early" \in lost[id]
Seen(id) == src[id].at = "variants" \/ src[id].once
Holds(id) == agent.at \in Steps /\ agent.ev.id = id
HoldsRequest(id) == Holds(id) /\ agent.ev.type \in Requests
HoldsGenerate(id) == Holds(id) /\ agent.ev.type = "generate"
Waits(q, id) == Has(q, "accept", id) \/ Has(q, "discard", id)
Undone(id) == asked[id] # {} /\ ~src[id].once

AgentOK ==
  /\ agent.at \in Steps => agent.ev.type \in Work /\ agent.ev.id \in Ids /\ Sound(agent.ev, asked)
  /\ agent.at = "cleaning" \/ (agent.at = "replying" /\ agent.carbonize) => agent.ev.type \in Requests
  /\ agent.at = "replying" => agent.reply # "none"
  /\ agent.epoch <= srv.epoch

\* What a session has pending is its own and was journaled, and is no generation once
\* something else was asked.
JournalOK(id) ==
  /\ \/ journal[id].pending = NoEvent
     \/ journal[id].pending.type \in Work /\ journal[id].pending.id = id /\ Sound(journal[id].pending, asked)
  /\ ~ListedActive(journal[id]) => journal[id].pending = NoEvent
  /\ asked[id] # {} /\ ~Early(id) => src[id].at # "absent" /\ journal[id].pending.type # "generate"

\* Only what shows its variants, or did, is accepted; what is settled is not generated.
GenerationIsOver(id) ==
  /\ ~HoldsGenerate(id)
  /\ Has(srv.pending, "generate", id) => agent.at = "replying" /\ HoldsRequest(id) /\ agent.epoch = srv.epoch
SourceOK(id) ==
  /\ src[id].at \in Settled => src[id].once
  /\ src[id].once => asked[id] # {}
  /\ \A v \in 0 .. 2 : <<"accept", v>> \in asked[id] => Seen(id)
  /\ src[id].once /\ ~Early(id) /\ "reply" \notin lost[id] =>
       /\ src[id].at \in Settled
       /\ <<IF src[id].at = "accepted" THEN "accept" ELSE "discard", src[id].v>> \in asked[id]
       /\ GenerationIsOver(id)

\* While the agent has a generation of this server, that is queued; a request it has
\* is in front of a generation only in this server's queue.
LeaseOK(id) ==
  /\ HoldsGenerate(id) /\ agent.epoch = srv.epoch /\ srv.up => Has(srv.pending, "generate", id)
  /\ HoldsRequest(id) /\ Has(srv.pending, "generate", id) /\ ~Early(id) => agent.epoch = srv.epoch
  /\ HoldsRequest(id) /\ agent.at # "handling" => src[id].once \/ Early(id) \/ "agent" \in lost[id]

KeptOK(id) ==
  Undone(id) /\ ~Early(id) /\ "agent" \notin lost[id] =>
    /\ srv.up => Waits(srv.pending, id) \/ ("overtaken" \in lost[id] /\ srv.epoch > 0)
    /\ ~srv.up => journal[id].pending.type \in Requests \/ "overtaken" \in lost[id]

AgreesOK(id) ==
  srv.up =>
    /\ journal[id].pending # NoEvent => \E type \in Work : Has(srv.pending, type, id)
    /\ Waits(srv.pending, id) /\ journal[id].pending = NoEvent =>
         src[id].once \/ Early(id) \/ "agent" \in lost[id] \/ "overtaken" \in lost[id]

SessionOK(id) == JournalOK(id) /\ SourceOK(id) /\ LeaseOK(id) /\ KeptOK(id) /\ AgreesOK(id)

ServerIInv ==
  /\ ServerTypes
  /\ QueueOK(srv.pending, asked, lost) /\ (~srv.up => srv.pending = <<>>)
  /\ AgentOK /\ \A id \in Ids : SessionOK(id)

LEMMA ServerStarts1 == ServerInit => ServerIInv
<1> SUFFICES ASSUME ServerInit PROVE ServerIInv
  OBVIOUS
<1>1. ServerTypes
  BY LiveBounds DEF ServerInit, ServerTypes, Servers, Agents, Journals, Sources, Asked, Lost, Event, Steps, Phases, PageStates, NoEvent, QueueEntry
<1>2. \A heard, gone : QueueOK(<<>>, heard, gone)
  BY DEF QueueOK
<1>3. \A type, id : ~Has(<<>>, type, id)
  BY DEF Has
<1>4. AgentOK
  BY DEF ServerInit, AgentOK, Steps
<1>5. ASSUME NEW id \in Ids PROVE SessionOK(id)
  <2>1. /\ journal[id] = [phase |-> "new", pending |-> NoEvent, rev |-> 0]
        /\ src[id] = [at |-> "absent", v |-> 0, once |-> FALSE] /\ asked[id] = {} /\ lost[id] = {}
        /\ agent.at = "polling" /\ srv.pending = <<>>
    BY DEF ServerInit
  <2> QED
    BY <1>3, <2>1 DEF SessionOK, JournalOK, SourceOK, LeaseOK, KeptOK, AgreesOK, Holds, HoldsRequest, HoldsGenerate, Steps,
       Undone, Waits, Settled, ListedActive, NoEvent
<1> QED
  BY <1>1, <1>2, <1>4, <1>5 DEF ServerInit, ServerIInv

\* What a session's part of the invariant depends on.
SameSession(id) ==
  /\ journal'[id] = journal[id] /\ src'[id] = src[id] /\ asked'[id] = asked[id] /\ lost'[id] = lost[id]
  /\ \A type : Has(srv'.pending, type, id) <=> Has(srv.pending, type, id)
SameAgent(id) == agent' = agent \/ (~Holds(id) /\ ~Holds(id)')
SameServer == srv'.up = srv.up /\ srv'.epoch = srv.epoch

LEMMA SessionStands ==
  ASSUME NEW id \in Ids, SessionOK(id), SameSession(id), SameAgent(id), SameServer
  PROVE  SessionOK(id)'
<1>1. Waits(srv.pending, id)' <=> Waits(srv.pending, id)
  BY DEF SameSession, Waits
<1>2. JournalOK(id)'
  BY DEF SessionOK, SameSession, JournalOK, Early, Sound
<1>3. SourceOK(id)'
  BY DEF SessionOK, SameSession, SameAgent, SameServer, SourceOK, Early, Seen, GenerationIsOver, HoldsGenerate, HoldsRequest, Holds
<1>4. LeaseOK(id)'
  BY DEF SessionOK, SameSession, SameAgent, SameServer, LeaseOK, Early, HoldsGenerate, HoldsRequest, Holds
<1>5. KeptOK(id)'
  BY <1>1 DEF SessionOK, SameSession, SameServer, KeptOK, Early, Undone
<1>6. AgreesOK(id)'
  BY <1>1 DEF SessionOK, SameSession, SameServer, AgreesOK, Early
<1> QED
  BY <1>2, <1>3, <1>4, <1>5, <1>6 DEF SessionOK

\* Steps that change at most leases, connections and the exit in the queue.
LEMMA QueueStep ==
  ASSUME ServerIInv, UNCHANGED <<journal, src, agent, asked, lost>>, srv' \in Servers, SameServer,
         QueueOK(srv'.pending, asked, lost), srv'.up \/ srv'.pending = <<>>,
         \A id \in Ids : \A type : Has(srv'.pending, type, id) <=> Has(srv.pending, type, id)
  PROVE  ServerIInv'
<1>1. ServerTypes'
  BY DEF ServerIInv, ServerTypes
<1>2. AgentOK'
  BY DEF ServerIInv, AgentOK, Sound, SameServer
<1>3. ASSUME NEW id \in Ids PROVE SessionOK(id)'
  BY SessionStands DEF ServerIInv, SameSession, SameAgent
<1> QED
  BY <1>1, <1>2, <1>3 DEF ServerIInv

LEMMA LeaseExpiresOK == ASSUME ServerIInv, NEW i \in DOMAIN srv.pending, LeaseExpires(i) PROVE ServerIInv'
<1>1. srv \in Servers /\ srv.pending \in Seq(QueueEntry) /\ QueueOK(srv.pending, asked, lost)
  BY DEF ServerIInv, ServerTypes, Servers
<1>2. PICK leased \in BOOLEAN : leased = FALSE
  OBVIOUS
<1>3. PICK q, r : q = srv.pending /\ r = WithLease(q, i, leased) /\ i \in DOMAIN q
  OBVIOUS
<1>4. QueueOK(r, asked, lost) /\ \A type, id : Has(r, type, id) <=> Has(srv.pending, type, id)
  <2>1. QueueOK(r, asked, lost) /\ \A type, id : Has(r, type, id) <=> Has(q, type, id)
    <3>1. QueueOK(q, asked, lost)
      BY <1>1, <1>3
    <3> QED
      BY <1>2, <1>3, <3>1, LeasesStand
  <2> QED
    BY <1>3, <2>1
<1>5. srv' = [srv EXCEPT !.pending = r] /\ srv.up /\ UNCHANGED <<journal, src, agent, asked, lost>>
  BY <1>2, <1>3 DEF LeaseExpires, WithLease
<1>6. srv' \in Servers /\ SameServer /\ srv'.pending = r /\ srv'.up
  BY <1>1, <1>4, <1>5 DEF Servers, SameServer, QueueOK
<1> QED
  BY <1>4, <1>5, <1>6, QueueStep

LEMMA ExitTimerOK == ASSUME ServerIInv, ExitTimer PROVE ServerIInv'
<1>1. srv \in Servers /\ QueueOK(srv.pending, asked, lost)
  BY DEF ServerIInv, ServerTypes
<1>2. PICK ev \in Event : ev = [NoEvent EXCEPT !.type = "exit"] /\ ev.type = "exit" /\ ev.id = 0
  <2>1. PICK e : e = [type |-> "exit", id |-> 0, v |-> 0]
    OBVIOUS
  <2>2. e \in Event /\ e.type = "exit" /\ e.id = 0
    BY <2>1, LiveBounds DEF Event
  <2>3. e = [NoEvent EXCEPT !.type = "exit"]
    BY <2>1 DEF NoEvent
  <2> QED
    BY <2>2, <2>3
<1>3. Sound(ev, asked)
  BY <1>2 DEF Sound
<1>4. PICK r : r = Enqueue(srv.pending, ev)
  OBVIOUS
<1>5. /\ QueueOK(r, asked, lost)
      /\ \A type, id : Has(r, type, id) <=> Has(srv.pending, type, id) \/ (type = ev.type /\ id = ev.id)
  <2>1. ev.type # "generate"
    BY <1>2
  <2> QED
    BY <1>1, <1>3, <1>4, <2>1, Enqueued
<1>6. srv' = [srv EXCEPT !.exit = FALSE, !.pending = r] /\ srv.up /\ UNCHANGED <<journal, src, agent, asked, lost>>
  BY <1>2, <1>4 DEF ExitTimer
<1>7. srv' \in Servers /\ SameServer /\ srv'.pending = r /\ srv'.up
  <2>1. PICK exit \in BOOLEAN : exit = FALSE
    OBVIOUS
  <2>2. srv' = [srv EXCEPT !.exit = exit, !.pending = r]
    BY <1>6, <2>1
  <2> QED
    BY <1>1, <1>5, <1>6, <2>2 DEF Servers, SameServer, QueueOK
<1>8. \A id \in Ids : \A type : Has(r, type, id) <=> Has(srv.pending, type, id)
  BY <1>2, <1>5 DEF Ids
<1> QED
  BY <1>5, <1>6, <1>7, <1>8, QueueStep

\* The agent has nothing in hand any more.
LEMMA AgentLetsGo ==
  ASSUME ServerIInv, UNCHANGED <<srv, journal, src, asked>>, agent' \in Agents, agent'.at \notin Steps, agent'.epoch = agent.epoch,
         lost' \in Lost, Grows(lost, lost'), \A id \in Ids : lost'[id] = lost[id] \/ (Holds(id) /\ "reply" \in lost'[id]),
         \A id \in Ids : agent.at = "replying" /\ HoldsRequest(id) /\ ~Early(id) /\ Has(srv.pending, "generate", id) => "reply" \in lost'[id]
  PROVE  ServerIInv'
<1>1. ServerTypes' /\ AgentOK'
  <2>1. ServerTypes'
    BY DEF ServerIInv, ServerTypes
  <2>2. AgentOK'
    BY DEF ServerIInv, AgentOK, Steps
  <2> QED
    BY <2>1, <2>2
<1>2. QueueOK(srv.pending, asked, lost')
  BY QueueStands DEF ServerIInv, Grows
<1>3. ASSUME NEW id \in Ids PROVE SessionOK(id)'
  <2>1. SessionOK(id) /\ lost[id] \subseteq lost'[id] /\ ~Holds(id)'
    BY DEF ServerIInv, Grows, Holds
  <2>2. JournalOK(id)'
    BY <2>1 DEF SessionOK, JournalOK, Early
  <2>3. SourceOK(id)'
    BY <2>1 DEF SessionOK, SourceOK, Early, Seen, GenerationIsOver, HoldsGenerate, HoldsRequest
  <2>4. LeaseOK(id)'
    BY <2>1 DEF LeaseOK, HoldsGenerate, HoldsRequest
  <2>5. KeptOK(id)'
    BY <2>1 DEF SessionOK, KeptOK, Early, Undone
  <2>6. AgreesOK(id)'
    BY <2>1 DEF SessionOK, AgreesOK, Early
  <2> QED
    BY <2>2, <2>3, <2>4, <2>5, <2>6 DEF SessionOK
<1> QED
  BY <1>1, <1>2, <1>3 DEF ServerIInv

LEMMA AgentStepsBack ==
  ASSUME ServerIInv, AgentStarts \/ PollFails \/ LeaveIncomplete \/ AgentInterrupted
  PROVE  ServerIInv'
<1>1. agent \in Agents /\ lost \in Lost /\ AgentOK
  BY DEF ServerIInv, ServerTypes
<1>2. UNCHANGED <<srv, journal, src, asked>>
  BY DEF AgentStarts, PollFails, LeaveIncomplete, AgentInterrupted
<1>3. PICK at \in {"off", "polling"} : agent' = [agent EXCEPT !.at = at]
  BY DEF AgentStarts, PollFails, LeaveIncomplete, AgentInterrupted
<1>4. agent' \in Agents /\ agent'.at \notin Steps /\ agent'.epoch = agent.epoch
  BY <1>1, <1>3 DEF Agents, Steps
<1>5. CASE agent.at = "replying" /\ agent.ev.type \in Requests
  <2>1. agent.ev.id \in Ids /\ agent.at \in Steps
    BY <1>1, <1>5 DEF AgentOK, Steps
  <2>2. lost' = [lost EXCEPT ![agent.ev.id] = @ \cup {"reply"}]
    BY <1>5 DEF AgentStarts, PollFails, LeaveIncomplete, AgentInterrupted
  <2>3. /\ lost' \in Lost /\ Grows(lost, lost') /\ "reply" \in lost'[agent.ev.id]
        /\ \A id \in Ids : id # agent.ev.id => lost'[id] = lost[id]
    BY <1>1, <2>1, <2>2 DEF Lost, Losses, Grows
  <2> QED
    BY <1>2, <1>4, <2>1, <2>3, AgentLetsGo DEF Holds, HoldsRequest
<1>6. CASE ~(agent.at = "replying" /\ agent.ev.type \in Requests)
  <2>1. lost' = lost
    BY <1>6 DEF AgentStarts, PollFails, LeaveIncomplete, AgentInterrupted
  <2> QED
    BY <1>1, <1>2, <1>4, <1>6, <2>1, AgentLetsGo DEF HoldsRequest, Grows
<1> QED
  BY <1>5, <1>6

\* What is known of a browser's event: an accept's variants were seen, and a
\* generation is sent once.
Sendable(m) ==
  /\ m \in Posts
  /\ m.type = "accept" => Seen(m.id)
  /\ m.type = "generate" => src[m.id].at = "absent" /\ ~Has(srv.pending, "generate", m.id) /\ ~HoldsGenerate(m.id)

LEMMA PostEventOK == ASSUME ServerIInv, NEW m, Sendable(m), PostEvent(m) PROVE ServerIInv'
<1>1. /\ srv \in Servers /\ journal \in [Ids -> Journals] /\ src \in [Ids -> Sources] /\ asked \in Asked /\ lost \in Lost
      /\ QueueOK(srv.pending, asked, lost) /\ AgentOK /\ srv.up /\ UNCHANGED <<src, agent>>
  BY DEF ServerIInv, ServerTypes, PostEvent
<1>2. PICK id \in Ids : id = m.id /\ SessionOK(id) /\ journal[id] \in Journals /\ asked[id] \subseteq Requests \X (0 .. 2) /\ lost[id] \subseteq Losses
  BY <1>1 DEF Sendable, Posts, ServerIInv, Asked, Lost
<1>3. CASE m.type = "checkpoint"
  <2>1. srv' = srv /\ asked' = asked /\ lost' = lost
    BY <1>3 DEF PostEvent, Requests
  <2>2. PICK phase \in Phases, rev \in Nat :
          /\ journal' = [journal EXCEPT ![id] = [journal[id] EXCEPT !.phase = phase, !.rev = rev]]
          /\ phase = journal[id].phase \/ phase \in PageStates
    <3>1. journal' = [journal EXCEPT ![id] = Requested(journal[id], m)]
      BY <1>1, <1>2 DEF PostEvent
    <3>2. CASE m.rev >= journal[id].rev
      <4>1. Requested(journal[id], m) = [journal[id] EXCEPT !.phase = m.phase, !.rev = m.rev]
        BY <1>3, <3>2 DEF Requested
      <4>2. m.phase \in PageStates /\ m.phase \in Phases /\ m.rev \in Nat
        BY DEF Sendable, Posts, Phases
      <4> QED
        BY <3>1, <4>1, <4>2
    <3>3. CASE ~(m.rev >= journal[id].rev)
      <4>1. Requested(journal[id], m) = journal[id]
        BY <1>3, <3>3 DEF Requested
      <4>2. journal[id] = [journal[id] EXCEPT !.phase = journal[id].phase, !.rev = journal[id].rev]
        BY <1>2 DEF Journals
      <4>3. journal[id].phase \in Phases /\ journal[id].rev \in Nat
        BY <1>2 DEF Journals
      <4> QED
        BY <3>1, <4>1, <4>2, <4>3
    <3> QED
      BY <3>2, <3>3
  <2>3. /\ journal' \in [Ids -> Journals] /\ journal'[id].pending = journal[id].pending /\ journal'[id].phase = phase
        /\ \A other \in Ids : other # id => journal'[other] = journal[other]
    BY <1>1, <1>2, <2>2 DEF Journals
  <2>4. JournalOK(id)'
    BY <1>2, <2>1, <2>2, <2>3, <1>1 DEF SessionOK, JournalOK, ListedActive, PageStates, Early, Sound
  <2>5. ASSUME NEW other \in Ids PROVE SessionOK(other)'
    <3>1. CASE other # id
      <4>1. SessionOK(other)
        BY DEF ServerIInv
      <4>2. SameSession(other) /\ SameAgent(other) /\ SameServer
        BY <1>1, <2>1, <2>3, <3>1 DEF SameSession, SameAgent, SameServer
      <4> QED
        BY <4>1, <4>2, SessionStands
    <3>2. CASE other = id
      <4>1. SourceOK(id)' /\ LeaseOK(id)'
        BY <1>1, <1>2, <2>1 DEF SessionOK, SourceOK, LeaseOK, Early, Seen, GenerationIsOver, HoldsGenerate, HoldsRequest, Holds
      <4>2. KeptOK(id)' /\ AgreesOK(id)'
        BY <1>1, <1>2, <2>1, <2>3 DEF SessionOK, KeptOK, AgreesOK, Early, Undone
      <4> QED
        BY <2>4, <3>2, <4>1, <4>2 DEF SessionOK
    <3> QED
      BY <3>1, <3>2
  <2>6. AgentOK' /\ ServerTypes'
    BY <1>1, <2>1, <2>3 DEF AgentOK, ServerIInv, ServerTypes
  <2> QED
    BY <1>1, <2>1, <2>5, <2>6 DEF ServerIInv
<1>4. CASE m.type \in Work
  <2>1. PICK ev \in Event, phase \in {"generate_requested", "accept_requested", "discard_requested"} :
          /\ ev.type = m.type /\ ev.id = id /\ ev.v = m.v
          /\ journal' = [journal EXCEPT ![id] = [journal[id] EXCEPT !.phase = phase, !.pending = ev]]
    <3>1. PICK e : e = [type |-> m.type, id |-> m.id, v |-> m.v]
      OBVIOUS
    <3>2. e \in Event /\ e.type = m.type /\ e.id = id /\ e.v = m.v
      <4>1. id \in 0 .. MaxGos /\ m.v \in 0 .. 2
        BY <1>2, LiveBounds DEF Sendable, Posts, Ids
      <4> QED
        BY <1>2, <1>4, <3>1, <4>1 DEF Event
    <3>3. RequestedPhase[m.type] \in {"generate_requested", "accept_requested", "discard_requested"}
      BY <1>4 DEF RequestedPhase, Work, Requests
    <3>4. Requested(journal[id], m) = [journal[id] EXCEPT !.phase = RequestedPhase[m.type], !.pending = e]
      BY <1>4, <3>1 DEF Requested, Work, Requests
    <3>5. journal' = [journal EXCEPT ![id] = Requested(journal[id], m)]
      BY <1>1, <1>2 DEF PostEvent
    <3> QED
      BY <3>2, <3>3, <3>4, <3>5
  <2>2. /\ journal' \in [Ids -> Journals] /\ journal'[id].pending = ev /\ journal'[id].phase = phase
        /\ \A other \in Ids : other # id => journal'[other] = journal[other]
    BY <1>1, <1>2, <2>1 DEF Journals, Phases
  <2>3. PICK heard, gone : heard = asked' /\ gone = lost'
    OBVIOUS
  <2>4. /\ heard \in Asked /\ Grows(asked, heard) /\ (m.type \in Requests => <<m.type, m.v>> \in heard[id])
        /\ \A other \in Ids : other # id => heard[other] = asked[other]
        /\ heard[id] = asked[id] \cup (IF m.type \in Requests THEN {<<m.type, m.v>>} ELSE {})
    <3>1. m.v \in 0 .. 2
      BY DEF Sendable, Posts
    <3>2. heard = IF m.type \in Requests THEN [asked EXCEPT ![id] = asked[id] \cup {<<m.type, m.v>>}] ELSE asked
      BY <1>2, <2>3 DEF PostEvent
    <3> QED
      BY <1>1, <3>1, <3>2 DEF Asked, Grows
  <2>5. /\ gone \in Lost /\ Grows(lost, gone) /\ \A other \in Ids : other # id => gone[other] = lost[other]
        /\ gone[id] = lost[id] \cup (IF m.type \in Requests /\ src[id].at = "absent" THEN {"early"} ELSE {})
    <3>1. gone = IF m.type \in Requests /\ src[id].at = "absent" THEN [lost EXCEPT ![id] = lost[id] \cup {"early"}] ELSE lost
      BY <1>2, <2>3 DEF PostEvent
    <3> QED
      BY <1>1, <1>2, <3>1 DEF Lost, Losses, Grows
  <2>6. Sound(ev, heard)
    BY <1>2, <1>4, <2>1, <2>4 DEF Sound
  <2>7. m.type = "generate" => \A i \in DOMAIN srv.pending : srv.pending[i].ev.id = id => "early" \in lost[id]
    <3>1. ASSUME m.type = "generate", NEW i \in DOMAIN srv.pending, srv.pending[i].ev.id = id PROVE "early" \in lost[id]
      <4>1. Sound(srv.pending[i].ev, asked) /\ id # 0
        BY <1>1 DEF QueueOK, Ids
      <4>2. srv.pending[i].ev.type # "generate"
        BY <1>2, <3>1 DEF Sendable, Has, IsOf
      <4>3. asked[id] # {}
        BY <3>1, <4>1, <4>2 DEF Sound, Work
      <4> QED
        BY <1>2, <3>1, <4>3 DEF SessionOK, JournalOK, Early, Sendable
    <3> QED
      BY <3>1
  <2>8. PICK r : r = Enqueue(srv.pending, ev)
    OBVIOUS
  <2>9. /\ QueueOK(r, heard, gone)
        /\ \A type, other : Has(r, type, other) <=> Has(srv.pending, type, other) \/ (type = m.type /\ other = id)
    <3>1. QueueOK(srv.pending, heard, gone)
      BY <1>1, <2>4, <2>5, QueueStands
    <3>2. ev.type = "generate" => \A i \in DOMAIN srv.pending : srv.pending[i].ev.id = ev.id => "early" \in gone[ev.id]
      BY <2>1, <2>5, <2>7
    <3> QED
      BY <2>1, <2>6, <2>8, <3>1, <3>2, Enqueued
  <2>10. srv' = [srv EXCEPT !.pending = r]
    <3>1. srv' = [srv EXCEPT !.pending = Enqueue(srv.pending, journal'[m.id].pending)]
      BY <1>4 DEF PostEvent, Work, Requests
    <3> QED
      BY <1>2, <2>2, <2>8, <3>1
  <2>11. srv' \in Servers /\ SameServer /\ srv'.pending = r /\ srv'.up
    BY <1>1, <2>9, <2>10 DEF Servers, SameServer, QueueOK
  <2>12. AgentOK' /\ ServerTypes'
    <3>1. AgentOK'
      BY <1>1, <2>3, <2>4, <2>11 DEF AgentOK, Sound, Grows, SameServer
    <3>2. ServerTypes'
      BY <1>1, <2>2, <2>3, <2>4, <2>5, <2>11 DEF ServerIInv, ServerTypes
    <3> QED
      BY <3>1, <3>2
  <2>13. ASSUME NEW other \in Ids, other # id PROVE SessionOK(other)'
    <3>1. SessionOK(other)
      BY DEF ServerIInv
    <3>2. SameSession(other) /\ SameAgent(other)
      BY <1>1, <2>2, <2>3, <2>4, <2>5, <2>9, <2>11, <2>13 DEF SameSession, SameAgent
    <3> QED
      BY <2>11, <3>1, <3>2, SessionStands
  <2>14. SessionOK(id)'
    <3>1. m.type = "generate" => asked'[id] = asked[id] /\ lost'[id] = lost[id] /\ (asked[id] # {} => Early(id))
      BY <1>2, <2>3, <2>4, <2>5 DEF SessionOK, JournalOK, Early, Sendable, Requests
    <3>2. m.type \in Requests => asked'[id] # {} /\ (src[id].at = "absent" => "early" \in lost'[id])
      BY <2>3, <2>4, <2>5
    <3>3. Early(id) => Early(id)'
      BY <2>3, <2>5 DEF Early
    <3>4. JournalOK(id)'
      BY <1>1, <1>2, <1>4, <2>1, <2>2, <2>3, <2>6, <3>1, <3>2, <3>3 DEF JournalOK, Early, ListedActive, Work, Requests, NoEvent
    <3>5. SourceOK(id)'
      <4>1. \A v \in 0 .. 2 : <<"accept", v>> \in asked'[id] => Seen(id)'
        BY <1>1, <1>2, <2>3, <2>4 DEF SessionOK, SourceOK, Seen, Sendable, Requests
      <4>2. src'[id].at \in Settled => src'[id].once
        BY <1>1, <1>2 DEF SessionOK, SourceOK
      <4>3. src'[id].once => asked'[id] # {}
        BY <1>1, <1>2, <2>3, <2>4 DEF SessionOK, SourceOK
      <4>4. ASSUME src[id].once, ~Early(id)', "reply" \notin lost'[id]
            PROVE  /\ src[id].at \in Settled
                   /\ <<IF src[id].at = "accepted" THEN "accept" ELSE "discard", src[id].v>> \in asked[id]
                   /\ GenerationIsOver(id) /\ m.type # "generate"
        BY <1>2, <2>3, <2>5, <3>1, <3>3, <4>4 DEF SessionOK, SourceOK, Early
      <4>5. ASSUME GenerationIsOver(id), m.type # "generate" PROVE GenerationIsOver(id)'
        BY <1>1, <2>9, <2>11, <4>5 DEF GenerationIsOver, HoldsGenerate, HoldsRequest, Holds, SameServer
      <4> QED
        BY <1>1, <2>3, <2>4, <4>1, <4>2, <4>3, <4>4, <4>5 DEF SourceOK, Grows
    <3>6. LeaseOK(id)'
      <4>1. HoldsGenerate(id)' <=> HoldsGenerate(id)
        BY <1>1 DEF HoldsGenerate, Holds
      <4>2. HoldsRequest(id)' <=> HoldsRequest(id)
        BY <1>1 DEF HoldsRequest, Holds
      <4>3. HoldsRequest(id) => asked[id] # {}
        BY <1>1 DEF AgentOK, HoldsRequest, Holds, Sound, Requests
      <4> QED
        BY <1>1, <1>2, <2>3, <2>5, <2>9, <2>11, <3>1, <3>3, <4>1, <4>2, <4>3 DEF SessionOK, LeaseOK, SameServer, Early, Requests
    <3>7. KeptOK(id)'
      <4>1. m.type \in Requests => Waits(srv.pending, id)'
        BY <2>9, <2>11 DEF Waits, Requests
      <4>2. Waits(srv.pending, id) => Waits(srv.pending, id)'
        BY <2>9, <2>11 DEF Waits
      <4> QED
        BY <1>1, <1>2, <1>4, <2>3, <2>5, <2>11, <3>1, <3>3, <4>1, <4>2 DEF SessionOK, KeptOK, Undone, SameServer, Early, Work
    <3>8. AgreesOK(id)'
      <4>1. Has(srv'.pending, m.type, id) /\ ev # NoEvent
        BY <1>4, <2>1, <2>9, <2>11 DEF NoEvent, Work, Requests
      <4> QED
        BY <1>4, <2>2, <4>1 DEF AgreesOK
    <3> QED
      BY <3>4, <3>5, <3>6, <3>7, <3>8 DEF SessionOK
  <2> QED
    BY <2>3, <2>9, <2>11, <2>12, <2>13, <2>14 DEF ServerIInv
<1> QED
  BY <1>3, <1>4 DEF Sendable, Posts

\* The server ends, by itself or because the agent was told to exit.
LEMMA GoesDown ==
  ASSUME ServerIInv, srv.up, srv' = Down, UNCHANGED <<journal, src, asked, lost>>,
         agent' = agent \/ (agent.at = "polling" /\ agent' = [agent EXCEPT !.at = "off"])
  PROVE  ServerIInv'
<1>1. srv \in Servers /\ agent \in Agents /\ AgentOK /\ QueueOK(srv.pending, asked, lost)
  BY DEF ServerIInv, ServerTypes
<1>2. srv' \in Servers /\ ~srv'.up /\ srv'.epoch = srv.epoch /\ srv'.pending = <<>>
  <2>1. PICK up \in BOOLEAN : up = FALSE
    OBVIOUS
  <2>2. PICK empty \in Seq(QueueEntry) : empty = <<>>
    <3>1. <<>> \in Seq(QueueEntry)
      OBVIOUS
    <3> QED
      BY <3>1
  <2>3. srv' = [srv EXCEPT !.up = up, !.pending = empty, !.client = up, !.exit = up]
    BY <2>1, <2>2 DEF Down
  <2> QED
    BY <1>1, <2>1, <2>2, <2>3 DEF Servers
<1>3. agent' \in Agents /\ agent'.ev = agent.ev /\ agent'.epoch = agent.epoch /\ agent'.carbonize = agent.carbonize
      /\ (agent'.at = agent.at \/ (agent.at = "polling" /\ agent'.at = "off"))
  BY <1>1 DEF Agents
<1>4. \A type, id : ~Has(<<>>, type, id)
  BY DEF Has
<1>5. QueueOK(<<>>, asked, lost)
  BY DEF QueueOK
<1>6. ServerTypes' /\ AgentOK'
  <2>1. ServerTypes'
    BY <1>2, <1>3 DEF ServerIInv, ServerTypes
  <2>2. AgentOK'
    BY <1>1, <1>2, <1>3 DEF AgentOK, Steps, Sound
  <2> QED
    BY <2>1, <2>2
<1>7. ASSUME NEW id \in Ids PROVE SessionOK(id)'
  <2>1. SessionOK(id) /\ journal[id].pending.type \in {"none"} \cup Work \cup {"exit"}
    BY DEF ServerIInv, ServerTypes, Journals, Event
  <2>2. (HoldsRequest(id)' <=> HoldsRequest(id)) /\ (HoldsGenerate(id)' <=> HoldsGenerate(id))
    BY <1>3 DEF HoldsRequest, HoldsGenerate, Holds, Steps
  <2>3. JournalOK(id)'
    BY <2>1 DEF SessionOK, JournalOK, Early, Sound
  <2>4. SourceOK(id)'
    BY <1>2, <1>4, <2>1, <2>2 DEF SessionOK, SourceOK, Early, Seen, GenerationIsOver
  <2>5. LeaseOK(id)'
    BY <1>2, <1>3, <1>4, <2>1, <2>2 DEF SessionOK, LeaseOK, Early
  <2>6. KeptOK(id)'
    BY <1>2, <2>1 DEF SessionOK, KeptOK, AgreesOK, JournalOK, Early, Undone, Work
  <2>7. AgreesOK(id)'
    BY <1>2 DEF AgreesOK
  <2> QED
    BY <2>3, <2>4, <2>5, <2>6, <2>7 DEF SessionOK
<1> QED
  BY <1>2, <1>5, <1>6, <1>7 DEF ServerIInv

LEMMA ServerStartsOK == ASSUME ServerIInv, ServerStarts PROVE ServerIInv'
<1>1. srv \in Servers /\ agent \in Agents /\ journal \in [Ids -> Journals] /\ AgentOK /\ ~srv.up
      /\ UNCHANGED <<journal, src, agent, asked, lost>>
  BY DEF ServerIInv, ServerTypes, ServerStarts
<1>2. PICK again \in SUBSET Ids : again = {id \in Ids : ListedActive(journal[id]) /\ journal[id].pending # NoEvent}
  OBVIOUS
<1>3. PICK waiting : waiting = [id \in Ids |-> journal[id].pending]
  OBVIOUS
<1>4. PICK order, r :
        /\ order \in SetToSeqs(again) /\ r = Restarted(order, waiting)
        /\ srv' = [srv EXCEPT !.up = TRUE, !.epoch = srv.epoch + 1, !.pending = r]
  <2>1. PICK order \in SetToSeqs(again) :
          srv' = [srv EXCEPT !.up = TRUE, !.epoch = @ + 1,
                    !.pending = [k \in DOMAIN order |-> Entry(journal[order[k]].pending)]]
    BY <1>2 DEF ServerStarts
  <2>2. \A k \in DOMAIN order : order[k] \in Ids
    BY <1>2 DEF SetToSeqs
  <2>3. [k \in DOMAIN order |-> Entry(journal[order[k]].pending)] = Restarted(order, waiting)
    BY <1>3, <2>2 DEF Restarted
  <2>4. PICK r : r = Restarted(order, waiting)
    OBVIOUS
  <2> QED
    BY <2>1, <2>3, <2>4
<1>5. ASSUME NEW id \in Ids
      PROVE  /\ SessionOK(id) /\ waiting[id] = journal[id].pending /\ waiting[id] \in Event
             /\ id \in again <=> waiting[id] # NoEvent
             /\ id \in again => waiting[id].id = id /\ waiting[id].type \in Work /\ Sound(waiting[id], asked)
             /\ waiting[id].type = "none" <=> waiting[id] = NoEvent
  <2>1. SessionOK(id) /\ waiting[id] = journal[id].pending /\ waiting[id] \in Event
    BY <1>1, <1>3 DEF ServerIInv, Journals
  <2>2. waiting[id] = NoEvent \/ (waiting[id].type \in Work /\ waiting[id].id = id /\ Sound(waiting[id], asked))
    BY <2>1 DEF SessionOK, JournalOK
  <2>3. id \in again <=> waiting[id] # NoEvent
    BY <1>2, <2>1 DEF SessionOK, JournalOK
  <2> QED
    BY <2>1, <2>2, <2>3 DEF NoEvent, Work, Requests
<1>6. /\ QueueOK(r, asked, lost)
      /\ \A type, id : Has(r, type, id) <=> id \in again /\ type = waiting[id].type
  <2>1. \A id \in again : waiting[id] \in Event /\ waiting[id].id = id /\ waiting[id].type \in Work /\ Sound(waiting[id], asked)
    BY <1>5
  <2>2. again \in SUBSET Ids /\ order \in SetToSeqs(again) /\ r = Restarted(order, waiting)
    BY <1>4
  <2> QED
    BY <2>1, <2>2, Requeued
<1>7. srv' \in Servers /\ srv'.up /\ srv'.epoch = srv.epoch + 1 /\ srv'.epoch \in Nat /\ srv'.epoch > 0 /\ srv'.pending = r
  <2>1. srv.epoch \in Nat /\ r \in Seq(QueueEntry)
    BY <1>1, <1>6 DEF QueueOK, Servers
  <2>2. PICK e \in Nat : e = srv.epoch + 1 /\ e > 0
    BY <2>1
  <2>3. PICK up \in BOOLEAN : up = TRUE
    OBVIOUS
  <2>4. srv' = [srv EXCEPT !.up = up, !.epoch = e, !.pending = r]
    BY <1>4, <2>2, <2>3
  <2> QED
    BY <1>1, <2>1, <2>2, <2>3, <2>4 DEF Servers
<1>8. ServerTypes' /\ AgentOK'
  <2>1. ServerTypes'
    BY <1>1, <1>7 DEF ServerIInv, ServerTypes
  <2>2. agent.epoch <= srv'.epoch
    BY <1>1, <1>7 DEF AgentOK, Agents, Servers
  <2>3. AgentOK'
    BY <1>1, <2>2 DEF AgentOK, Sound
  <2> QED
    BY <2>1, <2>3
<1>9. ASSUME NEW id \in Ids PROVE SessionOK(id)'
  <2>1. /\ SessionOK(id) /\ waiting[id] = journal[id].pending
        /\ \A type : Has(srv'.pending, type, id) <=> waiting[id] # NoEvent /\ type = waiting[id].type
    BY <1>5, <1>6, <1>7
  <2>2. (HoldsRequest(id)' <=> HoldsRequest(id)) /\ (HoldsGenerate(id)' <=> HoldsGenerate(id))
    BY <1>1 DEF HoldsRequest, HoldsGenerate, Holds
  <2>3. asked[id] # {} /\ ~Early(id) => ~Has(srv'.pending, "generate", id)
    BY <2>1 DEF SessionOK, JournalOK
  <2>4. JournalOK(id)'
    BY <1>1, <2>1 DEF SessionOK, JournalOK, Early, Sound
  <2>5. SourceOK(id)'
    BY <1>1, <2>1, <2>2, <2>3 DEF SessionOK, SourceOK, Early, Seen, GenerationIsOver
  <2>6. LeaseOK(id)'
    <3>1. agent.epoch # srv'.epoch
      BY <1>1, <1>7 DEF AgentOK, Agents, Servers
    <3>2. HoldsRequest(id) => asked[id] # {}
      BY <1>1 DEF AgentOK, HoldsRequest, Holds, Sound, Requests
    <3> QED
      BY <1>1, <2>1, <2>2, <2>3, <3>1, <3>2 DEF SessionOK, LeaseOK, Early
  <2>7. KeptOK(id)'
    <3>1. journal[id].pending.type \in Requests => Waits(srv.pending, id)'
      BY <1>5, <2>1 DEF Waits, Requests, NoEvent
    <3> QED
      BY <1>1, <1>7, <2>1, <3>1 DEF SessionOK, KeptOK, Undone, Early
  <2>8. AgreesOK(id)'
    BY <1>1, <1>5, <2>1 DEF AgreesOK, Waits
  <2> QED
    BY <2>4, <2>5, <2>6, <2>7, <2>8 DEF SessionOK
<1> QED
  BY <1>1, <1>6, <1>7, <1>8, <1>9 DEF ServerIInv

LEMMA ServerStopsOK == ASSUME ServerIInv, ServerStops PROVE ServerIInv'
<1>1. srv.up /\ srv' = Down /\ UNCHANGED <<journal, src, asked, lost>>
  BY DEF ServerStops
<1>2. agent' = agent \/ (agent.at = "polling" /\ agent' = [agent EXCEPT !.at = "off"])
  BY DEF ServerStops
<1> QED
  BY <1>1, <1>2, GoesDown

\* A poll puts the leased event in the agent's hands, with this server's token.
LEMMA AgentPollsOK == ASSUME ServerIInv, AgentPolls PROVE ServerIInv'
<1>1. srv \in Servers /\ agent \in Agents /\ AgentOK /\ srv.up /\ agent.at = "polling" /\ QueueOK(srv.pending, asked, lost)
      /\ UNCHANGED <<journal, src, asked, lost>>
  BY DEF ServerIInv, ServerTypes, AgentPolls
<1>2. PICK q, i, ev : q = srv.pending /\ i = FirstAvailable(q) /\ ev = q[i].ev
  OBVIOUS
<1>3. q \in Seq(QueueEntry) /\ QueueOK(q, asked, lost) /\ i \in DOMAIN q
  <2>1. q \in Seq(QueueEntry) /\ QueueOK(q, asked, lost) /\ Available(q) # {} /\ Available(q) \subseteq DOMAIN q
    BY <1>1, <1>2 DEF QueueOK, AgentPolls, Available
  <2>2. Available(q) \in SUBSET Nat
    BY <2>1
  <2>3. i \in Available(q)
    BY <1>2, <2>1, <2>2, FirstIsMember DEF FirstAvailable
  <2> QED
    BY <2>1, <2>3
<1>4. q[i] \in QueueEntry /\ ev \in Event /\ Sound(ev, asked)
  <2>1. q[i] \in QueueEntry
    BY <1>3
  <2>2. Sound(q[i].ev, asked)
    BY <1>3 DEF QueueOK
  <2> QED
    BY <1>2, <2>1, <2>2 DEF QueueEntry
<1>5. CASE ev.type = "exit"
  <2>1. srv' = Down /\ agent' = [agent EXCEPT !.at = "off"]
    BY <1>2, <1>5 DEF AgentPolls
  <2> QED
    BY <1>1, <2>1, GoesDown
<1>6. CASE ev.type # "exit"
  <2>1. ev.type \in Work /\ ev.id \in Ids /\ ev.id # 0
    BY <1>4, <1>6 DEF Sound, Ids
  <2>2. PICK r : r = [q EXCEPT ![i].leased = TRUE]
    OBVIOUS
  <2>3. srv' = [srv EXCEPT !.pending = r] /\ agent' = [agent EXCEPT !.at = "handling", !.ev = ev, !.epoch = srv.epoch]
    BY <1>2, <1>6, <2>1, <2>2 DEF AgentPolls, Lease
  <2>4. QueueOK(r, asked, lost) /\ \A type, id : Has(r, type, id) <=> Has(q, type, id)
    <3>1. PICK leased \in BOOLEAN : leased = TRUE
      OBVIOUS
    <3>2. r = WithLease(q, i, leased) /\ i \in DOMAIN q
      BY <1>3, <2>2, <3>1 DEF WithLease
    <3>3. QueueOK(q, asked, lost)
      BY <1>3
    <3> QED
      BY <3>2, <3>3, LeasesStand
  <2>5. srv' \in Servers /\ SameServer /\ srv'.pending = r /\ srv'.up
    BY <1>1, <2>3, <2>4 DEF Servers, SameServer, QueueOK
  <2>6. agent' \in Agents /\ agent'.at = "handling" /\ agent'.ev = ev /\ agent'.epoch = srv.epoch /\ srv.epoch \in Nat
    BY <1>1, <1>4, <2>3 DEF Servers, Agents, Steps
  <2>7. AgentOK' /\ ServerTypes'
    <3>1. AgentOK'
      BY <1>1, <1>4, <2>1, <2>5, <2>6 DEF AgentOK, SameServer
    <3>2. ServerTypes'
      BY <1>1, <2>5, <2>6 DEF ServerIInv, ServerTypes
    <3> QED
      BY <3>1, <3>2
  <2>8. ASSUME NEW id \in Ids PROVE SessionOK(id)'
    <3>1. SessionOK(id) /\ (\A type : Has(srv'.pending, type, id) <=> Has(srv.pending, type, id)) /\ ~Holds(id)
      BY <1>1, <1>2, <2>4, <2>5 DEF ServerIInv, Holds, Steps
    <3>2. CASE id # ev.id
      <4>1. SameSession(id) /\ SameAgent(id)
        BY <1>1, <2>6, <3>1, <3>2 DEF SameSession, SameAgent, Holds
      <4> QED
        BY <2>5, <3>1, <4>1, SessionStands
    <3>3. CASE id = ev.id
      <4>1. Has(srv.pending, ev.type, id)
        BY <1>2, <1>3, <3>3 DEF Has, IsOf
      <4>2. (HoldsGenerate(id)' <=> ev.type = "generate") /\ (HoldsRequest(id)' <=> ev.type \in Requests)
        BY <2>6, <3>3 DEF HoldsGenerate, HoldsRequest, Holds, Steps
      <4>3. Waits(srv.pending, id)' <=> Waits(srv.pending, id)
        BY <3>1 DEF Waits
      <4>4. JournalOK(id)'
        BY <1>1, <3>1 DEF SessionOK, JournalOK, Early, Sound
      <4>5. SourceOK(id)'
        BY <1>1, <3>1, <4>1, <4>2 DEF SessionOK, SourceOK, Early, Seen, GenerationIsOver
      <4>6. LeaseOK(id)'
        BY <2>5, <2>6, <3>1, <4>1, <4>2 DEF LeaseOK, SameServer
      <4>7. KeptOK(id)'
        BY <1>1, <2>5, <3>1, <4>3 DEF SessionOK, KeptOK, Early, Undone, SameServer
      <4>8. AgreesOK(id)'
        BY <1>1, <2>5, <3>1, <4>3 DEF SessionOK, AgreesOK, Early, SameServer
      <4> QED
        BY <4>4, <4>5, <4>6, <4>7, <4>8 DEF SessionOK
    <3> QED
      BY <3>2, <3>3
  <2> QED
    BY <1>1, <2>4, <2>5, <2>7, <2>8 DEF ServerIInv
<1> QED
  BY <1>5, <1>6

\* The agent goes on with the event it has.
LEMMA AgentGoesOn ==
  ASSUME ServerIInv, UNCHANGED <<srv, journal, asked>>, NEW id \in Ids, Holds(id), Holds(id)',
         agent' \in Agents, agent'.ev = agent.ev, agent'.epoch = agent.epoch, AgentOK',
         src' \in [Ids -> Sources], \A other \in Ids : other # id => src'[other] = src[other],
         lost' \in Lost, Grows(lost, lost'), \A other \in Ids : other # id => lost'[other] = lost[other],
         src[id].once => src'[id].once, src[id].at # "absent" => src'[id].at # "absent", Early(id)' => Early(id),
         SourceOK(id)', agent'.at # "handling" /\ HoldsRequest(id) => src'[id].once \/ Early(id) \/ "agent" \in lost'[id]
  PROVE  ServerIInv'
<1>1. ServerTypes' /\ QueueOK(srv.pending, asked, lost')
  BY QueueStands DEF ServerIInv, ServerTypes, Grows
<1>2. ASSUME NEW other \in Ids, other # id PROVE SessionOK(other)'
  <2>1. SessionOK(other) /\ ~Holds(other) /\ ~Holds(other)' /\ SameServer
    BY <1>2 DEF ServerIInv, Holds, SameServer
  <2>2. SameSession(other) /\ SameAgent(other)
    BY <1>2, <2>1 DEF SameSession, SameAgent
  <2> QED
    BY <2>1, <2>2, SessionStands
<1>3. SessionOK(id)'
  <2>1. SessionOK(id) /\ lost[id] \subseteq lost'[id] /\ (Early(id)' <=> Early(id))
    BY DEF ServerIInv, Grows, Early
  <2>2. (HoldsRequest(id)' <=> HoldsRequest(id)) /\ (HoldsGenerate(id)' <=> HoldsGenerate(id))
    BY DEF HoldsRequest, HoldsGenerate
  <2>3. JournalOK(id)'
    BY <2>1 DEF SessionOK, JournalOK, Sound
  <2>4. LeaseOK(id)'
    BY <2>1, <2>2 DEF SessionOK, LeaseOK
  <2>5. KeptOK(id)'
    BY <2>1 DEF SessionOK, KeptOK, Undone
  <2>6. AgreesOK(id)'
    BY <2>1 DEF SessionOK, AgreesOK
  <2> QED
    BY <2>3, <2>4, <2>5, <2>6 DEF SessionOK
<1> QED
  BY <1>1, <1>2, <1>3 DEF ServerIInv

LEMMA GenerationOK == ASSUME ServerIInv, Wrap \/ WriteVariants PROVE ServerIInv'
<1>1. /\ agent \in Agents /\ AgentOK /\ src \in [Ids -> Sources] /\ lost \in Lost
      /\ agent.at = "handling" /\ agent.ev.type = "generate" /\ UNCHANGED <<srv, journal, asked, lost>>
  BY DEF ServerIInv, ServerTypes, Wrap, WriteVariants
<1>2. PICK id \in Ids : id = agent.ev.id /\ SessionOK(id) /\ src[id] \in Sources /\ HoldsGenerate(id)
  BY <1>1 DEF AgentOK, Steps, ServerIInv, HoldsGenerate, Holds
<1>3. PICK at \in {"wrapped", "variants"} :
        src' = [src EXCEPT ![id] = [src[id] EXCEPT !.at = at]] /\ (at = "wrapped" => src[id].at # "variants")
  BY <1>2 DEF Wrap, WriteVariants
<1>4. /\ src' \in [Ids -> Sources] /\ src'[id].at = at /\ src'[id].once = src[id].once
      /\ \A other \in Ids : other # id => src'[other] = src[other]
  <2>1. PICK s \in Sources : s = [src[id] EXCEPT !.at = at] /\ s.at = at /\ s.once = src[id].once
    BY <1>2, <1>3 DEF Sources
  <2> QED
    BY <1>1, <1>3, <2>1
<1>5. agent' \in Agents /\ agent'.ev = agent.ev /\ agent'.epoch = agent.epoch /\ agent'.at \in {"handling", "replying"}
      /\ (agent'.at = "replying" => ~agent'.carbonize /\ agent'.reply # "none")
  <2>1. CASE agent' = agent
    BY <1>1, <2>1
  <2>2. CASE agent' = [agent EXCEPT !.at = "replying", !.reply = "agent_done", !.carbonize = FALSE]
    <3>1. PICK carbonize \in BOOLEAN : carbonize = FALSE
      OBVIOUS
    <3>2. agent' = [agent EXCEPT !.at = "replying", !.reply = "agent_done", !.carbonize = carbonize]
      BY <2>2, <3>1
    <3> QED
      BY <1>1, <3>1, <3>2 DEF Agents, Steps
  <2> QED
    BY <2>1, <2>2 DEF Wrap, WriteVariants, ReplyWith
<1>6. AgentOK'
  BY <1>1, <1>5 DEF AgentOK, Sound, Steps
<1>7. SourceOK(id)'
  <2>1. \A v \in 0 .. 2 : <<"accept", v>> \in asked[id] => at = "variants" \/ src[id].once
    BY <1>2, <1>3 DEF SessionOK, SourceOK, Seen
  <2>2. src[id].once => Early(id) \/ "reply" \in lost[id]
    BY <1>2 DEF SessionOK, SourceOK, GenerationIsOver
  <2>3. src[id].once => asked[id] # {}
    BY <1>2 DEF SessionOK, SourceOK
  <2> QED
    BY <1>1, <1>4, <2>1, <2>2, <2>3 DEF SourceOK, Seen, Early, Settled
<1>8. ~HoldsRequest(id) /\ Holds(id) /\ Holds(id)'
  BY <1>1, <1>2, <1>5 DEF HoldsGenerate, HoldsRequest, Holds, Requests, Steps
<1>9. Grows(lost, lost') /\ (Early(id)' => Early(id)) /\ lost' \in Lost
  BY <1>1 DEF Grows, Early
<1> QED
  BY <1>1, <1>4, <1>5, <1>6, <1>7, <1>8, <1>9, AgentGoesOn

\* The agent's answer to come.
LEMMA AnswerReady ==
  ASSUME ServerIInv, agent.at = "handling", NEW reply, NEW carbonize \in BOOLEAN, ReplyWith(reply, carbonize),
         reply \in {"agent_done", "discarded", "complete", "error"}, agent.ev.type \in Work, carbonize => agent.ev.type \in Requests,
         UNCHANGED <<srv, asked>>
  PROVE  /\ agent' \in Agents /\ agent'.ev = agent.ev /\ agent'.epoch = agent.epoch /\ agent'.at = "replying" /\ AgentOK'
         /\ agent.ev.id \in Ids /\ Holds(agent.ev.id) /\ Holds(agent.ev.id)'
<1>1. agent \in Agents /\ AgentOK
  BY DEF ServerIInv, ServerTypes
<1>2. agent' = [agent EXCEPT !.at = "replying", !.reply = reply, !.carbonize = carbonize]
  BY DEF ReplyWith
<1>3. agent' \in Agents /\ agent'.ev = agent.ev /\ agent'.epoch = agent.epoch /\ agent'.at = "replying" /\ agent'.carbonize = carbonize
      /\ agent'.reply = reply
  BY <1>1, <1>2 DEF Agents, Steps
<1>4. AgentOK'
  BY <1>1, <1>3 DEF AgentOK, Sound, Steps
<1> QED
  BY <1>1, <1>3, <1>4 DEF AgentOK, Holds, Steps

\* The script settles the source as its request says, or leaves it.
LEMMA AutoAcceptOK == ASSUME ServerIInv, AutoAccept PROVE ServerIInv'
<1>1. /\ agent \in Agents /\ AgentOK /\ src \in [Ids -> Sources] /\ lost \in Lost /\ asked \in Asked
      /\ agent.at = "handling" /\ agent.ev.type \in Requests /\ UNCHANGED <<srv, journal, asked, lost>>
  BY DEF ServerIInv, ServerTypes, AutoAccept
<1>2. PICK id \in Ids : id = agent.ev.id
  BY <1>1 DEF AgentOK, Steps
<1>3. /\ SessionOK(id) /\ src[id] \in Sources /\ HoldsRequest(id) /\ <<agent.ev.type, agent.ev.v>> \in asked[id] /\ agent.ev.v \in 0 .. 2
  BY <1>1, <1>2 DEF AgentOK, Steps, ServerIInv, HoldsRequest, Holds, Sound, Requests, Agents, Event
<1>4. PICK handled \in BOOLEAN : handled <=> src[id].at = "variants" \/ (agent.ev.type = "discard" /\ src[id].at = "wrapped")
  <2>1. (src[id].at = "variants" \/ (agent.ev.type = "discard" /\ src[id].at = "wrapped")) \in BOOLEAN
    OBVIOUS
  <2> QED
    BY <2>1
<1>5. PICK carbonize \in BOOLEAN, reply \in {"agent_done", "discarded", "complete", "error"} : ReplyWith(reply, carbonize)
  BY <1>1 DEF AutoAccept, CompletionType
<1>6. /\ agent' \in Agents /\ agent'.ev = agent.ev /\ agent'.epoch = agent.epoch /\ agent'.at = "replying" /\ AgentOK'
      /\ Holds(id) /\ Holds(id)'
  BY <1>1, <1>2, <1>5, AnswerReady DEF Work
<1>7. CASE ~handled
  <2>1. src' = src
    BY <1>2, <1>4, <1>7 DEF AutoAccept
  <2>2. src[id].once \/ Early(id)
    <3>1. agent.ev.type = "accept" => Seen(id)
      BY <1>3 DEF SessionOK, SourceOK
    <3>2. Early(id) \/ src[id].at # "absent"
      BY <1>3 DEF SessionOK, JournalOK
    <3>3. src[id].at \in Settled => src[id].once
      BY <1>3 DEF SessionOK, SourceOK
    <3> QED
      BY <1>1, <1>3, <1>4, <1>7, <3>1, <3>2, <3>3 DEF Seen, Sources, Settled, Requests
  <2>3. SourceOK(id)'
    <3>1. GenerationIsOver(id) => GenerationIsOver(id)'
      BY <1>1, <1>6 DEF GenerationIsOver, HoldsGenerate, HoldsRequest
    <3>2. SourceOK(id)
      BY <1>3 DEF SessionOK
    <3> QED
      BY <1>1, <2>1, <3>1, <3>2 DEF SourceOK, Early, Seen
  <2>4. Grows(lost, lost') /\ (Early(id)' => Early(id)) /\ lost' \in Lost
    BY <1>1 DEF Grows, Early
  <2> QED
    BY <1>1, <1>6, <2>1, <2>2, <2>3, <2>4, AgentGoesOn
<1>8. CASE handled
  <2>1. PICK s \in Sources : /\ src' = [src EXCEPT ![id] = s]
                             /\ s.at = (IF agent.ev.type = "accept" THEN "accepted" ELSE "restored") /\ s.v = agent.ev.v /\ s.once
    <3>1. PICK once \in BOOLEAN : once = TRUE
      OBVIOUS
    <3>2. PICK s : s = [at |-> IF agent.ev.type = "accept" THEN "accepted" ELSE "restored", v |-> agent.ev.v, once |-> once]
      OBVIOUS
    <3>3. src' = [src EXCEPT ![id] = s]
      BY <1>2, <1>4, <1>8, <3>1, <3>2 DEF AutoAccept
    <3>4. /\ s \in Sources /\ s.at = (IF agent.ev.type = "accept" THEN "accepted" ELSE "restored") /\ s.v = agent.ev.v
      BY <1>3, <3>2 DEF Sources
    <3>5. s.once
      BY <3>1, <3>2
    <3> QED
      BY <3>3, <3>4, <3>5
  <2>2. src' \in [Ids -> Sources] /\ src'[id] = s /\ \A other \in Ids : other # id => src'[other] = src[other]
    BY <1>1, <2>1
  <2>3. SourceOK(id)'
    <3>1. asked'[id] # {} /\ Seen(id)' /\ src'[id].at \in Settled
      BY <1>1, <1>3, <2>1, <2>2 DEF Seen, Settled
    <3>2. <<IF src'[id].at = "accepted" THEN "accept" ELSE "discard", src'[id].v>> \in asked'[id]
      BY <1>1, <1>3, <2>1, <2>2 DEF Requests
    <3>3. ASSUME ~Early(id)' PROVE GenerationIsOver(id)'
      <4>1. Has(srv.pending, "generate", id) => agent.epoch = srv.epoch
        BY <1>1, <1>3, <3>3 DEF SessionOK, LeaseOK, Early
      <4>2. HoldsRequest(id)' /\ ~HoldsGenerate(id)'
        BY <1>1, <1>6 DEF HoldsRequest, HoldsGenerate, Requests
      <4> QED
        BY <1>1, <1>6, <4>1, <4>2 DEF GenerationIsOver
    <3> QED
      BY <2>1, <2>2, <3>1, <3>2, <3>3 DEF SourceOK
  <2>4. Grows(lost, lost') /\ (Early(id)' => Early(id)) /\ lost' \in Lost /\ src'[id].once /\ src'[id].at # "absent"
    BY <1>1, <2>1, <2>2 DEF Grows, Early
  <2> QED
    BY <1>1, <1>6, <2>2, <2>3, <2>4, AgentGoesOn
<1> QED
  BY <1>7, <1>8

LEMMA HandlingFailsOK == ASSUME ServerIInv, HandlingFails PROVE ServerIInv'
<1>1. /\ agent \in Agents /\ AgentOK /\ src \in [Ids -> Sources] /\ lost \in Lost /\ agent.at = "handling"
      /\ UNCHANGED <<srv, journal, asked, src>>
  BY DEF ServerIInv, ServerTypes, HandlingFails
<1>2. PICK id \in Ids : id = agent.ev.id /\ agent.ev.type \in Work
  BY <1>1 DEF AgentOK, Steps
<1>3. /\ agent' \in Agents /\ agent'.ev = agent.ev /\ agent'.epoch = agent.epoch /\ agent'.at = "replying" /\ AgentOK'
      /\ Holds(id) /\ Holds(id)'
  <2>1. PICK carbonize \in BOOLEAN : carbonize = FALSE
    OBVIOUS
  <2>2. ReplyWith("error", carbonize)
    BY <2>1 DEF HandlingFails
  <2> QED
    BY <1>1, <1>2, <2>1, <2>2, AnswerReady
<1>4. /\ lost' \in Lost /\ Grows(lost, lost') /\ (Early(id)' => Early(id)) /\ ("reply" \in lost'[id] => "reply" \in lost[id])
      /\ \A other \in Ids : other # id => lost'[other] = lost[other]
      /\ (HoldsRequest(id) => "agent" \in lost'[id])
  <2>1. lost' = IF agent.ev.type \in Requests THEN [lost EXCEPT ![id] = lost[id] \cup {"agent"}] ELSE lost
    BY <1>2 DEF HandlingFails
  <2> QED
    BY <1>1, <2>1 DEF Lost, Losses, Grows, Early, HoldsRequest
<1>5. SourceOK(id)'
  <2>1. GenerationIsOver(id) => GenerationIsOver(id)'
    BY <1>1, <1>3 DEF GenerationIsOver, HoldsGenerate, HoldsRequest
  <2>2. SourceOK(id) /\ lost[id] \subseteq lost'[id]
    BY <1>4 DEF ServerIInv, SessionOK, Grows
  <2> QED
    BY <1>1, <1>4, <2>1, <2>2 DEF SourceOK, Early, Seen
<1> QED
  BY <1>1, <1>3, <1>4, <1>5, AgentGoesOn

LEMMA ReplyFailsOK == ASSUME ServerIInv, ReplyFails PROVE ServerIInv'
<1>1. /\ agent \in Agents /\ AgentOK /\ src \in [Ids -> Sources] /\ lost \in Lost /\ agent.at = "replying" /\ ~Received
      /\ UNCHANGED <<srv, journal, asked, src, lost>> /\ QueueOK(srv.pending, asked, lost) /\ (~srv.up => srv.pending = <<>>)
  BY DEF ServerIInv, ServerTypes, ReplyFails
<1>2. PICK id \in Ids : id = agent.ev.id /\ agent.ev.type \in Work
  BY <1>1 DEF AgentOK, Steps
<1>3. PICK at \in {"off", "cleaning"} : agent' = [agent EXCEPT !.at = at] /\ (at = "off" <=> agent.ev.type = "generate")
  BY DEF ReplyFails
<1>4. agent' \in Agents /\ agent'.ev = agent.ev /\ agent'.epoch = agent.epoch /\ agent'.at = at
  BY <1>1, <1>3 DEF Agents, Steps
<1>5. Grows(lost, lost') /\ lost' \in Lost /\ (Early(id)' => Early(id))
  BY <1>1 DEF Grows, Early
<1>6. CASE at = "off"
  <2>1. \A other \in Ids : ~HoldsRequest(other)
    BY <1>3, <1>6 DEF HoldsRequest, Requests
  <2>2. agent'.at \notin Steps
    BY <1>4, <1>6 DEF Steps
  <2> QED
    BY <1>1, <1>4, <1>5, <2>1, <2>2, AgentLetsGo
<1>7. CASE at = "cleaning"
  <2>1. agent.ev.type \in Requests /\ Holds(id) /\ Holds(id)' /\ HoldsRequest(id)
    BY <1>1, <1>2, <1>3, <1>4, <1>7 DEF Work, Holds, Steps, HoldsRequest
  <2>2. AgentOK'
    BY <1>1, <1>4, <2>1 DEF AgentOK, Sound, Steps
  <2>3. SourceOK(id)'
    <3>1. ~srv.up => ~Has(srv.pending, "generate", id)
      BY <1>1 DEF Has
    <3>2. srv.up => agent.epoch # srv.epoch
      BY <1>1, <1>3, <1>7 DEF Received
    <3>3. GenerationIsOver(id) => GenerationIsOver(id)'
      BY <1>1, <1>4, <2>1, <3>1, <3>2 DEF GenerationIsOver, HoldsGenerate, HoldsRequest
    <3>4. SourceOK(id)
      BY DEF ServerIInv, SessionOK
    <3> QED
      BY <1>1, <3>3, <3>4 DEF SourceOK, Early, Seen
  <2>4. src[id].once \/ Early(id) \/ "agent" \in lost[id]
    BY <1>1, <2>1 DEF ServerIInv, SessionOK, LeaseOK
  <2> QED
    BY <1>1, <1>4, <1>5, <2>1, <2>2, <2>3, <2>4, AgentGoesOn
<1> QED
  BY <1>6, <1>7

\* What an answer does, sent to the server or written to the journal.
Answers(id, r) ==
  /\ agent.at \in {"replying", "cleaning"} /\ agent.ev.id = id
  /\ r = Acknowledge(srv.pending, agent.ev) /\ srv' = [srv EXCEPT !.pending = r]
  /\ journal' \in [Ids -> Journals] /\ journal'[id].pending = NoEvent
  /\ \A other \in Ids : other # id => journal'[other] = journal[other]
  /\ UNCHANGED <<src, asked>>
  /\ lost' \in Lost /\ Grows(lost, lost') /\ \A other \in Ids : other # id => lost'[other] = lost[other]
  /\ lost'[id] \subseteq lost[id] \cup {"overtaken", "error"}
  /\ HoldsGenerate(id) => srv.up /\ (asked[id] # {} => "overtaken" \in lost'[id])
  /\ agent' \in Agents /\ agent'.ev = agent.ev /\ agent'.epoch = agent.epoch /\ agent'.at \in {"off", "polling", "cleaning"}
  /\ agent'.at = "cleaning" => agent.ev.type \in Requests

LEMMA AnswerOK == ASSUME ServerIInv, NEW id \in Ids, NEW r, Answers(id, r) PROVE ServerIInv'
<1>1. /\ srv \in Servers /\ agent \in Agents /\ AgentOK /\ QueueOK(srv.pending, asked, lost) /\ (~srv.up => srv.pending = <<>>)
      /\ SessionOK(id)
  BY DEF ServerIInv, ServerTypes
<1>2. agent.ev \in Event /\ agent.ev.id = id /\ Holds(id) /\ (HoldsGenerate(id) \/ HoldsRequest(id))
  BY <1>1 DEF Answers, Agents, AgentOK, Steps, Work, Holds, HoldsGenerate, HoldsRequest
<1>3. /\ QueueOK(r, asked, lost)
      /\ \A type, other : Has(r, type, other) => Has(srv.pending, type, other)
      /\ \A type, other : other # id => (Has(r, type, other) <=> Has(srv.pending, type, other))
      /\ ~Early(id) /\ Has(srv.pending, "generate", id) =>
           ~Has(r, "generate", id) /\ \A type \in Requests : Has(r, type, id) <=> Has(srv.pending, type, id)
  <2>1. r = Acknowledge(srv.pending, agent.ev) /\ agent.ev.id \in Ids
    BY <1>2 DEF Answers
  <2> QED
    BY <1>1, <1>2, <2>1, Acknowledged DEF Early
<1>4. QueueOK(r, asked, lost') /\ UNCHANGED asked
  <2>1. Grows(asked, asked) /\ Grows(lost, lost') /\ UNCHANGED asked
    BY DEF Answers, Grows
  <2> QED
    BY <1>3, <2>1, QueueStands
<1>5. ~srv.up => r = <<>>
  <2>1. ASSUME ~srv.up PROVE Acknowledge(srv.pending, agent.ev) = <<>>
    <3>1. srv.pending = <<>> /\ {i \in DOMAIN srv.pending : srv.pending[i].ev.id = agent.ev.id} = {}
      BY <1>1, <2>1
    <3> QED
      BY <3>1 DEF Acknowledge
  <2> QED
    BY <2>1 DEF Answers
<1>6. srv' \in Servers /\ SameServer /\ srv'.pending = r
  BY <1>1, <1>3 DEF Servers, SameServer, QueueOK, Answers
<1>7. ServerTypes' /\ AgentOK'
  <2>1. ServerTypes'
    BY <1>6 DEF ServerIInv, ServerTypes, Answers
  <2>2. AgentOK'
    BY <1>1, <1>6 DEF AgentOK, Sound, Steps, SameServer, Answers
  <2> QED
    BY <2>1, <2>2
<1>8. ASSUME NEW other \in Ids, other # id PROVE SessionOK(other)'
  <2>1. SessionOK(other) /\ SameSession(other) /\ SameAgent(other)
    BY <1>3, <1>6, <1>8 DEF ServerIInv, SameSession, SameAgent, Answers, Holds
  <2> QED
    BY <1>6, <2>1, SessionStands
<1>9. SessionOK(id)'
  <2>1. (Early(id)' <=> Early(id)) /\ lost[id] \subseteq lost'[id] /\ ("reply" \in lost'[id] <=> "reply" \in lost[id])
        /\ ("agent" \in lost'[id] <=> "agent" \in lost[id]) /\ UNCHANGED <<src, asked>>
    BY DEF Answers, Grows, Early
  <2>2. ~HoldsGenerate(id)' /\ (HoldsRequest(id)' => HoldsRequest(id))
    BY <1>2 DEF Answers, HoldsGenerate, HoldsRequest, Holds, Steps, Requests
  <2>3. HoldsRequest(id) => src[id].once \/ Early(id) \/ "agent" \in lost[id]
    BY <1>1 DEF SessionOK, LeaseOK, Answers
  <2>4. ~Early(id) => ~Has(r, "generate", id)
    BY <1>3
  <2>5. Waits(r, id) => Waits(srv.pending, id) /\ asked[id] # {}
    <3>1. Waits(r, id) => Waits(srv.pending, id)
      BY <1>3 DEF Waits
    <3>2. Waits(srv.pending, id) => asked[id] # {}
      BY <1>1 DEF Waits, Has, IsOf, QueueOK, Sound, Requests
    <3> QED
      BY <3>1, <3>2
  <2>6. JournalOK(id)'
    <3>1. journal'[id].pending = NoEvent /\ NoEvent.type # "generate"
      BY DEF Answers, NoEvent
    <3> QED
      BY <1>1, <2>1, <3>1 DEF SessionOK, JournalOK
  <2>7. SourceOK(id)'
    <3>1. ~Early(id) => GenerationIsOver(id)'
      BY <1>6, <2>2, <2>4 DEF GenerationIsOver
    <3> QED
      BY <1>1, <2>1, <3>1 DEF SessionOK, SourceOK, Seen
  <2>8. LeaseOK(id)'
    BY <1>6, <2>1, <2>2, <2>3, <2>4 DEF LeaseOK
  <2>9. KeptOK(id)'
    <3>1. ASSUME Undone(id), ~Early(id), "agent" \notin lost[id]
          PROVE  srv.up /\ "overtaken" \in lost'[id] /\ (Waits(r, id) \/ srv.epoch > 0)
      <4>1. HoldsGenerate(id) /\ srv.up /\ "overtaken" \in lost'[id]
        BY <1>2, <2>3, <3>1 DEF Undone, Answers
      <4>2. CASE agent.epoch = srv.epoch
        <5>1. Has(srv.pending, "generate", id)
          BY <1>1, <4>1, <4>2 DEF SessionOK, LeaseOK
        <5>2. Waits(srv.pending, id) => Waits(r, id)
          BY <1>3, <3>1, <5>1 DEF Waits, Requests
        <5>3. Waits(srv.pending, id) \/ srv.epoch > 0
          BY <1>1, <3>1, <4>1 DEF SessionOK, KeptOK
        <5> QED
          BY <4>1, <5>2, <5>3
      <4>3. CASE agent.epoch # srv.epoch
        <5>1. srv.epoch > 0
          BY <1>1, <4>3 DEF AgentOK, Servers, Agents
        <5> QED
          BY <4>1, <5>1
      <4> QED
        BY <4>2, <4>3
    <3> QED
      BY <1>6, <2>1, <3>1 DEF KeptOK, Undone, SameServer
  <2>10. AgreesOK(id)'
    <3>1. journal'[id].pending = NoEvent
      BY DEF Answers
    <3>2. HoldsGenerate(id) /\ asked[id] # {} => "overtaken" \in lost'[id]
      BY DEF Answers
    <3> QED
      BY <1>2, <1>6, <2>1, <2>3, <2>5, <3>1, <3>2 DEF AgreesOK
  <2> QED
    BY <2>6, <2>7, <2>8, <2>9, <2>10 DEF SessionOK
<1>10. QueueOK(srv'.pending, asked', lost') /\ (~srv'.up => srv'.pending = <<>>)
  BY <1>4, <1>5, <1>6 DEF SameServer
<1> QED
  BY <1>7, <1>8, <1>9, <1>10 DEF ServerIInv

\* An answer leaves a phase and nothing pending in its session's journal.
LEMMA RepliedIsJournal ==
  ASSUME NEW j \in Journals, NEW reply \in {"agent_done", "discarded", "complete", "error"}, NEW carbonize
  PROVE  Replied(j, reply, carbonize) \in Journals /\ Replied(j, reply, carbonize).pending = NoEvent
<1>1. PICK phase \in Phases : phase = IF reply = "agent_done" /\ carbonize THEN "carbonize_required" ELSE ReplyPhase[reply]
  BY DEF Phases, ReplyPhase
<1>2. NoEvent \in Event
  BY LiveBounds DEF NoEvent, Event
<1>3. Replied(j, reply, carbonize) = [j EXCEPT !.phase = phase, !.pending = NoEvent]
  BY <1>1 DEF Replied
<1> QED
  BY <1>2, <1>3 DEF Journals

LEMMA AgentRepliesOK == ASSUME ServerIInv, AgentReplies PROVE ServerIInv'
<1>1. /\ srv \in Servers /\ agent \in Agents /\ AgentOK /\ journal \in [Ids -> Journals] /\ lost \in Lost
      /\ agent.at = "replying" /\ srv.up /\ UNCHANGED <<src, asked>>
  BY DEF ServerIInv, ServerTypes, AgentReplies, Received
<1>2. PICK id, r : id \in Ids /\ id = agent.ev.id /\ r = Acknowledge(srv.pending, agent.ev)
  BY <1>1 DEF AgentOK, Steps
<1>3. /\ srv' = [srv EXCEPT !.pending = r]
      /\ journal' = [journal EXCEPT ![id] = Replied(journal[id], agent.reply, agent.carbonize)]
      /\ lost' = [lost EXCEPT ![id] = lost[id] \cup (IF Overtakes(id) THEN {"overtaken"} ELSE {})
                                              \cup (IF agent.reply = "error" THEN {"error"} ELSE {})]
  BY <1>2 DEF AgentReplies
<1>4. PICK j \in Journals : j = Replied(journal[id], agent.reply, agent.carbonize) /\ j.pending = NoEvent
  <2>1. agent.reply \in {"agent_done", "discarded", "complete", "error"} /\ journal[id] \in Journals
    BY <1>1, <1>2 DEF AgentOK, Agents
  <2> QED
    BY <2>1, RepliedIsJournal
<1>5. /\ journal' \in [Ids -> Journals] /\ journal'[id].pending = NoEvent
      /\ \A other \in Ids : other # id => journal'[other] = journal[other]
  BY <1>1, <1>2, <1>3, <1>4
<1>6. /\ lost' \in Lost /\ Grows(lost, lost') /\ \A other \in Ids : other # id => lost'[other] = lost[other]
      /\ lost'[id] \subseteq lost[id] \cup {"overtaken", "error"} /\ (Overtakes(id) => "overtaken" \in lost'[id])
  <2>1. PICK more \in SUBSET {"overtaken", "error"} : lost' = [lost EXCEPT ![id] = lost[id] \cup more] /\ (Overtakes(id) => "overtaken" \in more)
    <3>1. PICK a, b : a = (IF Overtakes(id) THEN {"overtaken"} ELSE {}) /\ b = (IF agent.reply = "error" THEN {"error"} ELSE {})
      OBVIOUS
    <3>2. a \cup b \in SUBSET {"overtaken", "error"} /\ lost[id] \cup a \cup b = lost[id] \cup (a \cup b)
      BY <3>1
    <3>3. lost' = [lost EXCEPT ![id] = lost[id] \cup (a \cup b)] /\ (Overtakes(id) => "overtaken" \in a \cup b)
      BY <1>3, <3>1, <3>2
    <3> QED
      BY <3>2, <3>3
  <2>2. id \in Ids
    BY <1>1, <1>2 DEF AgentOK, Steps
  <2> QED
    BY <1>1, <2>1, <2>2 DEF Lost, Losses, Grows
<1>7. PICK at \in {"cleaning", "polling"} : agent' = [agent EXCEPT !.at = at] /\ (at = "cleaning" => agent.carbonize)
  BY DEF AgentReplies
<1>8. /\ agent' \in Agents /\ agent'.ev = agent.ev /\ agent'.epoch = agent.epoch /\ agent'.at = at
      /\ (agent'.at = "cleaning" => agent.ev.type \in Requests)
  BY <1>1, <1>7 DEF Agents, AgentOK, Steps
<1>9. HoldsGenerate(id) /\ asked[id] # {} => Overtakes(id)
  BY DEF HoldsGenerate, Overtakes
<1>10. Answers(id, r)
  BY <1>1, <1>2, <1>3, <1>5, <1>6, <1>8, <1>9 DEF Answers
<1> QED
  BY <1>2, <1>10, AnswerOK

LEMMA CompleteOK == ASSUME ServerIInv, Complete PROVE ServerIInv'
<1>1. /\ srv \in Servers /\ agent \in Agents /\ AgentOK /\ journal \in [Ids -> Journals] /\ lost \in Lost
      /\ agent.at = "cleaning" /\ UNCHANGED <<src, asked, lost>>
  BY DEF ServerIInv, ServerTypes, Complete
<1>2. PICK id, r : id \in Ids /\ id = agent.ev.id /\ r = Acknowledge(srv.pending, agent.ev)
  BY <1>1 DEF AgentOK, Steps
<1>3. PICK reply \in {"discarded", "complete"} :
        /\ srv' = [srv EXCEPT !.pending = r]
        /\ journal' = [journal EXCEPT ![id] = Replied(journal[id], reply, FALSE)]
  BY <1>2 DEF Complete
<1>4. PICK j \in Journals : j = Replied(journal[id], reply, FALSE) /\ j.pending = NoEvent
  <2>1. reply \in {"agent_done", "discarded", "complete", "error"} /\ journal[id] \in Journals
    BY <1>1, <1>2
  <2> QED
    BY <2>1, RepliedIsJournal
<1>5. /\ journal' \in [Ids -> Journals] /\ journal'[id].pending = NoEvent
      /\ \A other \in Ids : other # id => journal'[other] = journal[other]
  BY <1>1, <1>2, <1>3, <1>4
<1>6. /\ lost' \in Lost /\ Grows(lost, lost') /\ \A other \in Ids : other # id => lost'[other] = lost[other]
      /\ lost'[id] \subseteq lost[id] \cup {"overtaken", "error"}
  BY <1>1 DEF Grows
<1>7. PICK at \in {"off", "polling"} : agent' = [agent EXCEPT !.at = at]
  BY DEF Complete
<1>8. agent' \in Agents /\ agent'.ev = agent.ev /\ agent'.epoch = agent.epoch /\ agent'.at = at
  BY <1>1, <1>7 DEF Agents
<1>9. ~HoldsGenerate(id)
  BY <1>1 DEF HoldsGenerate, AgentOK, Requests
<1>10. Answers(id, r)
  BY <1>1, <1>2, <1>3, <1>5, <1>6, <1>8, <1>9 DEF Answers
<1> QED
  BY <1>2, <1>10, AnswerOK

LEMMA ServerStays == ASSUME ServerIInv, UNCHANGED <<srv, journal, src, agent, asked, lost>> PROVE ServerIInv'
<1>1. ServerTypes' /\ AgentOK'
  BY DEF ServerIInv, ServerTypes, AgentOK, Sound
<1>2. ASSUME NEW id \in Ids PROVE SessionOK(id)'
  BY SessionStands DEF ServerIInv, SameSession, SameAgent, SameServer
<1> QED
  BY <1>1, <1>2 DEF ServerIInv

-----------------------------------------------------------------------------
(* The page's invariant. *)

\* A session whose generation was not sent is nowhere yet.
Unsent(id) == id > gos \/ id \in script.capture \/ \E m \in posts : m.type = "generate" /\ m.id = id
Idle(id) ==
  /\ src[id].at = "absent" /\ ~Has(srv.pending, "generate", id)
  /\ journal[id].pending.type # "generate" /\ ~HoldsGenerate(id)
FreshOK ==
  /\ \A id \in Ids : Unsent(id) => Idle(id)
  /\ \A id \in script.capture : id <= gos /\ \A m \in posts : ~(m.type = "generate" /\ m.id = id)
  /\ \A m, n \in posts : m.type = "generate" /\ n.type = "generate" /\ m.id = n.id => m = n

PostOK(m) ==
  /\ m.id <= gos
  /\ m.answer # "none" => m.waits
  /\ m.waits => m.type \in Requests
  /\ m.answer = "ok" => asked[m.id] # {}
  /\ m.type = "accept" => Seen(m.id)

\* The current session was started, and shows its variants when the page says so;
\* a page that scouts for a session waits for nothing.
CurrentOK ==
  /\ script.cur <= gos /\ script.obs \in {0, script.cur}
  /\ script.ready /\ script.cur # 0 => Seen(script.cur)
  /\ script.scout => /\ ~script.ready /\ script.state # "CYCLING" /\ script.clean = 0
                     /\ \A m \in posts : ~m.waits

\* Unless a session was answered twice or ended in an error, the answers that are
\* waited for are the current session's or were confirmed, and the cleanup timer
\* runs once, for a current session that is confirmed.
Exempt == \E id \in Ids : confirmed[id] > 1 \/ "error" \in lost[id]
BarShown == script.state \in {"CYCLING", "SAVING", "CONFIRMED"}
WaitsForOwn == \A m \in posts : m.waits => confirmed[m.id] >= 1 \/ (m.id = script.cur /\ BarShown)
CleansOwn == script.clean > 0 => script.clean = 1 /\ script.cur # 0 /\ confirmed[script.cur] >= 1 /\ BarShown
FlowOK == Exempt \/ (WaitsForOwn /\ CleansOwn)

PageIInv ==
  /\ PageTypes /\ WireTypes /\ FreshOK /\ (\A m \in posts : PostOK(m)) /\ CurrentOK /\ FlowOK
  /\ (\E k \in DOMAIN wire : wire[k] = "error") => Exempt
  /\ \A id \in Ids : confirmed[id] > 0 => asked[id] # {}
  /\ HandledByOwn

-----------------------------------------------------------------------------
(* The server's steps. *)

LEMMA PostIsSendable == ASSUME PageIInv, NEW m \in posts PROVE Sendable(m) /\ m \in Posts /\ PostOK(m)
BY DEF PageIInv, WireTypes, PostOK, FreshOK, Unsent, Idle, Posts, Sendable

LEMMA ServerSteps == ASSUME ServerIInv, PageIInv, ServerNext PROVE ServerIInv'
<1>1. ASSUME NEW m \in posts, PostEvent(m) PROVE ServerIInv'
  BY <1>1, PostIsSendable, PostEventOK
<1>2. ASSUME NEW m \in posts, PostRefused(m) PROVE ServerIInv'
  BY <1>2, ServerStays DEF PostRefused
<1>3. ASSUME AgentNext PROVE ServerIInv'
  BY <1>3, AgentStepsBack, AgentPollsOK, GenerationOK, AutoAcceptOK, HandlingFailsOK, AgentRepliesOK, ReplyFailsOK, CompleteOK DEF AgentNext
<1>4. ASSUME NEW i \in DOMAIN srv.pending, LeaseExpires(i) PROVE ServerIInv'
  BY <1>4, LeaseExpiresOK
<1> QED
  BY <1>1, <1>2, <1>3, <1>4, ExitTimerOK, ServerStopsOK, ServerStartsOK DEF ServerNext

\* A generation gets into the queue from its post or from the journal.
LEMMA QueueComesFrom ==
  ASSUME ServerIInv, PageIInv, ServerNext, NEW id \in Ids, ~Has(srv.pending, "generate", id), journal[id].pending.type # "generate",
         \A m \in posts : ~(m.type = "generate" /\ m.id = id /\ PostEvent(m))
  PROVE  ~Has(srv'.pending, "generate", id)
<1> DEFINE q == srv.pending
<1>1. srv \in Servers /\ q \in Seq(QueueEntry) /\ DOMAIN q = 1 .. Len(q) /\ Len(q) \in Nat /\ QueueOK(q, asked, lost)
      /\ journal \in [Ids -> Journals] /\ \A k \in DOMAIN q : ~IsOf(q, k, "generate", id)
  BY DEF ServerIInv, ServerTypes, QueueOK, Has
<1>2. ~Has(<<>>, "generate", id)
  BY DEF Has
<1>3. ASSUME NEW ev, ~(ev.type = "generate" /\ ev.id = id), srv'.pending = Enqueue(q, ev) PROVE ~Has(srv'.pending, "generate", id)
  <2>1. srv'.pending = q \/ srv'.pending = Append(q, Entry(ev))
    BY <1>3 DEF Enqueue
  <2>2. Entry(ev).ev = ev
    BY DEF Entry
  <2>3. \A k \in DOMAIN Append(q, Entry(ev)) : Append(q, Entry(ev))[k] = Entry(ev) \/ (k \in DOMAIN q /\ Append(q, Entry(ev))[k] = q[k])
    BY <1>1
  <2> QED
    BY <1>1, <1>3, <2>1, <2>2, <2>3 DEF Has, IsOf
<1>4. ASSUME NEW i \in DOMAIN q, NEW leased, srv'.pending = [q EXCEPT ![i].leased = leased] PROVE ~Has(srv'.pending, "generate", id)
  <2>1. PICK e : e = [q[i] EXCEPT !.leased = leased]
    OBVIOUS
  <2>2. q[i] \in QueueEntry /\ e.ev = q[i].ev
    <3>1. q[i] \in QueueEntry
      BY <1>1
    <3> QED
      BY <2>1, <3>1 DEF QueueEntry
  <2>3. srv'.pending = [q EXCEPT ![i] = e]
    BY <1>4, <2>1
  <2>4. DOMAIN srv'.pending = DOMAIN q /\ \A k \in DOMAIN q : srv'.pending[k].ev = q[k].ev
    BY <2>2, <2>3
  <2> QED
    BY <1>1, <2>4 DEF Has, IsOf
<1>5. ASSUME NEW m \in posts, PostEvent(m) PROVE ~Has(srv'.pending, "generate", id)
  <2>1. m \in Posts /\ m.id \in Ids
    BY PostIsSendable DEF Posts
  <2>2. CASE m.type = "checkpoint"
    BY <1>5, <2>2 DEF PostEvent
  <2>3. CASE m.type # "checkpoint"
    <3>1. PICK ev : ev = [type |-> m.type, id |-> m.id, v |-> m.v]
      OBVIOUS
    <3>2. journal'[m.id] = [journal[m.id] EXCEPT !.phase = RequestedPhase[m.type], !.pending = ev]
      BY <1>1, <1>5, <2>1, <2>3, <3>1 DEF PostEvent, Requested
    <3>3. journal'[m.id].pending = ev
      BY <1>1, <2>1, <3>2 DEF Journals
    <3>4. srv' = [srv EXCEPT !.pending = Enqueue(q, ev)]
      BY <1>5, <2>3, <3>3 DEF PostEvent
    <3>5. srv'.pending = Enqueue(q, ev)
      BY <1>1, <3>4 DEF Servers
    <3>6. ~(ev.type = "generate" /\ ev.id = id)
      BY <1>5, <3>1
    <3> QED
      BY <1>3, <3>5, <3>6
  <2> QED
    BY <2>2, <2>3
<1>6. ASSUME ExitTimer PROVE ~Has(srv'.pending, "generate", id)
  <2>1. PICK ev : ev = [NoEvent EXCEPT !.type = "exit"]
    OBVIOUS
  <2>2. srv'.pending = Enqueue(q, ev)
    BY <1>1, <1>6, <2>1 DEF ExitTimer, Servers
  <2>3. ev.type = "exit"
    BY <2>1 DEF NoEvent
  <2> QED
    BY <1>3, <2>2, <2>3
<1>7. ASSUME NEW i \in DOMAIN q, LeaseExpires(i) PROVE ~Has(srv'.pending, "generate", id)
  <2>1. PICK r : r = [q EXCEPT ![i].leased = FALSE]
    OBVIOUS
  <2>2. srv' = [srv EXCEPT !.pending = r]
    BY <1>7, <2>1 DEF LeaseExpires
  <2>3. srv'.pending = r
    BY <1>1, <2>2 DEF Servers
  <2> QED
    BY <1>4, <2>1, <2>3
<1>8. ASSUME srv' = Down PROVE ~Has(srv'.pending, "generate", id)
  BY <1>1, <1>2, <1>8 DEF Down, Servers
<1>9. ASSUME ServerStarts PROVE ~Has(srv'.pending, "generate", id)
  <2>1. PICK again, order, r :
          /\ again \in SUBSET Ids /\ order \in SetToSeqs(again) /\ r = [k \in DOMAIN order |-> Entry(journal[order[k]].pending)]
          /\ srv' = [srv EXCEPT !.up = TRUE, !.epoch = @ + 1, !.pending = r]
    BY <1>9 DEF ServerStarts
  <2>2. srv'.pending = r
    BY <1>1, <2>1 DEF Servers
  <2>3. \A k \in DOMAIN order : order[k] \in Ids
    BY <2>1 DEF SetToSeqs
  <2>4. \A k \in DOMAIN r : r[k].ev = journal[order[k]].pending /\ order[k] \in Ids
    BY <2>1, <2>3 DEF Entry
  <2>5. \A k \in DOMAIN r : journal[order[k]].pending.type = "generate" => journal[order[k]].pending.id = order[k]
    BY <2>4 DEF ServerIInv, SessionOK, JournalOK, NoEvent
  <2> QED
    BY <2>2, <2>4, <2>5 DEF Has, IsOf
<1>10. ASSUME AgentPolls PROVE ~Has(srv'.pending, "generate", id)
  <2>1. PICK i : i = FirstAvailable(q) /\ i \in DOMAIN q
    <3>1. Available(q) # {} /\ Available(q) \in SUBSET Nat /\ Available(q) \subseteq DOMAIN q
      BY <1>1, <1>10 DEF AgentPolls, Available
    <3> QED
      BY <3>1, FirstIsMember DEF FirstAvailable
  <2>2. q[i].ev.type # "exit" => q[i].ev.id # 0
    <3>1. Sound(q[i].ev, asked)
      BY <1>1, <2>1 DEF QueueOK
    <3> QED
      BY <3>1 DEF Sound, Ids
  <2>3. srv' = Down \/ srv' = [srv EXCEPT !.pending = [q EXCEPT ![i].leased = TRUE]]
    BY <1>10, <2>1, <2>2 DEF AgentPolls, Lease
  <2>4. PICK r : r = [q EXCEPT ![i].leased = TRUE]
    OBVIOUS
  <2>5. srv' = [srv EXCEPT !.pending = r] => srv'.pending = r
    BY <1>1 DEF Servers
  <2> QED
    BY <1>4, <1>8, <2>1, <2>3, <2>4, <2>5
<1>11. ASSUME AgentReplies \/ Complete PROVE ~Has(srv'.pending, "generate", id)
  <2>1. PICK r : r = Acknowledge(q, agent.ev) /\ srv' = [srv EXCEPT !.pending = r]
    BY <1>11 DEF AgentReplies, Complete
  <2>2. srv'.pending = r
    BY <1>1, <2>1 DEF Servers
  <2>3. agent.ev \in Event /\ agent.ev.id \in Ids
    BY <1>11 DEF ServerIInv, ServerTypes, Agents, AgentOK, Steps, AgentReplies, Complete
  <2>4. \A type, other : Has(r, type, other) => Has(q, type, other)
    BY <1>1, <2>1, <2>3, Acknowledged
  <2> QED
    BY <2>2, <2>4
<1>12. ASSUME srv' = srv PROVE ~Has(srv'.pending, "generate", id)
  BY <1>12
<1> QED
  BY <1>5, <1>6, <1>7, <1>8, <1>9, <1>10, <1>11, <1>12 DEF ServerNext, AgentNext, PostRefused, ServerStops, AgentStarts, PollFails,
     Wrap, WriteVariants, AutoAccept, HandlingFails, ReplyFails, LeaveIncomplete, AgentInterrupted

LEMMA IdleStays ==
  ASSUME ServerIInv, PageIInv, ServerNext, NEW id \in Ids, Idle(id), \A m \in posts : ~(m.type = "generate" /\ m.id = id /\ PostEvent(m))
  PROVE  Idle(id)'
<1>1. srv \in Servers /\ agent \in Agents /\ AgentOK /\ journal \in [Ids -> Journals] /\ src \in [Ids -> Sources]
      /\ QueueOK(srv.pending, asked, lost)
  BY DEF ServerIInv, ServerTypes
<1>2. /\ src[id].at = "absent" /\ ~Has(srv.pending, "generate", id) /\ journal[id].pending.type # "generate" /\ ~HoldsGenerate(id)
  BY DEF Idle
<1>3. ~Has(srv'.pending, "generate", id)
  BY <1>2, QueueComesFrom
<1>4. src'[id].at = "absent"
  <2>1. CASE Wrap \/ WriteVariants
    <3>1. PICK at : src' = [src EXCEPT ![agent.ev.id] = [src[agent.ev.id] EXCEPT !.at = at]]
      BY <2>1 DEF Wrap, WriteVariants
    <3>2. agent.ev.id # id
      BY <1>2, <2>1 DEF Wrap, WriteVariants, HoldsGenerate, Holds, Steps
    <3> QED
      BY <1>1, <1>2, <3>1, <3>2
  <2>2. CASE AutoAccept
    <3>1. agent.ev.id # id \/ src' = src
      BY <1>2, <2>2 DEF AutoAccept
    <3>2. PICK s : src' = src \/ src' = [src EXCEPT ![agent.ev.id] = s]
      BY <2>2 DEF AutoAccept
    <3> QED
      BY <1>1, <1>2, <3>1, <3>2
  <2>3. CASE UNCHANGED src
    BY <1>2, <2>3
  <2> QED
    BY <2>1, <2>2, <2>3 DEF ServerNext, AgentNext, PostEvent, PostRefused, LeaseExpires, ExitTimer, ServerStops, ServerStarts, AgentStarts,
       AgentPolls, PollFails, HandlingFails, AgentReplies, ReplyFails, Complete, LeaveIncomplete, AgentInterrupted
<1>5. journal'[id].pending.type # "generate"
  <2>1. ASSUME NEW m \in posts, PostEvent(m) PROVE journal'[id].pending.type # "generate"
    <3>1. m \in Posts /\ m.id \in Ids
      BY PostIsSendable DEF Posts
    <3>2. journal'[m.id] = Requested(journal[m.id], m) /\ (m.id # id => journal'[id] = journal[id])
      BY <1>1, <2>1, <3>1 DEF PostEvent
    <3>3. CASE m.id = id /\ m.type # "checkpoint"
      <4>1. PICK ev : ev = [type |-> m.type, id |-> m.id, v |-> m.v]
        OBVIOUS
      <4>2. journal'[id] = [journal[id] EXCEPT !.phase = RequestedPhase[m.type], !.pending = ev]
        BY <3>2, <3>3, <4>1 DEF Requested
      <4>3. journal'[id].pending = ev /\ ev.type = m.type
        BY <1>1, <4>1, <4>2 DEF Journals
      <4> QED
        BY <2>1, <3>3, <4>3
    <3>4. CASE m.id = id /\ m.type = "checkpoint"
      <4>1. journal'[id] = journal[id] \/ journal'[id] = [journal[id] EXCEPT !.phase = m.phase, !.rev = m.rev]
        BY <3>2, <3>4 DEF Requested
      <4>2. journal'[id].pending = journal[id].pending
        BY <1>1, <4>1 DEF Journals
      <4> QED
        BY <1>2, <4>2
    <3> QED
      BY <1>2, <3>2, <3>3, <3>4
  <2>2. ASSUME AgentReplies \/ Complete PROVE journal'[id].pending.type # "generate"
    <3>1. PICK reply, carbonize : journal' = [journal EXCEPT ![agent.ev.id] = Replied(journal[agent.ev.id], reply, carbonize)]
      BY <2>2 DEF AgentReplies, Complete
    <3>2. journal'[id] = journal[id] \/ journal'[id] = Replied(journal[id], reply, carbonize)
      BY <1>1, <3>1
    <3>3. Replied(journal[id], reply, carbonize).pending = NoEvent /\ NoEvent.type # "generate"
      <4>1. PICK phase : phase = IF reply = "agent_done" /\ carbonize THEN "carbonize_required" ELSE ReplyPhase[reply]
        OBVIOUS
      <4>2. Replied(journal[id], reply, carbonize) = [journal[id] EXCEPT !.phase = phase, !.pending = NoEvent]
        BY <4>1 DEF Replied
      <4> QED
        BY <1>1, <4>2 DEF Journals, NoEvent
    <3> QED
      BY <1>2, <3>2, <3>3
  <2>3. CASE UNCHANGED journal
    BY <1>2, <2>3
  <2> QED
    BY <2>1, <2>2, <2>3 DEF ServerNext, AgentNext, PostRefused, LeaseExpires, ExitTimer, ServerStops, ServerStarts, AgentStarts,
       AgentPolls, PollFails, Wrap, WriteVariants, AutoAccept, HandlingFails, ReplyFails, LeaveIncomplete, AgentInterrupted
<1>6. ~HoldsGenerate(id)'
  <2>1. CASE AgentPolls
    <3>1. PICK i : i = FirstAvailable(srv.pending) /\ i \in DOMAIN srv.pending
      <4>1. Available(srv.pending) # {} /\ Available(srv.pending) \in SUBSET Nat /\ Available(srv.pending) \subseteq DOMAIN srv.pending
        BY <1>1, <2>1 DEF AgentPolls, Available, QueueOK
      <4> QED
        BY <4>1, FirstIsMember DEF FirstAvailable
    <3>2. \/ agent' = [agent EXCEPT !.at = "off"]
          \/ agent' = [agent EXCEPT !.at = "handling", !.ev = srv.pending[i].ev, !.epoch = srv.epoch]
      BY <2>1, <3>1 DEF AgentPolls
    <3>3. agent'.at = "off" \/ agent'.ev = srv.pending[i].ev
      BY <1>1, <3>2 DEF Agents
    <3> QED
      BY <1>2, <3>1, <3>3 DEF HoldsGenerate, Holds, Steps, Has, IsOf
  <2>2. CASE ~AgentPolls
    <3>1. agent'.ev = agent.ev /\ (agent'.at \in Steps => agent.at \in Steps)
      BY <1>1, <2>2 DEF ServerNext, AgentNext, PostEvent, PostRefused, LeaseExpires, ExitTimer, ServerStops, ServerStarts, AgentStarts,
       PollFails, Wrap, WriteVariants, AutoAccept, HandlingFails, AgentReplies, ReplyFails, Complete, LeaveIncomplete, AgentInterrupted,
       ReplyWith, Agents, Steps
    <3> QED
      BY <1>2, <3>1 DEF HoldsGenerate, Holds
  <2> QED
    BY <2>1, <2>2
<1> QED
  BY <1>3, <1>4, <1>5, <1>6 DEF Idle

\* What was asked and lost is not forgotten; variants that were seen are there or settled.
LEMMA HistoryGrows ==
  ASSUME ServerIInv, PageIInv, ServerNext
  PROVE  Grows(asked, asked') /\ Grows(lost, lost') /\ \A id \in Ids : Seen(id) => Seen(id)'
<1>1. agent \in Agents /\ AgentOK /\ src \in [Ids -> Sources] /\ asked \in Asked /\ lost \in Lost
  BY DEF ServerIInv, ServerTypes
<1>2. Grows(asked, asked')
  <2>1. ASSUME NEW m \in posts, PostEvent(m) PROVE Grows(asked, asked')
    BY <1>1, <2>1 DEF PostEvent, Grows, Asked
  <2>2. CASE UNCHANGED asked
    BY <2>2 DEF Grows
  <2> QED
    BY <2>1, <2>2 DEF ServerNext, AgentNext, PostRefused, LeaseExpires, ExitTimer, ServerStops, ServerStarts, AgentStarts, AgentPolls,
       PollFails, Wrap, WriteVariants, AutoAccept, HandlingFails, AgentReplies, ReplyFails, Complete, LeaveIncomplete, AgentInterrupted
<1>3. Grows(lost, lost')
  <2>1. ASSUME NEW id, NEW more, lost' = [lost EXCEPT ![id] = @ \cup more] PROVE Grows(lost, lost')
    BY <1>1, <2>1 DEF Grows, Lost
  <2>2. ASSUME lost' # lost PROVE \E id, more : lost' = [lost EXCEPT ![id] = @ \cup more]
    <3>1. CASE \E m \in posts : PostEvent(m)
      BY <2>2, <3>1 DEF PostEvent
    <3>2. CASE AgentReplies
      <4>1. PICK a, b : lost' = [lost EXCEPT ![agent.ev.id] = @ \cup a \cup b]
        BY <3>2 DEF AgentReplies
      <4>2. lost' = [lost EXCEPT ![agent.ev.id] = @ \cup (a \cup b)]
        <5>1. lost[agent.ev.id] \cup a \cup b = lost[agent.ev.id] \cup (a \cup b)
          OBVIOUS
        <5> QED
          BY <4>1, <5>1
      <4> QED
        BY <4>2
    <3>3. CASE HandlingFails \/ AgentInterrupted
      BY <2>2, <3>3 DEF HandlingFails, AgentInterrupted
    <3> QED
      BY <2>2, <3>1, <3>2, <3>3 DEF ServerNext, AgentNext, PostRefused, LeaseExpires, ExitTimer, ServerStops, ServerStarts, AgentStarts,
         AgentPolls, PollFails, Wrap, WriteVariants, AutoAccept, ReplyFails, Complete, LeaveIncomplete
  <2>3. lost' = lost => Grows(lost, lost')
    BY DEF Grows
  <2> QED
    BY <2>1, <2>2, <2>3
<1>4. ASSUME NEW id \in Ids, Seen(id) PROVE Seen(id)'
  <2>1. src[id] \in Sources
    BY <1>1
  <2>2. CASE Wrap \/ WriteVariants
    <3>1. PICK at \in {"wrapped", "variants"} : /\ src' = [src EXCEPT ![agent.ev.id] = [src[agent.ev.id] EXCEPT !.at = at]]
                                                /\ (at = "wrapped" => src[agent.ev.id].at # "variants")
      BY <2>2 DEF Wrap, WriteVariants
    <3>2. PICK s : s = [src[id] EXCEPT !.at = at]
      OBVIOUS
    <3>3. s.at = at /\ s.once = src[id].once
      BY <2>1, <3>2 DEF Sources
    <3>4. src'[id] = src[id] \/ (src'[id] = s /\ agent.ev.id = id)
      BY <1>1, <3>1, <3>2
    <3> QED
      BY <1>4, <3>1, <3>3, <3>4 DEF Seen
  <2>3. CASE AutoAccept
    <3>1. PICK s : (src' = src \/ src' = [src EXCEPT ![agent.ev.id] = s]) /\ s.once
      <4>1. PICK s : s = [at |-> IF agent.ev.type = "accept" THEN "accepted" ELSE "restored", v |-> agent.ev.v, once |-> TRUE]
        OBVIOUS
      <4>2. src' = src \/ src' = [src EXCEPT ![agent.ev.id] = s]
        BY <2>3, <4>1 DEF AutoAccept
      <4> QED
        BY <4>1, <4>2
    <3> QED
      BY <1>1, <1>4, <3>1 DEF Seen
  <2>4. CASE UNCHANGED src
    BY <1>4, <2>4 DEF Seen
  <2> QED
    BY <2>2, <2>3, <2>4 DEF ServerNext, AgentNext, PostEvent, PostRefused, LeaseExpires, ExitTimer, ServerStops, ServerStarts, AgentStarts,
       AgentPolls, PollFails, HandlingFails, AgentReplies, ReplyFails, Complete, LeaveIncomplete, AgentInterrupted
<1> QED
  BY <1>2, <1>3, <1>4

\* A step of the server answers requests that are waited for and drops others.
Answered(n, m) == n.type = m.type /\ n.id = m.id /\ n.waits /\ m.waits /\ n \in Posts
LEMMA PostsStay ==
  ASSUME ServerIInv, PageIInv, ServerNext
  PROVE  \A n \in posts' : n \in posts \/ \E m \in posts : Answered(n, m) /\ (n.answer = "ok" => asked'[n.id] # {})
<1>1. posts \subseteq Posts /\ asked \in Asked
  BY DEF PageIInv, WireTypes, ServerIInv, ServerTypes
<1>2. ASSUME NEW m \in posts, NEW answer \in {"ok", "fail"}, m.waits, NEW n, n = [m EXCEPT !.answer = answer]
      PROVE  Answered(n, m) /\ n.answer = answer
  <2>1. m \in Posts
    BY <1>1
  <2> QED
    BY <1>2, <2>1 DEF Posts, Answered
<1>3. ASSUME NEW m \in posts, NEW answer \in {"ok", "fail"}, posts' = AfterAnswer(m, answer), answer = "ok" => asked'[m.id] # {}
      PROVE  \A n \in posts' : n \in posts \/ \E p \in posts : Answered(n, p) /\ (n.answer = "ok" => asked'[n.id] # {})
  <2>1. PICK n : n = [m EXCEPT !.answer = answer]
    OBVIOUS
  <2>2. posts' \subseteq posts \cup (IF m.waits THEN {n} ELSE {})
    BY <1>3, <2>1 DEF AfterAnswer
  <2>3. m.waits => Answered(n, m) /\ (n.answer = "ok" => asked'[n.id] # {})
    BY <1>2, <1>3, <2>1 DEF Answered
  <2> QED
    BY <2>2, <2>3
<1>4. ASSUME NEW m \in posts, PostEvent(m)
      PROVE  posts' = AfterAnswer(m, "ok") /\ (m.waits => asked'[m.id] # {})
  <2>1. m \in Posts /\ PostOK(m)
    BY PostIsSendable
  <2>2. m.waits => asked' = [asked EXCEPT ![m.id] = @ \cup {<<m.type, m.v>>}]
    BY <1>4, <2>1 DEF PostEvent, PostOK
  <2>3. m.id \in Ids
    BY <2>1 DEF Posts
  <2> QED
    BY <1>1, <1>4, <2>2, <2>3 DEF PostEvent, Asked
<1>5. ASSUME NEW m \in posts, PostEvent(m), ~m.waits PROVE posts' = posts \ {m}
  BY <1>5 DEF PostEvent, AfterAnswer
<1>6. ASSUME ServerStops
      PROVE  \A n \in posts' : n \in posts \/ \E p \in posts : Answered(n, p) /\ (n.answer = "ok" => asked'[n.id] # {})
  <2>1. PICK cut \in SUBSET {m \in posts : m.answer = "ok"} : posts' = (posts \ cut) \cup {[m EXCEPT !.answer = "fail"] : m \in cut}
    BY <1>6 DEF ServerStops
  <2>2. ASSUME NEW n \in posts', n \notin posts PROVE \E p \in posts : Answered(n, p) /\ n.answer = "fail"
    <3>1. PICK m \in cut : n = [m EXCEPT !.answer = "fail"]
      BY <2>1, <2>2
    <3>2. m \in posts /\ m.answer = "ok"
      BY <2>1, <3>1
    <3>3. m.waits
      BY <3>2 DEF PageIInv, PostOK
    <3> QED
      BY <1>2, <3>1, <3>2, <3>3
  <2> QED
    BY <2>2
<1>7. ASSUME NEW m \in posts, PostRefused(m)
      PROVE  \A n \in posts' : n \in posts \/ \E p \in posts : Answered(n, p) /\ (n.answer = "ok" => asked'[n.id] # {})
  BY <1>3, <1>7 DEF PostRefused
<1>8. ASSUME NEW m \in posts, PostEvent(m)
      PROVE  \A n \in posts' : n \in posts \/ \E p \in posts : Answered(n, p) /\ (n.answer = "ok" => asked'[n.id] # {})
  <2>1. CASE m.waits
    BY <1>3, <1>4, <1>8, <2>1
  <2>2. CASE ~m.waits
    BY <1>5, <1>8, <2>2
  <2> QED
    BY <2>1, <2>2
<1>9. ASSUME UNCHANGED posts
      PROVE  \A n \in posts' : n \in posts \/ \E p \in posts : Answered(n, p) /\ (n.answer = "ok" => asked'[n.id] # {})
  BY <1>9
<1> QED
  BY <1>6, <1>7, <1>8, <1>9 DEF ServerNext, AgentNext, LeaseExpires, ExitTimer, ServerStarts, AgentStarts, AgentPolls,
     PollFails, Wrap, WriteVariants, AutoAccept, HandlingFails, AgentReplies, ReplyFails, Complete, LeaveIncomplete, AgentInterrupted

\* An error is pushed for a session that ended in one.
LEMMA WireStays ==
  ASSUME ServerIInv, PageIInv, ServerNext
  PROVE  /\ wire' \in Seq({"done", "error"})
         /\ (\E k \in DOMAIN wire' : wire'[k] = "error") =>
              (\E k \in DOMAIN wire : wire[k] = "error") \/ \E id \in Ids : "error" \in lost'[id]
<1>1. wire \in Seq({"done", "error"}) /\ lost \in Lost /\ agent \in Agents /\ AgentOK
  BY DEF PageIInv, WireTypes, ServerIInv, ServerTypes
<1>2. CASE wire' = wire
  BY <1>1, <1>2
<1>3. CASE wire' = <<>>
  BY <1>3
<1>4. CASE AgentReplies
  <2>1. PICK msg : /\ msg = Pushed(agent.reply)
                   /\ wire' = (IF srv.client /\ msg \in {"done", "error"} THEN Append(wire, msg) ELSE wire)
    BY <1>4 DEF AgentReplies, Push
  <2>2. msg = "error" => agent.reply = "error"
    BY <2>1 DEF Pushed
  <2>3. agent.reply = "error" => "error" \in lost'[agent.ev.id] /\ agent.ev.id \in Ids
    <3>1. agent.ev.id \in Ids
      BY <1>1, <1>4 DEF AgentReplies, AgentOK, Steps
    <3>2. PICK a : lost' = [lost EXCEPT ![agent.ev.id] = (lost[agent.ev.id] \cup a) \cup (IF agent.reply = "error" THEN {"error"} ELSE {})]
      BY <1>4 DEF AgentReplies
    <3> QED
      BY <1>1, <3>1, <3>2 DEF Lost
  <2>4. CASE wire' = Append(wire, msg) /\ msg \in {"done", "error"}
    <3>1. wire' \in Seq({"done", "error"})
      BY <1>1, <2>4
    <3>2. \A k \in DOMAIN wire' : wire'[k] = msg \/ (k \in DOMAIN wire /\ wire'[k] = wire[k])
      BY <1>1, <2>4
    <3> QED
      BY <2>2, <2>3, <3>1, <3>2
  <2> QED
    BY <1>2, <2>1, <2>4
<1> QED
  BY <1>2, <1>3, <1>4 DEF ServerNext, AgentNext, PostEvent, PostRefused, LeaseExpires, ExitTimer, ServerStops, ServerStarts, AgentStarts,
     AgentPolls, PollFails, Wrap, WriteVariants, AutoAccept, HandlingFails, ReplyFails, Complete, LeaveIncomplete, AgentInterrupted

LEMMA ServerStepPage ==
  ASSUME ServerIInv, PageIInv, ServerNext, UNCHANGED <<script, store, dom, gos, confirmed, own>>
  PROVE  PageIInv'
<1>1. /\ PageTypes /\ WireTypes /\ FreshOK /\ (\A m \in posts : PostOK(m)) /\ CurrentOK /\ FlowOK /\ HandledByOwn
      /\ (\A id \in Ids : confirmed[id] > 0 => asked[id] # {})
      /\ ((\E k \in DOMAIN wire : wire[k] = "error") => Exempt)
  BY DEF PageIInv
<1>2. Grows(asked, asked') /\ Grows(lost, lost') /\ \A id \in Ids : Seen(id) => Seen(id)'
  BY HistoryGrows
<1>3. \A n \in posts' : n \in posts \/ \E m \in posts : Answered(n, m) /\ (n.answer = "ok" => asked'[n.id] # {})
  BY PostsStay
<1>4. PageTypes' /\ WireTypes'
  <2>1. posts' \subseteq Posts
    BY <1>1, <1>3 DEF WireTypes, Answered
  <2> QED
    BY <1>1, <2>1, WireStays DEF PageTypes, WireTypes
<1>5. Exempt => Exempt'
  BY <1>2 DEF Exempt, Grows
<1>6. (\E k \in DOMAIN wire' : wire'[k] = "error") => Exempt'
  BY <1>1, <1>5, WireStays DEF Exempt
<1>7. \A n \in posts' : n \notin posts => n.waits /\ n.type \in Requests
  BY <1>1, <1>3 DEF Answered, PostOK
<1>8. \A n \in posts' : n \notin posts => n.type # "generate"
  BY <1>7 DEF Requests
<1>9. \A n \in posts' : PostOK(n)'
  <2>1. ASSUME NEW n \in posts' PROVE n.id \in Ids
    BY <1>4 DEF WireTypes, Posts
  <2>2. ASSUME NEW n \in posts', n \in posts PROVE PostOK(n)'
    BY <1>1, <1>2, <2>1, <2>2 DEF PostOK, Grows
  <2>3. ASSUME NEW n \in posts', n \notin posts PROVE PostOK(n)'
    <3>1. PICK m \in posts : Answered(n, m) /\ (n.answer = "ok" => asked'[n.id] # {})
      BY <1>3, <2>3
    <3> QED
      BY <1>1, <1>2, <1>7, <2>1, <2>3, <3>1 DEF PostOK, Answered
  <2> QED
    BY <2>2, <2>3
<1>10. FreshOK'
  <2>1. ASSUME NEW id \in Ids, Unsent(id)' PROVE Idle(id)'
    <3>1. Unsent(id)
      BY <1>8, <2>1 DEF Unsent
    <3>2. ASSUME NEW m \in posts, m.type = "generate", m.id = id, PostEvent(m) PROVE FALSE
      <4>1. posts' = posts \ {m}
        BY <1>1, <3>2 DEF PostEvent, AfterAnswer, PostOK, Requests
      <4>2. m.id <= gos /\ id \notin script.capture
        BY <1>1, <3>2 DEF PostOK, FreshOK
      <4>3. id \in Nat /\ gos \in Nat
        BY <1>1, LiveBounds DEF PageTypes, Ids
      <4> QED
        BY <1>1, <2>1, <3>2, <4>1, <4>2, <4>3 DEF Unsent, FreshOK
    <3> QED
      BY <1>1, <3>1, <3>2, IdleStays DEF FreshOK
  <2>2. \A id \in script'.capture : id <= gos' /\ \A m \in posts' : ~(m.type = "generate" /\ m.id = id)
    BY <1>1, <1>8 DEF FreshOK
  <2>3. \A m, n \in posts' : m.type = "generate" /\ n.type = "generate" /\ m.id = n.id => m = n
    BY <1>1, <1>8 DEF FreshOK
  <2> QED
    BY <2>1, <2>2, <2>3 DEF FreshOK
<1>11. CurrentOK'
  <2>1. script.cur # 0 => script.cur \in Ids
    BY <1>1, LiveBounds DEF PageTypes, Scripts, Ids
  <2>2. \A n \in posts' : n.waits => \E m \in posts : m.waits
    BY <1>3 DEF Answered
  <2> QED
    BY <1>1, <1>2, <2>1, <2>2 DEF CurrentOK
<1>12. FlowOK'
  <2>1. WaitsForOwn => WaitsForOwn'
    BY <1>3 DEF WaitsForOwn, BarShown, Answered
  <2>2. CleansOwn => CleansOwn'
    BY DEF CleansOwn, BarShown
  <2> QED
    BY <1>1, <1>5, <2>1, <2>2 DEF FlowOK
<1>13. HandledByOwn'
  BY <1>1, <1>2 DEF HandledByOwn, Grows
<1>14. \A id \in Ids : confirmed'[id] > 0 => asked'[id] # {}
  BY <1>1, <1>2 DEF Grows
<1> QED
  BY <1>4, <1>6, <1>9, <1>10, <1>11, <1>12, <1>13, <1>14 DEF PageIInv

-----------------------------------------------------------------------------
(* The page's steps. *)

LEMMA PageParts ==
  ASSUME PageIInv
  PROVE  /\ PageTypes /\ WireTypes /\ FreshOK /\ (\A m \in posts : PostOK(m)) /\ CurrentOK /\ FlowOK /\ HandledByOwn
         /\ (\A id \in Ids : confirmed[id] > 0 => asked[id] # {})
         /\ ((\E k \in DOMAIN wire : wire[k] = "error") => Exempt)
         /\ script \in Scripts /\ gos \in Nat /\ (script.cur # 0 => script.cur \in Ids) /\ posts \subseteq Posts
         /\ Ids \subseteq Nat /\ 0 \notin Ids /\ script.cur \in Nat
<1>1. /\ PageTypes /\ WireTypes /\ FreshOK /\ (\A m \in posts : PostOK(m)) /\ CurrentOK /\ FlowOK /\ HandledByOwn
      /\ (\A id \in Ids : confirmed[id] > 0 => asked[id] # {})
      /\ ((\E k \in DOMAIN wire : wire[k] = "error") => Exempt)
  BY DEF PageIInv
<1>2. script \in Scripts /\ gos \in Nat /\ posts \subseteq Posts
  BY <1>1, LiveBounds DEF PageTypes, WireTypes
<1>3. Ids \subseteq Nat /\ 0 \notin Ids
  BY DEF Ids
<1>4. script.cur \in 0 .. MaxGos
  BY <1>2 DEF Scripts
<1>5. script.cur \in Nat /\ (script.cur # 0 => script.cur \in Ids)
  BY <1>4, LiveBounds DEF Ids
<1> QED
  BY <1>1, <1>2, <1>3, <1>5

\* Steps that start no session and get no answer.
LEMMA PageStands ==
  ASSUME PageIInv, UNCHANGED <<journal, src, agent, asked, lost, gos, confirmed, own>>, srv'.pending = srv.pending,
         script' \in Scripts, store' \in [saved : Sessions, handled : 0 .. MaxGos], script'.capture \subseteq script.capture,
         wire' = wire \/ wire' = <<>> \/ (wire # <<>> /\ wire' = Tail(wire)), posts' \subseteq Posts,
         \A n \in posts' : n.type = "generate" => n \in posts, \A n \in posts' : n \in posts \/ PostOK(n)',
         CurrentOK', FlowOK'
  PROVE  PageIInv'
<1>1. /\ PageTypes /\ WireTypes /\ FreshOK /\ (\A m \in posts : PostOK(m)) /\ HandledByOwn
      /\ (\A id \in Ids : confirmed[id] > 0 => asked[id] # {})
      /\ ((\E k \in DOMAIN wire : wire[k] = "error") => Exempt)
  BY DEF PageIInv
<1>2. PageTypes'
  BY <1>1 DEF PageTypes
<1>3. WireTypes' /\ ((\E k \in DOMAIN wire' : wire'[k] = "error") => (\E k \in DOMAIN wire : wire[k] = "error"))
  <2>1. wire \in Seq({"done", "error"})
    BY <1>1 DEF WireTypes
  <2>2. CASE wire' = wire
    BY <2>1, <2>2 DEF WireTypes
  <2>4. CASE wire' = <<>>
    BY <2>4 DEF WireTypes
  <2>3. CASE wire # <<>> /\ wire' = Tail(wire)
    <3>1. wire' \in Seq({"done", "error"}) /\ \A k \in DOMAIN wire' : k + 1 \in DOMAIN wire /\ wire'[k] = wire[k + 1]
      BY <2>1, <2>3
    <3> QED
      BY <3>1 DEF WireTypes
  <2> QED
    BY <2>2, <2>3, <2>4
<1>4. Exempt' <=> Exempt
  BY DEF Exempt
<1>5. FreshOK'
  <2>1. \A id \in Ids : Idle(id)' <=> Idle(id)
    BY DEF Idle, HoldsGenerate, Holds
  <2>2. \A id \in Ids : Unsent(id)' => Unsent(id)
    BY DEF Unsent
  <2> QED
    BY <1>1, <2>1, <2>2 DEF FreshOK
<1>6. \A n \in posts' : PostOK(n)'
  BY <1>1 DEF PostOK, Seen
<1>7. HandledByOwn'
  BY <1>1 DEF HandledByOwn
<1> QED
  BY <1>1, <1>2, <1>3, <1>4, <1>5, <1>6, <1>7 DEF PageIInv

LEMMA FlowStands ==
  ASSUME PageIInv, UNCHANGED <<confirmed, lost>>, script'.cur = script.cur, script'.clean = script.clean,
         script.cur # 0 /\ BarShown => BarShown', \A n \in posts' : n.waits => n \in posts \/ (n.id = script.cur /\ BarShown')
  PROVE  FlowOK'
<1>1. FlowOK /\ \A n \in posts : n.id # 0
  BY PageParts DEF Posts
<1>2. Exempt' <=> Exempt
  BY DEF Exempt
<1>3. WaitsForOwn => WaitsForOwn'
  BY <1>1 DEF WaitsForOwn
<1>4. CleansOwn => CleansOwn'
  BY DEF CleansOwn
<1> QED
  BY <1>1, <1>2, <1>3, <1>4 DEF FlowOK

LEMMA CurrentStands ==
  ASSUME PageIInv, UNCHANGED <<src, gos>>, script'.cur = script.cur, script'.obs \in {0, script.obs}, script'.clean = script.clean,
         script'.ready = script.ready, script'.scout = script.scout,
         script.scout => script'.state # "CYCLING" /\ \A n \in posts' : ~n.waits
  PROVE  CurrentOK'
BY DEF PageIInv, CurrentOK, Seen

\* What the page saves.
LEMMA SavedIsSession ==
  ASSUME PageIInv, NEW t, t.cur \in 0 .. MaxGos, t.seen \in 0 .. 2, t.rev \in Nat PROVE Saved(t) \in Sessions
BY DEF PageIInv, PageTypes, Saved, Sessions

LEMMA NewPost ==
  ASSUME NEW t \in Scripts, NEW type \in {"checkpoint"} \cup Work, NEW id \in Ids, NEW n, n = Request(t, type, id)
  PROVE  n \in Posts /\ n.type = type /\ n.id = id /\ n.answer = "none" /\ (n.waits <=> type \in Requests)
<1>1. PICK waits \in BOOLEAN : waits = (type \in Requests)
  <2>1. (type \in Requests) \in BOOLEAN
    OBVIOUS
  <2> QED
    BY <2>1
<1>6. PICK again \in BOOLEAN : again = (\E m \in posts : m.type = "discard" /\ type = "discard" /\ m.id = id)
  <2>1. (\E m \in posts : m.type = "discard" /\ type = "discard" /\ m.id = id) \in BOOLEAN
    OBVIOUS
  <2> QED
    BY <2>1
<1>2. PICK v \in 0 .. 2, rev \in Nat : v = (IF type = "accept" THEN t.seen ELSE 0) /\ rev = (IF type = "checkpoint" THEN t.rev ELSE 0)
  BY DEF Scripts
<1>3. n = [type |-> type, id |-> id, v |-> v, epoch |-> t.token, phase |-> t.state, rev |-> rev,
           answer |-> "none", waits |-> waits, again |-> again]
  BY <1>1, <1>2, <1>6 DEF Request
<1>4. t.token \in Nat /\ t.state \in PageStates
  BY DEF Scripts
<1>5. n \in Posts
  BY <1>1, <1>2, <1>3, <1>4, <1>6 DEF Posts
<1>7. n.type = type /\ n.id = id /\ n.answer = "none" /\ n.waits = waits
  BY <1>3
<1> QED
  BY <1>1, <1>5, <1>7

\* The user picks, leaves the picking or cycles through the variants.
LEMMA PickOK == ASSUME PageIInv, Pick \/ Escape PROVE PageIInv'
<1>1. PICK state \in {"PICKING", "CONFIGURING"} : script' = [script EXCEPT !.state = state] /\ script.state \in {"PICKING", "CONFIGURING"}
  BY DEF Pick, Escape
<1>2. UNCHANGED <<srv, journal, src, agent, asked, lost, gos, confirmed, own, wire, posts, store>>
  BY DEF Pick, Escape, Local
<1>3. /\ script \in Scripts /\ script' \in Scripts /\ script'.cur = script.cur /\ script'.obs = script.obs /\ script'.clean = script.clean
      /\ script'.ready = script.ready /\ script'.scout = script.scout /\ script'.capture = script.capture /\ script'.state = state
  BY <1>1, PageParts DEF Scripts, PageStates
<1>4. FlowOK'
  BY <1>1, <1>2, <1>3, FlowStands DEF BarShown
<1>5. CurrentOK'
  BY <1>2, <1>3, CurrentStands, PageParts DEF CurrentOK
<1> QED
  BY <1>2, <1>3, <1>4, <1>5, PageStands, PageParts DEF PageTypes

LEMMA CycleOK == ASSUME PageIInv, Cycle PROVE PageIInv'
<1>1. PICK v \in 0 .. 2, timer \in BOOLEAN : script' = [script EXCEPT !.seen = v, !.timer = timer]
  <2>1. PICK v \in Variants : script' = [script EXCEPT !.seen = v, !.timer = script.cur # 0]
    BY DEF Cycle
  <2>2. (script.cur # 0) \in BOOLEAN
    OBVIOUS
  <2>3. PICK timer \in BOOLEAN : timer = (script.cur # 0)
    BY <2>2
  <2>4. v \in 0 .. 2
    BY <2>1 DEF Variants
  <2>5. script' = [script EXCEPT !.seen = v, !.timer = timer]
    BY <2>1, <2>3
  <2> QED
    BY <2>4, <2>5
<1>2. UNCHANGED <<srv, journal, src, agent, asked, lost, gos, confirmed, own, wire, posts>> /\ script.state = "CYCLING"
  BY DEF Cycle, Local
<1>3. /\ script \in Scripts /\ script' \in Scripts /\ script'.cur = script.cur /\ script'.obs = script.obs /\ script'.clean = script.clean
      /\ script'.ready = script.ready /\ script'.scout = script.scout /\ script'.capture = script.capture /\ script'.state = script.state
  BY <1>1, PageParts DEF Scripts
<1>4. FlowOK'
  BY <1>2, <1>3, FlowStands DEF BarShown
<1>5. CurrentOK'
  BY <1>2, <1>3, CurrentStands, PageParts DEF CurrentOK
<1>6. store' \in [saved : Sessions, handled : 0 .. MaxGos]
  <2>1. PICK s : s = Saved(script') /\ store' = [store EXCEPT !.saved = s]
    BY DEF Cycle
  <2>2. s \in Sessions
    BY <1>3, <2>1, SavedIsSession DEF Scripts
  <2> QED
    BY <2>1, <2>2, PageParts DEF PageTypes
<1> QED
  BY <1>2, <1>3, <1>4, <1>5, <1>6, PageStands, PageParts

\* The checkpoint's timer, an accept and a discard send an event of the current session.
LEMMA SendsOK == ASSUME PageIInv, CheckpointTimer \/ Accept \/ Discard PROVE PageIInv'
<1>1. UNCHANGED <<srv, journal, src, agent, asked, lost, gos, confirmed, own, wire>>
  BY DEF CheckpointTimer, Accept, Discard, Local
<1>2. PICK state \in PageStates, timer \in BOOLEAN, rev \in Nat :
        /\ script' = [script EXCEPT !.state = state, !.timer = timer, !.rev = rev]
        /\ state = script.state \/ (Accept /\ state = "SAVING")
  <2>1. script \in Scripts
    BY PageParts
  <2>2. script.state \in PageStates /\ script.timer \in BOOLEAN /\ script.rev \in Nat /\ script.rev + 1 \in Nat
    BY <2>1 DEF Scripts
  <2>3. CASE CheckpointTimer
    <3>1. PICK rev \in Nat : script' = [script EXCEPT !.timer = FALSE, !.rev = rev]
      BY <2>2, <2>3 DEF CheckpointTimer
    <3>2. PICK timer \in BOOLEAN : timer = FALSE
      OBVIOUS
    <3>3. [script EXCEPT !.timer = timer, !.rev = rev] = [script EXCEPT !.state = script.state, !.timer = timer, !.rev = rev]
      BY <2>1 DEF Scripts
    <3> QED
      BY <2>2, <3>1, <3>2, <3>3
  <2>4. CASE Accept
    <3>1. [script EXCEPT !.state = "SAVING"] = [script EXCEPT !.state = "SAVING", !.timer = script.timer, !.rev = script.rev]
      BY <2>1 DEF Scripts
    <3>2. PICK state \in PageStates : state = "SAVING"
      BY DEF PageStates
    <3> QED
      BY <2>2, <2>4, <3>1, <3>2 DEF Accept
  <2>5. CASE Discard
    <3>1. script = [script EXCEPT !.state = script.state, !.timer = script.timer, !.rev = script.rev]
      BY <2>1 DEF Scripts
    <3> QED
      BY <2>2, <2>5, <3>1 DEF Discard
  <2> QED
    BY <2>3, <2>4, <2>5
<1>3. /\ script \in Scripts /\ script' \in Scripts /\ script'.cur = script.cur /\ script'.obs = script.obs /\ script'.clean = script.clean
      /\ script'.ready = script.ready /\ script'.scout = script.scout /\ script'.capture = script.capture /\ script'.state = state
      /\ script'.rev = rev
  BY <1>2, PageParts DEF Scripts
<1>4. \/ posts' = posts
      \/ \E n \in Posts : /\ posts' = posts \cup {n} /\ n.id = script.cur /\ n.answer = "none" /\ script.cur # 0
                          /\ \/ n.type = "checkpoint" /\ ~n.waits
                             \/ n.type = "accept" /\ Accept
                             \/ n.type = "discard" /\ Discard
  <2>1. CASE CheckpointTimer /\ script.cur # 0
    <3>1. PICK n : n = Request(script', "checkpoint", script.cur) /\ posts' = posts \cup {n}
      BY <2>1 DEF CheckpointTimer
    <3>2. n \in Posts /\ n.type = "checkpoint" /\ n.id = script.cur /\ n.answer = "none" /\ (n.waits <=> "checkpoint" \in Requests)
      BY <1>3, <2>1, <3>1, NewPost, PageParts
    <3> QED
      BY <2>1, <3>1, <3>2 DEF Requests
  <2>2. CASE Accept
    <3>1. PICK n : n = Request(script, "accept", script.cur) /\ posts' = posts \cup {n} /\ script.cur # 0
      BY <2>2 DEF Accept
    <3>2. n \in Posts /\ n.type = "accept" /\ n.id = script.cur /\ n.answer = "none"
      <4>1. "accept" \in {"checkpoint"} \cup Work
        BY DEF Work, Requests
      <4> QED
        BY <1>3, <3>1, <4>1, NewPost, PageParts
    <3> QED
      BY <2>2, <3>1, <3>2
  <2>3. CASE Discard
    <3>1. PICK n : n = Request(script, "discard", script.cur) /\ posts' = posts \cup {n} /\ script.cur # 0
      BY <2>3 DEF Discard
    <3>2. n \in Posts /\ n.type = "discard" /\ n.id = script.cur /\ n.answer = "none"
      <4>1. "discard" \in {"checkpoint"} \cup Work
        BY DEF Work, Requests
      <4> QED
        BY <1>3, <3>1, <4>1, NewPost, PageParts
    <3> QED
      BY <2>3, <3>1, <3>2
  <2>4. CASE CheckpointTimer /\ script.cur = 0
    BY <2>4 DEF CheckpointTimer
  <2> QED
    BY <2>1, <2>2, <2>3, <2>4
<1>5. (Accept => script.state = "CYCLING" /\ script.ready /\ state = "SAVING") /\ (Discard => script.state = "CYCLING" /\ state = script.state)
  <2>1. Discard => script'.state = script.state
    BY DEF Discard
  <2>2. Accept => script'.state = "SAVING"
    BY <1>3, PageParts DEF Accept, Scripts
  <2> QED
    BY <1>3, <2>1, <2>2 DEF Accept, Discard
<1>6. CurrentOK /\ \A m \in posts : PostOK(m)
  BY PageParts
<1>7. /\ posts' \subseteq Posts /\ \A n \in posts' : n.type = "generate" => n \in posts
      /\ \A n \in posts' : n.waits => n \in posts \/ (n.id = script.cur /\ script.state = "CYCLING" /\ BarShown')
  BY <1>3, <1>4, <1>5, PageParts DEF BarShown
<1>8. \A n \in posts' : n \in posts \/ PostOK(n)'
  <2>1. ASSUME NEW n \in posts', n \notin posts PROVE PostOK(n)'
    BY <1>1, <1>4, <1>5, <1>6, <2>1 DEF PostOK, CurrentOK, Requests, Seen
  <2> QED
    BY <2>1
<1>9. FlowOK'
  <2>1. BarShown => BarShown'
    BY <1>2, <1>3 DEF BarShown
  <2> QED
    BY <1>1, <1>3, <1>7, <2>1, FlowStands
<1>10. CurrentOK'
  <2>1. script.scout => script'.state # "CYCLING" /\ \A n \in posts' : ~n.waits
    BY <1>2, <1>3, <1>6, <1>7 DEF CurrentOK
  <2> QED
    BY <1>1, <1>3, <2>1, CurrentStands
<1>11. store' \in [saved : Sessions, handled : 0 .. MaxGos]
  <2>1. CASE store' = store
    BY <2>1, PageParts DEF PageTypes
  <2>2. CASE store' = [store EXCEPT !.saved.rev = script'.rev]
    <3>1. store \in [saved : Sessions, handled : 0 .. MaxGos]
      BY PageParts DEF PageTypes
    <3>2. PICK s : s = [store.saved EXCEPT !.rev = script'.rev]
      OBVIOUS
    <3>3. s \in Sessions
      BY <1>3, <3>1, <3>2 DEF Sessions
    <3>4. store' = [store EXCEPT !.saved = s]
      BY <2>2, <3>2
    <3> QED
      BY <3>1, <3>3, <3>4
  <2> QED
    BY <2>1, <2>2 DEF CheckpointTimer, Accept, Discard
<1> QED
  BY <1>1, <1>3, <1>7, <1>8, <1>9, <1>10, <1>11, PageStands

\* The generation's event goes out once, for a session that nobody knows yet.
LEMMA EmitGenerateOK == ASSUME PageIInv, NEW id \in Ids, EmitGenerate(id) PROVE PageIInv'
<1>1. UNCHANGED <<srv, journal, src, agent, asked, lost, gos, confirmed, own, wire, store>> /\ id \in script.capture
  BY DEF EmitGenerate, Local
<1>2. PICK n, left : /\ n = Request(script, "generate", id) /\ posts' = posts \cup {n}
                     /\ left = script.capture \ {id} /\ script' = [script EXCEPT !.capture = left]
  BY DEF EmitGenerate
<1>3. /\ script \in Scripts /\ script' \in Scripts /\ script'.cur = script.cur /\ script'.obs = script.obs /\ script'.clean = script.clean
      /\ script'.ready = script.ready /\ script'.scout = script.scout /\ script'.capture = left /\ script'.state = script.state
  BY <1>2, PageParts DEF Scripts
<1>4. n \in Posts /\ n.type = "generate" /\ n.id = id /\ n.answer = "none" /\ ~n.waits
  <2>1. "generate" \in {"checkpoint"} \cup Work /\ "generate" \notin Requests
    BY DEF Work, Requests
  <2> QED
    BY <1>2, <1>3, <2>1, NewPost
<1>5. /\ PageTypes /\ WireTypes /\ FreshOK /\ (\A m \in posts : PostOK(m)) /\ CurrentOK /\ HandledByOwn
      /\ (\A i \in Ids : confirmed[i] > 0 => asked[i] # {})
      /\ ((\E k \in DOMAIN wire : wire[k] = "error") => Exempt)
  BY PageParts
<1>6. PageTypes' /\ WireTypes'
  BY <1>1, <1>2, <1>3, <1>4, <1>5 DEF PageTypes, WireTypes
<1>7. PostOK(n)' /\ \A m \in posts : PostOK(m)'
  BY <1>1, <1>4, <1>5 DEF PostOK, FreshOK, Seen
<1>8. FreshOK'
  <2>1. \A i \in Ids : (Idle(i)' <=> Idle(i)) /\ (Unsent(i)' => Unsent(i))
    BY <1>1, <1>2, <1>3, <1>4 DEF Idle, HoldsGenerate, Holds, Unsent
  <2>2. \A i \in script'.capture : i <= gos' /\ \A m \in posts' : ~(m.type = "generate" /\ m.id = i)
    BY <1>1, <1>2, <1>3, <1>4, <1>5 DEF FreshOK
  <2>3. \A p, m \in posts' : p.type = "generate" /\ m.type = "generate" /\ p.id = m.id => p = m
    BY <1>1, <1>2, <1>4, <1>5 DEF FreshOK
  <2> QED
    BY <1>5, <2>1, <2>2, <2>3 DEF FreshOK
<1>9. FlowOK'
  BY <1>1, <1>2, <1>3, <1>4, FlowStands DEF BarShown
<1>10. CurrentOK'
  BY <1>1, <1>2, <1>3, <1>4, <1>5, CurrentStands DEF CurrentOK
<1>11. HandledByOwn' /\ (Exempt' <=> Exempt)
  BY <1>1, <1>5 DEF HandledByOwn, Exempt
<1> QED
  BY <1>1, <1>2, <1>5, <1>6, <1>7, <1>8, <1>9, <1>10, <1>11 DEF PageIInv

\* Go starts a session that is nowhere yet.
LEMMA GoOK == ASSUME PageIInv, Go PROVE PageIInv'
<1>1. /\ UNCHANGED <<srv, journal, src, agent, asked, lost, confirmed, own, wire>>
      /\ script.state = "CONFIGURING" /\ gos' = gos + 1 /\ gos < MaxGos
  BY DEF Go, Local
<1>2. /\ PageTypes /\ WireTypes /\ FreshOK /\ (\A m \in posts : PostOK(m)) /\ CurrentOK /\ HandledByOwn
      /\ (\A i \in Ids : confirmed[i] > 0 => asked[i] # {})
      /\ ((\E k \in DOMAIN wire : wire[k] = "error") => Exempt) /\ FlowOK
      /\ gos \in Nat /\ script \in Scripts /\ posts \subseteq Posts
  BY PageParts
<1>3. gos' \in 0 .. MaxGos /\ gos' \in Ids /\ gos' > gos /\ gos' # 0
  BY <1>1, <1>2, LiveBounds DEF Ids
<1>4. PICK n, capture, ready, rev :
        /\ script' = [script EXCEPT !.state = "GENERATING", !.cur = gos', !.ready = ready, !.seen = 0,
                        !.capture = capture, !.obs = gos', !.rev = rev]
        /\ ready = FALSE /\ capture = script.capture \cup {gos'} /\ rev = script.rev + 1
        /\ n = Request(script', "checkpoint", gos') /\ posts' = posts \cup {n}
  BY DEF Go
<1>5. /\ script' \in Scripts /\ script'.cur = gos' /\ script'.obs = gos' /\ script'.clean = script.clean /\ ~script'.ready
      /\ script'.scout = script.scout /\ script'.capture = capture /\ script'.state = "GENERATING" /\ script'.seen = 0
  <2>1. script.rev \in Nat /\ script.capture \subseteq Ids
    BY <1>2 DEF Scripts
  <2>2. PICK r \in BOOLEAN : r = ready /\ r = FALSE
    BY <1>4
  <2>3. PICK new \in Nat : new = rev
    BY <1>4, <2>1
  <2>4. PICK c \in SUBSET Ids : c = capture
    BY <1>3, <1>4, <2>1
  <2>5. PICK g \in 0 .. MaxGos : g = gos'
    BY <1>3
  <2>6. script' = [script EXCEPT !.state = "GENERATING", !.cur = g, !.ready = r, !.seen = 0, !.capture = c, !.obs = g, !.rev = new]
    BY <1>4, <2>2, <2>3, <2>4, <2>5
  <2>7. /\ script' \in Scripts /\ script'.cur = g /\ script'.obs = g /\ script'.clean = script.clean /\ script'.ready = r
        /\ script'.scout = script.scout /\ script'.capture = c /\ script'.state = "GENERATING" /\ script'.seen = 0
    <3>1. script \in Scripts
      BY <1>2
    <3>2. PICK state \in PageStates, seen \in 0 .. 2 : state = "GENERATING" /\ seen = 0
      BY DEF PageStates
    <3>3. script' = [script EXCEPT !.state = state, !.cur = g, !.ready = r, !.seen = seen, !.capture = c, !.obs = g, !.rev = new]
      BY <2>6, <3>2
    <3>4. script' \in Scripts
      BY <3>1, <3>3 DEF Scripts
    <3>5. /\ script'.cur = g /\ script'.obs = g /\ script'.clean = script.clean /\ script'.ready = r
          /\ script'.scout = script.scout /\ script'.capture = c /\ script'.state = state /\ script'.seen = seen
      BY <3>1, <3>3 DEF Scripts
    <3> QED
      BY <3>2, <3>4, <3>5
  <2> QED
    BY <2>2, <2>4, <2>5, <2>7
<1>6. n \in Posts /\ n.type = "checkpoint" /\ n.id = gos' /\ n.answer = "none" /\ ~n.waits
  <2>1. "checkpoint" \notin Requests
    BY DEF Requests
  <2>2. script' \in Scripts /\ gos' \in Ids /\ n = Request(script', "checkpoint", gos')
    BY <1>3, <1>4, <1>5
  <2> QED
    BY <2>1, <2>2, NewPost
<1>7. store' \in [saved : Sessions, handled : 0 .. MaxGos]
  <2>1. PICK s : s = Saved(script') /\ store' = [store EXCEPT !.saved = s]
    BY DEF Go
  <2>2. script'.cur \in 0 .. MaxGos /\ script'.seen \in 0 .. 2 /\ script'.rev \in Nat
    BY <1>5 DEF Scripts
  <2>3. s \in Sessions
    BY <2>1, <2>2, SavedIsSession
  <2> QED
    BY <1>2, <2>1, <2>3 DEF PageTypes
<1>8. PageTypes' /\ WireTypes'
  BY <1>1, <1>2, <1>3, <1>4, <1>5, <1>6, <1>7 DEF PageTypes, WireTypes
<1>9. \A m \in posts : m.id \in Nat /\ m.id <= gos /\ m.id # gos'
  BY <1>1, <1>2 DEF PostOK, Posts, Ids
<1>10. PostOK(n)' /\ \A m \in posts : PostOK(m)'
  <2>1. PostOK(n)'
    BY <1>1, <1>2, <1>3, <1>6 DEF PostOK
  <2>2. \A m \in posts : PostOK(m)'
    BY <1>1, <1>2, <1>3, <1>9 DEF PostOK, Seen
  <2> QED
    BY <2>1, <2>2
<1>11. FreshOK'
  <2>1. ASSUME NEW i \in Ids, Unsent(i)' PROVE Unsent(i)
    <3>1. i > gos' => i > gos
      BY <1>1, <1>2 DEF Ids
    <3> QED
      BY <1>3, <1>4, <1>5, <1>6, <2>1, <3>1 DEF Unsent
  <2>2. \A i \in Ids : Idle(i)' <=> Idle(i)
    BY <1>1 DEF Idle, HoldsGenerate, Holds
  <2>3. ASSUME NEW i \in script'.capture PROVE i <= gos' /\ \A m \in posts' : ~(m.type = "generate" /\ m.id = i)
    <3>1. CASE i = gos'
      BY <1>3, <1>4, <1>6, <1>9, <3>1
    <3>2. CASE i \in script.capture
      <4>1. i \in Nat /\ i <= gos /\ i <= gos'
        BY <1>1, <1>2, <3>2 DEF FreshOK, Scripts, Ids
      <4> QED
        BY <1>2, <1>4, <1>6, <3>2, <4>1 DEF FreshOK
    <3> QED
      BY <1>4, <1>5, <3>1, <3>2
  <2>4. \A p, m \in posts' : p.type = "generate" /\ m.type = "generate" /\ p.id = m.id => p = m
    BY <1>2, <1>4, <1>6 DEF FreshOK
  <2> QED
    BY <1>2, <2>1, <2>2, <2>3, <2>4 DEF FreshOK
<1>12. FlowOK'
  <2>1. Exempt' <=> Exempt
    BY <1>1 DEF Exempt
  <2>2. ~BarShown
    BY <1>1 DEF BarShown
  <2>3. WaitsForOwn => WaitsForOwn'
    BY <1>1, <1>4, <1>6, <2>2 DEF WaitsForOwn
  <2>4. CleansOwn => CleansOwn'
    BY <1>5, <2>2 DEF CleansOwn
  <2> QED
    BY <1>2, <2>1, <2>3, <2>4 DEF FlowOK
<1>13. CurrentOK'
  BY <1>2, <1>3, <1>4, <1>5, <1>6 DEF CurrentOK
<1>14. HandledByOwn' /\ (Exempt' <=> Exempt)
  BY <1>1, <1>2 DEF HandledByOwn, Exempt
<1> QED
  BY <1>1, <1>2, <1>4, <1>8, <1>10, <1>11, <1>12, <1>13, <1>14 DEF PageIInv

LEMMA ServerLostOK == ASSUME PageIInv, ServerLost PROVE PageIInv'
<1>1. UNCHANGED <<srv, journal, src, agent, asked, lost, gos, confirmed, own, wire, posts>>
  BY DEF ServerLost, Steady
<1>2. script \in Scripts /\ store \in [saved : Sessions, handled : 0 .. MaxGos] /\ posts \subseteq Posts /\ CurrentOK
  BY PageParts DEF PageTypes
<1>3. PICK state \in PageStates, closed \in BOOLEAN, zero \in 0 .. MaxGos :
        /\ script' = [script EXCEPT !.closed = closed, !.obs = zero, !.state = state] /\ zero = 0
        /\ state = script.state \/ (script.cur = 0 /\ state = "IDLE")
  <2>1. script.state \in PageStates
    BY <1>2 DEF Scripts
  <2>2. PICK state \in PageStates : state = IF script.cur = 0 THEN "IDLE" ELSE script.state
    BY <2>1 DEF PageStates
  <2>3. PICK closed \in BOOLEAN : closed = TRUE
    OBVIOUS
  <2>4. PICK zero \in 0 .. MaxGos : zero = 0
    BY LiveBounds
  <2>5. script' = [script EXCEPT !.closed = closed, !.obs = zero, !.state = state]
    BY <2>2, <2>3, <2>4 DEF ServerLost
  <2> QED
    BY <2>2, <2>4, <2>5
<1>4. /\ script' \in Scripts /\ script'.cur = script.cur /\ script'.obs = 0 /\ script'.clean = script.clean
      /\ script'.ready = script.ready /\ script'.scout = script.scout /\ script'.capture = script.capture /\ script'.state = state
  BY <1>2, <1>3 DEF Scripts
<1>5. FlowOK'
  BY <1>1, <1>3, <1>4, FlowStands DEF BarShown
<1>6. CurrentOK'
  BY <1>1, <1>2, <1>3, <1>4, CurrentStands DEF CurrentOK
<1>7. store' \in [saved : Sessions, handled : 0 .. MaxGos]
  <2>1. PICK s : s = Saved(script) /\ store' = [store EXCEPT !.saved = s]
    BY DEF ServerLost
  <2>2. script.cur \in 0 .. MaxGos /\ script.seen \in 0 .. 2 /\ script.rev \in Nat
    BY <1>2 DEF Scripts
  <2>3. s \in Sessions
    BY <2>1, <2>2, SavedIsSession
  <2> QED
    BY <1>2, <2>1, <2>3
<1> QED
  BY <1>1, <1>2, <1>4, <1>5, <1>6, <1>7, PageStands

LEMMA StreamOpensOK == ASSUME PageIInv, srv \in Servers, StreamOpens PROVE PageIInv'
<1>1. UNCHANGED <<journal, src, agent, asked, lost, gos, confirmed, own, wire, posts, store>>
  BY DEF StreamOpens, Steady
<1>2. script \in Scripts /\ store \in [saved : Sessions, handled : 0 .. MaxGos] /\ posts \subseteq Posts /\ CurrentOK
  BY PageParts DEF PageTypes
<1>3. srv'.pending = srv.pending
  BY DEF StreamOpens, Servers
<1>4. PICK state \in PageStates, closed \in BOOLEAN :
        /\ script' = [script EXCEPT !.closed = closed, !.state = state]
        /\ state = script.state \/ (script.state = "IDLE" /\ state = "PICKING")
  <2>1. script.state \in PageStates /\ script.closed \in BOOLEAN
    BY <1>2 DEF Scripts
  <2>2. CASE script.token = srv.epoch
    <3>1. PICK state \in PageStates : state = IF script.state = "IDLE" THEN "PICKING" ELSE script.state
      BY <2>1 DEF PageStates
    <3>2. script' = [script EXCEPT !.state = state]
      BY <2>2, <3>1 DEF StreamOpens
    <3>3. [script EXCEPT !.state = state] = [script EXCEPT !.closed = script.closed, !.state = state]
      BY <1>2 DEF Scripts
    <3> QED
      BY <2>1, <3>1, <3>2, <3>3
  <2>3. CASE script.token # srv.epoch
    <3>1. PICK closed \in BOOLEAN : closed = TRUE
      OBVIOUS
    <3>2. script' = [script EXCEPT !.closed = closed]
      BY <2>3, <3>1 DEF StreamOpens
    <3>3. [script EXCEPT !.closed = closed] = [script EXCEPT !.closed = closed, !.state = script.state]
      BY <1>2 DEF Scripts
    <3> QED
      BY <2>1, <3>1, <3>2, <3>3
  <2> QED
    BY <2>2, <2>3
<1>5. /\ script' \in Scripts /\ script'.cur = script.cur /\ script'.obs = script.obs /\ script'.clean = script.clean
      /\ script'.ready = script.ready /\ script'.scout = script.scout /\ script'.capture = script.capture /\ script'.state = state
  BY <1>2, <1>4 DEF Scripts
<1>6. FlowOK'
  BY <1>1, <1>4, <1>5, FlowStands DEF BarShown
<1>7. CurrentOK'
  BY <1>1, <1>2, <1>4, <1>5, CurrentStands DEF CurrentOK
<1> QED
  BY <1>1, <1>2, <1>3, <1>5, <1>6, <1>7, PageStands

\* An error gives the page back to picking whatever is current: its session ended in one.
LEMMA MessageOK == ASSUME PageIInv, Message PROVE PageIInv'
<1>1. UNCHANGED <<srv, journal, src, agent, asked, lost, gos, confirmed, own, posts, store>> /\ wire # <<>> /\ wire' = Tail(wire)
  BY DEF Message, Steady
<1>2. /\ script \in Scripts /\ store \in [saved : Sessions, handled : 0 .. MaxGos] /\ posts \subseteq Posts /\ CurrentOK
      /\ wire \in Seq({"done", "error"}) /\ ((\E k \in DOMAIN wire : wire[k] = "error") => Exempt)
  BY PageParts DEF PageTypes, WireTypes
<1>3. PICK state \in PageStates :
        /\ script' = [script EXCEPT !.state = state]
        /\ \/ state = script.state
           \/ state = "CYCLING" /\ script.state = "GENERATING" /\ script.ready
           \/ state = "PICKING" /\ Head(wire) = "error"
  <2>1. script.state \in PageStates
    BY <1>2 DEF Scripts
  <2>2. PICK state \in PageStates : state = IF Head(wire) = "error" THEN "PICKING"
                                  ELSE IF script.state = "GENERATING" /\ script.ready THEN "CYCLING" ELSE script.state
    BY <2>1 DEF PageStates
  <2>3. script' = [script EXCEPT !.state = state]
    BY <2>2 DEF Message
  <2> QED
    BY <2>2, <2>3
<1>4. /\ script' \in Scripts /\ script'.cur = script.cur /\ script'.obs = script.obs /\ script'.clean = script.clean
      /\ script'.ready = script.ready /\ script'.scout = script.scout /\ script'.capture = script.capture /\ script'.state = state
  BY <1>2, <1>3 DEF Scripts
<1>5. FlowOK'
  <2>1. CASE Head(wire) = "error"
    <3>1. Exempt
      BY <1>1, <1>2, <2>1
    <3> QED
      BY <1>1, <3>1 DEF FlowOK, Exempt
  <2>2. CASE Head(wire) # "error"
    BY <1>1, <1>3, <1>4, <2>2, FlowStands DEF BarShown
  <2> QED
    BY <2>1, <2>2
<1>6. CurrentOK'
  BY <1>1, <1>2, <1>3, <1>4, CurrentStands DEF CurrentOK
<1> QED
  BY <1>1, <1>2, <1>4, <1>5, <1>6, PageStands

\* A page adopts a session whose wrapper is in the source.
LEMMA ResumedOK ==
  ASSUME PageIInv, src \in [Ids -> Sources], NEW t \in Scripts, NEW id \in Wrapped(InSource), NEW r, r = Resumed(t, id, InSource)
  PROVE  /\ r \in Scripts /\ id \in Ids /\ id <= gos /\ r.cur = id /\ r.obs = id /\ r.clean = t.clean /\ r.capture = t.capture
         /\ r.scout = t.scout /\ (r.ready => Seen(id))
<1>1. id \in Ids /\ InSource[id] # "absent" /\ InSource[id] = (IF src[id].at \in Settled THEN "absent" ELSE src[id].at)
  BY DEF Wrapped, InSource
<1>2. id <= gos
  <2>1. src[id].at # "absent"
    BY <1>1
  <2>2. ~Unsent(id)
    BY <1>1, <2>1, PageParts DEF FreshOK, Idle
  <2> QED
    BY <1>1, <2>2, PageParts DEF Unsent
<1>3. store.saved \in Sessions
  BY PageParts DEF PageTypes
<1>4. PICK all \in BOOLEAN : all = (InSource[id] = "variants")
  <2>1. (InSource[id] = "variants") \in BOOLEAN
    OBVIOUS
  <2> QED
    BY <2>1
<1>5. PICK rev \in Nat : rev = IF store.saved.rev > t.rev THEN store.saved.rev ELSE t.rev
  BY <1>3 DEF Sessions, Scripts
<1>6. PICK seen \in 0 .. 2 : seen = IF all THEN SeenFor(id) ELSE 0
  BY <1>3 DEF SeenFor, Sessions
<1>7. PICK state \in PageStates : state = IF all THEN "CYCLING" ELSE "GENERATING"
  BY DEF PageStates
<1>8. PICK timer \in BOOLEAN : timer = TRUE
  OBVIOUS
<1>9. r = [t EXCEPT !.cur = id, !.ready = all, !.seen = seen, !.state = state, !.rev = rev, !.timer = timer, !.obs = id]
  BY <1>4, <1>5, <1>6, <1>7, <1>8 DEF Resumed
<1>10. id \in 0 .. MaxGos
  BY <1>1, LiveBounds DEF Ids
<1>11. r \in Scripts
  BY <1>9, <1>10 DEF Scripts
<1>12. /\ r.cur = id /\ r.obs = id /\ r.clean = t.clean /\ r.capture = t.capture /\ r.scout = t.scout /\ r.ready = all
  BY <1>9 DEF Scripts
<1>13. all => Seen(id)
  BY <1>1, <1>4 DEF Seen
<1> QED
  BY <1>1, <1>2, <1>11, <1>12, <1>13

LEMMA ResumeOK ==
  ASSUME PageIInv, src \in [Ids -> Sources], NEW t \in Scripts, Resume(t, InSource)
  PROVE  /\ script' \in Scripts /\ store' \in [saved : Sessions, handled : 0 .. MaxGos]
         /\ script'.clean = t.clean /\ script'.capture = t.capture
         /\ \/ script' = t
            \/ /\ Wrapped(InSource) = {} /\ script'.cur = t.cur /\ script'.obs = t.obs /\ script'.ready = t.ready
               /\ script'.state = t.state
            \/ /\ script'.scout = t.scout /\ script'.cur <= gos /\ script'.obs = script'.cur
               /\ (script'.ready => Seen(script'.cur))
<1>1. store \in [saved : Sessions, handled : 0 .. MaxGos]
  BY PageParts DEF PageTypes
<1>2. CASE Wrapped(InSource) = {}
  <2>1. PICK scout \in BOOLEAN : scout = TRUE
    OBVIOUS
  <2>2. script' = [t EXCEPT !.scout = scout] /\ store' = [saved |-> NoSession, handled |-> 0]
    BY <1>2, <2>1 DEF Resume
  <2>3. NoSession \in Sessions
    BY LiveBounds DEF NoSession, Sessions
  <2>4. store' \in [saved : Sessions, handled : 0 .. MaxGos]
    BY <2>2, <2>3, LiveBounds
  <2>5. /\ script' \in Scripts /\ script'.cur = t.cur /\ script'.obs = t.obs /\ script'.ready = t.ready
        /\ script'.state = t.state /\ script'.clean = t.clean /\ script'.capture = t.capture
    BY <2>2 DEF Scripts
  <2> QED
    BY <1>2, <2>4, <2>5
<1>3. CASE Wrapped(InSource) # {}
  <2>1. PICK id \in Wrapped(InSource) :
          IF store.handled = id THEN script' = t /\ UNCHANGED store
          ELSE script' = Resumed(t, id, InSource) /\ store' = [store EXCEPT !.saved = Saved(script')]
    BY <1>3 DEF Resume
  <2>2. CASE store.handled = id
    BY <1>1, <2>1, <2>2
  <2>3. CASE store.handled # id
    <3>1. PICK s : script' = Resumed(t, id, InSource) /\ s = Saved(script') /\ store' = [store EXCEPT !.saved = s]
      BY <2>1, <2>3
    <3>2. /\ script' \in Scripts /\ id \in Ids /\ id <= gos /\ script'.cur = id /\ script'.obs = id /\ script'.clean = t.clean
          /\ script'.capture = t.capture /\ script'.scout = t.scout /\ (script'.ready => Seen(id))
      BY <3>1, ResumedOK
    <3>3. s \in Sessions
      <4>1. script'.cur \in 0 .. MaxGos /\ script'.seen \in 0 .. 2 /\ script'.rev \in Nat
        BY <3>2 DEF Scripts
      <4> QED
        BY <3>1, <4>1, SavedIsSession
    <3>4. store' \in [saved : Sessions, handled : 0 .. MaxGos]
      BY <1>1, <3>1, <3>3
    <3> QED
      BY <3>2, <3>4
  <2> QED
    BY <2>2, <2>3
<1> QED
  BY <1>2, <1>3

\* Hot reload gives a scouting page a session, and shows the current one's variants.
LEMMA HmrOK == ASSUME PageIInv, src \in [Ids -> Sources], Hmr PROVE PageIInv'
<1>1. UNCHANGED <<srv, journal, src, agent, asked, lost, gos, confirmed, own, wire, posts>>
  BY DEF Hmr, serverVars
<1>2. /\ script \in Scripts /\ store \in [saved : Sessions, handled : 0 .. MaxGos] /\ posts \subseteq Posts /\ CurrentOK
      /\ (script.cur # 0 => script.cur \in Ids)
  BY PageParts DEF PageTypes
<1>3. CASE script.scout /\ Wrapped(InSource) # {}
  <2>1. PICK t : t = [script EXCEPT !.scout = FALSE] /\ Resume(t, InSource)
    BY <1>3 DEF Hmr
  <2>2. t \in Scripts /\ t.clean = script.clean /\ t.capture = script.capture /\ t.cur = script.cur /\ t.obs = script.obs
        /\ t.ready = script.ready /\ ~t.scout
    <3>1. PICK scout \in BOOLEAN : scout = FALSE
      OBVIOUS
    <3>2. t = [script EXCEPT !.scout = scout]
      BY <2>1, <3>1
    <3> QED
      BY <1>2, <3>1, <3>2 DEF Scripts
  <2>3. /\ script' \in Scripts /\ store' \in [saved : Sessions, handled : 0 .. MaxGos]
        /\ script'.clean = script.clean /\ script'.capture = script.capture
        /\ \/ script' = t
           \/ /\ script'.scout = t.scout /\ script'.cur <= gos /\ script'.obs = script'.cur
              /\ (script'.ready => Seen(script'.cur))
    BY <1>3, <2>1, <2>2, ResumeOK
  <2>4. CurrentOK'
    BY <1>1, <1>2, <2>2, <2>3 DEF CurrentOK, Seen
  <2>5. FlowOK'
    BY <1>1, <1>2, <1>3, <2>3 DEF FlowOK, WaitsForOwn, CleansOwn, CurrentOK
  <2> QED
    BY <1>1, <1>2, <2>3, <2>4, <2>5, PageStands
<1>4. CASE ~(script.scout /\ Wrapped(InSource) # {})
  <2>1. script' = Observed(script, InSource) /\ (store' = store \/ store' = [store EXCEPT !.saved = Saved(script')])
    BY <1>4 DEF Hmr
  <2>2. CASE script' = script
    <3>1. store' \in [saved : Sessions, handled : 0 .. MaxGos]
      <4>1. script.cur \in 0 .. MaxGos /\ script.seen \in 0 .. 2 /\ script.rev \in Nat
        BY <1>2 DEF Scripts
      <4>2. PICK s : s = Saved(script') /\ s \in Sessions
        BY <2>2, <4>1, SavedIsSession
      <4> QED
        BY <1>2, <2>1, <4>2
    <3>2. FlowOK'
      BY <1>1, <2>2, FlowStands DEF BarShown
    <3>3. CurrentOK'
      BY <1>1, <1>2, <2>2 DEF CurrentOK, Seen
    <3> QED
      BY <1>1, <1>2, <2>2, <3>1, <3>2, <3>3, PageStands
  <2>3. CASE script' # script
    <3>1. script.obs # 0 /\ InSource[script.obs] = "variants"
      BY <2>1, <2>3 DEF Observed
    <3>2. script.obs = script.cur /\ script.cur \in Ids /\ src[script.cur].at = "variants"
      BY <1>2, <3>1 DEF CurrentOK, InSource, Settled
    <3>3. ~script.scout
      BY <1>4, <3>1, <3>2 DEF Wrapped
    <3>4. PICK seen \in 0 .. 2 : seen = IF script.seen = 0 THEN SeenFor(script.obs) ELSE script.seen
      BY <1>2 DEF SeenFor, Sessions, Scripts
    <3>5. PICK timer \in BOOLEAN : timer = (script.cur # 0)
      <4>1. (script.cur # 0) \in BOOLEAN
        OBVIOUS
      <4> QED
        BY <4>1
    <3>6. PICK ready \in BOOLEAN : ready = TRUE
      OBVIOUS
    <3>7. script' = [script EXCEPT !.ready = ready, !.seen = seen, !.state = "CYCLING", !.timer = timer]
      BY <2>1, <2>3, <3>4, <3>5, <3>6 DEF Observed
    <3>8. /\ script' \in Scripts /\ script'.cur = script.cur /\ script'.obs = script.obs /\ script'.clean = script.clean
          /\ script'.scout = script.scout /\ script'.capture = script.capture /\ script'.state = "CYCLING"
      BY <1>2, <3>7 DEF Scripts, PageStates
    <3>9. CurrentOK'
      BY <1>1, <1>2, <3>2, <3>3, <3>8 DEF CurrentOK, Seen
    <3>10. FlowOK'
      BY <1>1, <3>8, FlowStands DEF BarShown
    <3>11. store' \in [saved : Sessions, handled : 0 .. MaxGos]
      <4>1. script'.cur \in 0 .. MaxGos /\ script'.seen \in 0 .. 2 /\ script'.rev \in Nat
        BY <3>8 DEF Scripts
      <4>2. PICK s : s = Saved(script') /\ s \in Sessions
        BY <4>1, SavedIsSession
      <4> QED
        BY <1>2, <2>1, <4>2
    <3> QED
      BY <1>1, <1>2, <3>8, <3>9, <3>10, <3>11, PageStands
  <2> QED
    BY <2>2, <2>3
<1> QED
  BY <1>3, <1>4

\* A reload waits for nothing any more.
LEMMA ReloadPageOK == ASSUME PageIInv, srv \in Servers, src \in [Ids -> Sources], ReloadPage PROVE PageIInv'
<1>1. UNCHANGED <<journal, src, agent, asked, lost, gos, confirmed, own>> /\ wire' = <<>>
  BY DEF ReloadPage
<1>2. posts \subseteq Posts /\ (\A m \in posts : PostOK(m)) /\ gos \in Nat
  BY PageParts
<1>3. srv'.pending = srv.pending
  BY DEF ReloadPage, Servers
<1>4. PICK t : t = [Fresh EXCEPT !.token = srv.epoch] /\ Resume(t, InSource)
  BY DEF ReloadPage
<1>5. /\ t \in Scripts /\ t.clean = 0 /\ t.capture = {} /\ t.cur = 0 /\ t.obs = 0 /\ ~t.ready /\ ~t.scout /\ t.state = "IDLE"
  <2>1. PICK no \in BOOLEAN : no = FALSE
    OBVIOUS
  <2>2. t = [token |-> srv.epoch, state |-> "IDLE", cur |-> 0, ready |-> no, seen |-> 0, closed |-> no,
          timer |-> no, capture |-> {}, clean |-> 0, obs |-> 0, scout |-> no, rev |-> 0]
    BY <1>4, <2>1 DEF Fresh
  <2>3. srv.epoch \in Nat
    BY DEF Servers
  <2>4. t \in Scripts
    BY <2>2, <2>3, LiveBounds DEF Scripts, PageStates
  <2>5. t.clean = 0 /\ t.capture = {} /\ t.cur = 0 /\ t.obs = 0 /\ t.ready = no /\ t.scout = no /\ t.state = "IDLE"
    BY <2>2
  <2> QED
    BY <2>1, <2>4, <2>5
<1>6. /\ script' \in Scripts /\ store' \in [saved : Sessions, handled : 0 .. MaxGos]
      /\ script'.clean = 0 /\ script'.capture = {}
      /\ \/ script' = t
         \/ /\ script'.cur = t.cur /\ script'.obs = t.obs /\ script'.ready = t.ready /\ script'.state = t.state
         \/ /\ script'.scout = t.scout /\ script'.cur <= gos /\ script'.obs = script'.cur
            /\ (script'.ready => Seen(script'.cur))
  <2>1. t \in Scripts /\ Resume(t, InSource)
    BY <1>4, <1>5
  <2> QED
    BY <1>5, <2>1, ResumeOK
<1>7. \A n \in posts' : \E m \in posts : n = [m EXCEPT !.waits = FALSE] /\ m.answer = "none"
  BY DEF ReloadPage
<1>8. ASSUME NEW n \in posts'
      PROVE  n \in Posts /\ ~n.waits /\ PostOK(n)' /\ (n.type = "generate" => n \in posts)
  <2>1. PICK m \in posts : n = [m EXCEPT !.waits = FALSE] /\ m.answer = "none"
    BY <1>7
  <2>2. PICK no \in BOOLEAN : no = FALSE
    OBVIOUS
  <2>3. m \in Posts /\ PostOK(m) /\ n = [m EXCEPT !.waits = no]
    BY <1>2, <2>1, <2>2
  <2>4. n \in Posts /\ n.type = m.type /\ n.id = m.id /\ n.answer = "none" /\ n.waits = no
    BY <2>1, <2>3 DEF Posts
  <2>5. PostOK(n)'
    BY <1>1, <2>2, <2>3, <2>4 DEF PostOK, Seen
  <2>6. n.type = "generate" => n = m
    <3>1. n.type = "generate" => m.waits = no
      BY <2>2, <2>3, <2>4 DEF PostOK, Requests, Posts
    <3> QED
      BY <2>3, <3>1 DEF Posts
  <2> QED
    BY <2>2, <2>4, <2>5, <2>6
<1>9. CurrentOK'
  BY <1>1, <1>2, <1>5, <1>6, <1>8 DEF CurrentOK, Seen
<1>10. FlowOK'
  BY <1>6, <1>8 DEF FlowOK, WaitsForOwn, CleansOwn
<1>11. posts' \subseteq Posts /\ script'.capture \subseteq script.capture
  BY <1>6, <1>8
<1> QED
  BY <1>1, <1>3, <1>6, <1>8, <1>9, <1>10, <1>11, PageStands

\* An answer ends the wait of its session's request, if no other was answered twice.
LEMMA AnswerHandled == ASSUME PageIInv, NEW m \in posts, Answer(m) PROVE PageIInv'
<1>1. UNCHANGED <<srv, journal, src, agent, asked, lost, gos, wire>> /\ posts' = posts \ {m} /\ m.answer # "none"
  BY DEF Answer
<1>2. /\ PageTypes /\ WireTypes /\ FreshOK /\ (\A n \in posts : PostOK(n)) /\ CurrentOK /\ FlowOK /\ HandledByOwn
      /\ (\A i \in Ids : confirmed[i] > 0 => asked[i] # {})
      /\ ((\E k \in DOMAIN wire : wire[k] = "error") => Exempt)
      /\ script \in Scripts /\ posts \subseteq Posts /\ gos \in Nat /\ (script.cur # 0 => script.cur \in Ids)
  BY PageParts
<1>3. m \in Posts /\ m.id \in Ids /\ m.waits /\ m.type \in Requests /\ (m.answer = "ok" => asked[m.id] # {}) /\ m.id # 0
      /\ m.answer \in {"ok", "fail"} /\ confirmed \in [Ids -> Nat] /\ own \subseteq Ids
      /\ store \in [saved : Sessions, handled : 0 .. MaxGos]
  BY <1>1, <1>2 DEF PostOK, Posts, Ids, PageTypes
<1>4. ~script.scout
  BY <1>2, <1>3 DEF CurrentOK
<1>5. m.answer = "ok" => confirmed' = [confirmed EXCEPT ![m.id] = confirmed[m.id] + 1] /\ own' = Foreign(m)
  BY <1>3 DEF Answer
<1>6. m.answer = "fail" => confirmed' = confirmed /\ own' = own
  BY DEF Answer
<1>7. /\ confirmed' \in [Ids -> Nat] /\ own' \subseteq Ids /\ (\A i \in Ids : confirmed'[i] >= confirmed[i])
      /\ (m.answer = "ok" => confirmed'[m.id] = confirmed[m.id] + 1)
      /\ (\A i \in Ids : confirmed'[i] > 0 => asked'[i] # {})
  <2>1. CASE m.answer = "ok"
    <3>1. own' \subseteq Ids
      BY <1>2, <1>3, <1>5, <2>1 DEF Foreign
    <3> QED
      BY <1>1, <1>2, <1>3, <1>5, <2>1, <3>1
  <2>2. CASE m.answer = "fail"
    BY <1>1, <1>2, <1>3, <1>6, <2>2
  <2> QED
    BY <1>3, <2>1, <2>2
<1>8. Exempt => Exempt'
  BY <1>1, <1>3, <1>7 DEF Exempt
<1>9. PICK state \in PageStates, cur \in {0, script.cur}, obs \in {0, script.cur}, clean \in Nat :
        /\ obs \in {0, cur}
        /\ script' = [script EXCEPT !.state = state, !.cur = cur, !.obs = obs, !.clean = clean]
        /\ \/ m.answer = "fail" /\ cur = script.cur /\ clean = script.clean /\ (state = script.state \/ state = "CYCLING")
           \/ m.answer = "ok" /\ m.type = "accept" /\ cur = script.cur /\ clean = script.clean + 1 /\ state = "CONFIRMED"
           \/ m.answer = "ok" /\ cur = 0 /\ clean = script.clean
  <2>1. script.obs \in {0, script.cur} /\ script.clean \in Nat /\ script.clean + 1 \in Nat /\ script.state \in PageStates
    BY <1>2 DEF CurrentOK, Scripts
  <2>2. CASE m.type = "accept" /\ m.answer = "ok"
    <3>1. script' = [script EXCEPT !.state = "CONFIRMED", !.clean = script.clean + 1]
      BY <2>2 DEF Answer
    <3>2. script' = [script EXCEPT !.state = "CONFIRMED", !.cur = script.cur, !.obs = script.obs, !.clean = script.clean + 1]
      BY <1>2, <3>1 DEF Scripts
    <3>3. PICK state \in PageStates : state = "CONFIRMED"
      BY DEF PageStates
    <3> QED
      BY <2>1, <2>2, <3>2, <3>3
  <2>3. CASE m.type = "accept" /\ m.answer = "fail"
    <3>1. script' = [script EXCEPT !.state = "CYCLING"]
      BY <2>3 DEF Answer
    <3>2. script' = [script EXCEPT !.state = "CYCLING", !.cur = script.cur, !.obs = script.obs, !.clean = script.clean]
      BY <1>2, <3>1 DEF Scripts
    <3>3. PICK state \in PageStates : state = "CYCLING"
      BY DEF PageStates
    <3> QED
      BY <2>1, <2>3, <3>2, <3>3
  <2>4. CASE m.type = "discard" /\ m.answer = "ok"
    <3>1. script' = [script EXCEPT !.state = "PICKING", !.cur = 0, !.obs = 0]
      BY <2>4 DEF Answer, Cleaned
    <3>2. script' = [script EXCEPT !.state = "PICKING", !.cur = 0, !.obs = 0, !.clean = script.clean]
      BY <1>2, <3>1 DEF Scripts
    <3>3. PICK state \in PageStates : state = "PICKING"
      BY DEF PageStates
    <3> QED
      BY <2>1, <2>4, <3>2, <3>3
  <2>5. CASE m.type = "discard" /\ m.answer = "fail"
    <3>1. script' = script
      BY <2>5 DEF Answer
    <3>2. script' = [script EXCEPT !.state = script.state, !.cur = script.cur, !.obs = script.obs, !.clean = script.clean]
      BY <1>2, <3>1 DEF Scripts
    <3> QED
      BY <2>1, <2>5, <3>2
  <2> QED
    BY <1>3, <2>2, <2>3, <2>4, <2>5 DEF Requests
<1>10. /\ script' \in Scripts /\ script'.state = state /\ script'.cur = cur /\ script'.obs = obs /\ script'.clean = clean
       /\ script'.ready = script.ready /\ script'.scout = script.scout /\ script'.capture = script.capture
  <2>1. cur \in 0 .. MaxGos /\ obs \in 0 .. MaxGos
    BY <1>2, LiveBounds DEF Scripts
  <2> QED
    BY <1>2, <1>9, <2>1 DEF Scripts
<1>11. store' \in [saved : Sessions, handled : 0 .. MaxGos]
  <2>1. Handled(m) \in 0 .. MaxGos
    BY <1>2, <1>3 DEF Handled, Scripts
  <2>2. NoSession \in Sessions
    BY LiveBounds DEF NoSession, Sessions
  <2>3. PICK h : h = Handled(m)
    OBVIOUS
  <2>4. store' = store \/ store' = [store EXCEPT !.handled = h] \/ store' = [saved |-> NoSession, handled |-> h]
    BY <1>3, <2>3 DEF Answer, Requests
  <2>5. [saved |-> NoSession, handled |-> h] \in [saved : Sessions, handled : 0 .. MaxGos]
    BY <2>1, <2>2, <2>3
  <2>6. [store EXCEPT !.handled = h] \in [saved : Sessions, handled : 0 .. MaxGos]
    BY <1>3, <2>1, <2>3
  <2> QED
    BY <1>3, <2>4, <2>5, <2>6
<1>12. PageTypes' /\ WireTypes'
  BY <1>1, <1>2, <1>7, <1>10, <1>11 DEF PageTypes, WireTypes
<1>13. FreshOK' /\ \A n \in posts' : PostOK(n)'
  <2>1. \A i \in Ids : (Idle(i)' <=> Idle(i)) /\ (Unsent(i)' => Unsent(i))
    BY <1>1, <1>10 DEF Idle, HoldsGenerate, Holds, Unsent
  <2>2. FreshOK'
    BY <1>1, <1>2, <1>10, <2>1 DEF FreshOK
  <2>3. \A n \in posts' : PostOK(n)'
    BY <1>1, <1>2 DEF PostOK, Seen
  <2> QED
    BY <2>2, <2>3
<1>14. CurrentOK'
  <2>1. script'.cur <= gos' /\ script'.obs \in {0, script'.cur}
    BY <1>1, <1>2, <1>9, <1>10 DEF CurrentOK
  <2>2. script'.ready /\ script'.cur # 0 => Seen(script'.cur)
    BY <1>1, <1>2, <1>9, <1>10 DEF CurrentOK, Seen
  <2> QED
    BY <1>1, <1>4, <1>10, <2>1, <2>2 DEF CurrentOK, Seen
<1>15. FlowOK'
  <2>1. SUFFICES ASSUME ~Exempt' PROVE WaitsForOwn' /\ CleansOwn'
    BY DEF FlowOK
  <2>2. WaitsForOwn /\ CleansOwn /\ confirmed[m.id] \in Nat /\ confirmed'[m.id] <= 1
    BY <1>2, <1>3, <1>7, <1>8, <2>1 DEF FlowOK, Exempt
  <2>3. CASE m.answer = "fail"
    <3>1. BarShown => BarShown'
      BY <1>9, <1>10, <2>3 DEF BarShown
    <3>2. confirmed' = confirmed /\ script'.cur = script.cur /\ script'.clean = script.clean
      BY <1>6, <1>9, <1>10, <2>3
    <3> QED
      BY <1>1, <2>2, <3>1, <3>2 DEF WaitsForOwn, CleansOwn
  <2>4. CASE m.answer = "ok"
    <3>1. confirmed[m.id] = 0 /\ confirmed'[m.id] = 1
      BY <1>3, <1>7, <2>2, <2>4
    <3>2. m.id = script.cur /\ BarShown
      BY <1>3, <2>2, <3>1 DEF WaitsForOwn
    <3>3. WaitsForOwn'
      <4>1. ASSUME NEW n \in posts, n.waits PROVE confirmed'[n.id] >= 1
        <5>1. n.id \in Ids /\ confirmed[n.id] \in Nat /\ confirmed'[n.id] \in Nat /\ confirmed'[n.id] >= confirmed[n.id]
          BY <1>2, <1>3, <1>7 DEF Posts
        <5>2. confirmed[n.id] >= 1 \/ n.id = m.id
          BY <2>2, <3>2, <4>1 DEF WaitsForOwn
        <5> QED
          BY <3>1, <5>1, <5>2
      <4> QED
        BY <1>1, <4>1 DEF WaitsForOwn
    <3>4. CleansOwn'
      <4>1. script.clean \in Nat
        BY <1>2 DEF Scripts
      <4>2. script.clean = 0
        BY <2>2, <3>1, <3>2, <4>1 DEF CleansOwn
      <4> QED
        BY <1>3, <1>9, <1>10, <2>4, <3>1, <3>2, <4>2 DEF CleansOwn, BarShown
    <3> QED
      BY <3>3, <3>4
  <2> QED
    BY <1>3, <2>3, <2>4
<1>16. HandledByOwn'
  <2>1. CASE own' = {}
    BY <2>1 DEF HandledByOwn
  <2>2. CASE own # {}
    BY <1>2, <1>8, <2>2 DEF HandledByOwn, Exempt
  <2>3. CASE own = {} /\ own' # {}
    <3>1. m.answer = "ok" /\ script.cur # m.id
      BY <1>3, <1>5, <1>6, <2>3 DEF Foreign
    <3>2. Exempt'
      <4>1. SUFFICES ASSUME ~Exempt PROVE Exempt'
        BY <1>8
      <4>2. confirmed[m.id] >= 1 /\ confirmed[m.id] \in Nat
        BY <1>2, <1>3, <3>1, <4>1 DEF FlowOK, WaitsForOwn
      <4>3. confirmed'[m.id] > 1
        BY <1>7, <3>1, <4>2
      <4> QED
        BY <1>3, <4>3 DEF Exempt
    <3> QED
      BY <3>2 DEF HandledByOwn, Exempt
  <2> QED
    BY <2>1, <2>2, <2>3
<1>17. (\E k \in DOMAIN wire' : wire'[k] = "error") => Exempt'
  BY <1>1, <1>2, <1>8
<1> QED
  BY <1>7, <1>12, <1>13, <1>14, <1>15, <1>16, <1>17 DEF PageIInv

\* The cleanup timer clears a session that was confirmed.
LEMMA CleanTimerOK == ASSUME PageIInv, CleanTimer PROVE PageIInv'
<1>1. UNCHANGED <<srv, journal, src, agent, asked, lost, gos, wire, posts, confirmed>> /\ script.clean > 0
  BY DEF CleanTimer, serverVars
<1>2. /\ PageTypes /\ WireTypes /\ FreshOK /\ (\A n \in posts : PostOK(n)) /\ CurrentOK /\ FlowOK /\ HandledByOwn
      /\ (\A i \in Ids : confirmed[i] > 0 => asked[i] # {})
      /\ ((\E k \in DOMAIN wire : wire[k] = "error") => Exempt)
      /\ script \in Scripts /\ posts \subseteq Posts /\ gos \in Nat /\ (script.cur # 0 => script.cur \in Ids)
  BY PageParts
<1>3. script.clean \in Nat /\ ~script.scout /\ store \in [saved : Sessions, handled : 0 .. MaxGos] /\ own \subseteq Ids
  BY <1>1, <1>2 DEF Scripts, CurrentOK, PageTypes
<1>4. PICK clean \in Nat : clean = script.clean - 1
  BY <1>1, <1>3
<1>5. script' = [script EXCEPT !.state = "PICKING", !.cur = 0, !.obs = 0, !.clean = clean]
  <2>1. Cleaned(script).clean = script.clean
    BY <1>2 DEF Cleaned, Scripts
  <2> QED
    BY <1>4, <2>1 DEF CleanTimer, Cleaned
<1>6. /\ script' \in Scripts /\ script'.state = "PICKING" /\ script'.cur = 0 /\ script'.obs = 0 /\ script'.clean = clean
      /\ script'.ready = script.ready /\ script'.scout = script.scout /\ script'.capture = script.capture
  <2>1. script \in Scripts
    BY <1>2
  <2>2. PICK state \in PageStates, zero \in 0 .. MaxGos : state = "PICKING" /\ zero = 0
    BY LiveBounds DEF PageStates
  <2>3. script' = [script EXCEPT !.state = state, !.cur = zero, !.obs = zero, !.clean = clean]
    BY <1>5, <2>2
  <2>4. /\ script' \in Scripts /\ script'.state = state /\ script'.cur = zero /\ script'.obs = zero /\ script'.clean = clean
        /\ script'.ready = script.ready /\ script'.scout = script.scout /\ script'.capture = script.capture
    BY <2>1, <2>3 DEF Scripts
  <2> QED
    BY <2>2, <2>4
<1>7. store' \in [saved : Sessions, handled : 0 .. MaxGos]
  <2>1. NoSession \in Sessions
    BY LiveBounds DEF NoSession, Sessions
  <2>2. store' = [store EXCEPT !.saved = NoSession]
    BY DEF CleanTimer
  <2> QED
    BY <1>3, <2>1, <2>2
<1>8. own' = (IF script.cur # 0 /\ confirmed[script.cur] = 0 THEN own \cup {script.cur} ELSE own)
  BY DEF CleanTimer
<1>9. PageTypes' /\ WireTypes'
  <2>1. own' \subseteq Ids
    BY <1>2, <1>3, <1>8
  <2> QED
    BY <1>1, <1>2, <1>6, <1>7, <2>1 DEF PageTypes, WireTypes
<1>10. Exempt' <=> Exempt
  BY <1>1 DEF Exempt
<1>11. FreshOK' /\ \A n \in posts' : PostOK(n)'
  <2>1. \A i \in Ids : (Idle(i)' <=> Idle(i)) /\ (Unsent(i)' => Unsent(i))
    BY <1>1, <1>6 DEF Idle, HoldsGenerate, Holds, Unsent
  <2>2. FreshOK'
    BY <1>1, <1>2, <1>6, <2>1 DEF FreshOK
  <2>3. \A n \in posts' : PostOK(n)'
    BY <1>1, <1>2 DEF PostOK, Seen
  <2> QED
    BY <2>2, <2>3
<1>12. CurrentOK'
  BY <1>1, <1>2, <1>3, <1>6 DEF CurrentOK, Seen
<1>13. FlowOK' /\ HandledByOwn'
  <2>1. CASE Exempt
    BY <1>10, <2>1 DEF FlowOK, HandledByOwn, Exempt
  <2>2. CASE ~Exempt
    <3>1. WaitsForOwn /\ script.clean = 1 /\ script.cur # 0 /\ confirmed[script.cur] >= 1
      BY <1>1, <1>2, <2>2 DEF FlowOK, CleansOwn
    <3>2. own' = own /\ script'.clean = 0
      BY <1>4, <1>6, <1>8, <3>1
    <3>3. WaitsForOwn'
      BY <1>1, <3>1 DEF WaitsForOwn
    <3>4. CleansOwn'
      BY <3>2 DEF CleansOwn
    <3>5. HandledByOwn'
      BY <1>1, <1>2, <3>2 DEF HandledByOwn
    <3> QED
      BY <3>3, <3>4, <3>5 DEF FlowOK
  <2> QED
    BY <2>1, <2>2
<1> QED
  BY <1>1, <1>2, <1>9, <1>10, <1>11, <1>12, <1>13 DEF PageIInv

-----------------------------------------------------------------------------
(* The theorem. *)

LEMMA PageStarts == LiveInit => PageIInv
<1> SUFFICES ASSUME LiveInit PROVE PageIInv
  OBVIOUS
<1>1. /\ posts = {} /\ wire = <<>> /\ gos = 0 /\ confirmed = [id \in Ids |-> 0] /\ own = {} /\ srv.pending = <<>>
      /\ src = [id \in Ids |-> [at |-> "absent", v |-> 0, once |-> FALSE]] /\ agent.at = "polling"
      /\ journal = [id \in Ids |-> [phase |-> "new", pending |-> NoEvent, rev |-> 0]]
      /\ store = [saved |-> NoSession, handled |-> 0]
  BY DEF LiveInit, ServerInit
<1>2. /\ script \in Scripts /\ script.cur = 0 /\ script.obs = 0 /\ ~script.ready /\ script.clean = 0 /\ script.capture = {}
      /\ script.state = "IDLE"
  <2>1. PICK no \in BOOLEAN, yes \in BOOLEAN : no = FALSE /\ yes = TRUE
    OBVIOUS
  <2>2. script = [token |-> 0, state |-> "IDLE", cur |-> 0, ready |-> no, seen |-> 0, closed |-> no,
          timer |-> no, capture |-> {}, clean |-> 0, obs |-> 0, scout |-> yes, rev |-> 0]
    BY <2>1 DEF LiveInit, Fresh
  <2>3. script \in Scripts
    BY <2>2, LiveBounds DEF Scripts, PageStates
  <2> QED
    BY <2>1, <2>2, <2>3
<1>3. PageTypes /\ WireTypes
  <2>1. NoSession \in Sessions
    BY LiveBounds DEF NoSession, Sessions
  <2> QED
    BY <1>1, <1>2, <2>1, LiveBounds DEF PageTypes, WireTypes
<1>4. \A id \in Ids : Idle(id)
  BY <1>1 DEF Idle, Has, HoldsGenerate, Holds, Steps, NoEvent
<1>5. FreshOK
  BY <1>1, <1>2, <1>4 DEF FreshOK
<1>6. CurrentOK /\ FlowOK /\ HandledByOwn
  BY <1>1, <1>2 DEF CurrentOK, FlowOK, WaitsForOwn, CleansOwn, HandledByOwn
<1> QED
  BY <1>1, <1>3, <1>5, <1>6 DEF PageIInv

LEMMA LiveStep == ASSUME ServerIInv, PageIInv, LiveNext PROVE ServerIInv' /\ PageIInv'
<1>1. srv \in Servers /\ src \in [Ids -> Sources] /\ QueueOK(srv.pending, asked, lost)
  BY DEF ServerIInv, ServerTypes
<1>2. CASE ServerNext /\ UNCHANGED <<script, store, dom, gos, confirmed, own>>
  BY <1>2, ServerSteps, ServerStepPage
<1>3. CASE ReloadPage \/ StreamOpens
  <2>1. PICK client \in BOOLEAN, exit \in BOOLEAN : srv' = [srv EXCEPT !.client = client, !.exit = exit]
    <3>1. srv.client \in BOOLEAN /\ srv.exit \in BOOLEAN /\ srv = [srv EXCEPT !.client = srv.client, !.exit = srv.exit]
      BY <1>1 DEF Servers
    <3>2. PICK no \in BOOLEAN, yes \in BOOLEAN : no = FALSE /\ yes = TRUE
      OBVIOUS
    <3>3. srv' = srv \/ srv' = [srv EXCEPT !.client = no, !.exit = yes] \/ srv' = [srv EXCEPT !.client = yes, !.exit = no]
      BY <1>3, <3>2 DEF ReloadPage, StreamOpens
    <3> QED
      BY <3>1, <3>2, <3>3
  <2>2. srv' \in Servers /\ SameServer /\ srv'.pending = srv.pending
    BY <1>1, <2>1 DEF Servers, SameServer
  <2>3. UNCHANGED <<journal, src, agent, asked, lost>>
    BY <1>3 DEF ReloadPage, StreamOpens, Steady
  <2>4. srv'.up \/ srv'.pending = <<>>
    BY <2>2 DEF ServerIInv, SameServer
  <2>5. ServerIInv'
    BY <1>1, <2>2, <2>3, <2>4, QueueStep
  <2> QED
    BY <1>1, <1>3, <2>5, ReloadPageOK, StreamOpensOK
<1>4. CASE \/ Hmr \/ ServerLost \/ Message \/ Pick \/ Escape \/ Go \/ Cycle \/ CheckpointTimer \/ Accept \/ Discard \/ CleanTimer
           \/ (\E id \in Ids : EmitGenerate(id)) \/ \E m \in posts : Answer(m)
  <2>1. UNCHANGED <<srv, journal, src, agent, asked, lost>>
    BY <1>4 DEF Hmr, ServerLost, Message, Pick, Escape, Go, Cycle, CheckpointTimer, Accept, Discard, CleanTimer, EmitGenerate, Answer,
       serverVars, Steady, Local
  <2>2. ServerIInv'
    BY <2>1, ServerStays
  <2>3. PageIInv'
    BY <1>1, <1>4, HmrOK, ServerLostOK, MessageOK, PickOK, GoOK, CycleOK, SendsOK, CleanTimerOK, EmitGenerateOK, AnswerHandled
  <2> QED
    BY <2>2, <2>3
<1> QED
  BY <1>2, <1>3, <1>4 DEF LiveNext

LEMMA LiveImplies == ASSUME ServerIInv, PageIInv PROVE LiveInv
<1>1. ASSUME NEW id \in Ids
      PROVE  SessionOK(id) /\ (Queued(id) <=> Waits(srv.pending, id))
  BY DEF ServerIInv, Queued, Waits, Has, IsOf, Requests
<1>2. SettledAsAsked
  BY <1>1 DEF SettledAsAsked, SessionOK, SourceOK, Early
<1>3. ConfirmedIsKept
  <2>1. ASSUME NEW id \in Ids, confirmed[id] > 0
        PROVE  \/ src[id].once \/ Queued(id)
               \/ ~srv.up /\ journal[id].pending.type \in Requests
               \/ lost[id] \cap {"agent", "early"} # {}
               \/ "overtaken" \in lost[id] /\ (srv.epoch > 0 \/ ~srv.up)
    <3>1. asked[id] # {}
      BY <2>1 DEF PageIInv
    <3>2. src[id].once \/ Undone(id)
      BY <3>1 DEF Undone
    <3> QED
      BY <1>1, <3>2 DEF SessionOK, KeptOK, Early
  <2> QED
    BY <2>1 DEF ConfirmedIsKept
<1>4. JournalAgrees
  <2>1. ASSUME NEW id \in Ids, srv.up
        PROVE  /\ journal[id].pending # NoEvent => \E i \in DOMAIN srv.pending : srv.pending[i].ev.id = id
               /\ Queued(id) /\ journal[id].pending = NoEvent =>
                    src[id].once \/ lost[id] \cap {"overtaken", "agent", "early"} # {}
    <3>1. AgreesOK(id)
      BY <1>1 DEF SessionOK
    <3> QED
      BY <1>1, <2>1, <3>1 DEF AgreesOK, Has, IsOf, Early
  <2> QED
    BY <2>1 DEF JournalAgrees
<1> QED
  BY <1>2, <1>3, <1>4 DEF LiveInv, PageIInv

\* At every moment, for every number of sessions, requests and failures: the source
\* is settled as a request asked and no settled session is generated again, what the
\* page saw confirmed was carried out or is queued or journaled, the journal and the
\* queue agree, and a session is handled on a request of its own, but for the losses
\* that LiveInv names (live-server.mjs, live-poll.mjs, live-browser.js).
THEOREM LiveInvariant == LiveSpec => []LiveInv
<1>1. LiveInit => ServerIInv /\ PageIInv
  BY ServerStarts1, PageStarts DEF LiveInit
<1>2. ServerIInv /\ PageIInv /\ [LiveNext]_liveVars => ServerIInv' /\ PageIInv'
  <2> SUFFICES ASSUME ServerIInv, PageIInv, [LiveNext]_liveVars PROVE ServerIInv' /\ PageIInv'
    OBVIOUS
  <2>1. CASE LiveNext
    BY <2>1, LiveStep
  <2>2. CASE UNCHANGED liveVars
    <3>1. UNCHANGED <<srv, journal, src, agent, asked, lost, posts, wire, script, store, gos, confirmed, own>>
      BY <2>2 DEF liveVars, serverVars
    <3>2. ServerIInv'
      BY <3>1, ServerStays
    <3>3. FlowOK' /\ CurrentOK'
      BY <3>1, PageParts DEF FlowOK, Exempt, WaitsForOwn, CleansOwn, BarShown, CurrentOK, Seen
    <3>4. PageIInv'
      BY <3>1, <3>3, PageParts, PageStands DEF PageTypes
    <3> QED
      BY <3>2, <3>4
  <2> QED
    BY <2>1, <2>2
<1>3. ServerIInv /\ PageIInv => LiveInv
  BY LiveImplies
<1> QED
  BY <1>1, <1>2, <1>3, PTL DEF LiveSpec

-----------------------------------------------------------------------------
(* The parameters of variants. *)

KnobKinds == {"range", "toggle", "steps", "odd", "none"}
KnobValues == {0, 1, 2, 5, 7, 9}
TunedScripts ==
  [phase : {"picking", "generating", "cycling", "saving"}, session : Nat, visible : 0 .. 2,
   values : KnobValues \cup {Unset}, open : BOOLEAN,
   controls : [of : 0 .. 2, at : Nat, reads : KnobValues \cup {Unset}]]
StyledPages == [value : [Pair -> KnobValues \cup {Unset}], at : Nat, shows : Pair]
TunedTypes ==
  /\ knobs \in [Pair -> KnobKinds]
  /\ tuned \in TunedScripts /\ styled \in StyledPages
  /\ tell \in [due : BOOLEAN, session : Nat, values : KnobValues \cup {Unset}]
  /\ wishes \in [Pair -> [value : KnobValues \cup {Unset}, lost : BOOLEAN]]

\* The controls were made for elements that are there, or that a hot reload took: then
\* the variant on the page has no value.
OnThePage(t, page, kinds) ==
  t.values # Unset =>
    /\ t.controls.of \in Pair /\ t.controls.at <= page.at
    /\ kinds[t.controls.of] = "toggle" => t.values \in {0, 1}
    /\ IF t.controls.at = page.at /\ t.controls.of = page.shows
       THEN page.value[page.shows] = t.values /\ t.controls.reads = ReadOf(kinds[page.shows], t.values)
       ELSE page.value[page.shows] = Unset /\ page.at > 0
SameVariant(t, page) == t.visible # page.shows => page.value[page.shows] = Unset /\ page.at > 0
WishesOK(t, w) == \A v \in Pair : w[v].value = Unset \/ w[v].lost \/ (v = t.controls.of => t.values = w[v].value)
Told(t, c, w) == ~c.due /\ c.session = t.session => c.values = t.values \/ \A v \in Pair : w[v].lost

TuningIInv ==
  /\ TunedTypes /\ AcceptIsOfThePage
  /\ tuned.phase \in {"cycling", "saving"} =>
       /\ tuned.visible \in Pair
       /\ OnThePage(tuned, styled, knobs) /\ SameVariant(tuned, styled) /\ WishesOK(tuned, wishes) /\ Told(tuned, tell, wishes)
  /\ tuned.open => tuned.phase \in {"cycling", "saving"} /\ tuned.values # Unset
  /\ chosen = NotChosen \/ (tuned.phase = "saving" /\ chosen.variant \in Pair)
  /\ tuned.phase = "generating" => /\ wishes = Untouched /\ tell.session = tuned.session /\ tuned.visible \in {0, 1}
                                   /\ tuned.session = 1 => tuned.values = Unset /\ tell.values = Unset
  /\ tuned.session = 0 => tuned.phase = "picking" /\ tuned.values = Unset

\* What the invariant says in one phase.
CyclingOK(t, page, c, w) ==
  /\ t.visible \in Pair /\ OnThePage(t, page, knobs) /\ SameVariant(t, page) /\ WishesOK(t, w) /\ Told(t, c, w)
ChosenOK(x, t, page) ==
  /\ x = NotChosen \/ (t.phase = "saving" /\ x.variant \in Pair)
  /\ x.variant # 0 =>
       /\ x.variant = x.shows
       /\ x.values # Unset => x.has = IF x.stale THEN Unset ELSE x.values
       /\ x.stale /\ x.values # Unset => page.at > 0
GeneratingOK(t, c, w) ==
  /\ t.phase = "generating" => /\ w = Untouched /\ c.session = t.session /\ t.visible \in {0, 1}
                               /\ t.session = 1 => t.values = Unset /\ c.values = Unset
  /\ t.session = 0 => t.phase = "picking" /\ t.values = Unset

LEMMA TuningParts ==
  TuningIInv <=>
    /\ TunedTypes /\ ChosenOK(chosen, tuned, styled) /\ GeneratingOK(tuned, tell, wishes)
    /\ tuned.phase \in {"cycling", "saving"} => CyclingOK(tuned, styled, tell, wishes)
    /\ tuned.open => tuned.phase \in {"cycling", "saving"} /\ tuned.values # Unset
BY DEF TuningIInv, ChosenOK, GeneratingOK, CyclingOK, AcceptIsOfThePage

LEMMA TuningStarts == TuningInit => TuningIInv
<1> SUFFICES ASSUME TuningInit PROVE TuningIInv
  OBVIOUS
<1>1. knobs \in [Pair -> KnobKinds]
  BY DEF TuningInit, Pair, KnobKinds
<1>2. TunedTypes
  BY <1>1 DEF TuningInit, TunedTypes, TunedScripts, StyledPages, KnobValues, Unset, NoControls, Bare, Untouched, Pair
<1> QED
  BY <1>2, TuningParts DEF TuningInit, ChosenOK, GeneratingOK, NotChosen

LEMMA BuiltAnew ==
  ASSUME TunedTypes, NEW t \in TunedScripts, NEW page \in StyledPages, ~NoParams(t)
  PROVE  /\ DefaultOf[knobs[t.visible]] \in KnobValues
         /\ Built(t, page) \in TunedScripts
         /\ Built(t, page).values = DefaultOf[knobs[t.visible]]
         /\ Built(t, page).controls.of = t.visible /\ Built(t, page).controls.at = page.at
         /\ Built(t, page).controls.reads = ReadOf(knobs[t.visible], DefaultOf[knobs[t.visible]])
         /\ Built(t, page).phase = t.phase /\ Built(t, page).session = t.session /\ Built(t, page).visible = t.visible
         /\ Built(t, page).open = t.open
         /\ DefaultOf[knobs[t.visible]] # Unset
         /\ knobs[t.visible] = "toggle" => DefaultOf[knobs[t.visible]] \in {0, 1}
         /\ t.visible \in Pair /\ t.phase = "cycling"
<1>1. t.visible \in Pair /\ knobs[t.visible] \in KnobKinds \ {"none"} /\ t.phase = "cycling"
  BY DEF NoParams, TunedTypes, TunedScripts, Pair
<1>2. DefaultOf[knobs[t.visible]] \in KnobValues /\ (knobs[t.visible] = "toggle" => DefaultOf[knobs[t.visible]] \in {0, 1})
  BY <1>1 DEF DefaultOf, KnobKinds, KnobValues
<1>3. ReadOf(knobs[t.visible], DefaultOf[knobs[t.visible]]) \in KnobValues
  BY <1>2 DEF ReadOf, KnobValues
<1>4. PICK c \in [of : 0 .. 2, at : Nat, reads : KnobValues \cup {Unset}] :
        c = [of |-> t.visible, at |-> page.at, reads |-> ReadOf(knobs[t.visible], DefaultOf[knobs[t.visible]])]
  <2>1. PICK at \in Nat, of \in 0 .. 2, reads \in KnobValues :
          at = page.at /\ of = t.visible /\ reads = ReadOf(knobs[t.visible], DefaultOf[knobs[t.visible]])
    BY <1>1, <1>3 DEF StyledPages, Pair
  <2>2. [of |-> of, at |-> at, reads |-> reads] \in [of : 0 .. 2, at : Nat, reads : KnobValues \cup {Unset}]
    OBVIOUS
  <2> QED
    BY <2>1, <2>2
<1>5. Built(t, page) = [t EXCEPT !.values = DefaultOf[knobs[t.visible]], !.controls = c]
  BY <1>4 DEF Built
<1> QED
  <2>1. PICK b : b = [t EXCEPT !.values = DefaultOf[knobs[t.visible]], !.controls = c]
    OBVIOUS
  <2>2. b \in TunedScripts /\ b.values = DefaultOf[knobs[t.visible]] /\ b.controls = c
    BY <1>2, <2>1 DEF TunedScripts
  <2>3. b.phase = t.phase /\ b.session = t.session /\ b.visible = t.visible /\ b.open = t.open
    BY <2>1 DEF TunedScripts
  <2>4. c.of = t.visible /\ c.at = page.at /\ c.reads = ReadOf(knobs[t.visible], DefaultOf[knobs[t.visible]])
    BY <1>4
  <2>5. DefaultOf[knobs[t.visible]] # Unset
    BY <1>2 DEF Unset, KnobValues
  <2> QED
    BY <1>1, <1>2, <1>5, <2>1, <2>2, <2>3, <2>4, <2>5

LEMMA AppliedTo ==
  ASSUME NEW page \in StyledPages, NEW v \in Pair, NEW value \in KnobValues
  PROVE  /\ Applied(page, v, value) \in StyledPages
         /\ Applied(page, v, value).at = page.at /\ Applied(page, v, value).shows = page.shows
         /\ \A w \in Pair : Applied(page, v, value).value[w] = IF w = v THEN value ELSE page.value[w]
BY DEF Applied, StyledPages

\* The controls are made anew for the variant that is shown, or the values go.
LEMMA Refreshed ==
  ASSUME TunedTypes, NEW t \in TunedScripts, NEW page \in StyledPages, Refresh(t, page), t.visible \in {0, page.shows}
  PROVE  /\ tuned' \in TunedScripts /\ styled' \in StyledPages
         /\ tuned'.phase = t.phase /\ tuned'.session = t.session /\ tuned'.visible = t.visible
         /\ styled'.at = page.at /\ styled'.shows = page.shows
         /\ t.visible # 0 => OnThePage(tuned', styled', knobs)
         /\ tuned'.open => t.phase = "cycling" /\ tuned'.values # Unset
         /\ t.phase # "cycling" => tuned'.values = Unset
<1>1. CASE NoParams(t)
  <2>1. tuned' = [t EXCEPT !.values = Unset, !.open = FALSE] /\ styled' = page
    BY <1>1 DEF Refresh
  <2> QED
    BY <1>1, <2>1 DEF TunedScripts, OnThePage
<1>2. CASE ~NoParams(t)
  <2>1. tuned' = Built(t, page) /\ styled' = Applied(page, t.visible, DefaultOf[knobs[t.visible]])
    BY <1>2 DEF Refresh
  <2>2. tuned' \in TunedScripts /\ styled' \in StyledPages
    BY <1>2, <2>1, BuiltAnew, AppliedTo
  <2>3. OnThePage(tuned', styled', knobs)
    <3>1. t.visible \in Pair /\ page.shows = t.visible /\ page.at \in Nat
      BY <1>2, BuiltAnew DEF StyledPages, Pair
    <3>2. /\ tuned'.values = DefaultOf[knobs[t.visible]] /\ tuned'.controls.of = t.visible /\ tuned'.controls.at = page.at
          /\ tuned'.controls.reads = ReadOf(knobs[t.visible], DefaultOf[knobs[t.visible]])
          /\ knobs[t.visible] = "toggle" => DefaultOf[knobs[t.visible]] \in {0, 1}
      BY <1>2, <2>1, BuiltAnew
    <3>3. styled'.at = page.at /\ styled'.shows = page.shows /\ styled'.value[t.visible] = DefaultOf[knobs[t.visible]]
      BY <1>2, <2>1, <3>1, BuiltAnew, AppliedTo
    <3> QED
      BY <3>1, <3>2, <3>3 DEF OnThePage
  <2> QED
    BY <1>2, <2>1, <2>2, <2>3, BuiltAnew, AppliedTo
<1> QED
  BY <1>1, <1>2

\* A page's hot reloads leave it bare.
LEMMA BarePage ==
  ASSUME NEW n \in Nat, NEW v \in Pair
  PROVE  /\ Bare \in StyledPages
         /\ [Bare EXCEPT !.at = n] \in StyledPages /\ [Bare EXCEPT !.at = n].at = n
         /\ \A w \in Pair : [Bare EXCEPT !.at = n].value[w] = Unset
         /\ [Bare EXCEPT !.at = n, !.shows = v] \in StyledPages /\ [Bare EXCEPT !.at = n, !.shows = v].shows = v
BY DEF Bare, StyledPages, Pair

LEMMA WishesReset ==
  ASSUME TunedTypes
  PROVE  ResetWishes \in [Pair -> [value : KnobValues \cup {Unset}, lost : BOOLEAN]] /\ \A v \in Pair : ResetWishes[v].lost
BY DEF TunedTypes, ResetWishes

LEMMA ShownOn == ASSUME NEW page \in StyledPages, NEW v \in Pair PROVE Shown(page, v) \in StyledPages /\ Shown(page, v).shows = v
BY DEF Shown, StyledPages

\* All but tuned and styled, which a refresh determines.
OthersTyped ==
  /\ knobs' = knobs /\ tell' \in [due : BOOLEAN, session : Nat, values : KnobValues \cup {Unset}]
  /\ wishes' \in [Pair -> [value : KnobValues \cup {Unset}, lost : BOOLEAN]]
LEMMA TypesStand ==
  ASSUME TunedTypes, OthersTyped, tuned' \in TunedScripts, styled' \in StyledPages
  PROVE  TunedTypes'
BY DEF TunedTypes, OthersTyped

\* A variant comes to be shown while cycling, and a checkpoint is due.
LEMMA RefreshedCycling ==
  ASSUME TuningIInv, NEW t \in TunedScripts, NEW page \in StyledPages, Refresh(t, page), t.visible = page.shows,
         t.phase = "cycling", t.session # 0, OthersTyped, tell'.due, chosen' = NotChosen,
         \A v \in Pair : wishes'[v].lost \/ wishes'[v].value = Unset
  PROVE  TuningIInv'
<1>1. /\ tuned' \in TunedScripts /\ styled' \in StyledPages
      /\ tuned'.phase = t.phase /\ tuned'.session = t.session /\ tuned'.visible = t.visible
      /\ styled'.shows = page.shows /\ OnThePage(tuned', styled', knobs) /\ (tuned'.open => tuned'.values # Unset)
  <2>1. t.visible # 0
    BY DEF StyledPages, Pair
  <2> QED
    BY <2>1, TuningParts, Refreshed
<1>2. knobs' = knobs /\ TunedTypes'
  BY <1>1, TuningParts, TypesStand DEF OthersTyped
<1>3. CyclingOK(tuned, styled, tell, wishes)'
  BY <1>1, <1>2 DEF CyclingOK, SameVariant, WishesOK, Told, StyledPages, OnThePage, OthersTyped
<1>4. ChosenOK(chosen, tuned, styled)' /\ GeneratingOK(tuned, tell, wishes)'
  BY <1>1 DEF ChosenOK, GeneratingOK, NotChosen
<1> QED
  BY <1>1, <1>2, <1>3, <1>4 DEF TuningIInv, ChosenOK, GeneratingOK, CyclingOK, AcceptIsOfThePage

Controls == [of : 0 .. 2, at : Nat, reads : KnobValues \cup {Unset}]
TunedPhases == {"picking", "generating", "cycling", "saving"}
LEMMA ScriptStarts ==
  ASSUME NEW t \in TunedScripts, NEW phase \in TunedPhases, NEW session \in Nat, NEW v \in 0 .. 2
  PROVE  [t EXCEPT !.phase = phase, !.session = session, !.visible = v] \in TunedScripts
BY DEF TunedScripts, TunedPhases
LEMMA ScriptShows ==
  ASSUME NEW t \in TunedScripts, NEW phase \in TunedPhases, NEW v \in 0 .. 2
  PROVE  [t EXCEPT !.phase = phase, !.visible = v] \in TunedScripts
BY DEF TunedScripts, TunedPhases
LEMMA ScriptEnters ==
  ASSUME NEW t \in TunedScripts, NEW phase \in TunedPhases, NEW open \in BOOLEAN
  PROVE  [t EXCEPT !.phase = phase] \in TunedScripts /\ [t EXCEPT !.phase = phase, !.open = open] \in TunedScripts
BY DEF TunedScripts, TunedPhases
LEMMA ScriptControls ==
  ASSUME NEW t \in TunedScripts, NEW phase \in TunedPhases, NEW open \in BOOLEAN, NEW c \in Controls
  PROVE  [t EXCEPT !.phase = phase, !.open = open, !.controls = c] \in TunedScripts
BY DEF TunedScripts, TunedPhases, Controls

LEMMA TuningPartsNext ==
  ASSUME TunedTypes', ChosenOK(chosen, tuned, styled)', GeneratingOK(tuned, tell, wishes)',
         tuned'.phase \in {"cycling", "saving"} => CyclingOK(tuned, styled, tell, wishes)',
         tuned'.open => tuned'.phase \in {"cycling", "saving"} /\ tuned'.values # Unset
  PROVE  TuningIInv'
BY DEF TuningIInv, ChosenOK, GeneratingOK, CyclingOK, AcceptIsOfThePage

LEMMA StartSessionOK == ASSUME TuningIInv, StartSession PROVE TuningIInv'
<1>1. PICK t \in TunedScripts : t = [tuned EXCEPT !.phase = "generating", !.session = tuned.session + 1, !.visible = 0]
  <2>1. tuned \in TunedScripts /\ tuned.session + 1 \in Nat /\ 0 \in 0 .. 2
    BY TuningParts DEF TunedTypes, TunedScripts
  <2>2. [tuned EXCEPT !.phase = "generating", !.session = tuned.session + 1, !.visible = 0] \in TunedScripts
    BY <2>1, ScriptStarts DEF TunedPhases
  <2> QED
    BY <2>2
<1>2. /\ tuned' = t /\ t.phase = "generating" /\ t.session = tuned.session + 1 /\ t.visible = 0 /\ t.values = tuned.values
      /\ t.open = tuned.open /\ tuned.session \in Nat /\ tuned.phase = "picking"
  BY <1>1, TuningParts DEF TunedTypes, TunedScripts, StartSession
<1>3. /\ tell' \in [due : BOOLEAN, session : Nat, values : KnobValues \cup {Unset}]
      /\ tell'.session = t.session /\ tell'.values = tuned.values
  BY <1>2, TuningParts DEF TunedTypes, TunedScripts, StartSession
<1>4. /\ styled' \in StyledPages /\ wishes' = Untouched /\ knobs' = knobs /\ chosen' = chosen
      /\ wishes' \in [Pair -> [value : KnobValues \cup {Unset}, lost : BOOLEAN]]
  <2>1. Untouched \in [Pair -> [value : KnobValues \cup {Unset}, lost : BOOLEAN]]
    BY DEF Untouched
  <2> QED
    BY <2>1, BarePage DEF StartSession, Pair
<1>5. TunedTypes'
  BY <1>1, <1>2, <1>3, <1>4, TuningParts, TypesStand DEF OthersTyped
<1>6. chosen' = NotChosen /\ ~tuned'.open
  BY <1>2, <1>4, TuningParts DEF ChosenOK
<1>7. GeneratingOK(tuned, tell, wishes)' /\ ChosenOK(chosen, tuned, styled)'
  BY <1>2, <1>3, <1>4, <1>6, TuningParts DEF GeneratingOK, ChosenOK, NotChosen
<1> QED
  BY <1>2, <1>5, <1>6, <1>7, TuningPartsNext

LEMMA FirstArrivesOK == ASSUME TuningIInv, FirstArrives PROVE TuningIInv'
<1>1. PICK t \in TunedScripts : t = [tuned EXCEPT !.visible = 1]
  <2>1. [tuned EXCEPT !.visible = 1] \in TunedScripts
    BY TuningParts DEF TunedTypes, TunedScripts
  <2> QED
    BY <2>1
<1>2. /\ t.phase = "generating" /\ t.session = tuned.session /\ t.visible = 1 /\ tuned.phase = "generating"
  BY <1>1, TuningParts DEF TunedTypes, TunedScripts, FirstArrives
<1>3. Shown(styled, 1) \in StyledPages /\ Shown(styled, 1).shows = 1
  BY TuningParts, ShownOn DEF TunedTypes, Pair
<1>4. Refresh(t, Shown(styled, 1))
  BY <1>1 DEF FirstArrives
<1>5. /\ tuned' \in TunedScripts /\ styled' \in StyledPages
      /\ tuned'.phase = "generating" /\ tuned'.session = tuned.session /\ tuned'.visible = 1
      /\ ~tuned'.open /\ tuned'.values = Unset
  BY <1>2, <1>3, <1>4, TuningParts, Refreshed
<1>6. /\ OthersTyped /\ wishes' = wishes /\ chosen' = chosen
      /\ tell'.session = tell.session /\ tell'.values = tell.values
  BY TuningParts DEF TunedTypes, OthersTyped, FirstArrives
<1>7. TunedTypes'
  BY <1>5, <1>6, TuningParts, TypesStand
<1>8. GeneratingOK(tuned, tell, wishes)' /\ ChosenOK(chosen, tuned, styled)'
  BY <1>2, <1>5, <1>6, TuningParts DEF GeneratingOK, ChosenOK, NotChosen
<1> QED
  BY <1>5, <1>7, <1>8, TuningPartsNext

LEMMA AllArriveOK == ASSUME TuningIInv, AllArrive PROVE TuningIInv'
<1>1. PICK v \in Pair : v = IF tuned.visible = 0 THEN 1 ELSE tuned.visible
  BY TuningParts DEF TunedTypes, TunedScripts, Pair
<1>2. PICK t \in TunedScripts : t = [tuned EXCEPT !.phase = "cycling", !.visible = v]
  <2>1. [tuned EXCEPT !.phase = "cycling", !.visible = v] \in TunedScripts
    <3>1. tuned \in TunedScripts /\ v \in 0 .. 2 /\ "cycling" \in TunedPhases
      BY TuningParts DEF TunedTypes, TunedPhases, Pair
    <3> QED
      BY <3>1, ScriptShows
  <2> QED
    BY <2>1
<1>3. t.phase = "cycling" /\ t.session = tuned.session /\ t.visible = v /\ tuned.phase = "generating" /\ t.session # 0
  BY <1>2, TuningParts DEF TunedTypes, TunedScripts, AllArrive, GeneratingOK
<1>4. Shown(styled, v) \in StyledPages /\ Shown(styled, v).shows = v
  BY TuningParts, ShownOn DEF TunedTypes
<1>5. Refresh(t, Shown(styled, v))
  BY <1>1, <1>2 DEF AllArrive
<1>6. OthersTyped /\ tell'.due /\ wishes' = wishes /\ chosen' = chosen
  BY TuningParts DEF TunedTypes, OthersTyped, AllArrive
<1>7. chosen' = NotChosen /\ \A w \in Pair : wishes'[w].value = Unset
  BY <1>3, <1>6, TuningParts DEF ChosenOK, GeneratingOK, Untouched
<1> QED
  BY <1>3, <1>4, <1>5, <1>6, <1>7, RefreshedCycling

LEMMA StepToOK == ASSUME TuningIInv, NEW v \in Pair, StepTo(v) PROVE TuningIInv'
<1>1. PICK t \in TunedScripts : t = [tuned EXCEPT !.visible = v]
  <2>1. [tuned EXCEPT !.visible = v] \in TunedScripts
    BY TuningParts DEF TunedTypes, TunedScripts, Pair
  <2> QED
    BY <2>1
<1>2. t.phase = "cycling" /\ t.visible = v /\ tuned.phase = "cycling" /\ t.session # 0
  BY <1>1, TuningParts DEF TunedTypes, TunedScripts, StepTo, GeneratingOK
<1>3. Shown(styled, v) \in StyledPages /\ Shown(styled, v).shows = v
  BY TuningParts, ShownOn DEF TunedTypes
<1>4. Refresh(t, Shown(styled, v)) /\ wishes' = ResetWishes /\ chosen' = chosen
  BY <1>1 DEF StepTo
<1>5. OthersTyped /\ tell'.due
  BY <1>4, TuningParts, WishesReset DEF TunedTypes, OthersTyped, StepTo
<1>6. chosen' = NotChosen
  BY <1>2, <1>4, TuningParts DEF ChosenOK
<1> QED
  BY <1>2, <1>3, <1>4, <1>5, <1>6, TuningParts, WishesReset, RefreshedCycling

LEMMA ReloadTunedOK == ASSUME TuningIInv, ReloadTuned PROVE TuningIInv'
<1>1. PICK c : c = NoControls /\ c \in [of : 0 .. 2, at : Nat, reads : KnobValues \cup {Unset}]
  <2>1. NoControls \in [of : 0 .. 2, at : Nat, reads : KnobValues \cup {Unset}]
    BY DEF NoControls
  <2> QED
    BY <2>1
<1>2. PICK t \in TunedScripts : t = [tuned EXCEPT !.phase = "cycling", !.open = FALSE, !.controls = c]
  <2>1. [tuned EXCEPT !.phase = "cycling", !.open = FALSE, !.controls = c] \in TunedScripts
    BY <1>1, TuningParts, ScriptControls DEF TunedTypes, TunedPhases, Controls
  <2> QED
    BY <2>1
<1>3. t.phase = "cycling" /\ t.visible = tuned.visible /\ tuned.visible \in Pair /\ t.session # 0
  BY <1>2, TuningParts DEF TunedTypes, TunedScripts, ReloadTuned, GeneratingOK, CyclingOK
<1>4. PICK page \in StyledPages : page = [Bare EXCEPT !.at = styled.at + 1, !.shows = tuned.visible] /\ page.shows = tuned.visible
  <2>1. styled.at + 1 \in Nat
    BY TuningParts DEF TunedTypes, StyledPages
  <2>2. PICK n \in Nat, v \in Pair : n = styled.at + 1 /\ v = tuned.visible
    BY <1>3, <2>1
  <2>3. [Bare EXCEPT !.at = n, !.shows = v] \in StyledPages /\ [Bare EXCEPT !.at = n, !.shows = v].shows = v
    BY BarePage
  <2> QED
    BY <2>2, <2>3
<1>5. Refresh(t, page) /\ wishes' = ResetWishes /\ chosen' = NotChosen
  BY <1>1, <1>2, <1>4 DEF ReloadTuned
<1>6. OthersTyped /\ tell'.due
  BY <1>5, TuningParts, WishesReset DEF TunedTypes, OthersTyped, ReloadTuned
<1> QED
  BY <1>3, <1>4, <1>5, <1>6, TuningParts, WishesReset, RefreshedCycling

LEMMA OpenTuneOK == ASSUME TuningIInv, OpenTune PROVE TuningIInv'
<1>1. tuned \in TunedScripts /\ styled \in StyledPages /\ ~NoParams(tuned) /\ TunedTypes
  BY TuningParts DEF TunedTypes, OpenTune
<1>2. PICK b \in TunedScripts : b = Built(tuned, styled)
  BY <1>1, BuiltAnew
<1>3. /\ b.values = DefaultOf[knobs[tuned.visible]] /\ b.controls.of = tuned.visible /\ b.controls.at = styled.at
      /\ b.controls.reads = ReadOf(knobs[tuned.visible], b.values) /\ b.values # Unset /\ b.values \in KnobValues
      /\ (knobs[tuned.visible] = "toggle" => b.values \in {0, 1})
      /\ b.phase = "cycling" /\ tuned.phase = "cycling" /\ b.session = tuned.session /\ b.visible = tuned.visible /\ tuned.visible \in Pair
  BY <1>1, <1>2, BuiltAnew
<1>4. /\ tuned' \in TunedScripts /\ tuned'.phase = b.phase /\ tuned'.session = b.session /\ tuned'.visible = b.visible
      /\ tuned'.values = b.values /\ tuned'.controls = b.controls
  <2>1. tuned' = [b EXCEPT !.open = TRUE]
    BY <1>2 DEF OpenTune
  <2> QED
    BY <2>1 DEF TunedScripts
<1>5. /\ styled' \in StyledPages /\ styled'.at = styled.at /\ styled'.shows = styled.shows
      /\ \A w \in Pair : styled'.value[w] = IF w = tuned.visible THEN b.values ELSE styled.value[w]
  BY <1>1, <1>3, AppliedTo DEF OpenTune
<1>6. /\ OthersTyped /\ tell' = tell /\ chosen' = chosen /\ knobs' = knobs /\ \A w \in Pair : wishes'[w].lost
  BY <1>1, WishesReset DEF OthersTyped, OpenTune, TunedTypes
<1>7. TunedTypes'
  BY <1>1, <1>4, <1>5, <1>6, TypesStand
<1>8. SameVariant(tuned, styled) /\ styled.shows \in Pair /\ styled.at \in Nat /\ tuned.session # 0
  BY <1>1, <1>3, TuningParts DEF CyclingOK, StyledPages, GeneratingOK
<1>9. OnThePage(tuned', styled', knobs')
  BY <1>3, <1>4, <1>5, <1>6, <1>8 DEF OnThePage, SameVariant
<1>10. SameVariant(tuned', styled')
  BY <1>3, <1>4, <1>5, <1>8 DEF SameVariant
<1>11. CyclingOK(tuned, styled, tell, wishes)'
  BY <1>3, <1>4, <1>6, <1>9, <1>10 DEF CyclingOK, WishesOK, Told
<1>12. ChosenOK(chosen, tuned, styled)' /\ GeneratingOK(tuned, tell, wishes)'
  BY <1>3, <1>4, <1>6, <1>8, TuningParts DEF ChosenOK, GeneratingOK, NotChosen
<1> QED
  BY <1>3, <1>4, <1>7, <1>11, <1>12, TuningPartsNext

\* What is kept while only the popover closes or a checkpoint is told.
LEMMA CloseTuneOK == ASSUME TuningIInv, CloseTune PROVE TuningIInv'
<1>1. tuned \in TunedScripts /\ tuned' = [tuned EXCEPT !.open = FALSE] /\ UNCHANGED <<knobs, styled, tell, chosen, wishes>>
  BY TuningParts DEF TunedTypes, CloseTune
<1>2. /\ tuned' \in TunedScripts /\ tuned'.phase = tuned.phase /\ tuned'.session = tuned.session /\ tuned'.visible = tuned.visible
      /\ tuned'.values = tuned.values /\ tuned'.controls = tuned.controls /\ ~tuned'.open
  BY <1>1 DEF TunedScripts
<1>3. TunedTypes'
  BY <1>1, <1>2, TuningParts DEF TunedTypes
<1>4. tuned'.phase \in {"cycling", "saving"} => CyclingOK(tuned, styled, tell, wishes)'
  BY <1>1, <1>2, TuningParts DEF CyclingOK, OnThePage, SameVariant, WishesOK, Told
<1>5. ChosenOK(chosen, tuned, styled)' /\ GeneratingOK(tuned, tell, wishes)'
  BY <1>1, <1>2, TuningParts DEF ChosenOK, GeneratingOK
<1> QED
  BY <1>2, <1>3, <1>4, <1>5, TuningPartsNext

LEMMA TellValuesOK == ASSUME TuningIInv, TellValues PROVE TuningIInv'
<1>1. UNCHANGED <<knobs, tuned, styled, chosen, wishes>> /\ tuned \in TunedScripts
  BY TuningParts DEF TellValues, TunedTypes
<1>2. /\ tell' \in [due : BOOLEAN, session : Nat, values : KnobValues \cup {Unset}]
      /\ tuned.phase # "picking" => tell'.session = tuned.session /\ tell'.values = tuned.values
  BY TuningParts DEF TellValues, TunedTypes, TunedScripts
<1>3. TunedTypes'
  BY <1>1, <1>2, TuningParts DEF TunedTypes
<1>4. tuned'.phase \in {"cycling", "saving"} => CyclingOK(tuned, styled, tell, wishes)'
  BY <1>1, <1>2, TuningParts DEF CyclingOK, Told
<1>5. ChosenOK(chosen, tuned, styled)' /\ GeneratingOK(tuned, tell, wishes)'
  BY <1>1, <1>2, TuningParts DEF ChosenOK, GeneratingOK
<1> QED
  BY <1>1, <1>3, <1>4, <1>5, TuningParts, TuningPartsNext

LEMMA HotReplaceOK == ASSUME TuningIInv, HotReplace PROVE TuningIInv'
<1>1. /\ UNCHANGED <<knobs, tuned, tell, chosen, wishes>> /\ tuned \in TunedScripts
      /\ styled.at \in Nat /\ tuned.phase \in {"cycling", "saving"}
  BY TuningParts DEF HotReplace, TunedTypes, StyledPages
<1>2. /\ styled' \in StyledPages /\ styled'.at = styled.at + 1 /\ (\A w \in Pair : styled'.value[w] = Unset) /\ styled'.shows \in Pair
  <2>1. PICK n \in Nat, v \in Pair : n = styled.at + 1
    BY <1>1 DEF Pair
  <2>2. styled' = [Bare EXCEPT !.at = n]
    BY <2>1 DEF HotReplace
  <2> QED
    BY <2>1, <2>2, BarePage DEF StyledPages
<1>3. TunedTypes'
  BY <1>1, <1>2, TuningParts DEF TunedTypes
<1>4. tuned.controls.at \in Nat
  BY <1>1 DEF TunedScripts
<1>5. CyclingOK(tuned, styled, tell, wishes)'
  BY <1>1, <1>2, <1>4, TuningParts DEF CyclingOK, OnThePage, SameVariant, WishesOK, Told
<1>6. ChosenOK(chosen, tuned, styled)' /\ GeneratingOK(tuned, tell, wishes)'
  BY <1>1, <1>2, TuningParts DEF ChosenOK, GeneratingOK
<1> QED
  BY <1>1, <1>3, <1>5, <1>6, TuningParts, TuningPartsNext

LEMMA AcceptTunedOK == ASSUME TuningIInv, AcceptTuned PROVE TuningIInv'
<1>1. UNCHANGED <<knobs, styled, tell, wishes>> /\ tuned \in TunedScripts /\ styled \in StyledPages /\ tuned.phase = "cycling"
  BY TuningParts DEF AcceptTuned, TunedTypes
<1>2. /\ tuned' \in TunedScripts /\ tuned'.phase = "saving" /\ tuned'.session = tuned.session /\ tuned'.visible = styled.shows
      /\ tuned'.values = tuned.values /\ tuned'.controls = tuned.controls /\ tuned'.open = tuned.open /\ styled.shows \in Pair
  <2>1. tuned' = [tuned EXCEPT !.phase = "saving", !.visible = styled.shows] /\ styled.shows \in 0 .. 2 /\ styled.shows \in Pair
    BY <1>1 DEF AcceptTuned, VariantInPage, StyledPages, Pair
  <2> QED
    BY <1>1, <2>1, ScriptShows DEF TunedPhases, TunedScripts
<1>3. TunedTypes'
  BY <1>1, <1>2, TuningParts DEF TunedTypes
<1>4. CyclingOK(tuned, styled, tell, wishes)'
  BY <1>1, <1>2, TuningParts DEF CyclingOK, OnThePage, SameVariant, WishesOK, Told
<1>5. OnThePage(tuned, styled, knobs)
  BY <1>1, TuningParts DEF CyclingOK
<1>6. ChosenOK(chosen, tuned, styled)'
  <2>1. /\ chosen'.variant = styled.shows /\ chosen'.values = tuned.values /\ chosen'.shows = styled.shows
        /\ chosen'.has = styled.value[styled.shows] /\ (chosen'.stale <=> ~Matched)
    BY DEF AcceptTuned, VariantInPage
  <2> QED
    BY <1>1, <1>2, <1>5, <2>1 DEF ChosenOK, OnThePage, Matched
<1>7. GeneratingOK(tuned, tell, wishes)'
  BY <1>1, <1>2, TuningParts DEF GeneratingOK
<1> QED
  BY <1>1, <1>2, <1>3, <1>4, <1>6, <1>7, TuningParts, TuningPartsNext

LEMMA AcceptFailsOK == ASSUME TuningIInv, AcceptFails PROVE TuningIInv'
<1>1. /\ UNCHANGED <<knobs, styled, tell, wishes>> /\ tuned \in TunedScripts /\ styled \in StyledPages /\ tuned.phase = "saving"
      /\ chosen' = NotChosen
  BY TuningParts DEF AcceptFails, TunedTypes
<1>2. /\ tuned' \in TunedScripts /\ tuned'.phase = "cycling" /\ tuned'.session = tuned.session /\ tuned'.visible = tuned.visible
      /\ tuned'.values = tuned.values /\ tuned'.controls = tuned.controls /\ tuned'.open = tuned.open
  BY <1>1 DEF AcceptFails, TunedScripts
<1>3. TunedTypes'
  BY <1>1, <1>2, TuningParts DEF TunedTypes
<1>4. CyclingOK(tuned, styled, tell, wishes)'
  BY <1>1, <1>2, TuningParts DEF CyclingOK, OnThePage, SameVariant, WishesOK, Told
<1>5. ChosenOK(chosen, tuned, styled)' /\ GeneratingOK(tuned, tell, wishes)'
  BY <1>1, <1>2, TuningParts DEF ChosenOK, GeneratingOK, NotChosen
<1> QED
  BY <1>1, <1>2, <1>3, <1>4, <1>5, TuningParts, TuningPartsNext

LEMMA EndSessionOK == ASSUME TuningIInv, EndSession PROVE TuningIInv'
<1>1. /\ UNCHANGED <<knobs, tell, wishes>> /\ tuned \in TunedScripts /\ chosen' = NotChosen
      /\ tuned.phase \in {"saving", "cycling"}
  BY TuningParts DEF EndSession, TunedTypes
<1>2. /\ tuned' \in TunedScripts /\ tuned'.phase = "picking" /\ tuned'.session = tuned.session /\ tuned'.values = tuned.values
      /\ ~tuned'.open
  BY <1>1 DEF EndSession, TunedScripts
<1>3. styled' \in StyledPages
  BY BarePage DEF EndSession, Pair
<1>4. TunedTypes'
  BY <1>1, <1>2, <1>3, TuningParts DEF TunedTypes
<1>5. ChosenOK(chosen, tuned, styled)' /\ GeneratingOK(tuned, tell, wishes)'
  BY <1>1, <1>2, TuningParts DEF ChosenOK, GeneratingOK, NotChosen
<1> QED
  BY <1>2, <1>4, <1>5, TuningPartsNext

LEMMA SetKnobOK == ASSUME TuningIInv, SetKnob PROVE TuningIInv'
<1>1. /\ tuned \in TunedScripts /\ styled \in StyledPages /\ tuned.open /\ tuned.phase \in {"cycling", "saving"} /\ tuned.values # Unset
      /\ UNCHANGED <<knobs, chosen>> /\ tell' = [tell EXCEPT !.due = TRUE]
      /\ CyclingOK(tuned, styled, tell, wishes)
  BY TuningParts DEF SetKnob, TunedTypes
<1>2. /\ tuned.controls.of \in Pair /\ knobs[tuned.controls.of] \in KnobKinds
      /\ tuned.controls \in Controls
      /\ (knobs[tuned.controls.of] = "toggle" => tuned.values \in {0, 1})
  BY <1>1, TuningParts DEF CyclingOK, OnThePage, TunedTypes, TunedScripts, Controls
<1>3. PICK value \in Settable(knobs[tuned.controls.of], tuned.values) :
        /\ tuned' = [tuned EXCEPT !.values = value, !.controls.reads = value]
        /\ styled' = IF tuned.controls.at = styled.at THEN Applied(styled, tuned.controls.of, value) ELSE styled
        /\ wishes' = [wishes EXCEPT ![tuned.controls.of] = [value |-> value, lost |-> FALSE]]
  BY <1>1 DEF SetKnob
<1>4. /\ value \in KnobValues /\ value # Unset
      /\ (knobs[tuned.controls.of] = "toggle" => value \in {0, 1}) /\ ReadOf(knobs[tuned.controls.of], value) = value
  BY <1>2, <1>3 DEF Settable, KnobKinds, KnobValues, ReadOf, Unset
<1>5. /\ tuned' \in TunedScripts /\ tuned'.phase = tuned.phase /\ tuned'.session = tuned.session /\ tuned'.visible = tuned.visible
      /\ tuned'.values = value /\ tuned'.open = tuned.open
      /\ tuned'.controls.of = tuned.controls.of /\ tuned'.controls.at = tuned.controls.at /\ tuned'.controls.reads = value
  <2>1. PICK c : c = [tuned.controls EXCEPT !.reads = value]
    OBVIOUS
  <2>2. c \in Controls /\ c.of = tuned.controls.of /\ c.at = tuned.controls.at /\ c.reads = value
    BY <1>2, <1>4, <2>1 DEF Controls
  <2>3. tuned' = [tuned EXCEPT !.values = value, !.controls = c]
    BY <1>3, <2>1
  <2> QED
    BY <1>1, <1>4, <2>2, <2>3 DEF TunedScripts, Controls
<1>6. /\ styled' \in StyledPages /\ styled'.at = styled.at /\ styled'.shows = styled.shows /\ styled.shows \in Pair
      /\ tuned.controls.at # styled.at \/ tuned.controls.of # styled.shows => styled'.value[styled.shows] = styled.value[styled.shows]
      /\ tuned.controls.at = styled.at /\ tuned.controls.of = styled.shows => styled'.value[styled.shows] = value
  <2>1. styled.shows \in Pair
    BY <1>1 DEF StyledPages
  <2>2. CASE tuned.controls.at = styled.at
    BY <1>1, <1>2, <1>3, <1>4, <2>1, <2>2, AppliedTo
  <2>3. CASE tuned.controls.at # styled.at
    BY <1>1, <1>3, <2>1, <2>3
  <2> QED
    BY <2>2, <2>3
<1>7. /\ wishes' \in [Pair -> [value : KnobValues \cup {Unset}, lost : BOOLEAN]]
      /\ wishes'[tuned.controls.of].value = value
      /\ \A v \in Pair : v # tuned.controls.of => wishes'[v] = wishes[v]
  <2>1. PICK w \in [value : KnobValues \cup {Unset}, lost : BOOLEAN] : w = [value |-> value, lost |-> FALSE] /\ w.value = value
    <3>1. [value |-> value, lost |-> FALSE] \in [value : KnobValues \cup {Unset}, lost : BOOLEAN]
      BY <1>4
    <3> QED
      BY <3>1
  <2> QED
    BY <1>2, <1>3, <2>1, TuningParts DEF TunedTypes
<1>8. OthersTyped /\ tell'.due /\ tell'.session = tell.session
  BY <1>1, <1>7, TuningParts DEF OthersTyped, TunedTypes
<1>9. TunedTypes' /\ knobs' = knobs
  BY <1>1, <1>5, <1>6, <1>8, TuningParts, TypesStand
<1>10. OnThePage(tuned', styled', knobs')
  BY <1>1, <1>2, <1>4, <1>5, <1>6, <1>9 DEF OnThePage, CyclingOK
<1>11. SameVariant(tuned', styled')
  BY <1>1, <1>5, <1>6 DEF OnThePage, CyclingOK, SameVariant
<1>12. WishesOK(tuned', wishes')
  <2> SUFFICES ASSUME NEW v \in Pair PROVE wishes'[v].value = Unset \/ wishes'[v].lost \/ (v = tuned'.controls.of => tuned'.values = wishes'[v].value)
    BY DEF WishesOK
  <2> QED
    BY <1>5, <1>7
<1>13. CyclingOK(tuned, styled, tell, wishes)'
  BY <1>1, <1>5, <1>8, <1>10, <1>11, <1>12 DEF CyclingOK, Told
<1>14. ChosenOK(chosen, tuned, styled)' /\ GeneratingOK(tuned, tell, wishes)'
  BY <1>1, <1>5, <1>6, TuningParts DEF ChosenOK, GeneratingOK
<1> QED
  BY <1>1, <1>4, <1>5, <1>9, <1>13, <1>14, TuningPartsNext

LEMMA TuningImplied == TuningIInv => TuningInv
<1> SUFFICES ASSUME TuningIInv PROVE TuningInv
  OBVIOUS
<1>1. styled.shows \in Pair /\ tuned.visible \in 0 .. 2
  BY TuningParts DEF TunedTypes, TunedScripts, StyledPages
<1>2. AcceptIsOfThePage
  BY DEF TuningIInv
<1>3. ControlsAreOfThePage
  BY <1>1, TuningParts DEF ControlsAreOfThePage, CyclingOK, OnThePage, Matched
<1>4. SettingLasts
  BY <1>1, TuningParts DEF SettingLasts, CyclingOK, WishesOK
<1>5. CheckpointIsOfSession
  BY <1>1, TuningParts DEF CheckpointIsOfSession, CyclingOK, Told, GeneratingOK
<1> QED
  BY <1>2, <1>3, <1>4, <1>5 DEF TuningInv

\* However a popover is opened and set, and a page reloaded under it: an accept names the
\* variant on the page with the values it has, unless a hot reload took them; what the
\* user set lasts until a reset; and a checkpoint tells the values of its session.
THEOREM TuningInvariant == TuningSpec => []TuningInv
<1>1. TuningIInv /\ [TuningNext]_tuningVars => TuningIInv'
  <2>1. TuningIInv /\ TuningNext => TuningIInv'
    BY StartSessionOK, FirstArrivesOK, AllArriveOK, OpenTuneOK, CloseTuneOK, SetKnobOK, TellValuesOK, HotReplaceOK,
       ReloadTunedOK, AcceptTunedOK, AcceptFailsOK, EndSessionOK, StepToOK DEF TuningNext
  <2>2. TuningIInv /\ UNCHANGED tuningVars => TuningIInv'
    BY DEF tuningVars, TuningIInv, TunedTypes, AcceptIsOfThePage, OnThePage, SameVariant, WishesOK, Told
  <2> QED
    BY <2>1, <2>2
<1> QED
  BY <1>1, TuningStarts, TuningImplied, PTL DEF TuningSpec

-----------------------------------------------------------------------------
(* Pins. *)

PinType == [who : Nat, text : BOOLEAN]
PinsOK(list, made) ==
  /\ list \in Seq(PinType)
  /\ \A i \in DOMAIN list : list[i].who <= made
  /\ \A i, k \in DOMAIN list : i < k => list[i].who < list[k].who
EditorTypes == [at : Nat, who : Nat, text : BOOLEAN, had : BOOLEAN]
HandTypes == [kind : {"none", "pin", "new"}, at : Nat, who : Nat, moved : BOOLEAN, shifted : BOOLEAN]
PressTypes == [at : Nat, recent : BOOLEAN, who : Nat, since : Nat]
DeletionTypes == [first : Nat, second : Nat, apart : BOOLEAN]
DeedTypes == [presses : Nat, made : Nat, slipped : BOOLEAN, removed : Nat, deleted : DeletionTypes]
NoteTypes ==
  /\ note \in EditorTypes /\ hand \in HandTypes /\ press \in PressTypes /\ deeds \in DeedTypes
  /\ strokes \in Nat /\ carried \in Seq(PinType)
PressOK(p, list, removed) ==
  /\ p.since <= removed /\ (p.recent => p.at # 0)
  /\ p.at # 0 /\ p.since = removed => p.at \in DOMAIN list /\ list[p.at].who = p.who
AnnotationsIInv ==
  /\ NoteTypes /\ PinsOK(pins, deeds.made) /\ AnnotationsInv
  /\ hand # NoHand => note = NoNote
  /\ (hand.kind = "none" <=> hand = NoHand)
  /\ note # NoNote => note.at # 0
  /\ PressOK(press, pins, deeds.removed)

\* What committing an editor may do to a list: rewrite a text, or remove a pin.
Rewritten(list, r) == Len(r) = Len(list) /\ \A k \in 1 .. Len(list) : r[k].who = list[k].who
WithoutPin(list, r, j) ==
  j \in DOMAIN list /\ Len(r) = Len(list) - 1 /\ \A k \in 1 .. Len(r) : r[k] = IF k < j THEN list[k] ELSE list[k + 1]
Slimmer(list, r) == r \in Seq(PinType) /\ (Rewritten(list, r) \/ \E j \in Nat : WithoutPin(list, r, j))
TextsOK(list, at) == \A i \in DOMAIN list : ~list[i].text => i = at

LEMMA PinRemoved ==
  ASSUME NEW list \in Seq(PinType), NEW j \in DOMAIN list, NEW r, r = RemoveAt(list, j)
  PROVE  r \in Seq(PinType) /\ WithoutPin(list, r, j)
<1>1. Len(list) \in Nat /\ j \in 1 .. Len(list) /\ j - 1 \in Nat
  OBVIOUS
<1>2. PICK a, b : a = SubSeq(list, 1, j - 1) /\ b = SubSeq(list, j + 1, Len(list))
  OBVIOUS
<1>3. a \in Seq(PinType) /\ Len(a) = j - 1 /\ \A k \in 1 .. j - 1 : a[k] = list[k]
  BY <1>1, <1>2
<1>4. b \in Seq(PinType) /\ Len(b) = Len(list) - j /\ \A k \in 1 .. Len(list) - j : b[k] = list[k + j]
  BY <1>1, <1>2
<1>5. r = a \o b
  BY <1>2 DEF RemoveAt
<1>6. r \in Seq(PinType) /\ Len(r) = Len(list) - 1 /\ DOMAIN r = 1 .. Len(list) - 1
  BY <1>1, <1>3, <1>4, <1>5
<1>7. ASSUME NEW k \in 1 .. Len(r) PROVE r[k] = IF k < j THEN list[k] ELSE list[k + 1]
  <2>1. CASE k < j
    BY <1>1, <1>3, <1>4, <1>5, <1>6, <2>1
  <2>2. CASE ~(k < j)
    <3>1. r[k] = b[k - (j - 1)] /\ k - (j - 1) \in 1 .. Len(list) - j
      BY <1>1, <1>3, <1>4, <1>5, <1>6, <2>2
    <3>2. b[k - (j - 1)] = list[k - (j - 1) + j] /\ k - (j - 1) + j = k + 1
      BY <1>1, <1>4, <1>6, <3>1
    <3> QED
      BY <2>2, <3>1, <3>2
  <2> QED
    BY <2>1, <2>2
<1> QED
  BY <1>6, <1>7 DEF WithoutPin

LEMMA SlimmerPins ==
  ASSUME NEW made, NEW list, PinsOK(list, made), NEW r, Slimmer(list, r)
  PROVE  PinsOK(r, made) /\ (Len(r) = Len(list) \/ Len(r) < Len(list)) /\ Len(r) \in Nat /\ Len(list) \in Nat
<1>1. list \in Seq(PinType) /\ r \in Seq(PinType) /\ Len(list) \in Nat /\ Len(r) \in Nat /\ DOMAIN list = 1 .. Len(list) /\ DOMAIN r = 1 .. Len(r)
  BY DEF PinsOK, Slimmer
<1>2. CASE Rewritten(list, r)
  BY <1>1, <1>2 DEF Rewritten, PinsOK
<1>3. ASSUME NEW j \in Nat, WithoutPin(list, r, j) PROVE PinsOK(r, made) /\ Len(r) < Len(list)
  <2>1. \A k \in DOMAIN r : \E i \in DOMAIN list : r[k] = list[i] /\ i = IF k < j THEN k ELSE k + 1
    BY <1>1, <1>3 DEF WithoutPin
  <2>2. ASSUME NEW k \in DOMAIN r PROVE r[k].who <= made
    BY <2>1 DEF PinsOK
  <2>3. ASSUME NEW k \in DOMAIN r, NEW l \in DOMAIN r, k < l PROVE r[k].who < r[l].who
    <3>1. PICK i \in DOMAIN list : r[k] = list[i] /\ i = IF k < j THEN k ELSE k + 1
      BY <2>1
    <3>2. PICK n \in DOMAIN list : r[l] = list[n] /\ n = IF l < j THEN l ELSE l + 1
      BY <2>1
    <3>3. i < n
      BY <1>1, <2>3, <3>1, <3>2
    <3> QED
      BY <3>1, <3>2, <3>3 DEF PinsOK
  <2> QED
    BY <1>1, <1>3, <2>2, <2>3 DEF PinsOK, WithoutPin
<1> QED
  BY <1>1, <1>2, <1>3 DEF Slimmer

\* A press is forgotten when the list loses a pin.
LEMMA PressStands ==
  ASSUME NEW made, NEW list, PinsOK(list, made), NEW r, Slimmer(list, r), NEW removed \in Nat,
         NEW p, p.since \in Nat, p.at \in Nat, PressOK(p, list, removed)
  PROVE  removed + Len(list) - Len(r) \in Nat /\ PressOK(p, r, removed + Len(list) - Len(r))
<1>1. PinsOK(r, made) /\ Len(r) \in Nat /\ Len(list) \in Nat /\ DOMAIN list = 1 .. Len(list) /\ DOMAIN r = 1 .. Len(r)
  <2>1. PinsOK(r, made) /\ (Len(r) = Len(list) \/ Len(r) < Len(list)) /\ Len(r) \in Nat /\ Len(list) \in Nat
    BY SlimmerPins
  <2>2. list \in Seq(PinType) /\ r \in Seq(PinType)
    BY DEF PinsOK, Slimmer
  <2> QED
    BY <2>1, <2>2
<1>2. CASE Len(r) = Len(list)
  <2>1. Rewritten(list, r)
    <3>1. ASSUME NEW j \in Nat, WithoutPin(list, r, j) PROVE FALSE
      <4>1. Len(r) = Len(list) - 1
        BY <3>1 DEF WithoutPin
      <4> QED
        BY <1>1, <1>2, <4>1
    <3> QED
      BY <3>1 DEF Slimmer
  <2> QED
    BY <1>1, <1>2, <2>1 DEF Rewritten, PressOK
<1>3. CASE Len(r) < Len(list)
  <2>1. removed + Len(list) - Len(r) \in Nat /\ removed + Len(list) - Len(r) > removed
    BY <1>1, <1>3
  <2>2. p.since <= removed /\ (p.recent => p.at # 0)
    BY DEF PressOK
  <2> QED
    BY <2>1, <2>2 DEF PressOK
<1>4. Len(r) = Len(list) \/ Len(r) < Len(list)
  BY SlimmerPins
<1> QED
  BY <1>2, <1>3, <1>4

LEMMA Finalizes ==
  ASSUME NoteTypes, NEW list \in Seq(PinType), NEW r, r = FinalizedOf(list)
  PROVE  /\ r \in Seq(PinType) /\ (Rewritten(list, r) \/ WithoutPin(list, r, note.at))
         /\ (note # NoNote => note.at \in DOMAIN list) /\ TextsOK(list, note.at) => TextsOK(r, 0)
         /\ BreaksOn(list) => r = list
<1>1. note.at \in Nat /\ DOMAIN list = 1 .. Len(list) /\ Len(list) \in Nat
  BY DEF NoteTypes, EditorTypes
<1>2. CASE note = NoNote \/ BreaksOn(list)
  <2>1. r = list
    BY <1>2 DEF FinalizedOf
  <2>2. NoNote.at = 0
    BY DEF NoNote
  <2> QED
    BY <1>1, <1>2, <2>1, <2>2 DEF Rewritten, BreaksOn, TextsOK
<1>3. CASE ~(note = NoNote \/ BreaksOn(list)) /\ note.text
  <2>1. r = [list EXCEPT ![note.at].text = TRUE] /\ note.at \in DOMAIN list
    BY <1>3 DEF FinalizedOf, BreaksOn
  <2>2. PICK e : e = [list[note.at] EXCEPT !.text = TRUE]
    OBVIOUS
  <2>3. e \in PinType /\ e.who = list[note.at].who /\ e.text
    <3>1. list[note.at] \in PinType
      BY <2>1
    <3>2. e \in PinType /\ e.who = list[note.at].who
      BY <2>2, <3>1 DEF PinType
    <3>3. e.text = TRUE
      BY <2>2, <3>1 DEF PinType
    <3> QED
      BY <3>2, <3>3
  <2>4. r = [list EXCEPT ![note.at] = e]
    BY <2>1, <2>2
  <2>5. r \in Seq(PinType) /\ Len(r) = Len(list) /\ DOMAIN r = DOMAIN list /\ r[note.at] = e /\ \A k \in DOMAIN list : k # note.at => r[k] = list[k]
    BY <1>1, <2>1, <2>3, <2>4
  <2> QED
    BY <1>1, <1>3, <2>3, <2>5 DEF Rewritten, TextsOK
<1>4. CASE ~(note = NoNote \/ BreaksOn(list)) /\ ~note.text
  <2>1. r = Without(list, note.at)
    BY <1>4 DEF FinalizedOf
  <2>2. CASE note.at \in DOMAIN list
    <3>1. r \in Seq(PinType) /\ WithoutPin(list, r, note.at)
      BY <2>1, <2>2, PinRemoved DEF Without
    <3>2. ASSUME TextsOK(list, note.at) PROVE TextsOK(r, 0)
      BY <1>1, <3>1, <3>2 DEF WithoutPin, TextsOK
    <3> QED
      BY <1>4, <3>1, <3>2
  <2>3. CASE note.at \notin DOMAIN list
    BY <1>4, <2>1, <2>3 DEF Without, Rewritten
  <2> QED
    BY <2>2, <2>3
<1> QED
  BY <1>2, <1>3, <1>4

LEMMA Cancels ==
  ASSUME NoteTypes, pins \in Seq(PinType), NEW r, r = Cancelled
  PROVE  /\ r \in Seq(PinType) /\ (Rewritten(pins, r) \/ WithoutPin(pins, r, note.at))
         /\ TextsOK(pins, note.at) => TextsOK(r, 0)
<1>1. note.at \in Nat /\ DOMAIN pins = 1 .. Len(pins) /\ Len(pins) \in Nat
  BY DEF NoteTypes, EditorTypes
<1>2. CASE note.had /\ note.at \in DOMAIN pins
  <2>1. r = [pins EXCEPT ![note.at].text = TRUE]
    BY <1>2 DEF Cancelled
  <2>2. PICK e : e = [pins[note.at] EXCEPT !.text = TRUE]
    OBVIOUS
  <2>3. e \in PinType /\ e.who = pins[note.at].who /\ e.text
    <3>1. pins[note.at] \in PinType
      BY <1>2
    <3>2. e \in PinType /\ e.who = pins[note.at].who
      BY <2>2, <3>1 DEF PinType
    <3>3. e.text = TRUE
      BY <2>2, <3>1 DEF PinType
    <3> QED
      BY <3>2, <3>3
  <2>4. r = [pins EXCEPT ![note.at] = e]
    BY <2>1, <2>2
  <2>5. r \in Seq(PinType) /\ Len(r) = Len(pins) /\ DOMAIN r = DOMAIN pins /\ r[note.at] = e /\ \A k \in DOMAIN pins : k # note.at => r[k] = pins[k]
    BY <1>1, <1>2, <2>3, <2>4
  <2> QED
    BY <1>1, <1>2, <2>3, <2>5 DEF Rewritten, TextsOK
<1>3. CASE ~note.had /\ note.at \in DOMAIN pins
  <2>1. r \in Seq(PinType) /\ WithoutPin(pins, r, note.at)
    BY <1>3, PinRemoved DEF Without, Cancelled
  <2>2. ASSUME TextsOK(pins, note.at) PROVE TextsOK(r, 0)
    BY <1>1, <2>1, <2>2 DEF WithoutPin, TextsOK
  <2> QED
    BY <2>1, <2>2
<1>4. CASE note.at \notin DOMAIN pins
  <2>1. r = pins
    BY <1>4 DEF Cancelled, Without
  <2> QED
    BY <1>1, <1>4, <2>1 DEF Rewritten, TextsOK
<1> QED
  BY <1>2, <1>3, <1>4

NoteSits(list, n) == n # NoNote => n.at \in DOMAIN list /\ list[n.at].who = n.who
EditOK(list, n, sent, slipped) == ~slipped => NoteSits(list, n) /\ TextsOK(list, n.at) /\ TextsOK(sent, 0)
HandOK(list, h, n) ==
  /\ h # NoHand => n = NoNote
  /\ h.kind = "none" <=> h = NoHand
  /\ h.kind = "pin" /\ h.at \in DOMAIN list => IF h.shifted THEN list[h.at].who > h.who ELSE list[h.at].who = h.who
DeletedOK(d) == ~d.deleted.apart => d.deleted.first = d.deleted.second

LEMMA AnnotationParts ==
  AnnotationsIInv <=>
    /\ NoteTypes /\ PinsOK(pins, deeds.made) /\ HandOK(pins, hand, note) /\ EditOK(pins, note, carried, deeds.slipped)
    /\ DeletedOK(deeds) /\ (note # NoNote => note.at # 0) /\ PressOK(press, pins, deeds.removed)
<1>1. ASSUME NoteTypes PROVE TextsOK(carried, 0) <=> \A i \in DOMAIN carried : carried[i].text
  <2>1. \A i \in DOMAIN carried : i # 0
    BY <1>1 DEF NoteTypes
  <2> QED
    BY <2>1 DEF TextsOK
<1>2. CASE NoteTypes
  <2>1. EditorIsOfItsPin <=> EditOK(pins, note, carried, deeds.slipped)
    BY <1>1, <1>2 DEF EditorIsOfItsPin, EditOK, NoteSits, TextsOK
  <2> QED
    BY <1>2, <2>1 DEF AnnotationsIInv, AnnotationsInv, HandOK, HeldIsPressed, DeletedOK, DeletedWasPressedTwice
<1>3. CASE ~NoteTypes
  BY <1>3 DEF AnnotationsIInv
<1> QED
  BY <1>2, <1>3

LEMMA AnnotationPartsNext ==
  ASSUME NoteTypes', PinsOK(pins', deeds'.made), HandOK(pins', hand', note'), EditOK(pins', note', carried', deeds'.slipped),
         DeletedOK(deeds'), note' # NoNote => note'.at # 0, PressOK(press', pins', deeds'.removed)
  PROVE  AnnotationsIInv'
<1>1. AnnotationsIInv' <=>
        (/\ NoteTypes /\ PinsOK(pins, deeds.made) /\ HandOK(pins, hand, note) /\ EditOK(pins, note, carried, deeds.slipped)
         /\ DeletedOK(deeds) /\ (note # NoNote => note.at # 0) /\ PressOK(press, pins, deeds.removed))'
  BY AnnotationParts, PTL
<1> QED
  BY <1>1

LEMMA NothingHeld ==
  /\ NoNote \in EditorTypes /\ NoHand \in HandTypes /\ NoPress \in PressTypes
  /\ NoNote.at = 0 /\ NoPress.at = 0 /\ NoPress.since = 0 /\ ~NoPress.recent /\ NoHand.kind = "none"
BY DEF EditorTypes, HandTypes, PressTypes, NoNote, NoHand, NoPress

LEMMA AnnotationsStart == AnnotationsInit => AnnotationsIInv
<1> SUFFICES ASSUME AnnotationsInit PROVE AnnotationsIInv
  OBVIOUS
<1>1. /\ pins = <<>> /\ carried = <<>> /\ strokes = 0 /\ note = NoNote /\ hand = NoHand /\ press = NoPress
      /\ pins \in Seq(PinType) /\ DOMAIN pins = {} /\ 0 \in Nat
  BY DEF AnnotationsInit, Nowhere
<1>2. deeds \in DeedTypes /\ deeds.made = 0 /\ deeds.removed = 0 /\ ~deeds.deleted.apart /\ deeds.deleted.first = deeds.deleted.second
  BY DEF AnnotationsInit, DeedTypes, DeletionTypes
<1>3. NoteTypes
  BY <1>1, <1>2, NothingHeld DEF NoteTypes
<1> QED
  BY <1>1, <1>2, <1>3, NothingHeld, AnnotationParts DEF PinsOK, HandOK, EditOK, DeletedOK, PressOK, NoteSits, TextsOK

\* The page's annotations are cleared, perhaps after a copy was taken.
LEMMA ClearedOK ==
  ASSUME AnnotationsIInv, Cleared, carried' \in Seq(PinType), ~deeds.slipped => TextsOK(carried', 0),
         deeds' \in DeedTypes, deeds'.made = deeds.made, deeds'.slipped = deeds.slipped, deeds'.deleted = deeds.deleted
  PROVE  AnnotationsIInv'
<1>1. /\ pins' = <<>> /\ strokes' = 0 /\ note' = NoNote /\ hand' = NoHand /\ press' = NoPress
      /\ pins' \in Seq(PinType) /\ DOMAIN pins' = {} /\ 0 \in Nat /\ deeds'.removed \in Nat
  BY DEF Cleared, DeedTypes
<1>2. NoteTypes'
  BY <1>1, NothingHeld DEF NoteTypes
<1>3. PinsOK(pins', deeds'.made) /\ HandOK(pins', hand', note') /\ EditOK(pins', note', carried', deeds'.slipped)
  BY <1>1, NothingHeld DEF PinsOK, HandOK, EditOK, NoteSits, TextsOK
<1>4. DeletedOK(deeds') /\ PressOK(press', pins', deeds'.removed)
  BY <1>1, NothingHeld, AnnotationParts DEF DeletedOK, PressOK
<1> QED
  BY <1>1, <1>2, <1>3, <1>4, AnnotationPartsNext

LEMMA PressClearOK == ASSUME AnnotationsIInv, PressClear PROVE AnnotationsIInv'
<1>1. Cleared /\ carried' = carried /\ deeds' = [deeds EXCEPT !.presses = @ + 1] /\ deeds \in DeedTypes
  BY AnnotationParts DEF PressClear, Cleared, NoteTypes
<1>2. /\ deeds' \in DeedTypes /\ deeds'.made = deeds.made /\ deeds'.slipped = deeds.slipped /\ deeds'.deleted = deeds.deleted
  BY <1>1 DEF DeedTypes
<1> QED
  BY <1>1, <1>2, AnnotationParts, ClearedOK DEF NoteTypes, EditOK

LEMMA LeaveOK == ASSUME AnnotationsIInv, Leave PROVE AnnotationsIInv'
<1>1. Cleared /\ carried' = carried /\ deeds' = deeds
  BY DEF Leave
<1> QED
  BY <1>1, AnnotationParts, ClearedOK DEF NoteTypes, EditOK

LEMMA GoWithNotesOK == ASSUME AnnotationsIInv, GoWithNotes PROVE AnnotationsIInv'
<1>1. CASE ~Breaks
  <2>1. carried' = Finalized /\ Cleared /\ deeds' = deeds
    BY <1>1 DEF GoWithNotes
  <2>2. NoteTypes /\ pins \in Seq(PinType) /\ EditOK(pins, note, carried, deeds.slipped)
    BY AnnotationParts DEF PinsOK
  <2>3. carried' \in Seq(PinType) /\ (~deeds.slipped => TextsOK(carried', 0))
    BY <2>1, <2>2, Finalizes DEF Finalized, EditOK, NoteSits
  <2> QED
    BY <2>1, <2>2, <2>3, ClearedOK DEF NoteTypes
<1>2. CASE Breaks
  <2>1. note' = NoNote /\ UNCHANGED <<pins, strokes, hand, press, carried, deeds>> /\ hand = NoHand /\ note # NoNote
    BY <1>2 DEF GoWithNotes, Breaks, BreaksOn
  <2>2. NoteTypes'
    BY <2>1, NothingHeld, AnnotationParts DEF NoteTypes
  <2>3. deeds.slipped
    BY <1>2, <2>1, AnnotationParts DEF Breaks, BreaksOn, EditOK, NoteSits
  <2>4. HandOK(pins', hand', note') /\ EditOK(pins', note', carried', deeds'.slipped)
    BY <2>1, <2>3, NothingHeld DEF HandOK, EditOK
  <2> QED
    BY <2>1, <2>2, <2>4, AnnotationParts, AnnotationPartsNext
<1> QED
  BY <1>1, <1>2

\* The list, its deeds and its copies stay.
LEMMA HandsMove ==
  ASSUME AnnotationsIInv, UNCHANGED <<pins, carried, deeds>>, strokes' \in Nat, note' \in EditorTypes, hand' \in HandTypes, press' \in PressTypes,
         HandOK(pins, hand', note'), note' # NoNote => note'.at # 0,
         ~deeds.slipped => NoteSits(pins, note') /\ TextsOK(pins, note'.at),
         PressOK(press', pins, deeds.removed)
  PROVE  AnnotationsIInv'
<1>1. NoteTypes'
  BY AnnotationParts DEF NoteTypes
<1>2. EditOK(pins', note', carried', deeds'.slipped)
  BY AnnotationParts DEF EditOK
<1> QED
  BY <1>1, <1>2, AnnotationParts, AnnotationPartsNext

LEMMA PressStrokeOK == ASSUME AnnotationsIInv, PressStroke PROVE AnnotationsIInv'
<1>1. UNCHANGED <<pins, note, hand, press, carried>> /\ deeds' = [deeds EXCEPT !.presses = @ + 1] /\ deeds \in DeedTypes /\ strokes' \in Nat
  BY AnnotationParts DEF PressStroke, NoteTypes
<1>2. /\ deeds' \in DeedTypes /\ deeds'.made = deeds.made /\ deeds'.slipped = deeds.slipped /\ deeds'.deleted = deeds.deleted
      /\ deeds'.removed = deeds.removed
  BY <1>1 DEF DeedTypes
<1>3. NoteTypes'
  BY <1>1, <1>2, AnnotationParts DEF NoteTypes
<1>4. DeletedOK(deeds')
  BY <1>2, AnnotationParts DEF DeletedOK
<1> QED
  BY <1>1, <1>2, <1>3, <1>4, AnnotationParts, AnnotationPartsNext

LEMMA DragOK == ASSUME AnnotationsIInv, Drag PROVE AnnotationsIInv'
<1>1. UNCHANGED <<pins, strokes, note, press, carried, deeds>> /\ hand # NoHand /\ hand \in HandTypes /\ HandOK(pins, hand, note)
  BY AnnotationParts DEF Drag, NoteTypes
<1>2. hand' \in HandTypes /\ HandOK(pins, hand', note)
  <2>1. CASE hand.kind = "pin" /\ hand.at \notin DOMAIN pins
    <3>1. hand' = NoHand
      BY <2>1 DEF Drag
    <3> QED
      BY <3>1, NothingHeld DEF HandOK
  <2>2. CASE ~(hand.kind = "pin" /\ hand.at \notin DOMAIN pins)
    <3>1. hand' = [hand EXCEPT !.moved = TRUE]
      BY <2>2 DEF Drag
    <3>2. hand' \in HandTypes /\ hand'.kind = hand.kind /\ hand'.at = hand.at /\ hand'.who = hand.who
      BY <1>1, <3>1 DEF HandTypes
    <3>3. hand'.shifted = hand.shifted
      BY <1>1, <3>1 DEF HandTypes
    <3> QED
      BY <1>1, <3>2, <3>3, NothingHeld DEF HandOK
  <2> QED
    BY <2>1, <2>2
<1> QED
  BY <1>1, <1>2, AnnotationParts, HandsMove DEF NoteTypes, EditOK

LEMMA TypeNoteOK == ASSUME AnnotationsIInv, TypeNote PROVE AnnotationsIInv'
<1>1. UNCHANGED <<pins, strokes, hand, press, carried, deeds>> /\ note # NoNote /\ note \in EditorTypes
  BY AnnotationParts DEF TypeNote, NoteTypes
<1>2. note' \in EditorTypes /\ note'.at = note.at /\ note'.who = note.who
  BY <1>1 DEF TypeNote, EditorTypes
<1>3. hand = NoHand /\ HandOK(pins, hand, note')
  BY <1>1, AnnotationParts, NothingHeld DEF HandOK
<1>4. ~deeds.slipped => NoteSits(pins, note') /\ TextsOK(pins, note'.at)
  BY <1>1, <1>2, AnnotationParts DEF EditOK, NoteSits
<1> QED
  BY <1>1, <1>2, <1>3, <1>4, AnnotationParts, HandsMove DEF NoteTypes

LEMMA PressAgesOK == ASSUME AnnotationsIInv, PressAges PROVE AnnotationsIInv'
<1>1. UNCHANGED <<pins, strokes, note, hand, carried, deeds>> /\ press \in PressTypes /\ press' = [press EXCEPT !.recent = FALSE]
  BY AnnotationParts DEF PressAges, NoteTypes
<1>2. press' \in PressTypes /\ press'.at = press.at /\ press'.who = press.who /\ press'.since = press.since /\ ~press'.recent
  BY <1>1 DEF PressTypes
<1>3. PressOK(press', pins, deeds.removed)
  BY <1>2, AnnotationParts DEF PressOK
<1> QED
  BY <1>1, <1>2, <1>3, AnnotationParts, HandsMove DEF NoteTypes, EditOK

\* The editor that opens for a pin of the list.
LEMMA EditBegins ==
  ASSUME NEW list \in Seq(PinType), NEW at \in DOMAIN list, BeginEdit(list, at)
  PROVE  note' \in EditorTypes /\ note'.at = at /\ note'.who = list[at].who /\ at # 0
<1>1. note' = [at |-> at, who |-> list[at].who, text |-> list[at].text, had |-> list[at].text]
  BY DEF BeginEdit
<1>2. list[at] \in PinType /\ at \in Nat /\ at # 0
  OBVIOUS
<1>3. PICK w \in Nat, b \in BOOLEAN : w = list[at].who /\ b = list[at].text
  BY <1>2 DEF PinType
<1>4. note' = [at |-> at, who |-> w, text |-> b, had |-> b]
  BY <1>1, <1>3
<1> QED
  BY <1>2, <1>3, <1>4 DEF EditorTypes

LEMMA ReleasePinOK == ASSUME AnnotationsIInv, ReleasePin PROVE AnnotationsIInv'
<1>1. /\ UNCHANGED <<pins, strokes, carried, deeds>> /\ hand' = NoHand /\ hand.kind = "pin" /\ note = NoNote
      /\ pins \in Seq(PinType) /\ deeds.removed \in Nat
  <2>1. hand # NoHand
    BY NothingHeld DEF ReleasePin
  <2> QED
    BY <2>1, AnnotationParts DEF ReleasePin, HandOK, PinsOK, NoteTypes, DeedTypes
<1>2. hand' \in HandTypes /\ HandOK(pins, hand', note')
  BY <1>1, NothingHeld DEF HandOK
<1>3. ~deeds.slipped => TextsOK(pins, 0)
  BY <1>1, NothingHeld, AnnotationParts DEF EditOK
<1>4. CASE hand.moved
  <2>1. press' = NoPress /\ note' = note
    BY <1>4 DEF ReleasePin
  <2>2. press' \in PressTypes /\ PressOK(press', pins, deeds.removed)
    BY <1>1, <2>1, NothingHeld DEF PressOK
  <2> QED
    BY <1>1, <1>2, <2>1, <2>2, AnnotationParts, HandsMove DEF NoteTypes, EditOK
<1>5. CASE ~hand.moved
  <2>1. BeginEdit(pins, hand.at) /\ press' = press
    BY <1>5 DEF ReleasePin
  <2>2. CASE hand.at \notin DOMAIN pins
    <3>1. note' = note
      BY <2>1, <2>2 DEF BeginEdit
    <3> QED
      BY <1>1, <1>2, <2>1, <3>1, AnnotationParts, HandsMove DEF NoteTypes, EditOK
  <2>3. CASE hand.at \in DOMAIN pins
    <3>1. note' \in EditorTypes /\ note'.at = hand.at /\ note'.who = pins[hand.at].who /\ hand.at # 0
      BY <1>1, <2>1, <2>3, EditBegins
    <3>2. ~deeds.slipped => NoteSits(pins, note') /\ TextsOK(pins, note'.at)
      <4>1. \A i \in DOMAIN pins : i # 0
        BY <1>1
      <4> QED
        BY <1>3, <2>3, <3>1, <4>1 DEF NoteSits, TextsOK
    <3> QED
      BY <1>1, <1>2, <2>1, <3>1, <3>2, AnnotationParts, HandsMove DEF NoteTypes
  <2> QED
    BY <2>2, <2>3
<1> QED
  BY <1>4, <1>5

LEMMA PinAdded ==
  ASSUME NEW made \in Nat, NEW list, PinsOK(list, made), NEW e \in PinType, e.who = made + 1
  PROVE  PinsOK(Append(list, e), made + 1)
<1>1. list \in Seq(PinType) /\ Len(list) \in Nat
  BY DEF PinsOK
<1>2. PICK r : r = Append(list, e)
  OBVIOUS
<1>3. /\ r \in Seq(PinType) /\ DOMAIN r = 1 .. Len(list) + 1 /\ DOMAIN list = 1 .. Len(list)
      /\ r[Len(list) + 1] = e /\ \A k \in 1 .. Len(list) : r[k] = list[k]
  BY <1>1, <1>2
<1>4. \A i \in DOMAIN list : list[i].who \in Nat /\ list[i].who <= made
  <2>1. \A i \in DOMAIN list : list[i] \in PinType
    BY <1>1
  <2> QED
    BY <2>1 DEF PinsOK, PinType
<1>5. ASSUME NEW i \in DOMAIN r PROVE r[i].who <= made + 1
  <2>1. CASE i = Len(list) + 1
    BY <1>3, <2>1
  <2>2. CASE i # Len(list) + 1
    <3>1. i \in DOMAIN list /\ r[i] = list[i]
      BY <1>1, <1>3, <2>2
    <3> QED
      BY <1>4, <3>1
  <2> QED
    BY <2>1, <2>2
<1>6. ASSUME NEW i \in DOMAIN r, NEW k \in DOMAIN r, i < k PROVE r[i].who < r[k].who
  <2>1. i \in DOMAIN list /\ r[i] = list[i]
    BY <1>1, <1>3, <1>6
  <2>2. CASE k = Len(list) + 1
    BY <1>3, <1>4, <2>1, <2>2
  <2>3. CASE k # Len(list) + 1
    <3>1. k \in DOMAIN list /\ r[k] = list[k]
      BY <1>1, <1>3, <2>3
    <3> QED
      BY <1>6, <2>1, <3>1 DEF PinsOK
  <2> QED
    BY <2>2, <2>3
<1> QED
  BY <1>2, <1>3, <1>5, <1>6 DEF PinsOK

LEMMA ReleaseNewOK == ASSUME AnnotationsIInv, ReleaseNew PROVE AnnotationsIInv'
<1>1. /\ UNCHANGED <<press, carried>> /\ hand' = NoHand /\ note = NoNote /\ strokes \in Nat
      /\ pins \in Seq(PinType) /\ deeds \in DeedTypes /\ press \in PressTypes
  <2>1. hand # NoHand
    BY NothingHeld DEF ReleaseNew
  <2> QED
    BY <2>1, AnnotationParts DEF ReleaseNew, HandOK, PinsOK, NoteTypes
<1>2. ~deeds.slipped => TextsOK(pins, 0) /\ TextsOK(carried, 0)
  BY <1>1, NothingHeld, AnnotationParts DEF EditOK
<1>3. CASE hand.moved
  <2>1. UNCHANGED <<pins, note, deeds>> /\ strokes' = strokes + 1
    BY <1>3 DEF ReleaseNew
  <2>2. strokes' \in Nat /\ hand' \in HandTypes /\ HandOK(pins, hand', note')
    BY <1>1, <2>1, NothingHeld DEF HandOK
  <2> QED
    BY <1>1, <2>1, <2>2, AnnotationParts, HandsMove DEF NoteTypes, EditOK
<1>4. CASE ~hand.moved
  <2>1. /\ deeds' = [deeds EXCEPT !.made = @ + 1] /\ pins' = Append(pins, [who |-> deeds.made + 1, text |-> FALSE])
        /\ BeginEdit(pins', Len(pins')) /\ strokes' = strokes
    BY <1>4 DEF ReleaseNew
  <2>2. /\ deeds' \in DeedTypes /\ deeds'.made = deeds.made + 1 /\ deeds'.slipped = deeds.slipped
        /\ deeds'.deleted = deeds.deleted /\ deeds'.removed = deeds.removed /\ deeds.made \in Nat
    <3>1. deeds' = [deeds EXCEPT !.made = @ + 1] /\ deeds \in DeedTypes
      BY <1>1, <2>1
    <3>2. deeds.made \in Nat
      BY <3>1 DEF DeedTypes
    <3>3. deeds' \in DeedTypes /\ deeds'.made = deeds.made + 1
      BY <3>1 DEF DeedTypes
    <3>4. deeds'.slipped = deeds.slipped
      BY <3>1 DEF DeedTypes
    <3>5. deeds'.deleted = deeds.deleted
      BY <3>1 DEF DeedTypes
    <3>6. deeds'.removed = deeds.removed
      BY <3>1 DEF DeedTypes
    <3> QED
      BY <3>2, <3>3, <3>4, <3>5, <3>6
  <2>3. PICK e \in PinType : e = [who |-> deeds.made + 1, text |-> FALSE] /\ e.who = deeds.made + 1
    <3>1. PICK m \in Nat : m = deeds.made + 1
      BY <2>2
    <3>2. PICK e : e = [who |-> m, text |-> FALSE]
      OBVIOUS
    <3>3. e \in PinType /\ e.who = m
      BY <3>2 DEF PinType
    <3> QED
      BY <3>1, <3>2, <3>3
  <2>4. pins' = Append(pins, e)
    BY <2>1, <2>3
  <2>5. PinsOK(pins', deeds'.made)
    BY <2>2, <2>3, <2>4, AnnotationParts, PinAdded
  <2>6. /\ pins' \in Seq(PinType) /\ Len(pins') = Len(pins) + 1 /\ DOMAIN pins' = 1 .. Len(pins) + 1
        /\ DOMAIN pins = 1 .. Len(pins) /\ Len(pins) \in Nat /\ \A k \in DOMAIN pins : pins'[k] = pins[k]
    BY <1>1, <2>4
  <2>7. /\ note' \in EditorTypes /\ note'.at = Len(pins') /\ note'.who = pins'[Len(pins')].who /\ note'.at # 0
    <3>1. Len(pins') \in DOMAIN pins'
      BY <2>6
    <3> QED
      BY <2>1, <2>6, <3>1, EditBegins
  <2>8. EditOK(pins', note', carried', deeds'.slipped)
    <3>1. NoteSits(pins', note')
      BY <2>6, <2>7 DEF NoteSits
    <3>2. ASSUME ~deeds.slipped, NEW i \in DOMAIN pins', ~pins'[i].text PROVE i = note'.at
      <4>1. \A k \in DOMAIN pins : pins[k].text
        BY <1>2, <2>6, <3>2 DEF TextsOK
      <4>2. i \notin DOMAIN pins
        BY <2>6, <3>2, <4>1
      <4> QED
        BY <2>6, <2>7, <4>2
    <3> QED
      BY <1>1, <1>2, <2>2, <3>1, <3>2 DEF EditOK, TextsOK
  <2>9. PressOK(press', pins', deeds'.removed)
    BY <1>1, <2>2, <2>6, AnnotationParts DEF PressOK
  <2>10. HandOK(pins', hand', note') /\ DeletedOK(deeds')
    BY <1>1, <2>2, NothingHeld, AnnotationParts DEF HandOK, DeletedOK
  <2>11. NoteTypes'
    BY <1>1, <2>1, <2>2, <2>7, NothingHeld, AnnotationParts DEF NoteTypes
  <2> QED
    BY <2>5, <2>7, <2>8, <2>9, <2>10, <2>11, AnnotationPartsNext
<1> QED
  BY <1>3, <1>4

\* The editor is closed and the list keeps its pins but for the one it commits or drops.
LEMMA NoteClosed ==
  ASSUME AnnotationsIInv, hand = NoHand, NEW list, Slimmer(pins, list), ~deeds.slipped => TextsOK(list, 0),
         pins' = list, note' = NoNote, UNCHANGED <<strokes, hand, press, carried>>,
         deeds' \in DeedTypes, deeds'.made = deeds.made, deeds'.slipped = deeds.slipped, deeds'.deleted = deeds.deleted,
         deeds'.removed = Removed(list)
  PROVE  AnnotationsIInv'
<1>1. PinsOK(pins', deeds'.made)
  BY AnnotationParts, SlimmerPins
<1>2. PressOK(press', pins', deeds'.removed)
  <2>1. press.since \in Nat /\ press.at \in Nat /\ deeds.removed \in Nat
    BY AnnotationParts DEF NoteTypes, PressTypes, DeedTypes
  <2> QED
    BY <2>1, AnnotationParts, PressStands DEF Removed
<1>3. EditOK(pins', note', carried', deeds'.slipped)
  BY AnnotationParts, NothingHeld DEF EditOK, NoteSits
<1>4. HandOK(pins', hand', note') /\ DeletedOK(deeds')
  BY AnnotationParts, NothingHeld DEF HandOK, DeletedOK
<1>5. NoteTypes'
  BY <1>1, AnnotationParts, NothingHeld DEF NoteTypes, PinsOK
<1> QED
  BY <1>1, <1>2, <1>3, <1>4, <1>5, AnnotationPartsNext

LEMMA Commits ==
  ASSUME AnnotationsIInv
  PROVE  /\ Slimmer(pins, Finalized) /\ (~deeds.slipped => TextsOK(Finalized, 0))
         /\ Slimmer(pins, Cancelled) /\ (~deeds.slipped => TextsOK(Cancelled, 0))
<1>1. NoteTypes /\ pins \in Seq(PinType) /\ note.at \in Nat /\ EditOK(pins, note, carried, deeds.slipped)
  BY AnnotationParts DEF PinsOK, NoteTypes, EditorTypes
<1>2. PICK f, c : f = Finalized /\ c = Cancelled
  OBVIOUS
<1>3. Slimmer(pins, f) /\ (~deeds.slipped => TextsOK(f, 0))
  BY <1>1, <1>2, Finalizes DEF Finalized, Slimmer, EditOK, NoteSits
<1>4. Slimmer(pins, c) /\ (~deeds.slipped => TextsOK(c, 0))
  BY <1>1, <1>2, Cancels DEF Slimmer, EditOK
<1> QED
  BY <1>2, <1>3, <1>4

LEMMA NoteHasTheHand == ASSUME AnnotationsIInv, note # NoNote PROVE hand = NoHand
BY AnnotationParts DEF HandOK

LEMMA CloseNoteOK ==
  ASSUME AnnotationsIInv, NEW list, Slimmer(pins, list), ~deeds.slipped => TextsOK(list, 0), CloseNote(list)
  PROVE  AnnotationsIInv'
<1>1. /\ pins' = list /\ note' = NoNote /\ hand = NoHand /\ UNCHANGED <<strokes, hand, press, carried>>
      /\ deeds' = [deeds EXCEPT !.removed = Removed(list)] /\ deeds \in DeedTypes
  BY AnnotationParts, NoteHasTheHand DEF CloseNote, NoteTypes
<1>2. Removed(list) \in Nat
  BY AnnotationParts, SlimmerPins DEF Removed, NoteTypes, DeedTypes
<1>3. /\ deeds' \in DeedTypes /\ deeds'.made = deeds.made /\ deeds'.slipped = deeds.slipped /\ deeds'.removed = Removed(list)
      /\ deeds'.deleted = deeds.deleted
  BY <1>1, <1>2 DEF DeedTypes
<1> QED
  BY <1>1, <1>3, NoteClosed

LEMMA EnterOrBlurOK == ASSUME AnnotationsIInv, EnterOrBlur PROVE AnnotationsIInv'
BY Commits, CloseNoteOK DEF EnterOrBlur

LEMMA EscapeNoteOK == ASSUME AnnotationsIInv, EscapeNote PROVE AnnotationsIInv'
BY Commits, CloseNoteOK DEF EscapeNote

LEMMA PressEmptyOK == ASSUME AnnotationsIInv, PressEmpty PROVE AnnotationsIInv'
<1>1. /\ hand = NoHand /\ UNCHANGED <<strokes, press, carried>> /\ deeds \in DeedTypes
      /\ deeds' = [deeds EXCEPT !.presses = @ + 1, !.removed = Removed(pins')]
  BY AnnotationParts DEF PressEmpty, NoteTypes
<1>2. Slimmer(pins, pins') /\ (~deeds.slipped /\ note # NoNote => TextsOK(pins', 0)) /\ (note = NoNote => pins' = pins)
  <2>1. CASE note # NoNote
    BY <2>1, Commits DEF PressEmpty
  <2>2. CASE note = NoNote
    <3>1. pins' = pins /\ pins \in Seq(PinType)
      BY <2>2, AnnotationParts DEF PressEmpty, PinsOK
    <3> QED
      BY <2>2, <3>1 DEF Slimmer, Rewritten
  <2> QED
    BY <2>1, <2>2
<1>3. Removed(pins') \in Nat
  BY <1>2, AnnotationParts, SlimmerPins DEF Removed, NoteTypes, DeedTypes
<1>4. PICK n \in Nat : n = Removed(pins')
  BY <1>3
<1>5. deeds' = [deeds EXCEPT !.presses = @ + 1, !.removed = n]
  BY <1>1, <1>4
<1>6. /\ deeds' \in DeedTypes /\ deeds'.made = deeds.made /\ deeds'.slipped = deeds.slipped /\ deeds'.removed = n
      /\ deeds'.deleted = deeds.deleted
  <2>1. deeds \in DeedTypes /\ deeds.presses + 1 \in Nat
    BY <1>1 DEF DeedTypes
  <2>2. deeds' \in DeedTypes
    BY <1>5, <2>1 DEF DeedTypes
  <2>3. deeds'.made = deeds.made /\ deeds'.slipped = deeds.slipped
    BY <1>5, <2>1 DEF DeedTypes
  <2>4. deeds'.removed = n /\ deeds'.deleted = deeds.deleted
    BY <1>5, <2>1 DEF DeedTypes
  <2> QED
    BY <2>2, <2>3, <2>4
<1>7. CASE note # NoNote
  <2>1. note' = NoNote /\ hand' = hand
    BY <1>7 DEF PressEmpty
  <2> QED
    BY <1>1, <1>2, <1>4, <1>6, <1>7, <2>1, NoteClosed
<1>8. CASE note = NoNote
  <2>1. note' = note /\ hand' = [NoHand EXCEPT !.kind = "new"] /\ pins' = pins
    BY <1>8 DEF PressEmpty
  <2>2. hand' \in HandTypes /\ hand'.kind = "new" /\ hand' # NoHand
    <3>1. hand' = [kind |-> "new", at |-> 0, who |-> 0, moved |-> FALSE, shifted |-> FALSE]
      BY <2>1 DEF NoHand
    <3> QED
      BY <3>1, NothingHeld DEF HandTypes
  <2>3. n = deeds.removed
    <3>1. Len(pins) \in Nat /\ deeds.removed \in Nat
      BY AnnotationParts DEF PinsOK, NoteTypes, DeedTypes
    <3> QED
      BY <1>4, <2>1, <3>1 DEF Removed
  <2>4. HandOK(pins', hand', note') /\ DeletedOK(deeds')
    BY <1>6, <1>8, <2>1, <2>2, AnnotationParts DEF HandOK, DeletedOK
  <2>5. NoteTypes'
    BY <1>1, <1>6, <2>1, <2>2, AnnotationParts DEF NoteTypes
  <2> QED
    BY <1>1, <1>6, <2>1, <2>3, <2>4, <2>5, AnnotationParts, AnnotationPartsNext
<1> QED
  BY <1>7, <1>8

\* The second press of a double click: the press before it was of the same pin unless
\* the list has lost one since.
LEMMA TwiceDeletes ==
  ASSUME AnnotationsIInv, NEW at \in DOMAIN pins, PressTwice(at), Removed(pins') \in Nat
  PROVE  /\ deeds' \in DeedTypes /\ deeds'.made = deeds.made /\ deeds'.removed = Removed(pins') /\ DeletedOK(deeds')
         /\ (deeds.slipped \/ (note # NoNote /\ note.at # at) => deeds'.slipped)
<1>1. /\ deeds \in DeedTypes /\ press \in PressTypes /\ pins \in Seq(PinType) /\ press.at = at /\ press.recent
      /\ PressOK(press, pins, deeds.removed)
  BY AnnotationParts DEF NoteTypes, PinsOK, PressTwice
<1>2. pins[at].who \in Nat /\ press.who \in Nat
  <2>1. pins[at] \in PinType
    BY <1>1
  <2> QED
    BY <1>1, <2>1 DEF PinType, PressTypes
<1>3. PICK d : d = [first |-> press.who, second |-> pins[at].who, apart |-> press.since # deeds.removed]
  OBVIOUS
<1>4. d \in DeletionTypes /\ (~d.apart => d.first = d.second)
  <2>1. d \in DeletionTypes
    BY <1>2, <1>3 DEF DeletionTypes
  <2>2. ASSUME ~d.apart PROVE d.first = d.second
    <3>1. press.since = deeds.removed
      BY <1>3, <2>2
    <3>2. pins[press.at].who = press.who
      BY <1>1, <3>1 DEF PressOK
    <3> QED
      BY <1>1, <1>3, <3>2
  <2> QED
    BY <2>1, <2>2
<1>5. PICK n \in Nat : n = Removed(pins')
  OBVIOUS
<1>6. PICK b \in BOOLEAN : b = (deeds.slipped \/ (note # NoNote /\ note.at # at))
  OBVIOUS
<1>7. deeds' = [deeds EXCEPT !.presses = @ + 1, !.removed = n, !.slipped = b, !.deleted = d]
  BY <1>3, <1>5, <1>6 DEF PressTwice
<1>8. deeds \in DeedTypes /\ deeds.presses + 1 \in Nat
  BY <1>1 DEF DeedTypes
<1>9. deeds' \in DeedTypes
  BY <1>4, <1>7, <1>8 DEF DeedTypes
<1>10. deeds'.made = deeds.made /\ deeds'.removed = n
  BY <1>7, <1>8 DEF DeedTypes
<1>11. deeds'.slipped = b /\ deeds'.deleted = d
  BY <1>7, <1>8 DEF DeedTypes
<1> QED
  BY <1>4, <1>5, <1>6, <1>9, <1>10, <1>11 DEF DeletedOK

LEMMA PressTwiceOK ==
  ASSUME AnnotationsIInv, hand = NoHand, NEW at \in DOMAIN pins, PressTwice(at)
  PROVE  AnnotationsIInv'
<1>1. press' = NoPress /\ UNCHANGED <<strokes, hand, carried>> /\ NoteTypes /\ pins \in Seq(PinType) /\ PinsOK(pins, deeds.made)
  BY AnnotationParts DEF PressTwice, PinsOK
<1>2. PICK w : w = Without(pins, at)
  OBVIOUS
<1>3. Slimmer(pins, w) /\ WithoutPin(pins, w, at) /\ w \in Seq(PinType) /\ at \in Nat
  <2>1. w \in Seq(PinType) /\ WithoutPin(pins, w, at)
    BY <1>1, <1>2, PinRemoved DEF Without
  <2>2. at \in Nat
    BY <1>1
  <2> QED
    BY <2>1, <2>2 DEF Slimmer
<1>4. PinsOK(w, deeds.made) /\ Len(w) \in Nat /\ Len(w) <= Len(pins) /\ Len(pins) \in Nat
  BY <1>1, <1>3, SlimmerPins
<1>5. \/ pins' = w /\ note' = note /\ note # NoNote /\ note.at # at
      \/ pins' = w /\ note' = NoNote /\ ~(note # NoNote /\ note.at # at)
      \/ pins' = FinalizedOf(w) /\ note' = NoNote /\ note # NoNote /\ note.at # at
  BY <1>2 DEF PressTwice
<1>6. PinsOK(pins', deeds.made) /\ Len(pins') \in Nat /\ Len(pins') <= Len(pins)
  <2>1. CASE pins' = FinalizedOf(w)
    <3>1. note.at \in Nat
      BY <1>1 DEF NoteTypes, EditorTypes
    <3>2. Slimmer(w, pins')
      BY <1>1, <1>3, <2>1, <3>1, Finalizes DEF Slimmer
    <3>3. PinsOK(pins', deeds.made) /\ Len(pins') \in Nat /\ Len(pins') <= Len(w)
      BY <1>4, <3>2, SlimmerPins
    <3> QED
      BY <1>4, <3>3
  <2> QED
    BY <1>4, <1>5, <2>1
<1>7. Removed(pins') \in Nat
  BY <1>1, <1>4, <1>6 DEF Removed, NoteTypes, DeedTypes
<1>8. /\ deeds' \in DeedTypes /\ deeds'.made = deeds.made /\ deeds'.removed \in Nat /\ DeletedOK(deeds')
      /\ (deeds.slipped \/ (note # NoNote /\ note.at # at) => deeds'.slipped)
  BY <1>7, TwiceDeletes
<1>9. EditOK(pins', note', carried', deeds'.slipped)
  <2> SUFFICES ASSUME ~deeds'.slipped PROVE NoteSits(pins', note') /\ TextsOK(pins', note'.at) /\ TextsOK(carried', 0)
    BY DEF EditOK
  <2>1. pins' = w /\ note' = NoNote /\ ~deeds.slipped /\ (note = NoNote \/ note.at = at)
    BY <1>5, <1>8
  <2>2. TextsOK(pins, note.at) /\ TextsOK(carried, 0)
    BY <2>1, AnnotationParts DEF EditOK
  <2>3. \A i \in DOMAIN pins : ~pins[i].text => i = at
    <3>1. \A i \in DOMAIN pins : i # 0
      BY <1>1
    <3> QED
      BY <2>1, <2>2, <3>1, NothingHeld DEF TextsOK
  <2>4. TextsOK(w, 0)
    <3>1. DOMAIN pins = 1 .. Len(pins) /\ DOMAIN w = 1 .. Len(w) /\ Len(pins) \in Nat /\ Len(w) = Len(pins) - 1
      BY <1>1, <1>3 DEF WithoutPin
    <3> QED
      BY <1>3, <2>3, <3>1 DEF WithoutPin, TextsOK
  <2> QED
    BY <1>1, <2>1, <2>2, <2>4, NothingHeld DEF NoteSits
<1>10. HandOK(pins', hand', note') /\ PressOK(press', pins', deeds'.removed)
  BY <1>1, <1>8, NothingHeld DEF HandOK, PressOK
<1>11. note' \in EditorTypes /\ (note' # NoNote => note'.at # 0)
  BY <1>5, NothingHeld, AnnotationParts DEF NoteTypes
<1>12. NoteTypes'
  BY <1>1, <1>6, <1>8, <1>11, NothingHeld DEF NoteTypes, PinsOK
<1> QED
  BY <1>6, <1>8, <1>9, <1>10, <1>11, <1>12, AnnotationPartsNext

\* The place of a pin after the editor of another one is committed.
LEMMA PlaceAfter ==
  ASSUME NEW made, NEW list, PinsOK(list, made), NEW gone \in Nat, NEW r \in Seq(PinType),
         Rewritten(list, r) \/ WithoutPin(list, r, gone),
         NEW at \in DOMAIN list, at \in DOMAIN r, gone # at
  PROVE  IF Len(r) < Len(list) /\ gone < at THEN r[at].who > list[at].who ELSE r[at].who = list[at].who
<1>1. DOMAIN list = 1 .. Len(list) /\ DOMAIN r = 1 .. Len(r) /\ Len(list) \in Nat /\ Len(r) \in Nat /\ at \in Nat
  BY DEF PinsOK
<1>2. CASE Rewritten(list, r)
  BY <1>1, <1>2 DEF Rewritten
<1>3. CASE WithoutPin(list, r, gone)
  <2>1. Len(r) = Len(list) - 1 /\ at \in 1 .. Len(r) /\ r[at] = IF at < gone THEN list[at] ELSE list[at + 1]
    BY <1>1, <1>3 DEF WithoutPin
  <2>2. CASE at < gone
    BY <1>1, <2>1, <2>2
  <2>3. CASE gone < at
    <3>1. at + 1 \in DOMAIN list /\ r[at] = list[at + 1] /\ at < at + 1
      BY <1>1, <2>1, <2>3
    <3>2. list[at].who < list[at + 1].who
      BY <3>1 DEF PinsOK
    <3>3. list[at].who \in Nat /\ list[at + 1].who \in Nat
      <4>1. list[at] \in PinType /\ list[at + 1] \in PinType
        BY <3>1 DEF PinsOK
      <4> QED
        BY <4>1 DEF PinType
    <3> QED
      BY <1>1, <2>1, <2>3, <3>1, <3>2, <3>3
  <2> QED
    BY <1>1, <2>2, <2>3
<1> QED
  BY <1>2, <1>3

LEMMA PressOnceOK ==
  ASSUME AnnotationsIInv, hand = NoHand, NEW at \in DOMAIN pins, PressOnce(at)
  PROVE  AnnotationsIInv'
<1>1. /\ NoteTypes /\ pins \in Seq(PinType) /\ PinsOK(pins, deeds.made) /\ deeds \in DeedTypes /\ note \in EditorTypes
      /\ UNCHANGED <<strokes, carried>> /\ at \in Nat /\ at # 0 /\ note.at \in Nat
  BY AnnotationParts DEF PressOnce, PinsOK, NoteTypes, EditorTypes
<1>2. PICK other \in BOOLEAN : other = (note # NoNote /\ note.at # at)
  OBVIOUS
<1>3. PICK list : list = IF other THEN Finalized ELSE pins
  OBVIOUS
<1>4. /\ pins' = list /\ note' = (IF other THEN NoNote ELSE note)
      /\ press' = [at |-> at, recent |-> TRUE, who |-> pins[at].who, since |-> deeds.removed]
      /\ deeds' = [deeds EXCEPT !.presses = @ + 1, !.removed = Removed(list)]
      /\ hand' = IF note.at = at \/ (other /\ Breaks) \/ at \notin DOMAIN list THEN hand
                 ELSE [kind |-> "pin", at |-> at, who |-> pins[at].who, moved |-> FALSE,
                       shifted |-> Len(list) < Len(pins) /\ note.at < at]
  BY <1>2, <1>3 DEF PressOnce
<1>5. list \in Seq(PinType) /\ (Rewritten(pins, list) \/ WithoutPin(pins, list, note.at)) /\ Slimmer(pins, list)
  <2>1. CASE other
    BY <1>1, <1>3, <2>1, Finalizes DEF Finalized, Slimmer
  <2>2. CASE ~other
    BY <1>1, <1>3, <2>2 DEF Rewritten, Slimmer
  <2> QED
    BY <2>1, <2>2
<1>6. pins[at].who \in Nat /\ deeds.removed \in Nat
  <2>1. pins[at] \in PinType
    BY <1>1
  <2> QED
    BY <1>1, <2>1 DEF PinType, DeedTypes
<1>7. /\ press' \in PressTypes /\ press'.at = at /\ press'.since = deeds.removed /\ PressOK(press', pins, deeds.removed)
  <2>1. PICK w \in Nat, s \in Nat : w = pins[at].who /\ s = deeds.removed
    BY <1>6
  <2>2. press' = [at |-> at, recent |-> TRUE, who |-> w, since |-> s]
    BY <1>4, <2>1
  <2>3. press' \in PressTypes /\ press'.at = at /\ press'.since = s /\ press'.who = w
    BY <1>1, <2>2 DEF PressTypes
  <2> QED
    BY <1>1, <2>1, <2>3 DEF PressOK
<1>8. Removed(list) \in Nat /\ PressOK(press', list, Removed(list))
  BY <1>1, <1>5, <1>6, <1>7, PressStands DEF Removed
<1>9. /\ deeds' \in DeedTypes /\ deeds'.made = deeds.made /\ deeds'.slipped = deeds.slipped
      /\ deeds'.removed = Removed(list) /\ deeds'.deleted = deeds.deleted
  <2>1. PICK n \in Nat : n = Removed(list)
    BY <1>8
  <2>2. deeds' = [deeds EXCEPT !.presses = @ + 1, !.removed = n]
    BY <1>4, <2>1
  <2>3. deeds \in DeedTypes /\ deeds.presses + 1 \in Nat
    BY <1>1 DEF DeedTypes
  <2>4. deeds' \in DeedTypes
    BY <2>2, <2>3 DEF DeedTypes
  <2>5. deeds'.made = deeds.made /\ deeds'.slipped = deeds.slipped
    BY <2>2, <2>3 DEF DeedTypes
  <2>6. deeds'.removed = n /\ deeds'.deleted = deeds.deleted
    BY <2>2, <2>3 DEF DeedTypes
  <2> QED
    BY <2>1, <2>4, <2>5, <2>6
<1>10. PinsOK(pins', deeds'.made)
  BY <1>1, <1>4, <1>5, <1>9, SlimmerPins
<1>11. EditOK(pins', note', carried', deeds'.slipped)
  <2>1. CASE other
    <3>1. EditOK(pins, note, carried, deeds.slipped)
      BY AnnotationParts
    <3>2. ~deeds.slipped => TextsOK(list, 0)
      BY <1>1, <1>3, <2>1, <3>1, Finalizes DEF Finalized, EditOK, NoteSits
    <3> QED
      BY <1>1, <1>4, <1>9, <2>1, <3>1, <3>2, NothingHeld DEF EditOK, NoteSits
  <2>2. CASE ~other
    BY <1>1, <1>3, <1>4, <1>9, <2>2, AnnotationParts
  <2> QED
    BY <2>1, <2>2
<1>12. hand' \in HandTypes /\ HandOK(list, hand', note')
  <2>1. CASE note.at = at \/ (other /\ Breaks) \/ at \notin DOMAIN list
    <3>1. hand' = NoHand
      BY <1>4, <2>1
    <3> QED
      BY <3>1, NothingHeld DEF HandOK
  <2>2. CASE ~(note.at = at \/ (other /\ Breaks) \/ at \notin DOMAIN list)
    <3>1. PICK w \in Nat, b \in BOOLEAN : w = pins[at].who /\ b = (Len(list) < Len(pins) /\ note.at < at)
      BY <1>6
    <3>2. hand' = [kind |-> "pin", at |-> at, who |-> w, moved |-> FALSE, shifted |-> b]
      BY <1>4, <2>2, <3>1
    <3>3. hand' \in HandTypes /\ hand'.kind = "pin" /\ hand'.at = at /\ hand'.who = w /\ hand'.shifted = b
      BY <1>1, <3>2 DEF HandTypes
    <3>4. note' = NoNote
      BY <1>2, <1>4, <2>2
    <3>5. IF b THEN list[at].who > w ELSE list[at].who = w
      <4>1. at \in DOMAIN list /\ note.at # at
        BY <2>2
      <4>2. IF Len(list) < Len(pins) /\ note.at < at THEN list[at].who > pins[at].who ELSE list[at].who = pins[at].who
        BY <1>1, <1>5, <4>1, PlaceAfter
      <4> QED
        BY <3>1, <4>2
    <3> QED
      BY <3>3, <3>4, <3>5, NothingHeld DEF HandOK
  <2> QED
    BY <2>1, <2>2
<1>13. note' \in EditorTypes /\ (note' # NoNote => note'.at # 0)
  BY <1>4, NothingHeld, AnnotationParts DEF NoteTypes
<1>14. NoteTypes' /\ DeletedOK(deeds')
  BY <1>1, <1>4, <1>5, <1>7, <1>9, <1>12, <1>13, AnnotationParts DEF NoteTypes, DeletedOK
<1> QED
  BY <1>4, <1>8, <1>9, <1>10, <1>11, <1>12, <1>13, <1>14, AnnotationPartsNext

LEMMA PressPinOK == ASSUME AnnotationsIInv, PressPin PROVE AnnotationsIInv'
BY PressTwiceOK, PressOnceOK DEF PressPin

-----------------------------------------------------------------------------

LEMMA AnnotationsStep == AnnotationsIInv /\ [AnnotationsNext]_annotVars => AnnotationsIInv'
<1> SUFFICES ASSUME AnnotationsIInv, [AnnotationsNext]_annotVars PROVE AnnotationsIInv'
  OBVIOUS
<1>1. CASE UNCHANGED annotVars
  <2>1. UNCHANGED <<pins, strokes, note, hand, press, carried, deeds>>
    BY <1>1 DEF annotVars
  <2> QED
    BY <2>1, AnnotationParts, HandsMove DEF NoteTypes, EditOK
<1>2. CASE AnnotationsNext
  BY <1>2, PressClearOK, PressStrokeOK, PressPinOK, PressEmptyOK, DragOK, ReleasePinOK, ReleaseNewOK, TypeNoteOK, EnterOrBlurOK,
     EscapeNoteOK, PressAgesOK, LeaveOK, GoWithNotesOK DEF AnnotationsNext
<1> QED
  BY <1>1, <1>2

\* However presses, moves, notes and their ways out follow one another, a pin that is
\* held, edited or deleted by its place in the list is the pin that was pressed, edited
\* or clicked, with the exceptions the handlers have: a press that drops an empty pin
\* before it moves the next one, and an editor left open under a double click may go stale.
THEOREM AnnotationsInvariant == AnnotationsSpec => []AnnotationsInv
<1>1. AnnotationsIInv => AnnotationsInv
  BY DEF AnnotationsIInv
<1> QED
  BY <1>1, AnnotationsStart, AnnotationsStep, PTL DEF AnnotationsSpec
=============================================================================
