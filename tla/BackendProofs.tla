--------------------------- MODULE BackendProofs ---------------------------
(***************************************************************************)
(* Proofs about what the backend does beyond one request: the live search, *)
(* whose sockets outlive the handlers that made them.                      *)
(*                                                                         *)
(* What a socket has sent, kept and received is four sequences of numbers  *)
(* that follow each other; the lemmas say what appending, taking and       *)
(* joining do to their elements and their order.                           *)
(*                                                                         *)
(* Replays, whose rows outlive them too: what a step may do to the rows,   *)
(* what that leaves of a tab, and one lemma for each action.               *)
(***************************************************************************)
EXTENDS LiveStream, Replay, PanelProofs, FiniteSetTheorems

Sorted(q) == \A j, k \in 1 .. Len(q) : j < k => q[j] < q[k]
Below(A, B) == \A x \in A, y \in B : x < y

LEMMA NoElements == Elements(<<>>) = {} /\ Sorted(<<>>) /\ <<>> \in Seq(Nat)
<1>1. Len(<<>>) = 0
  OBVIOUS
<1> QED
  BY <1>1 DEF Elements, Sorted

LEMMA AppendSorted ==
  ASSUME NEW q \in Seq(Nat), Sorted(q), NEW m \in Nat, Below(Elements(q), {m}), NEW r, r = Append(q, m)
  PROVE  /\ r \in Seq(Nat) /\ Sorted(r) /\ Elements(r) = Elements(q) \cup {m}
         /\ Len(r) = Len(q) + 1
<1>1. /\ r \in Seq(Nat) /\ Len(r) = Len(q) + 1 /\ Len(q) \in Nat /\ r[Len(q) + 1] = m
      /\ \A k \in 1 .. Len(q) : r[k] = q[k]
  OBVIOUS
<1>2. \A k \in 1 .. Len(r) : k \in 1 .. Len(q) \/ k = Len(q) + 1
  BY <1>1
<1>3. \A k \in 1 .. Len(q) : q[k] < m
  BY DEF Below, Elements
<1>4. Sorted(r)
  <2> SUFFICES ASSUME NEW j \in 1 .. Len(r), NEW k \in 1 .. Len(r), j < k PROVE r[j] < r[k]
    BY DEF Sorted
  <2>1. j \in 1 .. Len(q)
    BY <1>1
  <2>2. CASE k \in 1 .. Len(q)
    BY <2>1, <2>2, <1>1 DEF Sorted
  <2>3. CASE k = Len(q) + 1
    BY <2>1, <2>3, <1>1, <1>3
  <2> QED
    BY <2>2, <2>3, <1>2
<1>5. Elements(r) = Elements(q) \cup {m}
  <2>1. \A x \in Elements(r) : x \in Elements(q) \cup {m}
    BY <1>1, <1>2 DEF Elements
  <2>2. \A x \in Elements(q) \cup {m} : x \in Elements(r)
    <3>1. Len(q) + 1 \in 1 .. Len(r) /\ \A k \in 1 .. Len(q) : k \in 1 .. Len(r)
      BY <1>1
    <3> QED
      BY <1>1, <3>1 DEF Elements
  <2> QED
    BY <2>1, <2>2
<1> QED
  BY <1>1, <1>4, <1>5

LEMMA TakeSorted ==
  ASSUME NEW q \in Seq(Nat), Sorted(q), q # <<>>, NEW h, h = Head(q), NEW r, r = Tail(q)
  PROVE  /\ h \in Nat /\ r \in Seq(Nat) /\ Sorted(r) /\ Elements(q) = Elements(r) \cup {h}
         /\ Below({h}, Elements(r)) /\ Len(r) = Len(q) - 1 /\ Len(q) \in Nat \ {0}
<1>1. /\ r \in Seq(Nat) /\ Len(r) = Len(q) - 1 /\ Len(q) \in Nat \ {0} /\ h = q[1] /\ h \in Nat
      /\ \A k \in 1 .. Len(r) : r[k] = q[k + 1]
  OBVIOUS
<1>2. \A k \in 1 .. Len(r) : k + 1 \in 1 .. Len(q)
  BY <1>1
<1>3. \A k \in 1 .. Len(q) : k = 1 \/ (k - 1 \in 1 .. Len(r) /\ (k - 1) + 1 = k)
  BY <1>1
<1>4. Sorted(r)
  <2> SUFFICES ASSUME NEW j \in 1 .. Len(r), NEW k \in 1 .. Len(r), j < k PROVE r[j] < r[k]
    BY DEF Sorted
  <2>1. j + 1 \in 1 .. Len(q) /\ k + 1 \in 1 .. Len(q) /\ j + 1 < k + 1
    BY <1>2
  <2> QED
    BY <2>1, <1>1 DEF Sorted
<1>5. Elements(q) = Elements(r) \cup {h}
  <2>1. \A x \in Elements(q) : x \in Elements(r) \cup {h}
    <3> TAKE x \in Elements(q)
    <3>1. PICK k \in 1 .. Len(q) : x = q[k]
      BY DEF Elements
    <3>2. CASE k = 1
      BY <3>1, <3>2, <1>1
    <3>3. CASE k # 1
      <4>1. PICK j : j = k - 1
        OBVIOUS
      <4>2. j \in 1 .. Len(r) /\ j + 1 = k
        BY <4>1, <3>3, <1>3
      <4>3. r[j] = x
        BY <4>2, <3>1, <1>1
      <4> QED
        BY <4>2, <4>3 DEF Elements
    <3> QED
      BY <3>2, <3>3
  <2>2. \A x \in Elements(r) \cup {h} : x \in Elements(q)
    <3>1. 1 \in 1 .. Len(q)
      BY <1>1
    <3> QED
      BY <1>1, <1>2, <3>1 DEF Elements
  <2> QED
    BY <2>1, <2>2
<1>6. Below({h}, Elements(r))
  <2>1. \A k \in 1 .. Len(r) : h < r[k]
    <3> TAKE k \in 1 .. Len(r)
    <3>1. k + 1 \in 1 .. Len(q) /\ 1 \in 1 .. Len(q) /\ 1 < k + 1
      BY <1>1, <1>2
    <3> QED
      BY <3>1, <1>1 DEF Sorted
  <2> QED
    BY <2>1 DEF Below, Elements
<1> QED
  BY <1>1, <1>4, <1>5, <1>6

LEMMA JoinSorted ==
  ASSUME NEW p \in Seq(Nat), NEW q \in Seq(Nat), Sorted(p), Sorted(q), Below(Elements(p), Elements(q)),
         NEW r, r = p \o q
  PROVE  r \in Seq(Nat) /\ Sorted(r) /\ Elements(r) = Elements(p) \cup Elements(q)
<1>1. /\ r \in Seq(Nat) /\ Len(r) = Len(p) + Len(q) /\ Len(p) \in Nat /\ Len(q) \in Nat
      /\ \A k \in 1 .. Len(r) : r[k] = IF k <= Len(p) THEN p[k] ELSE q[k - Len(p)]
  BY ConcatProperties
<1>2. \A k \in 1 .. Len(r) : IF k <= Len(p) THEN k \in 1 .. Len(p) ELSE k - Len(p) \in 1 .. Len(q)
  BY <1>1
<1>3. Sorted(r)
  <2> SUFFICES ASSUME NEW j \in 1 .. Len(r), NEW k \in 1 .. Len(r), j < k PROVE r[j] < r[k]
    BY DEF Sorted
  <2>1. CASE k <= Len(p)
    <3>1. j \in 1 .. Len(p) /\ k \in 1 .. Len(p) /\ r[j] = p[j] /\ r[k] = p[k]
      BY <2>1, <1>1
    <3> QED
      BY <3>1 DEF Sorted
  <2>2. CASE j <= Len(p) /\ ~(k <= Len(p))
    <3>1. PICK i : i = k - Len(p)
      OBVIOUS
    <3>2. j \in 1 .. Len(p) /\ i \in 1 .. Len(q) /\ r[j] = p[j] /\ r[k] = q[i]
      BY <2>2, <3>1, <1>1, <1>2
    <3> QED
      BY <3>2 DEF Below, Elements
  <2>3. CASE ~(j <= Len(p))
    <3>1. PICK i, l : i = j - Len(p) /\ l = k - Len(p)
      OBVIOUS
    <3>2. ~(k <= Len(p)) /\ i < l
      BY <2>3, <3>1, <1>1
    <3>3. i \in 1 .. Len(q) /\ l \in 1 .. Len(q) /\ r[j] = q[i] /\ r[k] = q[l]
      BY <2>3, <3>1, <3>2, <1>1, <1>2
    <3> QED
      BY <3>2, <3>3 DEF Sorted
  <2> QED
    BY <2>1, <2>2, <2>3
<1>4. Elements(r) = Elements(p) \cup Elements(q)
  <2>1. \A x \in Elements(r) : x \in Elements(p) \cup Elements(q)
    BY <1>1, <1>2 DEF Elements
  <2>2. \A x \in Elements(p) : x \in Elements(r)
    <3>1. \A k \in 1 .. Len(p) : k \in 1 .. Len(r) /\ r[k] = p[k]
      BY <1>1
    <3> QED
      BY <3>1 DEF Elements
  <2>3. \A x \in Elements(q) : x \in Elements(r)
    <3> TAKE x \in Elements(q)
    <3>1. PICK k \in 1 .. Len(q) : x = q[k]
      BY DEF Elements
    <3>2. PICK i : i = k + Len(p)
      OBVIOUS
    <3>3. i \in 1 .. Len(r) /\ ~(i <= Len(p)) /\ i - Len(p) = k
      BY <3>2, <1>1
    <3>4. r[i] = x
      BY <3>1, <3>3, <1>1
    <3> QED
      BY <3>3, <3>4 DEF Elements
  <2> QED
    BY <2>1, <2>2, <2>3
<1> QED
  BY <1>1, <1>3, <1>4

-----------------------------------------------------------------------------
(* What a socket holds at any time, on the decoded transactions f. *)

SocketType ==
  [at : Phases \cup {"gone"}, client : {"none", "open", "closed"}, server : {"none", "open", "closed"},
   query : BOOLEAN, early : BOOLEAN, sub : BOOLEAN, from : Nat, inbox : Seq(Nat), paused : BOOLEAN,
   ring : Seq(Nat), shifted : SUBSET Nat, wire : Seq(Nat), got : Seq(Nat)]

\* What is behind is older: received, sent, kept by the ring, yet to be relayed.
FourInOrder(s) ==
  /\ Sorted(s.got) /\ Sorted(s.wire) /\ Sorted(s.ring) /\ Sorted(s.inbox)
  /\ Below(Elements(s.got), Elements(s.wire)) /\ Below(Elements(s.got), Elements(s.ring))
  /\ Below(Elements(s.got), Elements(s.inbox)) /\ Below(Elements(s.wire), Elements(s.ring))
  /\ Below(Elements(s.wire), Elements(s.inbox)) /\ Below(Elements(s.ring), Elements(s.inbox))
  /\ Below(s.shifted, Elements(s.ring)) /\ Below(s.shifted, Elements(s.inbox))

Held(s) == Elements(s.got) \cup Elements(s.wire) \cup Elements(s.ring) \cup Elements(s.inbox) \cup s.shifted
Suits(s, f, m) == s.query => f[m]

\* All of it was decoded since the subscription, and the ring has asked.
HeldIsDecoded(s, f) ==
  /\ s.from <= Len(f) /\ Held(s) \subseteq s.from + 1 .. Len(f)
  /\ \A m \in Elements(s.ring) \cup s.shifted : Suits(s, f, m)

RingOK(s) == Len(s.ring) <= RingSize /\ (~s.paused => s.ring = <<>>)

\* Before its handlers are attached a socket has nothing.
NothingYet(s) ==
  /\ s.got = <<>> /\ s.wire = <<>> /\ s.ring = <<>> /\ s.inbox = <<>> /\ s.shifted = {}
  /\ ~s.sub /\ ~s.paused

PhaseOK(s) ==
  /\ s.at # "attached" => NothingYet(s)
  /\ s.client = "open" => s.server = "open"
  /\ s.at = "attached" /\ s.client = "open" => s.sub
  /\ s.sub /\ s.server # "open" => s.early

OpenAndAttached(s) == s.at = "attached" /\ s.client = "open"
NothingLost(s, f) == OpenAndAttached(s) => \A m \in s.from + 1 .. Len(f) : Suits(s, f, m) => m \in Held(s)

SocketOK(s, f) ==
  /\ s \in SocketType /\ FourInOrder(s) /\ HeldIsDecoded(s, f) /\ RingOK(s) /\ PhaseOK(s)
  /\ NothingLost(s, f)

SocketsOK(k, f) == k = [n \in SocketIds |-> k[n]] /\ \A n \in SocketIds : SocketOK(k[n], f)

LogsOK ==
  /\ logs \in [query : BOOLEAN, live : BOOLEAN, socket : 0 .. MaxSockets, rows : Seq(Nat)]
  /\ Len(logs.rows) <= RowsKept

\* The inductive invariant of the live search.
StreamIInv ==
  /\ feed \in Seq(BOOLEAN) /\ nats \in {"none", "up", "rejected"} /\ proc \in {"up", "closing"}
  /\ LogsOK
  /\ SocketsOK(sock, feed)

-----------------------------------------------------------------------------
(* What each handler does to its socket. *)

LEMMA ResetSocket ==
  ASSUME NEW t, NEW f \in Seq(BOOLEAN), NEW a \in (Phases \cup {"gone"}) \ {"attached"}, NEW b \in BOOLEAN,
         \/ t = NoSocket
         \/ t = [NoSocket EXCEPT !.at = a]
         \/ t = [NoSocket EXCEPT !.at = a, !.client = "closed"]
         \/ t = [NoSocket EXCEPT !.at = a, !.client = "open", !.server = "open", !.query = b]
  PROVE  SocketOK(t, f)
<1>1. /\ t \in SocketType /\ t.at # "attached" /\ NothingYet(t) /\ t.from = 0
      /\ t.client = "open" => t.server = "open"
  <2>0. <<>> \in Seq(Nat)
    OBVIOUS
  <2>1. CASE t = NoSocket
    BY <2>0, <2>1 DEF NoSocket, SocketType, Phases, NothingYet
  <2>2. CASE t = [NoSocket EXCEPT !.at = a]
    BY <2>0, <2>2 DEF NoSocket, SocketType, Phases, NothingYet
  <2>3. CASE t = [NoSocket EXCEPT !.at = a, !.client = "closed"]
    BY <2>0, <2>3 DEF NoSocket, SocketType, Phases, NothingYet
  <2>4. CASE t = [NoSocket EXCEPT !.at = a, !.client = "open", !.server = "open", !.query = b]
    BY <2>0, <2>4 DEF NoSocket, SocketType, Phases, NothingYet
  <2> QED
    BY <2>1, <2>2, <2>3, <2>4
<1>2. Held(t) = {} /\ Elements(t.ring) \cup t.shifted = {}
  BY <1>1, NoElements DEF Held, NothingYet
<1>3. FourInOrder(t)
  BY <1>1, NoElements DEF FourInOrder, NothingYet, Below
<1>4. HeldIsDecoded(t, f)
  <2>1. 0 <= Len(f)
    OBVIOUS
  <2> QED
    BY <1>1, <1>2, <2>1 DEF HeldIsDecoded
<1>5. RingOK(t)
  <2>1. Len(t.ring) = 0
    BY <1>1 DEF NothingYet
  <2> QED
    BY <1>1, <2>1, LiveStreamAssumption DEF RingOK, NothingYet
<1>6. PhaseOK(t) /\ NothingLost(t, f)
  BY <1>1 DEF PhaseOK, NothingLost, OpenAndAttached, NothingYet
<1> QED
  BY <1>1, <1>3, <1>4, <1>5, <1>6 DEF SocketOK

\* The panel closes its end, and takes nothing more.
LEMMA ClosedSocket ==
  ASSUME NEW s, NEW f \in Seq(BOOLEAN), SocketOK(s, f), NEW t,
         t = [s EXCEPT !.client = "closed", !.wire = <<>>]
  PROVE  SocketOK(t, f)
<1>0. s \in SocketType /\ FourInOrder(s) /\ HeldIsDecoded(s, f) /\ RingOK(s) /\ PhaseOK(s)
  BY DEF SocketOK
<1>1. /\ t \in SocketType /\ t.client = "closed" /\ t.wire = <<>>
      /\ t.at = s.at /\ t.server = s.server /\ t.query = s.query /\ t.early = s.early /\ t.sub = s.sub
      /\ t.from = s.from /\ t.inbox = s.inbox /\ t.paused = s.paused /\ t.ring = s.ring
      /\ t.shifted = s.shifted /\ t.got = s.got
  BY <1>0, NoElements DEF SocketType
<1>2. Elements(t.wire) = {} /\ Sorted(t.wire)
  BY <1>1, NoElements
<1>3. FourInOrder(t)
  BY <1>0, <1>1, <1>2 DEF FourInOrder, Below
<1>4. HeldIsDecoded(t, f)
  BY <1>0, <1>1, <1>2 DEF HeldIsDecoded, Held, Suits
<1>5. RingOK(t) /\ PhaseOK(t) /\ NothingLost(t, f)
  BY <1>0, <1>1 DEF RingOK, PhaseOK, NothingLost, OpenAndAttached, NothingYet
<1> QED
  BY <1>1, <1>3, <1>4, <1>5 DEF SocketOK

\* The oldest sent message is received.
LEMMA ReceivingSocket ==
  ASSUME NEW s, NEW f \in Seq(BOOLEAN), SocketOK(s, f), s.wire # <<>>, NEW t,
         t = [s EXCEPT !.wire = Tail(@), !.got = Append(@, Head(s.wire))]
  PROVE  SocketOK(t, f) /\ Head(s.wire) \in Nat
<1>0. /\ s \in SocketType /\ FourInOrder(s) /\ HeldIsDecoded(s, f) /\ RingOK(s) /\ PhaseOK(s)
      /\ NothingLost(s, f)
  BY DEF SocketOK
<1> DEFINE h == Head(s.wire)
<1>a. s.wire \in Seq(Nat) /\ s.got \in Seq(Nat) /\ Sorted(s.wire) /\ Sorted(s.got)
  BY <1>0 DEF SocketType, FourInOrder
<1>b. /\ h \in Nat /\ Tail(s.wire) \in Seq(Nat) /\ Sorted(Tail(s.wire))
      /\ Elements(s.wire) = Elements(Tail(s.wire)) \cup {h} /\ Below({h}, Elements(Tail(s.wire)))
  BY <1>a, TakeSorted
<1>c. Below(Elements(s.got), {h})
  BY <1>0, <1>b DEF FourInOrder, Below
<1>d. /\ Append(s.got, h) \in Seq(Nat) /\ Sorted(Append(s.got, h))
      /\ Elements(Append(s.got, h)) = Elements(s.got) \cup {h}
  BY <1>a, <1>b, <1>c, AppendSorted
<1>1. /\ t.wire = Tail(s.wire) /\ t.got = Append(s.got, h) /\ t \in SocketType
      /\ t.at = s.at /\ t.server = s.server /\ t.query = s.query /\ t.early = s.early /\ t.sub = s.sub
      /\ t.from = s.from /\ t.inbox = s.inbox /\ t.paused = s.paused /\ t.ring = s.ring
      /\ t.shifted = s.shifted /\ t.client = s.client
  BY <1>0, <1>b, <1>d DEF SocketType
<1>2. /\ Sorted(t.wire) /\ Sorted(t.got) /\ Elements(t.got) = Elements(s.got) \cup {h}
      /\ Elements(s.wire) = Elements(t.wire) \cup {h} /\ Below({h}, Elements(t.wire))
  BY <1>1, <1>b, <1>d
<1> HIDE DEF h
<1>3. FourInOrder(t)
  BY <1>0, <1>1, <1>2 DEF FourInOrder, Below
<1>4. Held(t) = Held(s)
  BY <1>1, <1>2 DEF Held
<1>5. HeldIsDecoded(t, f)
  BY <1>0, <1>1, <1>4 DEF HeldIsDecoded, Suits
<1>6. s.at = "attached"
  BY <1>0 DEF PhaseOK, NothingYet
<1>7. RingOK(t) /\ PhaseOK(t)
  BY <1>0, <1>1, <1>6 DEF RingOK, PhaseOK
<1>8. NothingLost(t, f)
  BY <1>0, <1>1, <1>4 DEF NothingLost, OpenAndAttached, Suits
<1> QED
  BY <1>1, <1>3, <1>5, <1>7, <1>8, <1>b DEF SocketOK, h

\* The handlers are attached, and the subscription begins.
LEMMA AttachedSocket ==
  ASSUME NEW s, NEW f \in Seq(BOOLEAN), SocketOK(s, f), s.at # "attached", NEW t,
         t = [s EXCEPT !.at = "attached", !.sub = TRUE, !.from = Len(f), !.early = s.server # "open"]
  PROVE  SocketOK(t, f)
<1>0. s \in SocketType /\ FourInOrder(s) /\ RingOK(s) /\ PhaseOK(s) /\ NothingYet(s)
  BY DEF SocketOK, PhaseOK
<1>1. Len(f) \in Nat
  OBVIOUS
<1>a. PICK e \in BOOLEAN : e = (s.server # "open")
  OBVIOUS
<1>b. t = [s EXCEPT !.at = "attached", !.sub = TRUE, !.from = Len(f), !.early = e]
  BY <1>a
<1>2. /\ t \in SocketType /\ t.at = "attached" /\ t.sub = TRUE /\ t.from = Len(f)
      /\ t.early = e
      /\ t.server = s.server /\ t.query = s.query /\ t.inbox = s.inbox /\ t.paused = s.paused
      /\ t.ring = s.ring /\ t.shifted = s.shifted /\ t.client = s.client /\ t.got = s.got /\ t.wire = s.wire
  BY <1>0, <1>1, <1>b DEF SocketType, Phases
<1>3. Held(t) = {} /\ Elements(t.ring) \cup t.shifted = {}
  BY <1>0, <1>2, NoElements DEF NothingYet, Held
<1>4. FourInOrder(t)
  BY <1>0, <1>2 DEF FourInOrder
<1>5. HeldIsDecoded(t, f)
  BY <1>1, <1>2, <1>3 DEF HeldIsDecoded
<1>6. RingOK(t) /\ PhaseOK(t)
  BY <1>0, <1>a, <1>2 DEF RingOK, PhaseOK
<1>7. NothingLost(t, f)
  <2>1. t.from + 1 .. Len(f) = {}
    BY <1>1, <1>2
  <2> QED
    BY <2>1 DEF NothingLost
<1> QED
  BY <1>2, <1>4, <1>5, <1>6, <1>7 DEF SocketOK

\* The server sees that its socket is closed.
LEMMA SeenSocket ==
  ASSUME NEW s, NEW f \in Seq(BOOLEAN), SocketOK(s, f), s.client = "closed", NEW t,
         t = [s EXCEPT !.server = "closed", !.sub = @ /\ s.at # "attached"]
  PROVE  SocketOK(t, f)
<1>0. /\ s \in SocketType /\ FourInOrder(s) /\ HeldIsDecoded(s, f) /\ RingOK(s) /\ PhaseOK(s)
  BY DEF SocketOK
<1>1. PICK b : b = (s.sub /\ s.at # "attached")
  OBVIOUS
<1>2. b = FALSE
  BY <1>0, <1>1 DEF PhaseOK, NothingYet
<1>3. t = [s EXCEPT !.server = "closed", !.sub = b]
  BY <1>1
<1>4. /\ t \in SocketType /\ t.server = "closed" /\ t.sub = FALSE
      /\ t.at = s.at /\ t.early = s.early /\ t.from = s.from
      /\ t.query = s.query /\ t.inbox = s.inbox /\ t.paused = s.paused
      /\ t.ring = s.ring /\ t.shifted = s.shifted /\ t.client = s.client /\ t.got = s.got /\ t.wire = s.wire
  BY <1>0, <1>2, <1>3 DEF SocketType
<1>5. FourInOrder(t) /\ RingOK(t)
  BY <1>0, <1>4 DEF FourInOrder, RingOK
<1>6. HeldIsDecoded(t, f)
  BY <1>0, <1>4 DEF HeldIsDecoded, Held, Suits
<1>7. PhaseOK(t) /\ NothingLost(t, f)
  BY <1>0, <1>4 DEF PhaseOK, NothingLost, OpenAndAttached, NothingYet
<1> QED
  BY <1>4, <1>5, <1>6, <1>7 DEF SocketOK

LEMMA PausedSocket ==
  ASSUME NEW s, NEW f \in Seq(BOOLEAN), SocketOK(s, f), s.at = "attached", NEW t,
         t = [s EXCEPT !.paused = TRUE]
  PROVE  SocketOK(t, f)
<1>0. /\ s \in SocketType /\ FourInOrder(s) /\ HeldIsDecoded(s, f) /\ RingOK(s) /\ PhaseOK(s)
      /\ NothingLost(s, f)
  BY DEF SocketOK
<1>1. /\ t \in SocketType /\ t.paused = TRUE /\ t.server = s.server /\ t.sub = s.sub
      /\ t.at = s.at /\ t.early = s.early /\ t.from = s.from /\ t.query = s.query /\ t.inbox = s.inbox
      /\ t.ring = s.ring /\ t.shifted = s.shifted /\ t.client = s.client /\ t.got = s.got /\ t.wire = s.wire
  BY <1>0 DEF SocketType
<1>2. FourInOrder(t) /\ RingOK(t) /\ Held(t) = Held(s)
  BY <1>0, <1>1 DEF FourInOrder, RingOK, Held
<1>3. HeldIsDecoded(t, f) /\ NothingLost(t, f)
  BY <1>0, <1>1, <1>2 DEF HeldIsDecoded, Suits, NothingLost, OpenAndAttached
<1>4. PhaseOK(t)
  BY <1>0, <1>1 DEF PhaseOK
<1> QED
  BY <1>1, <1>2, <1>3, <1>4 DEF SocketOK

\* What the ring kept is sent behind what was sent before.
LEMMA ResumedSocket ==
  ASSUME NEW s, NEW f \in Seq(BOOLEAN), SocketOK(s, f), s.at = "attached", NEW t,
         t = [s EXCEPT !.paused = FALSE, !.ring = <<>>, !.wire = @ \o s.ring]
  PROVE  SocketOK(t, f)
<1>0. /\ s \in SocketType /\ FourInOrder(s) /\ HeldIsDecoded(s, f) /\ RingOK(s) /\ PhaseOK(s)
      /\ NothingLost(s, f)
  BY DEF SocketOK
<1>1. /\ s.wire \in Seq(Nat) /\ s.ring \in Seq(Nat) /\ Sorted(s.wire) /\ Sorted(s.ring)
      /\ Below(Elements(s.wire), Elements(s.ring))
  BY <1>0 DEF SocketType, FourInOrder
<1>2. /\ s.wire \o s.ring \in Seq(Nat) /\ Sorted(s.wire \o s.ring)
      /\ Elements(s.wire \o s.ring) = Elements(s.wire) \cup Elements(s.ring)
  BY <1>1, JoinSorted
<1>3. /\ t \in SocketType /\ t.paused = FALSE /\ t.ring = <<>> /\ t.wire = s.wire \o s.ring
      /\ t.server = s.server /\ t.sub = s.sub /\ t.at = s.at /\ t.early = s.early /\ t.from = s.from
      /\ t.query = s.query /\ t.inbox = s.inbox /\ t.shifted = s.shifted /\ t.client = s.client /\ t.got = s.got
  BY <1>0, <1>2, NoElements DEF SocketType
<1>4. /\ Elements(t.ring) = {} /\ Sorted(t.ring) /\ Sorted(t.wire)
      /\ Elements(t.wire) = Elements(s.wire) \cup Elements(s.ring)
  BY <1>2, <1>3, NoElements
<1>5. FourInOrder(t)
  BY <1>0, <1>3, <1>4 DEF FourInOrder, Below
<1>6. Held(t) = Held(s)
  BY <1>3, <1>4 DEF Held
<1>7. HeldIsDecoded(t, f) /\ NothingLost(t, f)
  BY <1>0, <1>3, <1>4, <1>6 DEF HeldIsDecoded, Suits, NothingLost, OpenAndAttached
<1>8. RingOK(t) /\ PhaseOK(t)
  <2>1. Len(t.ring) = 0
    BY <1>3
  <2> QED
    BY <1>0, <1>3, <2>1, LiveStreamAssumption DEF RingOK, PhaseOK
<1> QED
  BY <1>3, <1>5, <1>7, <1>8 DEF SocketOK

\* A transaction is decoded: with a subscription it joins the inbox.
LEMMA MoreFeed ==
  ASSUME NEW f \in Seq(BOOLEAN), NEW b \in BOOLEAN, NEW g, g = Append(f, b)
  PROVE  /\ g \in Seq(BOOLEAN) /\ Len(g) = Len(f) + 1 /\ Len(f) \in Nat
         /\ \A m \in 1 .. Len(f) : g[m] = f[m]
OBVIOUS

LEMMA DecodedSocket ==
  ASSUME NEW s, NEW f \in Seq(BOOLEAN), SocketOK(s, f), NEW b \in BOOLEAN, NEW g, g = Append(f, b), NEW t,
         t = IF s.sub THEN [s EXCEPT !.inbox = Append(@, Len(f) + 1)] ELSE s
  PROVE  SocketOK(t, g)
<1>0. /\ s \in SocketType /\ FourInOrder(s) /\ HeldIsDecoded(s, f) /\ RingOK(s) /\ PhaseOK(s)
      /\ NothingLost(s, f)
  BY DEF SocketOK
<1>1. PICK new : new = Len(f) + 1
  OBVIOUS
<1>2. /\ g \in Seq(BOOLEAN) /\ Len(g) = new /\ Len(f) \in Nat /\ new \in Nat /\ new = Len(f) + 1
      /\ \A m \in 1 .. Len(f) : g[m] = f[m]
  BY <1>1, MoreFeed
<1>3. s.from \in Nat /\ s.inbox \in Seq(Nat) /\ Sorted(s.inbox)
  BY <1>0 DEF SocketType, FourInOrder
<1>4. \A m \in Held(s) : m \in Nat /\ m < new /\ m \in 1 .. Len(f) /\ m \in s.from + 1 .. new
  BY <1>0, <1>2, <1>3 DEF HeldIsDecoded
<1>5. \A m \in Held(s) : Suits(s, f, m) <=> Suits(s, g, m)
  BY <1>2, <1>4 DEF Suits
<1>6. s.from <= Len(g) /\ Held(s) \subseteq s.from + 1 .. Len(g)
  BY <1>0, <1>2, <1>3, <1>4 DEF HeldIsDecoded
<1>7. HeldIsDecoded(s, g)
  BY <1>0, <1>5, <1>6 DEF HeldIsDecoded, Held
<1>8. CASE ~s.sub
  <2>1. t = s
    BY <1>8
  <2>2. NothingLost(s, g)
    BY <1>0, <1>8 DEF NothingLost, PhaseOK, OpenAndAttached
  <2> QED
    BY <1>0, <1>7, <2>1, <2>2 DEF SocketOK
<1>9. CASE s.sub
  <2>1. t = [s EXCEPT !.inbox = Append(s.inbox, new)]
    BY <1>1, <1>9
  <2>2. Below(Held(s), {new})
    BY <1>4 DEF Below
  <2>3. Below(Elements(s.inbox), {new})
    BY <2>2 DEF Below, Held
  <2>4. /\ Append(s.inbox, new) \in Seq(Nat) /\ Sorted(Append(s.inbox, new))
        /\ Elements(Append(s.inbox, new)) = Elements(s.inbox) \cup {new}
    BY <1>2, <1>3, <2>3, AppendSorted
  <2>5. /\ t \in SocketType /\ t.inbox = Append(s.inbox, new) /\ t.paused = s.paused
        /\ t.server = s.server /\ t.sub = s.sub /\ t.at = s.at /\ t.early = s.early /\ t.from = s.from
        /\ t.query = s.query /\ t.ring = s.ring /\ t.shifted = s.shifted /\ t.client = s.client
        /\ t.got = s.got /\ t.wire = s.wire
    BY <1>0, <2>1, <2>4 DEF SocketType
  <2>6. Sorted(t.inbox) /\ Elements(t.inbox) = Elements(s.inbox) \cup {new}
    BY <2>4, <2>5
  <2>7. Held(t) = Held(s) \cup {new}
    BY <2>5, <2>6 DEF Held
  <2>8. FourInOrder(t)
    BY <1>0, <2>2, <2>5, <2>6 DEF FourInOrder, Below, Held
  <2>9. new \in s.from + 1 .. Len(g)
    BY <1>0, <1>2, <1>3 DEF HeldIsDecoded
  <2>10. HeldIsDecoded(t, g)
    BY <1>7, <2>5, <2>7, <2>9 DEF HeldIsDecoded, Suits
  <2>11. NothingLost(t, g)
    <3> SUFFICES ASSUME OpenAndAttached(t), NEW m \in t.from + 1 .. Len(g), Suits(t, g, m) PROVE m \in Held(t)
      BY DEF NothingLost
    <3>1. CASE m = new
      BY <2>7, <3>1
    <3>2. CASE m # new
      <4>1. m \in s.from + 1 .. Len(f) /\ m \in 1 .. Len(f)
        BY <1>2, <1>3, <2>5, <3>2
      <4>2. OpenAndAttached(s) /\ Suits(s, f, m)
        BY <1>2, <2>5, <4>1 DEF OpenAndAttached, Suits
      <4> QED
        BY <1>0, <2>7, <4>1, <4>2 DEF NothingLost
    <3> QED
      BY <3>1, <3>2
  <2>12. RingOK(t) /\ PhaseOK(t)
    <3>1. s.at = "attached"
      BY <1>0, <1>9 DEF PhaseOK, NothingYet
    <3> QED
      BY <1>0, <2>5, <3>1 DEF RingOK, PhaseOK
  <2> QED
    BY <2>5, <2>8, <2>10, <2>11, <2>12 DEF SocketOK
<1> QED
  BY <1>8, <1>9

\* The relaying loop takes the head of the inbox.
Taken(s) == [s EXCEPT !.inbox = Tail(@)]

LEMMA TakenFields ==
  ASSUME NEW s \in SocketType, FourInOrder(s), s.inbox # <<>>, NEW u, u = Taken(s), NEW m, m = Head(s.inbox)
  PROVE  /\ u \in SocketType /\ u.inbox = Tail(s.inbox) /\ m \in Nat
         /\ u.paused = s.paused
         /\ u.server = s.server /\ u.sub = s.sub /\ u.at = s.at /\ u.early = s.early /\ u.from = s.from
         /\ u.query = s.query /\ u.ring = s.ring /\ u.shifted = s.shifted /\ u.client = s.client
         /\ u.got = s.got /\ u.wire = s.wire
         /\ Sorted(u.inbox) /\ Elements(s.inbox) = Elements(u.inbox) \cup {m}
         /\ Below({m}, Elements(u.inbox)) /\ Held(s) = Held(u) \cup {m}
         /\ Below(Elements(s.got), {m}) /\ Below(Elements(s.wire), {m}) /\ Below(Elements(s.ring), {m})
         /\ Below(s.shifted, {m}) /\ FourInOrder(u)
<1>0. s.inbox \in Seq(Nat) /\ Sorted(s.inbox)
  BY DEF SocketType, FourInOrder
<1>1. /\ m \in Nat /\ Tail(s.inbox) \in Seq(Nat) /\ Sorted(Tail(s.inbox))
      /\ Elements(s.inbox) = Elements(Tail(s.inbox)) \cup {m} /\ Below({m}, Elements(Tail(s.inbox)))
  BY <1>0, TakeSorted
<1>2. /\ u \in SocketType /\ u.inbox = Tail(s.inbox) /\ u.paused = s.paused
      /\ u.server = s.server /\ u.sub = s.sub /\ u.at = s.at /\ u.early = s.early /\ u.from = s.from
      /\ u.query = s.query /\ u.ring = s.ring /\ u.shifted = s.shifted /\ u.client = s.client
      /\ u.got = s.got /\ u.wire = s.wire
  BY <1>1 DEF SocketType, Taken
<1>3. /\ Sorted(u.inbox) /\ Elements(s.inbox) = Elements(u.inbox) \cup {m} /\ Below({m}, Elements(u.inbox))
  BY <1>1, <1>2
<1>4. Held(s) = Held(u) \cup {m}
  BY <1>2, <1>3 DEF Held
<1>5. /\ Below(Elements(s.got), {m}) /\ Below(Elements(s.wire), {m}) /\ Below(Elements(s.ring), {m})
      /\ Below(s.shifted, {m}) /\ FourInOrder(u)
  BY <1>2, <1>3 DEF FourInOrder, Below
<1> QED
  BY <1>1, <1>2, <1>3, <1>4, <1>5

\* No transaction that matches gets lost with the head.
LEMMA StillNothingLost ==
  ASSUME NEW s, NEW f \in Seq(BOOLEAN), SocketOK(s, f), NEW t, t.at = s.at, t.client = s.client,
         t.from = s.from, t.query = s.query,
         \A m \in Held(s) : OpenAndAttached(s) /\ Suits(s, f, m) => m \in Held(t)
  PROVE  NothingLost(t, f)
BY DEF SocketOK, NothingLost, OpenAndAttached, Suits

LEMMA PassedOver ==
  ASSUME NEW s, NEW f \in Seq(BOOLEAN), SocketOK(s, f), s.sub, s.inbox # <<>>,
         ~Suits(s, f, Head(s.inbox)) \/ ~OpenAndAttached(s), NEW t, t = Taken(s)
  PROVE  SocketOK(t, f)
<1>0. /\ s \in SocketType /\ FourInOrder(s) /\ HeldIsDecoded(s, f) /\ RingOK(s) /\ PhaseOK(s)
      /\ s.at = "attached"
  BY DEF SocketOK, PhaseOK, NothingYet
<1>1. PICK m : m = Head(s.inbox)
  OBVIOUS
<1>2. /\ t \in SocketType /\ t.paused = s.paused
      /\ t.server = s.server /\ t.sub = s.sub /\ t.at = s.at /\ t.early = s.early /\ t.from = s.from
      /\ t.query = s.query /\ t.ring = s.ring /\ t.shifted = s.shifted /\ t.client = s.client
      /\ Held(s) = Held(t) \cup {m} /\ FourInOrder(t)
  BY <1>0, <1>1, TakenFields
<1>3. HeldIsDecoded(t, f) /\ RingOK(t) /\ PhaseOK(t)
  BY <1>0, <1>2 DEF HeldIsDecoded, Suits, RingOK, PhaseOK
<1>4. NothingLost(t, f)
  <2>1. \A x \in Held(s) : OpenAndAttached(s) /\ Suits(s, f, x) => x \in Held(t)
    BY <1>1, <1>2
  <2> QED
    BY <1>2, <2>1, StillNothingLost
<1> QED
  BY <1>2, <1>3, <1>4 DEF SocketOK

LEMMA SentOn ==
  ASSUME NEW s, NEW f \in Seq(BOOLEAN), SocketOK(s, f), s.sub, s.inbox # <<>>,
         ~s.paused, NEW t, t = [Taken(s) EXCEPT !.wire = Append(s.wire, Head(s.inbox))]
  PROVE  SocketOK(t, f)
<1>0. /\ s \in SocketType /\ FourInOrder(s) /\ HeldIsDecoded(s, f) /\ RingOK(s) /\ PhaseOK(s)
      /\ s.at = "attached"
  BY DEF SocketOK, PhaseOK, NothingYet
<1>1. PICK m, u : m = Head(s.inbox) /\ u = Taken(s)
  OBVIOUS
<1>2. /\ u \in SocketType /\ u.paused = s.paused /\ m \in Nat
      /\ u.server = s.server /\ u.sub = s.sub /\ u.at = s.at /\ u.early = s.early /\ u.from = s.from
      /\ u.query = s.query /\ u.ring = s.ring /\ u.shifted = s.shifted /\ u.client = s.client
      /\ u.got = s.got /\ u.wire = s.wire
      /\ Sorted(u.inbox) /\ Below({m}, Elements(u.inbox))
      /\ Held(s) = Held(u) \cup {m} /\ FourInOrder(u)
      /\ Below(Elements(s.got), {m}) /\ Below(Elements(s.wire), {m})
  BY <1>0, <1>1, TakenFields
<1>3. s.ring = <<>>
  BY <1>0 DEF RingOK
<1>4. s.wire \in Seq(Nat) /\ Sorted(s.wire)
  BY <1>0 DEF SocketType, FourInOrder
<1>5. /\ Append(s.wire, m) \in Seq(Nat) /\ Sorted(Append(s.wire, m))
      /\ Elements(Append(s.wire, m)) = Elements(s.wire) \cup {m}
  BY <1>2, <1>4, AppendSorted
<1>6. t = [u EXCEPT !.wire = Append(s.wire, m)]
  BY <1>1
<1>7. /\ t \in SocketType /\ t.inbox = u.inbox /\ t.wire = Append(s.wire, m)
      /\ t.paused = u.paused /\ t.server = u.server /\ t.sub = u.sub /\ t.at = u.at /\ t.early = u.early
      /\ t.from = u.from /\ t.query = u.query /\ t.ring = u.ring /\ t.shifted = u.shifted
      /\ t.client = u.client /\ t.got = u.got
  BY <1>2, <1>5, <1>6 DEF SocketType
<1>8. Sorted(t.wire) /\ Elements(t.wire) = Elements(u.wire) \cup {m}
  BY <1>2, <1>5, <1>7
<1>9. Held(t) = Held(s)
  BY <1>2, <1>7, <1>8 DEF Held
<1>10. FourInOrder(t)
  <2>1. Elements(t.ring) = {}
    BY <1>2, <1>3, <1>7, NoElements
  <2> QED
    BY <1>2, <1>7, <1>8, <2>1 DEF FourInOrder, Below
<1>11. HeldIsDecoded(t, f) /\ RingOK(t) /\ PhaseOK(t)
  BY <1>0, <1>2, <1>7, <1>9 DEF HeldIsDecoded, Suits, RingOK, PhaseOK
<1>12. NothingLost(t, f)
  <2>1. t.at = s.at /\ t.client = s.client /\ t.from = s.from /\ t.query = s.query
    BY <1>2, <1>7
  <2> QED
    BY <1>9, <2>1, StillNothingLost
<1> QED
  BY <1>7, <1>10, <1>11, <1>12 DEF SocketOK

\* A paused socket keeps the head in its ring; the oldest makes room.
LEMMA KeptInRing ==
  ASSUME NEW s, NEW f \in Seq(BOOLEAN), SocketOK(s, f), s.sub, s.inbox # <<>>, s.paused,
         Suits(s, f, Head(s.inbox)), NEW t,
         t = [Taken(s) EXCEPT !.ring = Push(s.ring, Head(s.inbox)),
                              !.shifted = IF Len(s.ring) = RingSize THEN s.shifted \cup {Head(s.ring)}
                                          ELSE s.shifted]
  PROVE  SocketOK(t, f)
<1>0. /\ s \in SocketType /\ FourInOrder(s) /\ HeldIsDecoded(s, f) /\ RingOK(s) /\ PhaseOK(s)
      /\ s.at = "attached"
  BY DEF SocketOK, PhaseOK, NothingYet
<1>1. PICK m, u, ring, shifted :
        /\ m = Head(s.inbox) /\ u = Taken(s) /\ ring = Push(s.ring, m)
        /\ shifted = IF Len(s.ring) = RingSize THEN s.shifted \cup {Head(s.ring)} ELSE s.shifted
  OBVIOUS
<1>2. /\ u \in SocketType /\ u.paused = s.paused /\ m \in Nat
      /\ u.server = s.server /\ u.sub = s.sub /\ u.at = s.at /\ u.early = s.early /\ u.from = s.from
      /\ u.query = s.query /\ u.ring = s.ring /\ u.shifted = s.shifted /\ u.client = s.client
      /\ u.got = s.got /\ u.wire = s.wire
      /\ Sorted(u.inbox) /\ Below({m}, Elements(u.inbox))
      /\ Held(s) = Held(u) \cup {m} /\ FourInOrder(u)
      /\ Below(Elements(s.got), {m}) /\ Below(Elements(s.wire), {m}) /\ Below(Elements(s.ring), {m})
      /\ Below(s.shifted, {m})
  BY <1>0, <1>1, TakenFields
<1>3. /\ s.ring \in Seq(Nat) /\ Sorted(s.ring) /\ Len(s.ring) <= RingSize /\ s.shifted \in SUBSET Nat
      /\ Below(s.shifted, Elements(s.ring))
  BY <1>0 DEF SocketType, FourInOrder, RingOK
<1>4. /\ ring \in Seq(Nat) /\ Sorted(ring) /\ Len(ring) <= RingSize /\ shifted \in SUBSET Nat
      /\ Elements(ring) \cup shifted = Elements(s.ring) \cup s.shifted \cup {m}
      /\ Elements(ring) \subseteq Elements(s.ring) \cup {m}
      /\ shifted \subseteq Elements(s.ring) \cup s.shifted
      /\ Below(shifted, Elements(ring))
  <2>1. CASE Len(s.ring) = RingSize
    <3>1. s.ring # <<>>
      <4>1. Len(<<>>) = 0
        OBVIOUS
      <4> QED
        BY <2>1, <4>1, LiveStreamAssumption
    <3>2. PICK h, r : h = Head(s.ring) /\ r = Tail(s.ring)
      OBVIOUS
    <3>3. /\ h \in Nat /\ r \in Seq(Nat) /\ Sorted(r) /\ Elements(s.ring) = Elements(r) \cup {h}
          /\ Below({h}, Elements(r)) /\ Len(r) = Len(s.ring) - 1 /\ Len(s.ring) \in Nat \ {0}
      BY <1>3, <3>1, <3>2, TakeSorted
    <3>4. Below(Elements(r), {m}) /\ h < m
      BY <1>2, <3>3 DEF Below
    <3>5. ring = Append(r, m) /\ shifted = s.shifted \cup {h}
      BY <1>1, <2>1, <3>2 DEF Push
    <3>6. /\ ring \in Seq(Nat) /\ Sorted(ring) /\ Elements(ring) = Elements(r) \cup {m}
          /\ Len(ring) = Len(r) + 1
      BY <1>2, <3>3, <3>4, <3>5, AppendSorted
    <3>7. Len(ring) <= RingSize
      BY <2>1, <3>3, <3>6
    <3>8. Below(shifted, Elements(ring))
      BY <1>2, <1>3, <3>3, <3>4, <3>5, <3>6 DEF Below
    <3>9. shifted \in SUBSET Nat
      BY <1>3, <3>3, <3>5
    <3> QED
      BY <3>3, <3>5, <3>6, <3>7, <3>8, <3>9
  <2>2. CASE Len(s.ring) # RingSize
    <3>1. ring = Append(s.ring, m) /\ shifted = s.shifted
      BY <1>1, <2>2 DEF Push
    <3>2. /\ ring \in Seq(Nat) /\ Sorted(ring) /\ Elements(ring) = Elements(s.ring) \cup {m}
          /\ Len(ring) = Len(s.ring) + 1
      BY <1>2, <1>3, <3>1, AppendSorted
    <3>3. Len(ring) <= RingSize
      <4>1. Len(s.ring) \in Nat /\ RingSize \in Nat
        BY <1>3, LiveStreamAssumption
      <4> QED
        BY <1>3, <2>2, <3>2, <4>1
    <3>4. Below(shifted, Elements(ring))
      BY <1>2, <1>3, <3>1, <3>2 DEF Below
    <3> QED
      BY <1>3, <3>1, <3>2, <3>3, <3>4
  <2> QED
    BY <2>1, <2>2
<1>5. t = [u EXCEPT !.ring = ring, !.shifted = shifted]
  BY <1>1
<1>6. /\ t \in SocketType /\ t.inbox = u.inbox /\ t.wire = u.wire
      /\ t.paused = u.paused /\ t.server = u.server /\ t.sub = u.sub /\ t.at = u.at /\ t.early = u.early
      /\ t.from = u.from /\ t.query = u.query /\ t.ring = ring /\ t.shifted = shifted
      /\ t.client = u.client /\ t.got = u.got
  BY <1>2, <1>4, <1>5 DEF SocketType
<1>7. Held(t) = Held(s)
  <2>1. Elements(t.ring) \cup t.shifted = Elements(u.ring) \cup u.shifted \cup {m}
    BY <1>2, <1>4, <1>6
  <2> QED
    BY <1>2, <1>6, <2>1 DEF Held
<1>8. FourInOrder(t)
  <2>1. /\ Below(Elements(s.got), Elements(s.ring)) /\ Below(Elements(s.wire), Elements(s.ring))
        /\ Below(Elements(s.ring), Elements(u.inbox)) /\ Below(s.shifted, Elements(u.inbox))
    BY <1>2 DEF FourInOrder
  <2>2. Below(Elements(t.got), Elements(t.ring)) /\ Below(Elements(t.wire), Elements(t.ring))
    BY <1>2, <1>4, <1>6, <2>1 DEF Below
  <2>3. Below(Elements(t.ring), Elements(t.inbox)) /\ Below(t.shifted, Elements(t.inbox))
    BY <1>2, <1>4, <1>6, <2>1 DEF Below
  <2>4. Sorted(t.ring) /\ Below(t.shifted, Elements(t.ring))
    BY <1>4, <1>6
  <2> QED
    BY <1>2, <1>6, <2>2, <2>3, <2>4 DEF FourInOrder
<1>9. HeldIsDecoded(t, f)
  <2>1. \A x \in Elements(t.ring) \cup t.shifted : Suits(s, f, x)
    BY <1>0, <1>1, <1>4, <1>6 DEF HeldIsDecoded
  <2>2. t.query = s.query /\ t.from = s.from
    BY <1>2, <1>6
  <2> QED
    BY <1>0, <1>7, <2>1, <2>2 DEF HeldIsDecoded, Suits
<1>10. RingOK(t) /\ PhaseOK(t)
  BY <1>0, <1>2, <1>4, <1>6 DEF RingOK, PhaseOK
<1>11. NothingLost(t, f)
  <2>1. t.at = s.at /\ t.client = s.client /\ t.from = s.from /\ t.query = s.query
    BY <1>2, <1>6
  <2> QED
    BY <1>7, <2>1, StillNothingLost
<1> QED
  BY <1>6, <1>8, <1>9, <1>10, <1>11 DEF SocketOK

\* Leaving the loop ends the subscription.
LEMMA LeftLoop ==
  ASSUME NEW s, NEW f \in Seq(BOOLEAN), SocketOK(s, f), s.inbox # <<>>, s.server # "open", NEW t,
         t = [Taken(s) EXCEPT !.sub = FALSE, !.inbox = <<>>]
  PROVE  SocketOK(t, f)
<1>0. /\ s \in SocketType /\ FourInOrder(s) /\ HeldIsDecoded(s, f) /\ RingOK(s) /\ PhaseOK(s)
      /\ s.client # "open"
  BY DEF SocketOK, PhaseOK
<1>1. PICK u : u = Taken(s)
  OBVIOUS
<1>2. /\ u \in SocketType /\ u.paused = s.paused
      /\ u.server = s.server /\ u.sub = s.sub /\ u.at = s.at /\ u.early = s.early /\ u.from = s.from
      /\ u.query = s.query /\ u.ring = s.ring /\ u.shifted = s.shifted /\ u.client = s.client
      /\ u.got = s.got /\ u.wire = s.wire
  BY <1>0, <1>1, TakenFields
<1>3. /\ t \in SocketType /\ t.inbox = <<>> /\ t.sub = FALSE /\ t.wire = s.wire
      /\ t.paused = s.paused /\ t.server = s.server /\ t.at = s.at /\ t.early = s.early
      /\ t.from = s.from /\ t.query = s.query /\ t.ring = s.ring /\ t.shifted = s.shifted
      /\ t.client = s.client /\ t.got = s.got
  BY <1>1, <1>2, NoElements DEF SocketType
<1>4. Elements(t.inbox) = {} /\ Sorted(t.inbox)
  BY <1>3, NoElements
<1>5. FourInOrder(t)
  BY <1>0, <1>3, <1>4 DEF FourInOrder, Below
<1>6. HeldIsDecoded(t, f)
  BY <1>0, <1>3, <1>4 DEF HeldIsDecoded, Held, Suits
<1>7. RingOK(t) /\ PhaseOK(t) /\ NothingLost(t, f)
  BY <1>0, <1>3 DEF RingOK, PhaseOK, NothingLost, OpenAndAttached, NothingYet
<1> QED
  BY <1>3, <1>5, <1>6, <1>7 DEF SocketOK

\* Only the phase before the handlers moves.
LEMMA FoundSocket ==
  ASSUME NEW s, NEW f \in Seq(BOOLEAN), SocketOK(s, f), s.at # "attached", NEW t, t = [s EXCEPT !.at = "connect"]
  PROVE  SocketOK(t, f)
<1>0. /\ s \in SocketType /\ FourInOrder(s) /\ HeldIsDecoded(s, f) /\ RingOK(s) /\ PhaseOK(s)
      /\ NothingLost(s, f)
  BY DEF SocketOK
<1>1. /\ t \in SocketType /\ t.paused = s.paused /\ t.server = s.server /\ t.sub = s.sub
      /\ t.at = "connect" /\ t.early = s.early /\ t.from = s.from /\ t.query = s.query /\ t.inbox = s.inbox
      /\ t.ring = s.ring /\ t.shifted = s.shifted /\ t.client = s.client /\ t.got = s.got /\ t.wire = s.wire
  BY <1>0 DEF SocketType, Phases
<1>2. FourInOrder(t) /\ RingOK(t) /\ Held(t) = Held(s)
  BY <1>0, <1>1 DEF FourInOrder, RingOK, Held
<1>3. HeldIsDecoded(t, f) /\ PhaseOK(t) /\ NothingLost(t, f)
  BY <1>0, <1>1, <1>2 DEF HeldIsDecoded, Suits, PhaseOK, NothingLost, OpenAndAttached, NothingYet
<1> QED
  BY <1>1, <1>2, <1>3 DEF SocketOK

-----------------------------------------------------------------------------
(* The steps. *)

LEMMA OneSocket ==
  ASSUME NEW k, NEW f, SocketsOK(k, f), NEW n \in SocketIds, NEW t, SocketOK(t, f),
         NEW l, l = [k EXCEPT ![n] = t]
  PROVE  SocketsOK(l, f)
BY DEF SocketsOK

LEMMA LowestUnused ==
  ASSUME NEW unused, unused \subseteq SocketIds, unused # {}
  PROVE  (CHOOSE k \in unused : \A j \in unused : k <= j) \in unused
<1>1. unused \subseteq Nat
  BY DEF SocketIds
<1>2. PICK k \in unused : \A j \in unused : <<j, k>> \notin OpToRel(<, Nat)
  BY <1>1, NatLessThanWellFounded, WFMin, Zenon
<1>3. \A j \in unused : k <= j
  <2> TAKE j \in unused
  <2>1. ~(j < k)
    BY <1>1, <1>2 DEF OpToRel
  <2> QED
    BY <1>1, <2>1
<1> QED
  BY <1>3

LEMMA KeptRows ==
  ASSUME NEW rows \in Seq(Nat), NEW r, r = Keep(rows)
  PROVE  r \in Seq(Nat) /\ Len(r) <= RowsKept
<1>1. PICK k : k = IF Len(rows) < RowsKept THEN Len(rows) ELSE RowsKept
  OBVIOUS
<1>2. k \in Nat /\ k <= Len(rows) /\ k <= RowsKept /\ RowsKept \in Nat /\ Len(rows) \in Nat
  BY <1>1, LiveStreamAssumption
<1>3. r = SubSeq(rows, 1, k)
  BY <1>1 DEF Keep
<1>4. r \in Seq(Nat) /\ Len(r) = k
  BY <1>2, <1>3
<1> QED
  BY <1>2, <1>4

LEMMA WithoutOldOK ==
  ASSUME StreamIInv
  PROVE  SocketsOK(WithoutOld, feed)
<1>1. CASE logs.socket = 0
  BY <1>1 DEF WithoutOld, StreamIInv
<1>2. CASE logs.socket # 0
  <2>1. PICK n : n = logs.socket
    OBVIOUS
  <2>2. n \in SocketIds /\ feed \in Seq(BOOLEAN) /\ SocketsOK(sock, feed)
    BY <1>2, <2>1, LiveStreamAssumption DEF StreamIInv, LogsOK, SocketIds
  <2>3. PICK t : t = [sock[n] EXCEPT !.client = "closed", !.wire = <<>>]
    OBVIOUS
  <2>4. SocketOK(t, feed)
    BY <2>2, <2>3, ClosedSocket DEF SocketsOK
  <2>5. WithoutOld = [sock EXCEPT ![n] = t]
    BY <1>2, <2>1, <2>3 DEF WithoutOld, Closing
  <2> QED
    BY <2>2, <2>4, <2>5, OneSocket
<1> QED
  BY <1>1, <1>2

LEMMA ReopenStep ==
  ASSUME StreamIInv, NEW query \in BOOLEAN, NEW live \in BOOLEAN, Reopen(query, live),
         UNCHANGED <<feed, nats, proc>>
  PROVE  StreamIInv'
<1>1. PICK unused : unused = {n \in SocketIds : sock[n].at = "unused"}
  OBVIOUS
<1>2. PICK n : n = CHOOSE k \in unused : \A j \in unused : k <= j
  OBVIOUS
<1>3. /\ feed \in Seq(BOOLEAN) /\ nats \in {"none", "up", "rejected"} /\ proc \in {"up", "closing"}
      /\ logs \in [query : BOOLEAN, live : BOOLEAN, socket : 0 .. MaxSockets, rows : Seq(Nat)]
      /\ Len(logs.rows) <= RowsKept
  BY DEF StreamIInv, LogsOK
<1>4. SocketsOK(WithoutOld, feed)
  BY WithoutOldOK
<1>5. CASE live
  <2>1. PICK t : t = [NoSocket EXCEPT !.at = "lookup", !.client = "open", !.server = "open", !.query = query]
    OBVIOUS
  <2>2. /\ unused # {} /\ sock' = [WithoutOld EXCEPT ![n] = t]
        /\ logs' = [logs EXCEPT !.query = query, !.live = live, !.socket = n]
    BY <1>1, <1>2, <1>5, <2>1, Zenon DEF Reopen
  <2>3. n \in SocketIds
    BY <1>1, <1>2, <2>2, LowestUnused
  <2>4. SocketOK(t, feed)
    BY <1>3, <2>1, ResetSocket DEF Phases
  <2>5. SocketsOK(sock', feed)
    BY <1>4, <2>2, <2>3, <2>4, OneSocket
  <2>6. n \in 0 .. MaxSockets
    BY <2>3, LiveStreamAssumption DEF SocketIds
  <2>7. /\ logs' \in [query : BOOLEAN, live : BOOLEAN, socket : 0 .. MaxSockets, rows : Seq(Nat)]
        /\ logs'.rows = logs.rows
    BY <1>3, <2>2, <2>6
  <2> QED
    BY <1>3, <2>5, <2>7 DEF StreamIInv, LogsOK
<1>6. CASE ~live
  <2>1. sock' = WithoutOld /\ logs' = [logs EXCEPT !.query = query, !.live = live, !.socket = 0]
    BY <1>6, Zenon DEF Reopen
  <2>2. 0 \in 0 .. MaxSockets
    BY LiveStreamAssumption
  <2>3. /\ logs' \in [query : BOOLEAN, live : BOOLEAN, socket : 0 .. MaxSockets, rows : Seq(Nat)]
        /\ logs'.rows = logs.rows
    BY <1>3, <2>1, <2>2
  <2>4. SocketsOK(sock', feed)
    BY <1>4, <2>1
  <2> QED
    BY <1>3, <2>3, <2>4 DEF StreamIInv, LogsOK
<1> QED
  BY <1>5, <1>6

LEMMA ReceiveStep ==
  ASSUME StreamIInv, NEW n \in SocketIds, Receive(n)
  PROVE  StreamIInv'
<1>1. PICK s, h, t, rows :
        /\ s = sock[n] /\ h = Head(s.wire) /\ rows = logs.rows
        /\ t = [s EXCEPT !.wire = Tail(@), !.got = Append(@, Head(s.wire))]
  OBVIOUS
<1>2. /\ feed \in Seq(BOOLEAN) /\ SocketOK(s, feed) /\ SocketsOK(sock, feed) /\ s.wire # <<>>
      /\ sock' = [sock EXCEPT ![n] = t]
      /\ feed' = feed /\ nats' = nats /\ proc' = proc
  BY <1>1 DEF Receive, StreamIInv, SocketsOK
<1>3. SocketOK(t, feed) /\ h \in Nat
  BY <1>1, <1>2, ReceivingSocket
<1>4. SocketsOK(sock', feed)
  BY <1>2, <1>3, OneSocket
<1>5. PICK kept : kept = Keep(<<h>> \o rows)
  OBVIOUS
<1>6. logs' = [logs EXCEPT !.rows = kept]
  BY <1>1, <1>5 DEF Receive
<1>7. rows \in Seq(Nat)
  BY <1>1 DEF StreamIInv, LogsOK
<1>8. <<h>> \o rows \in Seq(Nat)
  BY <1>3, <1>7
<1>9. kept \in Seq(Nat) /\ Len(kept) <= RowsKept
  BY <1>5, <1>8, KeptRows
<1>10. LogsOK'
  BY <1>6, <1>9 DEF StreamIInv, LogsOK
<1> QED
  BY <1>2, <1>4, <1>10 DEF StreamIInv

LEMMA SearchStep ==
  ASSUME StreamIInv, SearchAnswered
  PROVE  StreamIInv'
<1>1. <<>> \in Seq(Nat) /\ Len(<<>>) = 0 /\ 0 <= RowsKept
  BY LiveStreamAssumption
<1>2. LogsOK'
  BY <1>1 DEF StreamIInv, LogsOK, SearchAnswered
<1> QED
  BY <1>2 DEF StreamIInv, SearchAnswered

\* The other actions replace one socket at most, and leave the panel alone.
LEMMA SocketStep ==
  ASSUME StreamIInv, NEW n \in SocketIds, NEW t, SocketOK(t, feed), sock' = [sock EXCEPT ![n] = t],
         UNCHANGED <<feed, logs>>, nats' \in {"none", "up", "rejected"}, proc' \in {"up", "closing"}
  PROVE  StreamIInv'
<1>1. SocketsOK(sock', feed)
  BY OneSocket DEF StreamIInv
<1> QED
  BY <1>1 DEF StreamIInv, LogsOK

LEMMA FindProgramStep ==
  ASSUME StreamIInv, NEW n \in SocketIds, FindProgram(n)
  PROVE  StreamIInv'
<1>1. PICK s, t, u : /\ s = sock[n] /\ t = [s EXCEPT !.at = "connect"]
                     /\ u = [NoSocket EXCEPT !.at = "gone"]
  OBVIOUS
<1>2. SocketOK(s, feed) /\ feed \in Seq(BOOLEAN) /\ s.at # "attached" /\ sock = [k \in SocketIds |-> sock[k]]
  BY <1>1 DEF StreamIInv, SocketsOK, FindProgram
<1>3. SocketOK(t, feed)
  BY <1>1, <1>2, FoundSocket
<1>4. SocketOK(u, feed)
  BY <1>1, <1>2, ResetSocket
<1>5. \/ sock' = [sock EXCEPT ![n] = t]
      \/ sock' = [sock EXCEPT ![n] = u]
  BY <1>1 DEF FindProgram
<1>6. UNCHANGED <<feed, logs>> /\ nats' \in {"none", "up", "rejected"} /\ proc' \in {"up", "closing"}
  BY DEF FindProgram, StreamIInv, Unhandled
<1> QED
  BY <1>3, <1>4, <1>5, <1>6, SocketStep

LEMMA ConnectStep ==
  ASSUME StreamIInv, NEW n \in SocketIds, Connect(n)
  PROVE  StreamIInv'
<1>1. PICK s, t, u :
        /\ s = sock[n] /\ u = [NoSocket EXCEPT !.at = "gone"]
        /\ t = [s EXCEPT !.at = "attached", !.sub = TRUE, !.from = Len(feed), !.early = s.server # "open"]
  OBVIOUS
<1>2. SocketOK(s, feed) /\ feed \in Seq(BOOLEAN) /\ s.at # "attached" /\ sock = [k \in SocketIds |-> sock[k]]
  BY <1>1 DEF StreamIInv, SocketsOK, Connect
<1>3. SocketOK(t, feed)
  BY <1>1, <1>2, AttachedSocket
<1>4. SocketOK(u, feed)
  BY <1>1, <1>2, ResetSocket
<1>5. \/ sock' = [sock EXCEPT ![n] = t]
      \/ sock' = [sock EXCEPT ![n] = u]
  BY <1>1 DEF Connect, Attach
<1>6. UNCHANGED <<feed, logs>> /\ nats' \in {"none", "up", "rejected"} /\ proc' \in {"up", "closing"}
  BY DEF Connect, StreamIInv, Unhandled
<1> QED
  BY <1>3, <1>4, <1>5, <1>6, SocketStep

LEMMA SeeCloseStep ==
  ASSUME StreamIInv, NEW n \in SocketIds, SeeClose(n)
  PROVE  StreamIInv'
<1>1. PICK s, t : s = sock[n] /\ t = [s EXCEPT !.server = "closed", !.sub = @ /\ s.at # "attached"]
  OBVIOUS
<1>2. SocketOK(s, feed) /\ feed \in Seq(BOOLEAN) /\ s.client = "closed"
  BY <1>1 DEF StreamIInv, SocketsOK, SeeClose
<1>3. SocketOK(t, feed)
  BY <1>1, <1>2, SeenSocket
<1>4. sock' = [sock EXCEPT ![n] = t]
  BY <1>1 DEF SeeClose
<1>5. UNCHANGED <<feed, logs>> /\ nats' \in {"none", "up", "rejected"} /\ proc' \in {"up", "closing"}
  BY DEF SeeClose, StreamIInv
<1> QED
  BY <1>3, <1>4, <1>5, SocketStep

LEMMA OrderStep ==
  ASSUME StreamIInv, NEW n \in SocketIds, Pause(n) \/ Resume(n)
  PROVE  StreamIInv'
<1>1. PICK s, t, u : /\ s = sock[n] /\ t = [s EXCEPT !.paused = TRUE]
                     /\ u = [s EXCEPT !.paused = FALSE, !.ring = <<>>, !.wire = @ \o s.ring]
  OBVIOUS
<1>2. SocketOK(s, feed) /\ feed \in Seq(BOOLEAN) /\ sock = [k \in SocketIds |-> sock[k]]
  BY <1>1 DEF StreamIInv, SocketsOK
<1>3. UNCHANGED <<feed, logs>> /\ nats' \in {"none", "up", "rejected"} /\ proc' \in {"up", "closing"}
  BY DEF Pause, Resume, Order, StreamIInv
<1>4. sock = [sock EXCEPT ![n] = s]
  BY <1>1, <1>2
<1>5. CASE s.at = "attached"
  <2>1. SocketOK(t, feed) /\ SocketOK(u, feed)
    BY <1>1, <1>2, <1>5, PausedSocket, ResumedSocket
  <2>2. \/ sock' = [sock EXCEPT ![n] = t]
        \/ sock' = [sock EXCEPT ![n] = u]
    BY <1>1, <1>2, <1>5 DEF Pause, Resume, Drained
  <2> QED
    BY <1>3, <2>1, <2>2, SocketStep
<1>6. CASE s.at # "attached"
  <2>1. sock' = [sock EXCEPT ![n] = s]
    BY <1>1, <1>4, <1>6 DEF Pause, Resume
  <2> QED
    BY <1>2, <1>3, <2>1, SocketStep
<1> QED
  BY <1>5, <1>6

LEMMA DecodedStep ==
  ASSUME StreamIInv, Decoded
  PROVE  StreamIInv'
<1>1. feed \in Seq(BOOLEAN) /\ SocketsOK(sock, feed)
  BY DEF StreamIInv
<1>2. PICK b \in BOOLEAN :
        /\ feed' = Append(feed, b)
        /\ sock' = [n \in SocketIds |-> IF sock[n].sub THEN [sock[n] EXCEPT !.inbox = Append(@, Len(feed) + 1)]
                                        ELSE sock[n]]
        /\ UNCHANGED <<nats, proc, logs, streamBounds>>
  BY Zenon DEF Decoded
<1>3. \A n \in SocketIds : SocketOK(sock'[n], feed')
  <2> TAKE n \in SocketIds
  <2>1. PICK s, t, g : /\ s = sock[n] /\ t = sock'[n] /\ g = feed'
    OBVIOUS
  <2>2. /\ t = IF s.sub THEN [s EXCEPT !.inbox = Append(@, Len(feed) + 1)] ELSE s
        /\ g = Append(feed, b) /\ SocketOK(s, feed)
    BY <1>1, <1>2, <2>1 DEF SocketsOK
  <2>3. SocketOK(t, g)
    BY <1>1, <2>2, DecodedSocket
  <2> QED
    BY <2>1, <2>3
<1>4. SocketsOK(sock', feed')
  BY <1>2, <1>3 DEF SocketsOK
<1>5. feed' \in Seq(BOOLEAN)
  BY <1>1, <1>2, MoreFeed
<1> QED
  BY <1>2, <1>4, <1>5 DEF StreamIInv, LogsOK

LEMMA RelayStep ==
  ASSUME StreamIInv, NEW n \in SocketIds, Relay(n)
  PROVE  StreamIInv'
<1>1. PICK s, m, u : s = sock[n] /\ m = Head(s.inbox) /\ u = Taken(s)
  OBVIOUS
<1>2. SocketOK(s, feed) /\ feed \in Seq(BOOLEAN) /\ s.sub /\ s.inbox # <<>>
  BY <1>1 DEF StreamIInv, SocketsOK, Relay
<1>3. PICK t :
        /\ sock' = [sock EXCEPT ![n] = t]
        /\ t = IF Gone(u) THEN [u EXCEPT !.sub = FALSE, !.inbox = <<>>]
               ELSE IF ~Matches(n, m) THEN u
               ELSE IF u.paused
                    THEN [u EXCEPT !.ring = Push(@, m),
                                   !.shifted = IF Len(u.ring) = RingSize THEN @ \cup {Head(u.ring)} ELSE @]
               ELSE [u EXCEPT !.wire = IF u.client = "open" THEN Append(@, m) ELSE @]
  BY <1>1, Zenon DEF Relay, Taken
<1>4. UNCHANGED <<feed, logs>> /\ nats' \in {"none", "up", "rejected"} /\ proc' \in {"up", "closing"}
  BY DEF Relay, StreamIInv
<1>5. /\ u \in SocketType /\ u.paused = s.paused /\ u.server = s.server /\ u.ring = s.ring
      /\ u.shifted = s.shifted /\ u.client = s.client /\ u.wire = s.wire
  <2>1. s \in SocketType /\ FourInOrder(s) /\ s.inbox # <<>>
    BY <1>2 DEF SocketOK
  <2>2. u = Taken(s) /\ m = Head(s.inbox)
    BY <1>1
  <2>3. /\ u \in SocketType /\ u.inbox = Tail(s.inbox) /\ u.paused = s.paused
        /\ u.server = s.server /\ u.sub = s.sub /\ u.at = s.at /\ u.early = s.early /\ u.from = s.from
        /\ u.query = s.query /\ u.ring = s.ring /\ u.shifted = s.shifted /\ u.client = s.client
        /\ u.wire = s.wire
    BY <2>1, <2>2, TakenFields
  <2> QED
    BY <2>3
<1>6. Matches(n, m) <=> Suits(s, feed, m)
  BY <1>1 DEF Matches, Suits
<1>7. SocketOK(t, feed)
  <2>1. CASE Gone(u)
    <3>1. s.server # "open"
      BY <1>5, <2>1 DEF Gone
    <3>2. t = [u EXCEPT !.sub = FALSE, !.inbox = <<>>]
      BY <1>3, <2>1
    <3> QED
      BY <1>1, <1>2, <3>1, <3>2, LeftLoop
  <2>2. CASE ~Gone(u) /\ ~Matches(n, m)
    <3>1. t = u
      BY <1>3, <2>2
    <3> QED
      BY <1>1, <1>2, <1>6, <2>2, <3>1, PassedOver
  <2>3. CASE ~Gone(u) /\ Matches(n, m) /\ u.paused
    <3>1. t = [u EXCEPT !.ring = Push(s.ring, m),
                        !.shifted = IF Len(s.ring) = RingSize THEN s.shifted \cup {Head(s.ring)} ELSE s.shifted]
      BY <1>3, <1>5, <2>3
    <3> QED
      BY <1>1, <1>2, <1>5, <1>6, <2>3, <3>1, KeptInRing
  <2>4. CASE ~Gone(u) /\ Matches(n, m) /\ ~u.paused /\ u.client = "open"
    <3>1. t = [u EXCEPT !.wire = Append(s.wire, m)]
      BY <1>3, <1>5, <2>4
    <3> QED
      BY <1>1, <1>2, <1>5, <2>4, <3>1, SentOn
  <2>5. CASE ~Gone(u) /\ Matches(n, m) /\ ~u.paused /\ u.client # "open"
    <3>1. t = [u EXCEPT !.wire = u.wire]
      BY <1>3, <2>5
    <3>2. t = u
      BY <1>5, <3>1 DEF SocketType
    <3>3. ~OpenAndAttached(s)
      BY <1>5, <2>5 DEF OpenAndAttached
    <3> QED
      BY <1>1, <1>2, <3>2, <3>3, PassedOver
  <2> QED
    BY <2>1, <2>2, <2>3, <2>4, <2>5
<1> QED
  BY <1>3, <1>4, <1>7, SocketStep

LEMMA RestartStep ==
  ASSUME StreamIInv, ExitAndRestart
  PROVE  StreamIInv'
<1>1. feed \in Seq(BOOLEAN) /\ feed' = feed /\ logs' = logs /\ nats' = "none" /\ proc' = "up"
  BY DEF ExitAndRestart, StreamIInv
<1>2. PICK t : t = [NoSocket EXCEPT !.at = "gone", !.client = "closed"]
  OBVIOUS
<1>3. SocketOK(t, feed) /\ SocketOK(NoSocket, feed)
  <2>1. "gone" \in (Phases \cup {"gone"}) \ {"attached"} /\ TRUE \in BOOLEAN
    OBVIOUS
  <2>2. SocketOK(t, feed)
    BY <1>1, <1>2, <2>1, ResetSocket
  <2>3. PICK r : r = NoSocket
    OBVIOUS
  <2>4. SocketOK(r, feed)
    BY <1>1, <2>1, <2>3, ResetSocket
  <2> QED
    BY <2>2, <2>3, <2>4
<1>4. sock' = [n \in SocketIds |-> IF sock[n].at = "unused" THEN NoSocket ELSE t]
  BY <1>2 DEF ExitAndRestart
<1>5. SocketsOK(sock', feed')
  BY <1>1, <1>3, <1>4 DEF SocketsOK
<1> QED
  BY <1>1, <1>5 DEF StreamIInv, LogsOK

-----------------------------------------------------------------------------

LEMMA StreamInitOK ==
  ASSUME StreamInit
  PROVE  StreamIInv
<1>1. feed = <<>> /\ nats = "none" /\ proc = "up" /\ sock = [n \in SocketIds |-> NoSocket]
  BY DEF StreamInit
<1>2. feed \in Seq(BOOLEAN)
  BY <1>1
<1>3. PICK r : r = NoSocket
  OBVIOUS
<1>4. "gone" \in (Phases \cup {"gone"}) \ {"attached"} /\ TRUE \in BOOLEAN
  OBVIOUS
<1>5. SocketOK(r, feed)
  BY <1>2, <1>3, <1>4, ResetSocket
<1>6. SocketsOK(sock, feed)
  BY <1>1, <1>3, <1>5 DEF SocketsOK
<1>7. LogsOK
  <2>1. <<>> \in Seq(Nat) /\ Len(<<>>) = 0 /\ 0 <= RowsKept /\ 0 \in 0 .. MaxSockets
    BY LiveStreamAssumption
  <2> QED
    BY <2>1 DEF StreamInit, LogsOK
<1> QED
  BY <1>1, <1>2, <1>6, <1>7 DEF StreamIInv

LEMMA StreamNextOK ==
  ASSUME StreamIInv, [StreamNext]_streamVars
  PROVE  StreamIInv'
<1>0. logs.query \in BOOLEAN /\ logs.live \in BOOLEAN
  BY DEF StreamIInv, LogsOK
<1>1. CASE ToggleLive
  <2>1. PICK q, l : q = logs.query /\ l = ~logs.live
    OBVIOUS
  <2>2. Reopen(q, l) /\ UNCHANGED <<feed, nats, proc>>
    BY <1>1, <2>1 DEF ToggleLive
  <2>3. q \in BOOLEAN /\ l \in BOOLEAN
    BY <1>0, <2>1, Zenon
  <2> QED
    BY <2>2, <2>3, ReopenStep
<1>2. CASE TypeText
  <2>1. PICK q, l : q = ~logs.query /\ l = logs.live
    OBVIOUS
  <2>2. Reopen(q, l) /\ UNCHANGED <<feed, nats, proc>>
    BY <1>2, <2>1 DEF TypeText
  <2>3. q \in BOOLEAN /\ l \in BOOLEAN
    BY <1>0, <2>1, Zenon
  <2> QED
    BY <2>2, <2>3, ReopenStep
<1>3. CASE SearchAnswered
  BY <1>3, SearchStep
<1>4. CASE RequestConnects
  BY <1>4 DEF RequestConnects, StreamIInv, LogsOK
<1>5. CASE Decoded
  BY <1>5, DecodedStep
<1>6. CASE ExitAndRestart
  BY <1>6, RestartStep
<1>7. ASSUME NEW n \in SocketIds,
             \/ Receive(n) \/ FindProgram(n) \/ Connect(n) \/ SeeClose(n) \/ Pause(n) \/ Resume(n) \/ Relay(n)
      PROVE  StreamIInv'
  BY <1>7, ReceiveStep, FindProgramStep, ConnectStep, SeeCloseStep, OrderStep, RelayStep
<1>8. CASE UNCHANGED streamVars
  BY <1>8 DEF streamVars, StreamIInv, LogsOK
<1> QED
  BY <1>1, <1>2, <1>3, <1>4, <1>5, <1>6, <1>7, <1>8 DEF StreamNext

LEMMA StreamInvFollows ==
  ASSUME StreamIInv
  PROVE  StreamInv
<1>1. feed \in Seq(BOOLEAN) /\ Len(feed) \in Nat
  BY DEF StreamIInv
<1>2. StreamTypeOK
  BY DEF StreamIInv, LogsOK, SocketsOK, SocketOK, SocketType, RingOK, StreamTypeOK
<1>3. ReceivedInOrder
  <2> SUFFICES ASSUME NEW n \in SocketIds PROVE Sorted(sock[n].got \o sock[n].wire)
    BY DEF ReceivedInOrder, Sorted
  <2>1. /\ sock[n].got \in Seq(Nat) /\ sock[n].wire \in Seq(Nat) /\ Sorted(sock[n].got) /\ Sorted(sock[n].wire)
        /\ Below(Elements(sock[n].got), Elements(sock[n].wire))
    BY DEF StreamIInv, SocketsOK, SocketOK, SocketType, FourInOrder
  <2> QED
    BY <2>1, JoinSorted
<1>4. NothingIsSkipped
  <2> SUFFICES ASSUME NEW n \in SocketIds, sock[n].at = "attached", sock[n].client = "open"
               PROVE  /\ {m \in sock[n].from + 1 .. Len(feed) : Matches(n, m)} =
                           {m \in Elements(sock[n].got \o sock[n].wire \o sock[n].ring \o sock[n].inbox) :
                              Matches(n, m)} \cup sock[n].shifted
                      /\ \A m \in sock[n].shifted, k \in Elements(sock[n].ring) : m < k
    BY DEF NothingIsSkipped
  <2>1. PICK s : s = sock[n]
    OBVIOUS
  <2>2. /\ s \in SocketType /\ FourInOrder(s) /\ HeldIsDecoded(s, feed) /\ NothingLost(s, feed) /\ OpenAndAttached(s)
    BY <2>1 DEF StreamIInv, SocketsOK, SocketOK, OpenAndAttached
  <2>3. \A m : Matches(n, m) <=> Suits(s, feed, m)
    BY <2>1 DEF Matches, Suits
  <2>4. PICK gw, gwr, all : /\ gw = s.got \o s.wire /\ gwr = gw \o s.ring /\ all = gwr \o s.inbox
    OBVIOUS
  <2>5. /\ s.got \in Seq(Nat) /\ s.wire \in Seq(Nat) /\ s.ring \in Seq(Nat) /\ s.inbox \in Seq(Nat)
        /\ Sorted(s.got) /\ Sorted(s.wire) /\ Sorted(s.ring) /\ Sorted(s.inbox)
        /\ Below(Elements(s.got), Elements(s.wire)) /\ Below(Elements(s.got), Elements(s.ring))
        /\ Below(Elements(s.got), Elements(s.inbox)) /\ Below(Elements(s.wire), Elements(s.ring))
        /\ Below(Elements(s.wire), Elements(s.inbox)) /\ Below(Elements(s.ring), Elements(s.inbox))
        /\ Below(s.shifted, Elements(s.ring))
    BY <2>2 DEF SocketType, FourInOrder
  <2>6. gw \in Seq(Nat) /\ Sorted(gw) /\ Elements(gw) = Elements(s.got) \cup Elements(s.wire)
    <3>1. /\ s.got \in Seq(Nat) /\ s.wire \in Seq(Nat) /\ Sorted(s.got) /\ Sorted(s.wire)
          /\ Below(Elements(s.got), Elements(s.wire)) /\ gw = s.got \o s.wire
      BY <2>4, <2>5
    <3> QED
      BY <3>1, JoinSorted
  <2>7. Below(Elements(gw), Elements(s.ring)) /\ Below(Elements(gw), Elements(s.inbox))
    BY <2>5, <2>6 DEF Below
  <2>8. gwr \in Seq(Nat) /\ Sorted(gwr) /\ Elements(gwr) = Elements(gw) \cup Elements(s.ring)
    <3>1. /\ gw \in Seq(Nat) /\ s.ring \in Seq(Nat) /\ Sorted(gw) /\ Sorted(s.ring)
          /\ Below(Elements(gw), Elements(s.ring)) /\ gwr = gw \o s.ring
      BY <2>4, <2>5, <2>6, <2>7
    <3> QED
      BY <3>1, JoinSorted
  <2>9. Below(Elements(gwr), Elements(s.inbox))
    BY <2>5, <2>7, <2>8 DEF Below
  <2>10. Elements(all) = Elements(gwr) \cup Elements(s.inbox)
    <3>1. /\ gwr \in Seq(Nat) /\ s.inbox \in Seq(Nat) /\ Sorted(gwr) /\ Sorted(s.inbox)
          /\ Below(Elements(gwr), Elements(s.inbox)) /\ all = gwr \o s.inbox
      BY <2>4, <2>5, <2>8, <2>9
    <3> QED
      BY <3>1, JoinSorted
  <2>11. Held(s) = Elements(all) \cup s.shifted
    BY <2>6, <2>8, <2>10 DEF Held
  <2>12. /\ \A m \in s.from + 1 .. Len(feed) : Suits(s, feed, m) => m \in Elements(all) \cup s.shifted
         /\ Elements(all) \cup s.shifted \subseteq s.from + 1 .. Len(feed)
         /\ \A m \in s.shifted : Suits(s, feed, m)
    BY <2>2, <2>11 DEF NothingLost, HeldIsDecoded
  <2>13. {m \in s.from + 1 .. Len(feed) : Suits(s, feed, m)} =
           {m \in Elements(all) : Suits(s, feed, m)} \cup s.shifted
    BY <2>12
  <2>14. {m \in s.from + 1 .. Len(feed) : Matches(n, m)} = {m \in s.from + 1 .. Len(feed) : Suits(s, feed, m)}
    BY <2>3
  <2>15. {m \in Elements(all) : Matches(n, m)} = {m \in Elements(all) : Suits(s, feed, m)}
    BY <2>3
  <2>16. all = sock[n].got \o sock[n].wire \o sock[n].ring \o sock[n].inbox
    BY <2>1, <2>4
  <2>17. \A m \in s.shifted, k \in Elements(s.ring) : m < k
    BY <2>5 DEF Below
  <2> QED
    BY <2>1, <2>13, <2>14, <2>15, <2>16, <2>17
<1>5. OnlyEarlyClosesLeak
  BY DEF StreamIInv, SocketsOK, SocketOK, PhaseOK, OnlyEarlyClosesLeak
<1> QED
  BY <1>2, <1>3, <1>4, <1>5 DEF StreamInv

\* The WebSocket relay of index.ts, for any number of sockets and any size of the
\* ring: a browser gets every transaction that matches its query once and in order,
\* only the oldest a paused ring kept are dropped, and a subscription survives its
\* socket only if that closed before the handlers were attached.
THEOREM StreamInvariant == StreamSpec => []StreamInv
<1>1. StreamInit => StreamIInv
  BY StreamInitOK
<1>2. StreamIInv /\ [StreamNext]_streamVars => StreamIInv'
  BY StreamNextOK
<1>3. StreamIInv => StreamInv
  BY StreamInvFollows
<1> QED
  BY <1>1, <1>2, <1>3, PTL DEF StreamSpec

-----------------------------------------------------------------------------
(* Replays.  What a call may be, on the rows rs of replay_results. *)

ReplayOutcomes == Outcomes \cup Unfinished \cup {"none", "threw"}
ReplayCalls ==
  [op : {"run", "job", "save", "bulk", "progress", "result"}, sig : Sigs \cup {NoSig}, mods : Sigs \cup {NoSig},
   at : {"gate", "rows", "simulate", "write", "ok", "refused", "threw"}, row : Nat, bulk : SUBSET Nat,
   outcome : ReplayOutcomes, read : [done : Nat, total : Nat]]
ResultRows ==
  [sig : Sigs \cup {NoSig}, status : Outcomes \cup Unfinished, said : Outcomes \cup {"none", "threw"}]

Finished(rs) == {n \in 1 .. Len(rs) : rs[n].status \in Outcomes}
AtWork(c) == c.op \in {"job", "bulk"} /\ c.at \in {"simulate", "write"}

\* The rows of a bulk follow each other, and are finished up to the one in hand.
BulkUnderWay(c, rs) ==
  /\ c.row \in c.bulk /\ c.bulk \subseteq 1 .. Len(rs)
  /\ \A m, n \in c.bulk, k \in Nat : m <= k /\ k <= n => k \in c.bulk
  /\ \A n \in c.bulk : n < c.row <=> n \in Finished(rs)

CallIsSound(c, rs) ==
  /\ c.op = "job" => /\ c.bulk = {}
                     /\ c.at \in {"gate", "rows", "refused"} => c.row = 0
                     /\ c.at \in {"simulate", "write", "ok"} => c.row \in 1 .. Len(rs)
                     /\ c.at = "write" => c.outcome \in Outcomes
  /\ c.op = "bulk" => /\ c.at \in {"gate", "rows", "refused"} => c.row = 0
                      /\ c.at \in {"simulate", "write"} => BulkUnderWay(c, rs)
                      /\ c.at = "write" => c.outcome \in Outcomes \cup {"threw"}
                      /\ c.at = "ok" => c.bulk \subseteq Finished(rs)
  /\ c.op = "progress" => /\ c.bulk \subseteq Finished(rs) /\ c.at \in {"gate", "rows", "ok", "threw"}
                          /\ c.at = "ok" => c.read.done = c.read.total
  /\ c.op = "result" => c.row \in 1 .. Len(rs) /\ c.at \in {"gate", "rows", "ok", "threw"}

ReplayTabType ==
  [calls : Seq(ReplayCalls), sig : Sigs \cup {NoSig},
   shown : SUBSET [sig : Sigs \cup {NoSig}, mods : Sigs \cup {NoSig}, got : ReplayOutcomes],
   bulk : SUBSET Nat, status : [done : Nat, total : Nat], of : SUBSET Nat]

\* The last progress asked for is of the bulk the page names; with none under way
\* the one shown is.  h counts failures and restarts.
ProgressComes(p, h) ==
  h = 0 /\ p.bulk # {} =>
    /\ Of(p.calls, "progress") = {} => p.of = p.bulk
    /\ \A c : LastOf(p.calls, "progress", c) => c.bulk = p.bulk

TabIsSound(p, rs, h) ==
  /\ p \in ReplayTabType
  /\ \A k \in 1 .. Len(p.calls) : CallIsSound(p.calls[k], rs)
  /\ \A k \in 2 .. Len(p.calls) : p.calls[k].at = "gate"
  /\ p.bulk \subseteq Finished(rs) /\ p.status.done = p.status.total
  /\ h = 0 /\ p.calls # <<>> => ~(Head(p.calls).op = "progress" /\ Head(p.calls).at = "threw")
  /\ ProgressComes(p, h)

\* The rows a call has in hand, those of them it comes to yet, and those of a tab.
Hand(c) == IF AtWork(c) THEN {c.row} \cup c.bulk ELSE {}
Rest(c) == IF AtWork(c) THEN {c.row} \cup {n \in c.bulk : n > c.row} ELSE {}
RowsInHand(p) == IF p.calls # <<>> THEN Hand(Head(p.calls)) ELSE {}
ToDo(p) == IF p.calls # <<>> THEN Rest(Head(p.calls)) ELSE {}

RowTellsWhatWasSaid(row) ==
  /\ row.status = "succeeded" <=> row.said = "succeeded"
  /\ row.status = "failed" => row.said \in {"failed", "threw"}

RowsAreSound(rs, gone) ==
  /\ rs \in Seq(ResultRows) /\ Len(rs) <= MaxResults /\ gone \subseteq 1 .. Len(rs)
  /\ \A n \in 1 .. Len(rs) : RowTellsWhatWasSaid(rs[n])

\* The inductive invariant of replays.
ReplayIInv ==
  /\ RowsAreSound(results, orphaned) /\ scenarios \subseteq Sigs \cup {NoSig} /\ harm \in Nat
  /\ rtab = [t \in ReplayTabs |-> rtab[t]]
  /\ \A t \in ReplayTabs : TabIsSound(rtab[t], results, harm)
  /\ \A t, u \in ReplayTabs : t # u => RowsInHand(rtab[t]) \cap RowsInHand(rtab[u]) = {}
  /\ \A n \in 1 .. Len(results) :
       results[n].status \in Unfinished => n \in orphaned \/ \E t \in ReplayTabs : n \in ToDo(rtab[t])

-----------------------------------------------------------------------------
(* What stays as it is while rows are added and finished. *)

\* From rs to ss rows were added, and of the others only those in T were finished.
Grown(rs, ss, T) ==
  /\ Len(rs) \in Nat /\ Len(ss) \in Nat /\ Len(rs) <= Len(ss) /\ Finished(rs) \subseteq Finished(ss)
  /\ \A n \in Finished(ss) : n \in 1 .. Len(rs) /\ n \notin T => n \in Finished(rs)

LEMMA NothingGrown ==
  ASSUME NEW rs, Len(rs) \in Nat, NEW T
  PROVE  Grown(rs, rs, T)
BY DEF Grown

LEMMA CallStays ==
  ASSUME NEW rs, NEW ss, NEW T, Grown(rs, ss, T), NEW c \in ReplayCalls, CallIsSound(c, rs),
         AtWork(c) => c.bulk \cap T = {}
  PROVE  CallIsSound(c, ss)
<1>1. Finished(rs) \subseteq Finished(ss) /\ 1 .. Len(rs) \subseteq 1 .. Len(ss)
  BY DEF Grown
<1>2. ASSUME c.op = "bulk", c.at \in {"simulate", "write"} PROVE BulkUnderWay(c, ss)
  <2>1. BulkUnderWay(c, rs) /\ c.bulk \cap T = {}
    BY <1>2 DEF CallIsSound, AtWork
  <2>2. \A n \in c.bulk : n \in Finished(rs) <=> n \in Finished(ss)
    BY <1>1, <2>1 DEF BulkUnderWay, Grown
  <2> QED
    BY <1>1, <2>1, <2>2 DEF BulkUnderWay
<1> QED
  BY <1>1, <1>2 DEF CallIsSound

LEMMA HandInRange ==
  ASSUME NEW p, NEW rs, NEW h, TabIsSound(p, rs, h), Len(rs) \in Nat
  PROVE  RowsInHand(p) \subseteq 1 .. Len(rs) /\ ToDo(p) \subseteq RowsInHand(p)
<1>1. CASE p.calls # <<>> /\ AtWork(Head(p.calls))
  <2>1. PICK c : c = Head(p.calls)
    OBVIOUS
  <2>2. p.calls \in Seq(ReplayCalls) /\ c = p.calls[1] /\ 1 \in 1 .. Len(p.calls) /\ c \in ReplayCalls
    BY <1>1, <2>1 DEF TabIsSound, ReplayTabType
  <2>3. CallIsSound(c, rs) /\ AtWork(c)
    BY <1>1, <2>1, <2>2 DEF TabIsSound
  <2>4. {c.row} \cup c.bulk \subseteq 1 .. Len(rs)
    <3>1. CASE c.op = "job"
      <4>1. c.bulk = {} /\ c.row \in 1 .. Len(rs)
        BY <2>3, <3>1 DEF CallIsSound, AtWork
      <4> QED
        BY <4>1
    <3>2. CASE c.op = "bulk"
      <4>1. c.row \in c.bulk /\ c.bulk \subseteq 1 .. Len(rs)
        BY <2>3, <3>2 DEF CallIsSound, AtWork, BulkUnderWay
      <4> QED
        BY <4>1
    <3> QED
      BY <2>3, <3>1, <3>2 DEF AtWork
  <2>5. RowsInHand(p) = {c.row} \cup c.bulk /\ ToDo(p) = {c.row} \cup {n \in c.bulk : n > c.row}
    BY <1>1, <2>1 DEF RowsInHand, ToDo, Hand, Rest
  <2> QED
    BY <2>4, <2>5
<1>2. CASE ~(p.calls # <<>> /\ AtWork(Head(p.calls)))
  BY <1>2 DEF RowsInHand, ToDo, Hand, Rest
<1> QED
  BY <1>1, <1>2

\* A tab whose rows nobody touches.
LEMMA TabStays ==
  ASSUME NEW p, NEW rs, NEW h \in Nat, TabIsSound(p, rs, h), NEW ss, NEW T, Grown(rs, ss, T),
         RowsInHand(p) \cap T = {}, NEW g \in Nat, h <= g
  PROVE  TabIsSound(p, ss, g)
<1>1. /\ p \in ReplayTabType /\ p.calls \in Seq(ReplayCalls) /\ Len(p.calls) \in Nat
      /\ \A k \in 1 .. Len(p.calls) : p.calls[k] \in ReplayCalls /\ CallIsSound(p.calls[k], rs)
      /\ \A k \in 2 .. Len(p.calls) : p.calls[k].at = "gate"
  BY DEF TabIsSound, ReplayTabType
<1>2. \A k \in 1 .. Len(p.calls) : CallIsSound(p.calls[k], ss)
  <2> TAKE k \in 1 .. Len(p.calls)
  <2>1. PICK c : c = p.calls[k]
    OBVIOUS
  <2>2. AtWork(c) => c.bulk \cap T = {}
    <3>1. CASE k = 1
      <4>1. p.calls # <<>> /\ Head(p.calls) = c
        BY <1>1, <2>1, <3>1
      <4> QED
        BY <4>1 DEF RowsInHand, Hand
    <3>2. CASE k # 1
      <4>1. c.at = "gate"
        BY <1>1, <2>1, <3>2
      <4> QED
        BY <4>1 DEF AtWork
    <3> QED
      BY <3>1, <3>2
  <2>3. CallIsSound(c, ss)
    BY <1>1, <2>1, <2>2, CallStays
  <2> QED
    BY <2>1, <2>3
<1>3. p.bulk \subseteq Finished(ss)
  BY DEF TabIsSound, Grown
<1>4. g = 0 => h = 0
  OBVIOUS
<1>5. ProgressComes(p, g)
  BY <1>4 DEF TabIsSound, ProgressComes
<1> QED
  BY <1>1, <1>2, <1>3, <1>4, <1>5 DEF TabIsSound

\* The first call of a tab is served.
ServesTheLast(q, r, c, op) ==
  /\ Of(r, op) = Of(q, op)
  /\ \A d : LastOf(r, op, d) => LastOf(q, op, d) \/ (d = c /\ LastOf(q, op, Head(q)) /\ c.op = op)

LEMMA LastServed ==
  ASSUME NEW S, NEW q \in Seq(S), q # <<>>, NEW c \in S, NEW r, r = [q EXCEPT ![1] = c], NEW op,
         c.op = Head(q).op
  PROVE  ServesTheLast(q, r, c, op)
<1>1. /\ Len(r) = Len(q) /\ r[1] = c /\ \A k \in 2 .. Len(q) : r[k] = q[k]
      /\ 1 \in 1 .. Len(q) /\ Head(q) = q[1] /\ Len(q) \in Nat
  BY Served
<1>2. \A k \in 1 .. Len(q) : k = 1 \/ k \in 2 .. Len(q)
  BY <1>1
<1>3. \A k \in 1 .. Len(q) : r[k].op = q[k].op
  BY <1>1, <1>2
<1>4. Of(r, op) = Of(q, op)
  BY <1>1, <1>3 DEF Of
<1>5. ASSUME NEW d, LastOf(r, op, d)
      PROVE  LastOf(q, op, d) \/ (d = c /\ LastOf(q, op, Head(q)) /\ c.op = op)
  <2>1. PICK k \in Of(r, op) : r[k] = d /\ \A j \in Of(r, op) : j <= k
    BY <1>5 DEF LastOf
  <2>2. k \in Of(q, op) /\ (\A j \in Of(q, op) : j <= k) /\ k \in 1 .. Len(q) /\ r[k].op = op
    BY <1>1, <1>4, <2>1 DEF Of
  <2>3. CASE k = 1
    <3>1. d = c /\ c.op = op
      BY <1>1, <2>1, <2>2, <2>3
    <3>2. LastOf(q, op, Head(q))
      BY <1>1, <2>2, <2>3 DEF LastOf
    <3> QED
      BY <3>1, <3>2
  <2>4. CASE k # 1
    <3>1. q[k] = d
      BY <1>1, <1>2, <2>1, <2>2, <2>4
    <3> QED
      BY <2>2, <3>1 DEF LastOf
  <2> QED
    BY <2>3, <2>4
<1> QED
  BY <1>4, <1>5 DEF ServesTheLast

ServedAs(p, c) == [p EXCEPT !.calls = [p.calls EXCEPT ![1] = c]]

LEMMA TabServed ==
  ASSUME NEW p, NEW rs, NEW h \in Nat, TabIsSound(p, rs, h), p.calls # <<>>,
         NEW ss, NEW T, Grown(rs, ss, T), NEW g \in Nat, h <= g,
         NEW c \in ReplayCalls, CallIsSound(c, ss), c.op = Head(p.calls).op,
         c.op = "progress" => c.bulk = Head(p.calls).bulk /\ (g = 0 => c.at # "threw"),
         NEW q, q = ServedAs(p, c)
  PROVE  /\ TabIsSound(q, ss, g) /\ q.calls # <<>> /\ Head(q.calls) = c
<1>1. /\ p \in ReplayTabType /\ p.calls \in Seq(ReplayCalls) /\ Len(p.calls) \in Nat
      /\ \A k \in 1 .. Len(p.calls) : p.calls[k] \in ReplayCalls /\ CallIsSound(p.calls[k], rs)
      /\ \A k \in 2 .. Len(p.calls) : p.calls[k].at = "gate"
  BY DEF TabIsSound, ReplayTabType
<1>2. PICK r : r = [p.calls EXCEPT ![1] = c]
  OBVIOUS
<1>3. /\ r \in Seq(ReplayCalls) /\ Len(r) = Len(p.calls) /\ r # <<>> /\ Head(r) = c /\ r[1] = c
      /\ \A k \in 2 .. Len(p.calls) : r[k] = p.calls[k]
      /\ 1 \in 1 .. Len(p.calls)
  BY <1>1, <1>2, Served
<1>4. /\ q \in ReplayTabType /\ q.calls = r /\ q.bulk = p.bulk /\ q.status = p.status /\ q.of = p.of
  BY <1>1, <1>2, <1>3 DEF ReplayTabType, ServedAs
<1>5. \A k \in 2 .. Len(p.calls) : CallIsSound(r[k], ss)
  <2> TAKE k \in 2 .. Len(p.calls)
  <2>1. PICK d : d = p.calls[k]
    OBVIOUS
  <2>2. k \in 1 .. Len(p.calls)
    BY <1>1
  <2>3. d \in ReplayCalls /\ CallIsSound(d, rs) /\ ~AtWork(d)
    BY <1>1, <2>1, <2>2 DEF AtWork
  <2>4. CallIsSound(d, ss)
    BY <2>3, CallStays
  <2> QED
    BY <1>3, <2>1, <2>4
<1>6. \A k \in 1 .. Len(r) : CallIsSound(r[k], ss)
  <2>1. \A k \in 1 .. Len(p.calls) : k = 1 \/ k \in 2 .. Len(p.calls)
    BY <1>1
  <2> QED
    BY <1>3, <1>5, <2>1
<1>7. q.bulk \subseteq Finished(ss) /\ q.status.done = q.status.total
  BY <1>4 DEF TabIsSound, Grown
<1>8. g = 0 => h = 0
  OBVIOUS
<1>9. ProgressComes(q, g)
  <2> SUFFICES ASSUME g = 0, p.bulk # {}
               PROVE  /\ Of(r, "progress") = {} => p.of = p.bulk
                      /\ \A d : LastOf(r, "progress", d) => d.bulk = p.bulk
    BY <1>4 DEF ProgressComes
  <2>1. /\ Of(p.calls, "progress") = {} => p.of = p.bulk
        /\ \A d : LastOf(p.calls, "progress", d) => d.bulk = p.bulk
    BY <1>8 DEF TabIsSound, ProgressComes
  <2>2. ServesTheLast(p.calls, r, c, "progress")
    BY <1>1, <1>2, LastServed
  <2> QED
    BY <2>1, <2>2 DEF ServesTheLast
<1>10. g = 0 => ~(Head(q.calls).op = "progress" /\ Head(q.calls).at = "threw")
  BY <1>3, <1>4
<1>11. \A k \in 2 .. Len(r) : r[k].at = "gate"
  BY <1>1, <1>3
<1> QED
  BY <1>3, <1>4, <1>6, <1>7, <1>9, <1>10, <1>11 DEF TabIsSound

\* A new call joins.
AskedBy(p, c) == [p EXCEPT !.calls = Append(p.calls, c)]

LEMMA TabJoined ==
  ASSUME NEW p, NEW rs, NEW h, TabIsSound(p, rs, h),
         NEW c \in ReplayCalls, CallIsSound(c, rs), c.at = "gate", c.op = "progress" => c.bulk = p.bulk,
         NEW q, q = AskedBy(p, c)
  PROVE  TabIsSound(q, rs, h) /\ RowsInHand(q) = RowsInHand(p) /\ ToDo(q) = ToDo(p)
<1>1. /\ p \in ReplayTabType /\ p.calls \in Seq(ReplayCalls) /\ Len(p.calls) \in Nat
      /\ \A k \in 1 .. Len(p.calls) : CallIsSound(p.calls[k], rs)
      /\ \A k \in 2 .. Len(p.calls) : p.calls[k].at = "gate"
  BY DEF TabIsSound, ReplayTabType
<1>2. PICK r : r = p.calls \o <<c>>
  OBVIOUS
<1>3. r = Append(p.calls, c)
  BY <1>1, <1>2
<1>4. /\ r \in Seq(ReplayCalls) /\ Len(r) = Len(p.calls) + 1 /\ r # <<>>
      /\ r[Len(p.calls) + 1] = c /\ \A k \in 1 .. Len(p.calls) : r[k] = p.calls[k]
      /\ p.calls # <<>> => Head(r) = Head(p.calls)
      /\ p.calls = <<>> => Head(r) = c
  BY <1>1, <1>2, Joined
<1>5. /\ q \in ReplayTabType /\ q.calls = r /\ q.bulk = p.bulk /\ q.status = p.status /\ q.of = p.of
  BY <1>1, <1>3, <1>4 DEF ReplayTabType, AskedBy
<1>6. \A k \in 1 .. Len(r) : k \in 1 .. Len(p.calls) \/ k = Len(p.calls) + 1
  BY <1>1, <1>4
<1>7. \A k \in 1 .. Len(r) : CallIsSound(r[k], rs)
  BY <1>1, <1>4, <1>6
<1>8. \A k \in 2 .. Len(r) : r[k].at = "gate"
  <2> TAKE k \in 2 .. Len(r)
  <2>1. k \in 2 .. Len(p.calls) \/ k = Len(p.calls) + 1
    BY <1>1, <1>4
  <2>2. k \in 2 .. Len(p.calls) => k \in 1 .. Len(p.calls)
    BY <1>1
  <2> QED
    BY <1>1, <1>4, <2>1, <2>2
<1>9. ProgressComes(q, h)
  <2>1. JoinsAsLast(p.calls, r, c, "progress")
    BY <1>1, <1>2, LastJoins
  <2>2. CASE c.op = "progress"
    <3>1. LastOf(r, "progress", c) /\ c.bulk = p.bulk
      BY <2>1, <2>2 DEF JoinsAsLast
    <3>2. Of(r, "progress") # {} /\ \A d : LastOf(r, "progress", d) => d = c
      BY <3>1 DEF LastOf, Of
    <3> QED
      BY <1>5, <3>1, <3>2 DEF ProgressComes
  <2>3. CASE c.op # "progress"
    <3>1. Of(r, "progress") = Of(p.calls, "progress")
      BY <2>1, <2>3 DEF JoinsAsLast
    <3>2. \A k \in Of(r, "progress") : r[k] = p.calls[k]
      BY <1>4, <3>1 DEF Of
    <3>3. \A d : LastOf(r, "progress", d) => LastOf(p.calls, "progress", d)
      BY <3>1, <3>2 DEF LastOf
    <3> QED
      BY <1>5, <3>1, <3>3 DEF ProgressComes, TabIsSound
  <2> QED
    BY <2>2, <2>3
<1>10. h = 0 => ~(Head(r).op = "progress" /\ Head(r).at = "threw")
  BY <1>4 DEF TabIsSound
<1>11. TabIsSound(q, rs, h)
  BY <1>5, <1>7, <1>8, <1>9, <1>10 DEF TabIsSound
<1>12. RowsInHand(q) = RowsInHand(p) /\ ToDo(q) = ToDo(p)
  <2>1. CASE p.calls # <<>>
    BY <1>4, <1>5, <2>1 DEF RowsInHand, ToDo, Hand, Rest
  <2>2. CASE p.calls = <<>>
    BY <1>4, <1>5, <2>2 DEF RowsInHand, ToDo, Hand, Rest, AtWork
  <2> QED
    BY <2>1, <2>2
<1> QED
  BY <1>11, <1>12

\* The first call is answered, and leaves.  What the page then shows is typed.
LEMMA TabLeft ==
  ASSUME NEW p, NEW rs, NEW h, TabIsSound(p, rs, h), p.calls # <<>>, ~AtWork(Head(p.calls)),
         NEW q \in ReplayTabType, q.calls = Tail(p.calls), q.bulk = p.bulk \/ q.bulk = {},
         q.status.done = q.status.total,
         h = 0 => q.of = IF Head(p.calls).op = "progress" THEN Head(p.calls).bulk ELSE p.of
  PROVE  TabIsSound(q, rs, h) /\ RowsInHand(q) = {} /\ ToDo(p) = {}
<1>1. /\ p \in ReplayTabType /\ p.calls \in Seq(ReplayCalls) /\ Len(p.calls) \in Nat
      /\ \A k \in 1 .. Len(p.calls) : CallIsSound(p.calls[k], rs)
      /\ \A k \in 2 .. Len(p.calls) : p.calls[k].at = "gate"
  BY DEF TabIsSound, ReplayTabType
<1>2. PICK r : r = Tail(p.calls)
  OBVIOUS
<1>3. /\ r \in Seq(ReplayCalls) /\ Len(r) = Len(p.calls) - 1 /\ Len(p.calls) \in Nat \ {0}
      /\ \A k \in 1 .. Len(r) : r[k] = p.calls[k + 1]
      /\ r # <<>> => 2 \in 1 .. Len(p.calls) /\ Head(r) = p.calls[2]
      /\ Head(p.calls) = p.calls[1] /\ Head(p.calls) \in ReplayCalls
  BY <1>1, <1>2, Left
<1>4. \A k \in 1 .. Len(r) : k + 1 \in 2 .. Len(p.calls) /\ k + 1 \in 1 .. Len(p.calls)
  BY <1>3
<1>5. /\ \A k \in 1 .. Len(r) : CallIsSound(r[k], rs) /\ r[k].at = "gate"
      /\ \A k \in 2 .. Len(r) : k \in 1 .. Len(r)
  BY <1>1, <1>3, <1>4
<1>6. r # <<>> => Head(r).at = "gate"
  <2>1. r # <<>> => 2 \in 2 .. Len(p.calls)
    BY <1>3
  <2> QED
    BY <1>1, <1>3, <2>1
<1>7. ProgressComes(q, h)
  <2> SUFFICES ASSUME h = 0, q.bulk # {}
               PROVE  /\ Of(r, "progress") = {} => q.of = q.bulk
                      /\ \A d : LastOf(r, "progress", d) => d.bulk = q.bulk
    BY <1>2 DEF ProgressComes
  <2>1. q.bulk = p.bulk
    OBVIOUS
  <2>2. /\ Of(p.calls, "progress") = {} => p.of = p.bulk
        /\ \A d : LastOf(p.calls, "progress", d) => d.bulk = p.bulk
    BY <2>1 DEF TabIsSound, ProgressComes
  <2>3. ASSUME NEW k \in Of(r, "progress")
        PROVE  k + 1 \in Of(p.calls, "progress") /\ p.calls[k + 1] = r[k] /\ k \in Nat
    BY <1>3, <1>4 DEF Of
  <2>4. \A k \in Of(p.calls, "progress") : k = 1 \/ (k \in Nat /\ k - 1 \in Of(r, "progress"))
    <3> SUFFICES ASSUME NEW k \in 1 .. Len(p.calls), p.calls[k].op = "progress", k # 1
                 PROVE  k - 1 \in 1 .. Len(r) /\ r[k - 1].op = "progress"
      BY DEF Of
    <3>1. k - 1 \in 1 .. Len(r) /\ (k - 1) + 1 = k
      BY <1>3
    <3>2. r[k - 1] = p.calls[k]
      BY <1>3, <3>1
    <3> QED
      BY <3>1, <3>2
  <2>5. ASSUME NEW d, LastOf(r, "progress", d) PROVE d.bulk = q.bulk
    <3>1. PICK k \in Of(r, "progress") : r[k] = d /\ \A j \in Of(r, "progress") : j <= k
      BY <2>5 DEF LastOf
    <3>2. k + 1 \in Of(p.calls, "progress") /\ p.calls[k + 1] = d /\ k \in Nat /\ k >= 1
      BY <1>3, <2>3, <3>1 DEF Of
    <3>3. ASSUME NEW j \in Of(p.calls, "progress") PROVE j <= k + 1
      <4>1. CASE j = 1
        BY <3>2, <4>1
      <4>2. CASE j # 1
        <5>1. j \in Nat /\ j - 1 \in Of(r, "progress")
          BY <2>4, <3>3, <4>2
        <5>2. j - 1 <= k
          BY <3>1, <5>1
        <5> QED
          BY <3>2, <5>1, <5>2
      <4> QED
        BY <4>1, <4>2
    <3>4. LastOf(p.calls, "progress", d)
      BY <3>2, <3>3 DEF LastOf
    <3> QED
      BY <2>1, <2>2, <3>4
  <2>6. ASSUME Of(r, "progress") = {} PROVE q.of = q.bulk
    <3>1. \A k \in Of(p.calls, "progress") : k = 1
      BY <2>4, <2>6
    <3>2. CASE Head(p.calls).op = "progress"
      <4>1. 1 \in Of(p.calls, "progress") /\ p.calls[1] = Head(p.calls)
        BY <1>3, <3>2 DEF Of
      <4>2. LastOf(p.calls, "progress", Head(p.calls))
        BY <3>1, <4>1 DEF LastOf
      <4> QED
        BY <2>1, <2>2, <3>2, <4>2
    <3>3. CASE Head(p.calls).op # "progress"
      <4>1. Of(p.calls, "progress") = {}
        BY <1>3, <3>1, <3>3 DEF Of
      <4> QED
        BY <2>1, <2>2, <3>3, <4>1
    <3> QED
      BY <3>2, <3>3
  <2> QED
    BY <2>5, <2>6
<1>8. q.bulk \subseteq Finished(rs)
  BY DEF TabIsSound
<1>9. TabIsSound(q, rs, h)
  BY <1>2, <1>5, <1>6, <1>7, <1>8 DEF TabIsSound
<1>10. RowsInHand(q) = {} /\ ToDo(p) = {}
  BY <1>2, <1>6 DEF RowsInHand, ToDo, Hand, Rest, AtWork
<1> QED
  BY <1>9, <1>10

-----------------------------------------------------------------------------
(* The steps of replays. *)

LEMMA ItsCall ==
  ASSUME ReplayIInv, NEW t \in ReplayTabs, rtab[t].calls # <<>>
  PROVE  /\ Its(t) \in ReplayCalls /\ CallIsSound(Its(t), results) /\ rtab[t] \in ReplayTabType
         /\ RowsInHand(rtab[t]) = Hand(Its(t)) /\ ToDo(rtab[t]) = Rest(Its(t))
         /\ Hand(Its(t)) \subseteq 1 .. Len(results) /\ Rest(Its(t)) \subseteq Hand(Its(t))
         /\ results \in Seq(ResultRows) /\ Len(results) \in Nat
<1>1. TabIsSound(rtab[t], results, harm) /\ results \in Seq(ResultRows) /\ Len(results) \in Nat
  BY DEF ReplayIInv, RowsAreSound
<1>2. PICK p : p = rtab[t]
  OBVIOUS
<1>3. p \in ReplayTabType /\ p.calls \in Seq(ReplayCalls)
  BY <1>1, <1>2 DEF TabIsSound, ReplayTabType
<1>4. Head(p.calls) = p.calls[1] /\ 1 \in 1 .. Len(p.calls) /\ Head(p.calls) \in ReplayCalls
  BY <1>2, <1>3
<1>5. CallIsSound(Head(p.calls), results)
  BY <1>1, <1>2, <1>4 DEF TabIsSound
<1>6. RowsInHand(p) = Hand(Head(p.calls)) /\ ToDo(p) = Rest(Head(p.calls))
  BY <1>2 DEF RowsInHand, ToDo
<1>7. RowsInHand(p) \subseteq 1 .. Len(results) /\ ToDo(p) \subseteq RowsInHand(p)
  BY <1>1, <1>2, HandInRange
<1> QED
  BY <1>1, <1>2, <1>3, <1>4, <1>5, <1>6, <1>7 DEF Its

\* A step of one tab, which may add rows and finish those it has in hand.
LEMMA TabStep ==
  ASSUME ReplayIInv, NEW t \in ReplayTabs, NEW q, rtab' = [rtab EXCEPT ![t] = q],
         NEW T, Grown(results, results', T), T \cap (1 .. Len(results)) \subseteq RowsInHand(rtab[t]),
         TabIsSound(q, results', harm'), RowsInHand(q) \cap (1 .. Len(results)) \subseteq RowsInHand(rtab[t]),
         RowsAreSound(results', orphaned'), scenarios' \subseteq Sigs \cup {NoSig}, harm' \in Nat, harm <= harm',
         orphaned \subseteq orphaned',
         \A n \in 1 .. Len(results') : results'[n].status \in Unfinished =>
           \/ n \in orphaned' \/ n \in ToDo(q)
           \/ n \in 1 .. Len(results) /\ results[n].status \in Unfinished /\ n \notin ToDo(rtab[t])
  PROVE  ReplayIInv'
<1>1. /\ rtab = [u \in ReplayTabs |-> rtab[u]] /\ harm \in Nat
      /\ rtab' = [u \in ReplayTabs |-> rtab'[u]] /\ rtab'[t] = q
      /\ \A u \in ReplayTabs : u # t => rtab'[u] = rtab[u]
  BY DEF ReplayIInv
<1>2. ASSUME NEW u \in ReplayTabs, u # t
      PROVE  /\ TabIsSound(rtab[u], results', harm') /\ RowsInHand(rtab[u]) \cap RowsInHand(q) = {}
  <2>1. TabIsSound(rtab[u], results, harm) /\ Len(results) \in Nat
    BY DEF ReplayIInv, Grown
  <2>2. RowsInHand(rtab[u]) \subseteq 1 .. Len(results)
    BY <2>1, HandInRange
  <2>3. RowsInHand(rtab[u]) \cap RowsInHand(rtab[t]) = {}
    BY <1>2 DEF ReplayIInv
  <2>4. RowsInHand(rtab[u]) \cap T = {}
    BY <2>2, <2>3
  <2>5. TabIsSound(rtab[u], results', harm')
    <3>1. PICK p, rs, ss, h, g : p = rtab[u] /\ rs = results /\ ss = results' /\ h = harm /\ g = harm'
      OBVIOUS
    <3>2. TabIsSound(p, ss, g)
      BY <1>1, <2>1, <2>4, <3>1, TabStays
    <3> QED
      BY <3>1, <3>2
  <2> QED
    BY <2>2, <2>3, <2>5
<1>3. \A u \in ReplayTabs : TabIsSound(rtab'[u], results', harm')
  BY <1>1, <1>2
<1>4. \A u, v \in ReplayTabs : u # v => RowsInHand(rtab'[u]) \cap RowsInHand(rtab'[v]) = {}
  <2> SUFFICES ASSUME NEW u \in ReplayTabs, NEW v \in ReplayTabs, u # v
               PROVE  RowsInHand(rtab'[u]) \cap RowsInHand(rtab'[v]) = {}
    OBVIOUS
  <2>1. CASE u = t
    BY <1>1, <1>2, <2>1
  <2>2. CASE v = t
    BY <1>1, <1>2, <2>2
  <2>3. CASE u # t /\ v # t
    BY <1>1, <2>3 DEF ReplayIInv
  <2> QED
    BY <2>1, <2>2, <2>3
<1>5. ASSUME NEW n \in 1 .. Len(results'), results'[n].status \in Unfinished
      PROVE  n \in orphaned' \/ \E u \in ReplayTabs : n \in ToDo(rtab'[u])
  <2>1. CASE n \in orphaned' \/ n \in ToDo(q)
    BY <1>1, <2>1
  <2>2. CASE n \in 1 .. Len(results) /\ results[n].status \in Unfinished /\ n \notin ToDo(rtab[t])
    <3>1. n \in orphaned \/ \E u \in ReplayTabs : n \in ToDo(rtab[u])
      BY <2>2 DEF ReplayIInv
    <3> QED
      BY <1>1, <2>2, <3>1
  <2> QED
    BY <1>5, <2>1, <2>2
<1> QED
  BY <1>1, <1>3, <1>4, <1>5 DEF ReplayIInv

\* No row changes.
LEMMA RowsStandStep ==
  ASSUME ReplayIInv, NEW t \in ReplayTabs, NEW q, rtab' = [rtab EXCEPT ![t] = q], results' = results,
         TabIsSound(q, results, harm'), RowsInHand(q) \subseteq RowsInHand(rtab[t]),
         orphaned \subseteq orphaned', orphaned' \subseteq 1 .. Len(results),
         scenarios' \subseteq Sigs \cup {NoSig}, harm' \in Nat, harm <= harm', ToDo(rtab[t]) \subseteq ToDo(q) \cup orphaned'
  PROVE  ReplayIInv'
<1>1. Len(results) \in Nat /\ RowsAreSound(results', orphaned')
  <2>1. PICK rs, ss, gone : rs = results /\ ss = results' /\ gone = orphaned'
    OBVIOUS
  <2>2. RowsAreSound(rs, orphaned) /\ ss = rs /\ gone \subseteq 1 .. Len(rs)
    BY <2>1 DEF ReplayIInv
  <2>3. Len(rs) \in Nat /\ RowsAreSound(ss, gone)
    BY <2>2 DEF RowsAreSound
  <2> QED
    BY <2>1, <2>3
<1>2. Grown(results, results', {})
  BY <1>1, NothingGrown
<1>3. \A n \in 1 .. Len(results') : results'[n].status \in Unfinished =>
        \/ n \in orphaned' \/ n \in ToDo(q)
        \/ n \in 1 .. Len(results) /\ results[n].status \in Unfinished /\ n \notin ToDo(rtab[t])
  OBVIOUS
<1>4. {} \cap (1 .. Len(results)) \subseteq RowsInHand(rtab[t])
  OBVIOUS
<1>5. TabIsSound(q, results', harm') /\ RowsInHand(q) \cap (1 .. Len(results)) \subseteq RowsInHand(rtab[t])
  OBVIOUS
<1> QED
  BY <1>1, <1>2, <1>3, <1>4, <1>5, TabStep

\* What becomes of a call that is served.
LEMMA ServedSound ==
  ASSUME ReplayIInv, NEW t \in ReplayTabs, rtab[t].calls # <<>>, NEW d \in ReplayCalls, HeadBecomes(t, d),
         d.op = Its(t).op, d.op = "progress" => d.bulk = Its(t).bulk /\ (harm' = 0 => d.at # "threw"),
         NEW T, Grown(results, results', T), CallIsSound(d, results'), harm' \in Nat, harm <= harm'
  PROVE  \E q : /\ rtab' = [rtab EXCEPT ![t] = q] /\ TabIsSound(q, results', harm')
                /\ RowsInHand(q) = Hand(d) /\ ToDo(q) = Rest(d)
<1>1. PICK p, q, rs, ss, h, g :
        /\ p = rtab[t] /\ q = ServedAs(p, d)
        /\ rs = results /\ ss = results' /\ h = harm /\ g = harm'
  OBVIOUS
<1>2. TabIsSound(p, rs, h) /\ h \in Nat /\ p.calls # <<>> /\ Its(t) = Head(p.calls)
  BY <1>1 DEF ReplayIInv, Its
<1>3. TabIsSound(q, ss, g) /\ q.calls # <<>> /\ Head(q.calls) = d
  <2>1. /\ Grown(rs, ss, T) /\ g \in Nat /\ h <= g /\ CallIsSound(d, ss) /\ d.op = Head(p.calls).op
        /\ d.op = "progress" => d.bulk = Head(p.calls).bulk /\ (g = 0 => d.at # "threw")
    BY <1>1, <1>2
  <2>2. q = ServedAs(p, d)
    BY <1>1
  <2> QED
    BY <1>2, <2>1, <2>2, TabServed
<1>4. RowsInHand(q) = Hand(d) /\ ToDo(q) = Rest(d)
  BY <1>3 DEF RowsInHand, ToDo
<1>5. rtab' = [rtab EXCEPT ![t] = q]
  BY <1>1 DEF HeadBecomes, ServedAs
<1> QED
  BY <1>1, <1>3, <1>4, <1>5

LEMMA QuietlyServed ==
  ASSUME ReplayIInv, NEW t \in ReplayTabs, rtab[t].calls # <<>>, NEW d \in ReplayCalls, HeadBecomes(t, d),
         d.op = Its(t).op, d.op = "progress" => d.bulk = Its(t).bulk /\ d.at # "threw",
         results' = results, CallIsSound(d, results), harm' \in Nat, harm <= harm',
         Hand(d) \subseteq Hand(Its(t)), Rest(Its(t)) \subseteq Rest(d) \cup orphaned',
         orphaned \subseteq orphaned', orphaned' \subseteq 1 .. Len(results), scenarios' \subseteq Sigs \cup {NoSig}
  PROVE  ReplayIInv'
<1>1. Len(results) \in Nat /\ RowsInHand(rtab[t]) = Hand(Its(t)) /\ ToDo(rtab[t]) = Rest(Its(t))
  BY ItsCall
<1>2. Grown(results, results', {}) /\ CallIsSound(d, results')
  BY <1>1, NothingGrown
<1>3. PICK q : /\ rtab' = [rtab EXCEPT ![t] = q] /\ TabIsSound(q, results', harm')
               /\ RowsInHand(q) = Hand(d) /\ ToDo(q) = Rest(d)
  BY <1>2, ServedSound
<1>4. TabIsSound(q, results, harm')
  BY <1>3
<1>5. RowsInHand(q) \subseteq RowsInHand(rtab[t]) /\ ToDo(rtab[t]) \subseteq ToDo(q) \cup orphaned'
  BY <1>1, <1>3
<1> QED
  BY <1>3, <1>4, <1>5, RowsStandStep

\* A tab to which nothing happens but that it asks, or that a signature is typed.
LEMMA AskedStep ==
  ASSUME ReplayIInv, NEW t \in ReplayTabs, NEW q, rtab' = [rtab EXCEPT ![t] = q],
         TabIsSound(q, results, harm), RowsInHand(q) = RowsInHand(rtab[t]), ToDo(q) = ToDo(rtab[t]),
         UNCHANGED <<results, scenarios, harm, orphaned>>
  PROVE  ReplayIInv'
<1>1. /\ scenarios' \subseteq Sigs \cup {NoSig} /\ harm' \in Nat /\ harm <= harm' /\ results' = results
      /\ orphaned \subseteq orphaned' /\ orphaned' \subseteq 1 .. Len(results)
  BY DEF ReplayIInv, RowsAreSound
<1>2. TabIsSound(q, results, harm')
  OBVIOUS
<1> QED
  BY <1>1, <1>2, RowsStandStep

LEMMA SigTyped ==
  ASSUME NEW p, NEW rs, NEW h, TabIsSound(p, rs, h), NEW s \in Sigs \cup {NoSig}, NEW q, q = [p EXCEPT !.sig = s]
  PROVE  /\ TabIsSound(q, rs, h) /\ RowsInHand(q) = RowsInHand(p) /\ ToDo(q) = ToDo(p)
         /\ q.calls = p.calls /\ q.bulk = p.bulk
<1>1. p \in ReplayTabType
  BY DEF TabIsSound
<1>2. /\ q \in ReplayTabType /\ q.calls = p.calls /\ q.bulk = p.bulk /\ q.status = p.status /\ q.of = p.of
  BY <1>1 DEF ReplayTabType
<1> QED
  BY <1>2 DEF TabIsSound, ProgressComes, RowsInHand, ToDo

LEMMA ClickStep ==
  ASSUME ReplayIInv, NEW t \in ReplayTabs, NEW c \in ReplayCalls, CallIsSound(c, results), c.at = "gate",
         c.op = "progress" => c.bulk = rtab[t].bulk, ClickReplay(t, c)
  PROVE  ReplayIInv'
<1>1. PICK p, q : p = rtab[t] /\ q = AskedBy(p, c)
  OBVIOUS
<1>2. TabIsSound(p, results, harm)
  BY <1>1 DEF ReplayIInv
<1>3. TabIsSound(q, results, harm) /\ RowsInHand(q) = RowsInHand(p) /\ ToDo(q) = ToDo(p)
  BY <1>1, <1>2, TabJoined
<1>4. rtab' = [rtab EXCEPT ![t] = q] /\ UNCHANGED <<results, scenarios, harm, orphaned>>
  BY <1>1 DEF ClickReplay, AskedBy
<1> QED
  BY <1>1, <1>3, <1>4, AskedStep

\* What a click asks for.
LEMMA AskSound ==
  ASSUME NEW op \in {"run", "job", "save", "bulk"}, NEW s \in Sigs \cup {NoSig}, NEW m \in Sigs \cup {NoSig}, NEW rs
  PROVE  /\ Ask(op, s, m) \in ReplayCalls /\ CallIsSound(Ask(op, s, m), rs)
         /\ Ask(op, s, m).at = "gate" /\ Ask(op, s, m).op # "progress"
<1>1. PICK c : c = Ask(op, s, m)
  OBVIOUS
<1>2. c \in ReplayCalls /\ c.op = op /\ c.at = "gate" /\ c.row = 0 /\ c.bulk = {}
  BY <1>1 DEF Ask, ReplayCalls, ReplayOutcomes
<1>3. CallIsSound(c, rs)
  BY <1>2 DEF CallIsSound
<1> QED
  BY <1>1, <1>2, <1>3

ProgressOf(bulk) == [Ask("progress", NoSig, NoSig) EXCEPT !.bulk = bulk]

LEMMA AskProgressSound ==
  ASSUME NEW rs, NEW bulk \in SUBSET Nat, bulk \subseteq Finished(rs), NEW c, c = ProgressOf(bulk)
  PROVE  /\ c \in ReplayCalls /\ CallIsSound(c, rs) /\ c.at = "gate" /\ c.op = "progress" /\ c.bulk = bulk
<1>1. c \in ReplayCalls /\ c.op = "progress" /\ c.at = "gate" /\ c.bulk = bulk
  BY DEF Ask, ReplayCalls, ReplayOutcomes, ProgressOf
<1>2. CallIsSound(c, rs)
  BY <1>1 DEF CallIsSound
<1> QED
  BY <1>1, <1>2

ResultOf(n, s, m) == [[Ask("result", s, m) EXCEPT !.row = n] EXCEPT !.at = "gate"]

LEMMA AskResultSound ==
  ASSUME NEW rs, Len(rs) \in Nat, NEW n \in 1 .. Len(rs), NEW s \in Sigs \cup {NoSig}, NEW m \in Sigs \cup {NoSig},
         NEW c, c = ResultOf(n, s, m)
  PROVE  /\ c \in ReplayCalls /\ CallIsSound(c, rs) /\ c.at = "gate" /\ c.op = "result"
<1>1. n \in Nat
  OBVIOUS
<1>2. c \in ReplayCalls /\ c.op = "result" /\ c.at = "gate" /\ c.row = n
  BY <1>1 DEF Ask, ReplayCalls, ReplayOutcomes, ResultOf
<1>3. CallIsSound(c, rs)
  BY <1>2 DEF CallIsSound
<1> QED
  BY <1>2, <1>3

LEMMA UserStep ==
  ASSUME ReplayIInv, NEW t \in ReplayTabs, UserReplays(t)
  PROVE  ReplayIInv'
<1>1. TabIsSound(rtab[t], results, harm) /\ rtab[t].sig \in Sigs \cup {NoSig} /\ scenarios \subseteq Sigs \cup {NoSig}
  <2>1. TabIsSound(rtab[t], results, harm) /\ scenarios \subseteq Sigs \cup {NoSig}
    BY DEF ReplayIInv
  <2> QED
    BY <2>1 DEF TabIsSound, ReplayTabType
<1>2. CASE TypeSig(t)
  <2>1. PICK s \in Sigs : rtab' = [rtab EXCEPT ![t].sig = s] /\ UNCHANGED <<results, scenarios, harm, orphaned>>
    BY <1>2 DEF TypeSig
  <2>2. PICK p, q : p = rtab[t] /\ q = [p EXCEPT !.sig = s]
    OBVIOUS
  <2>3. TabIsSound(q, results, harm) /\ RowsInHand(q) = RowsInHand(p) /\ ToDo(q) = ToDo(p)
    BY <1>1, <2>2, SigTyped
  <2>4. rtab' = [rtab EXCEPT ![t] = q]
    BY <2>1, <2>2
  <2> QED
    BY <2>1, <2>2, <2>3, <2>4, AskedStep
<1>3. ASSUME NEW op \in {"run", "job", "save", "bulk"}, NEW s \in Sigs \cup {NoSig}, NEW m \in Sigs \cup {NoSig},
             ClickReplay(t, Ask(op, s, m))
      PROVE  ReplayIInv'
  <2>1. PICK c : c = Ask(op, s, m)
    OBVIOUS
  <2>2. /\ c \in ReplayCalls /\ CallIsSound(c, results) /\ c.at = "gate" /\ c.op # "progress"
    BY <2>1, AskSound
  <2>3. ClickReplay(t, c)
    BY <1>3, <2>1
  <2> QED
    BY <2>2, <2>3, ClickStep
<1>4. CASE RunReplay(t)
  BY <1>1, <1>3, <1>4 DEF RunReplay
<1>5. CASE QueueJob(t)
  BY <1>1, <1>3, <1>5 DEF QueueJob
<1>6. CASE SaveScenario(t)
  BY <1>1, <1>3, <1>6 DEF SaveScenario
<1>7. CASE BulkReplay(t)
  BY <1>3, <1>7 DEF BulkReplay
<1>8. CASE RefreshProgress(t)
  <2>1. PICK b, c : b = rtab[t].bulk /\ c = ProgressOf(b)
    OBVIOUS
  <2>2. b \in SUBSET Nat /\ b \subseteq Finished(results)
    BY <1>1, <2>1 DEF TabIsSound, ReplayTabType
  <2>3. c \in ReplayCalls /\ CallIsSound(c, results) /\ c.at = "gate" /\ c.bulk = b
    BY <2>1, <2>2, AskProgressSound
  <2>4. ClickReplay(t, c)
    BY <1>8, <2>1 DEF RefreshProgress, ProgressOf
  <2> QED
    BY <2>1, <2>3, <2>4, ClickStep
<1>9. CASE Rerun(t)
  <2>1. PICK s \in scenarios :
          /\ rtab' = [rtab EXCEPT ![t] = [rtab[t] EXCEPT !.sig = s,
               !.calls = IF rtab[t].sig = NoSig THEN @ ELSE Append(@, Ask("run", rtab[t].sig, s))]]
          /\ UNCHANGED <<results, scenarios, harm, orphaned>>
    BY <1>9 DEF Rerun
  <2>2. PICK p, c, r : p = rtab[t] /\ c = Ask("run", rtab[t].sig, s) /\ r = [p EXCEPT !.sig = s]
    OBVIOUS
  <2>3. s \in Sigs \cup {NoSig} /\ TabIsSound(p, results, harm) /\ p \in ReplayTabType
    BY <1>1, <2>2 DEF TabIsSound
  <2>4. /\ TabIsSound(r, results, harm) /\ RowsInHand(r) = RowsInHand(p) /\ ToDo(r) = ToDo(p)
        /\ r.calls = p.calls /\ r.bulk = p.bulk
    BY <2>2, <2>3, SigTyped
  <2>5. CASE p.sig = NoSig
    <3>1. rtab' = [rtab EXCEPT ![t] = r]
      <4>1. r = [p EXCEPT !.sig = s, !.calls = IF p.sig = NoSig THEN @ ELSE Append(@, c)]
        BY <2>2, <2>3, <2>5 DEF ReplayTabType
      <4> QED
        BY <2>1, <2>2, <4>1
    <3> QED
      BY <2>1, <2>2, <2>4, <3>1, AskedStep
  <2>6. CASE p.sig # NoSig
    <3>1. PICK q : q = AskedBy(r, c)
      OBVIOUS
    <3>2. c \in ReplayCalls /\ CallIsSound(c, results) /\ c.at = "gate" /\ c.op # "progress"
      BY <1>1, <2>2, <2>3, AskSound
    <3>3. TabIsSound(q, results, harm) /\ RowsInHand(q) = RowsInHand(r) /\ ToDo(q) = ToDo(r)
      BY <2>4, <3>1, <3>2, TabJoined
    <3>4. q = [p EXCEPT !.sig = s, !.calls = IF p.sig = NoSig THEN @ ELSE Append(@, c)]
      BY <2>2, <2>3, <2>6, <3>1 DEF ReplayTabType, AskedBy
    <3>5. rtab' = [rtab EXCEPT ![t] = q]
      BY <2>1, <2>2, <3>4
    <3> QED
      BY <2>1, <2>2, <2>4, <3>3, <3>5, AskedStep
  <2> QED
    BY <2>5, <2>6
<1> QED
  BY <1>2, <1>4, <1>5, <1>6, <1>7, <1>8, <1>9 DEF UserReplays

LEMMA QuietFacts ==
  ASSUME ReplayIInv, Quietly
  PROVE  /\ scenarios' \subseteq Sigs \cup {NoSig} /\ harm \in Nat /\ harm' = harm /\ harm' \in Nat /\ harm <= harm'
         /\ orphaned' = orphaned /\ orphaned' \subseteq 1 .. Len(results)
BY DEF ReplayIInv, RowsAreSound, Quietly

LEMMA PassGateStep ==
  ASSUME ReplayIInv, NEW t \in ReplayTabs, PassGate(t)
  PROVE  ReplayIInv'
<1>1. PICK c, b, d : /\ c = Its(t) /\ d = [c EXCEPT !.at = b] /\ HeadBecomes(t, d) /\ c.at = "gate"
                     /\ \/ b = "rows" /\ c.op # "run"
                        \/ b = "simulate" /\ c.op = "run"
                        \/ b = "refused" /\ c.op \in {"run", "job", "save", "bulk"}
                     /\ rtab[t].calls # <<>> /\ results' = results /\ Quietly
  BY DEF PassGate, Step
<1>2. c \in ReplayCalls /\ CallIsSound(c, results)
  BY <1>1, ItsCall
<1>3. d \in ReplayCalls /\ d.op = c.op /\ d.at = b /\ d.row = c.row /\ d.bulk = c.bulk
  BY <1>1, <1>2 DEF ReplayCalls
<1>4. CallIsSound(d, results)
  BY <1>1, <1>2, <1>3 DEF CallIsSound
<1>5. Hand(d) = {} /\ Rest(c) = {}
  BY <1>1, <1>3 DEF Hand, Rest, AtWork
<1>6. d.op = "progress" => d.bulk = c.bulk /\ d.at # "threw"
  BY <1>1, <1>3
<1> QED
  BY <1>1, <1>3, <1>4, <1>5, <1>6, QuietFacts, QuietlyServed

LEMMA SimulateStep ==
  ASSUME ReplayIInv, NEW t \in ReplayTabs, Simulate(t)
  PROVE  ReplayIInv'
<1>1. PICK out, c, b, d :
        /\ out \in Outcomes \cup {"threw"}
        /\ c = Its(t) /\ d = [c EXCEPT !.outcome = out, !.at = b] /\ HeadBecomes(t, d)
        /\ rtab[t].calls # <<>> /\ c.op \in {"run", "job", "bulk"} /\ c.at = "simulate"
        /\ b = (CASE out = "threw" /\ c.op # "bulk" -> "threw" [] out # "threw" /\ c.op = "run" -> "ok" [] OTHER -> "write")
        /\ orphaned' = IF out = "threw" /\ c.op = "job" THEN orphaned \cup {c.row} ELSE orphaned
        /\ results' = results /\ scenarios' = scenarios /\ harm' = harm
  BY DEF Simulate, Doing, Its
<1>2. /\ c \in ReplayCalls /\ CallIsSound(c, results) /\ Hand(c) \subseteq 1 .. Len(results)
  BY <1>1, ItsCall
<1>3. \/ b = "threw" /\ out = "threw" /\ c.op \in {"run", "job"}
      \/ b = "ok" /\ c.op = "run"
      \/ b = "write" /\ out # "threw" /\ c.op = "job"
      \/ b = "write" /\ c.op = "bulk"
  BY <1>1
<1>4. d \in ReplayCalls /\ d.op = c.op /\ d.at = b /\ d.row = c.row /\ d.bulk = c.bulk /\ d.outcome = out
  BY <1>1, <1>2, <1>3 DEF ReplayCalls, ReplayOutcomes
<1>5. CallIsSound(d, results)
  <2>1. c.op = "bulk" => BulkUnderWay(d, results)
    BY <1>1, <1>2, <1>4 DEF CallIsSound, BulkUnderWay
  <2> QED
    BY <1>1, <1>2, <1>3, <1>4, <2>1 DEF CallIsSound
<1>6. Hand(d) \subseteq Hand(c)
  BY <1>1, <1>3, <1>4 DEF Hand, AtWork
<1>7. c.op = "job" => c.bulk = {} /\ c.row \in Hand(c)
  BY <1>1, <1>2 DEF CallIsSound, Hand, AtWork
<1>8. Rest(c) \subseteq Rest(d) \cup orphaned'
  <2>1. CASE b = "write"
    BY <1>1, <1>4, <2>1 DEF Rest, AtWork
  <2>2. CASE b = "threw" /\ c.op = "job"
    <3>1. Rest(c) \subseteq {c.row} /\ c.row \in orphaned'
      BY <1>1, <1>3, <1>7, <2>2 DEF Rest
    <3> QED
      BY <3>1
  <2>3. CASE c.op = "run"
    BY <2>3 DEF Rest, AtWork
  <2> QED
    BY <1>3, <2>1, <2>2, <2>3
<1>9. /\ scenarios' \subseteq Sigs \cup {NoSig} /\ harm' \in Nat /\ harm <= harm'
      /\ orphaned \subseteq orphaned' /\ orphaned' \subseteq 1 .. Len(results)
  <2>1. scenarios \subseteq Sigs \cup {NoSig} /\ harm \in Nat /\ orphaned \subseteq 1 .. Len(results)
    BY DEF ReplayIInv, RowsAreSound
  <2> QED
    BY <1>1, <1>2, <1>7, <2>1
<1>10. d.op # "progress"
  BY <1>1, <1>4
<1> QED
  BY <1>1, <1>4, <1>5, <1>6, <1>8, <1>9, <1>10, QuietlyServed

LEMMA ReadJobStep ==
  ASSUME ReplayIInv, NEW t \in ReplayTabs, ReadJob(t)
  PROVE  ReplayIInv'
<1>1. PICK c, said, d : /\ c = Its(t) /\ d = [c EXCEPT !.at = "ok", !.outcome = said] /\ HeadBecomes(t, d)
                        /\ said = results[c.row].status
                        /\ rtab[t].calls # <<>> /\ c.op = "result" /\ c.at = "rows" /\ results' = results /\ Quietly
  BY DEF ReadJob, Doing, Its
<1>2. c \in ReplayCalls /\ CallIsSound(c, results) /\ results \in Seq(ResultRows)
  BY <1>1, ItsCall
<1>3. said \in ReplayOutcomes
  <2>1. c.row \in 1 .. Len(results)
    BY <1>1, <1>2 DEF CallIsSound
  <2>2. results[c.row] \in ResultRows
    BY <1>2, <2>1
  <2> QED
    BY <1>1, <2>2 DEF ResultRows, ReplayOutcomes
<1>4. d \in ReplayCalls /\ d.op = c.op /\ d.at = "ok" /\ d.row = c.row
  BY <1>1, <1>2, <1>3 DEF ReplayCalls
<1>5. CallIsSound(d, results) /\ Hand(d) = {} /\ Rest(c) = {}
  BY <1>1, <1>2, <1>4 DEF CallIsSound, Hand, Rest, AtWork
<1>6. d.op # "progress"
  BY <1>1, <1>4
<1> QED
  BY <1>1, <1>4, <1>5, <1>6, QuietFacts, QuietlyServed

LEMMA ReadBulkStep ==
  ASSUME ReplayIInv, NEW t \in ReplayTabs, ReadBulk(t)
  PROVE  ReplayIInv'
<1>1. PICK c, r, d : /\ c = Its(t) /\ d = [c EXCEPT !.at = "ok", !.read = r] /\ HeadBecomes(t, d)
                     /\ r = [done |-> Cardinality(Done(c.bulk)), total |-> Cardinality(c.bulk)]
                     /\ rtab[t].calls # <<>> /\ c.op = "progress" /\ c.at = "rows" /\ results' = results /\ Quietly
  BY DEF ReadBulk, Doing, Its
<1>2. c \in ReplayCalls /\ CallIsSound(c, results) /\ Len(results) \in Nat
  BY <1>1, ItsCall
<1>3. c.bulk \subseteq Finished(results)
  BY <1>1, <1>2 DEF CallIsSound
<1>4. Done(c.bulk) = c.bulk
  BY <1>3 DEF Done, Finished
<1>5. Cardinality(c.bulk) \in Nat
  <2>1. IsFiniteSet(1 .. Len(results))
    BY <1>2, FS_Interval
  <2>2. IsFiniteSet(c.bulk)
    BY <1>3, <2>1, FS_Subset DEF Finished
  <2> QED
    BY <2>2, FS_CardinalityType
<1>6. r \in [done : Nat, total : Nat] /\ r.done = r.total
  BY <1>1, <1>4, <1>5
<1>7. d \in ReplayCalls /\ d.op = c.op /\ d.at = "ok" /\ d.bulk = c.bulk /\ d.read = r
  BY <1>1, <1>2, <1>6 DEF ReplayCalls
<1>8. CallIsSound(d, results) /\ Hand(d) = {} /\ Rest(c) = {}
  BY <1>1, <1>2, <1>3, <1>6, <1>7 DEF CallIsSound, Hand, Rest, AtWork
<1>9. d.bulk = c.bulk /\ d.at # "threw"
  BY <1>7
<1> QED
  BY <1>1, <1>7, <1>8, <1>9, QuietFacts, QuietlyServed

LEMMA CreateScenarioStep ==
  ASSUME ReplayIInv, NEW t \in ReplayTabs, CreateScenario(t)
  PROVE  ReplayIInv'
<1>1. PICK c, d : /\ c = Its(t) /\ d = [c EXCEPT !.at = "ok"] /\ HeadBecomes(t, d)
                  /\ rtab[t].calls # <<>> /\ c.op = "save" /\ scenarios' = scenarios \cup {c.sig}
                  /\ results' = results /\ harm' = harm /\ orphaned' = orphaned
  BY DEF CreateScenario, Doing, Its, Step
<1>2. c \in ReplayCalls
  BY <1>1, ItsCall
<1>3. d \in ReplayCalls /\ d.op = c.op /\ d.at = "ok" /\ c.sig \in Sigs \cup {NoSig}
  BY <1>1, <1>2 DEF ReplayCalls
<1>4. CallIsSound(d, results) /\ Hand(d) = {} /\ Rest(c) = {}
  BY <1>1, <1>3 DEF CallIsSound, Hand, Rest, AtWork
<1>5. /\ scenarios' \subseteq Sigs \cup {NoSig} /\ harm' \in Nat /\ harm <= harm'
      /\ orphaned \subseteq orphaned' /\ orphaned' \subseteq 1 .. Len(results)
  BY <1>1, <1>3 DEF ReplayIInv, RowsAreSound
<1>6. d.op # "progress"
  BY <1>1, <1>3
<1> QED
  BY <1>1, <1>3, <1>4, <1>5, <1>6, QuietlyServed

LEMMA WriteFailsStep ==
  ASSUME ReplayIInv, NEW t \in ReplayTabs, WriteFails(t)
  PROVE  ReplayIInv'
<1>1. PICK c : /\ c = Its(t) /\ rtab[t].calls # <<>> /\ c.op \in {"job", "bulk"} /\ c.at = "write"
               /\ IF c.op = "bulk" /\ c.outcome # "threw"
                  THEN HeadBecomes(t, [c EXCEPT !.outcome = "threw"]) /\ UNCHANGED orphaned
                  ELSE /\ HeadBecomes(t, [c EXCEPT !.at = "threw"])
                       /\ orphaned' = orphaned \cup {c.row} \cup {n \in c.bulk : n > c.row}
               /\ results' = results /\ scenarios' = scenarios /\ harm' = harm + 1
  BY DEF WriteFails, Doing, Its, Step, Following
<1>2. /\ c \in ReplayCalls /\ CallIsSound(c, results) /\ Hand(c) \subseteq 1 .. Len(results) /\ Rest(c) \subseteq Hand(c)
  BY <1>1, ItsCall
<1>3. /\ scenarios' \subseteq Sigs \cup {NoSig} /\ harm' \in Nat /\ harm <= harm' /\ orphaned \subseteq 1 .. Len(results)
  BY <1>1 DEF ReplayIInv, RowsAreSound
<1>4. Rest(c) = {c.row} \cup {n \in c.bulk : n > c.row}
  BY <1>1 DEF Rest, AtWork
<1>5. CASE c.op = "bulk" /\ c.outcome # "threw"
  <2>1. PICK d : d = [c EXCEPT !.outcome = "threw"] /\ HeadBecomes(t, d) /\ orphaned' = orphaned
    BY <1>1, <1>5
  <2>2. d \in ReplayCalls /\ d.op = c.op /\ d.at = c.at /\ d.row = c.row /\ d.bulk = c.bulk /\ d.outcome = "threw"
    BY <1>2, <2>1 DEF ReplayCalls, ReplayOutcomes
  <2>3. CallIsSound(d, results)
    <3>1. BulkUnderWay(d, results)
      BY <1>1, <1>2, <1>5, <2>2 DEF CallIsSound, BulkUnderWay
    <3> QED
      BY <1>1, <1>5, <2>2, <3>1 DEF CallIsSound
  <2>4. Hand(d) = Hand(c) /\ Rest(d) = Rest(c) /\ d.op # "progress"
    BY <1>1, <2>2 DEF Hand, Rest, AtWork
  <2> QED
    BY <1>1, <1>3, <2>1, <2>2, <2>3, <2>4, QuietlyServed
<1>6. CASE ~(c.op = "bulk" /\ c.outcome # "threw")
  <2>1. PICK d : d = [c EXCEPT !.at = "threw"] /\ HeadBecomes(t, d)
    BY <1>1, <1>6
  <2>2. orphaned' = orphaned \cup Rest(c)
    BY <1>1, <1>4, <1>6
  <2>3. d \in ReplayCalls /\ d.op = c.op /\ d.at = "threw" /\ d.row = c.row /\ d.bulk = c.bulk
    BY <1>2, <2>1 DEF ReplayCalls
  <2>4. CallIsSound(d, results) /\ Hand(d) = {} /\ d.op # "progress"
    BY <1>1, <1>2, <2>3 DEF CallIsSound, Hand, AtWork
  <2>5. Rest(c) \subseteq Rest(d) \cup orphaned' /\ orphaned \subseteq orphaned' /\ orphaned' \subseteq 1 .. Len(results)
    BY <1>2, <1>3, <2>2
  <2> QED
    BY <1>1, <1>3, <2>1, <2>3, <2>4, <2>5, QuietlyServed
<1> QED
  BY <1>5, <1>6

\* Rows are added, of which nothing is said yet.
RowsAdded(rs, ss, f) ==
  /\ Len(rs) \in Nat /\ Len(f) \in Nat /\ Len(ss) = Len(rs) + Len(f)
  /\ \A n \in 1 .. Len(rs) : ss[n] = rs[n]
  /\ \A n \in Len(rs) + 1 .. Len(ss) : n \notin Finished(ss)
  /\ \A n \in 1 .. Len(ss) : n \in 1 .. Len(rs) \/ n \in Len(rs) + 1 .. Len(ss)
  /\ Grown(rs, ss, {})

LEMMA AddedRows ==
  ASSUME NEW rs, NEW gone, RowsAreSound(rs, gone), NEW f \in Seq(ResultRows), Len(rs) + Len(f) <= MaxResults,
         \A k \in 1 .. Len(f) : f[k].status \in Unfinished /\ f[k].said = "none",
         NEW ss, ss = rs \o f
  PROVE  RowsAreSound(ss, gone) /\ RowsAdded(rs, ss, f)
<1>1. /\ rs \in Seq(ResultRows) /\ Len(rs) \in Nat /\ Len(f) \in Nat /\ gone \subseteq 1 .. Len(rs)
      /\ \A n \in 1 .. Len(rs) : RowTellsWhatWasSaid(rs[n])
  BY DEF RowsAreSound
<1>2. /\ ss \in Seq(ResultRows) /\ Len(ss) = Len(rs) + Len(f)
      /\ \A n \in 1 .. Len(rs) : ss[n] = rs[n]
      /\ \A n \in Len(rs) + 1 .. Len(ss) : ss[n] = f[n - Len(rs)] /\ n - Len(rs) \in 1 .. Len(f)
  BY <1>1
<1>3. \A n \in 1 .. Len(ss) : n \in 1 .. Len(rs) \/ n \in Len(rs) + 1 .. Len(ss)
  BY <1>1, <1>2
<1>4. \A n \in Len(rs) + 1 .. Len(ss) : ss[n].status \in Unfinished /\ ss[n].said = "none"
  BY <1>2
<1>5. \A n \in 1 .. Len(ss) : RowTellsWhatWasSaid(ss[n])
  <2>1. \A n \in Len(rs) + 1 .. Len(ss) : RowTellsWhatWasSaid(ss[n])
    BY <1>4 DEF RowTellsWhatWasSaid, Unfinished
  <2> QED
    BY <1>1, <1>2, <1>3, <2>1
<1>6. \A n \in Len(rs) + 1 .. Len(ss) : n \notin Finished(ss)
  BY <1>4 DEF Finished, Unfinished, Outcomes
<1>7. \A n \in 1 .. Len(rs) : n \in 1 .. Len(ss) /\ (n \in Finished(rs) <=> n \in Finished(ss))
  BY <1>1, <1>2 DEF Finished
<1>8. Finished(rs) \subseteq 1 .. Len(rs) /\ Finished(ss) \subseteq 1 .. Len(ss)
  BY DEF Finished
<1>9. Grown(rs, ss, {})
  BY <1>1, <1>2, <1>7, <1>8 DEF Grown
<1>10. gone \subseteq 1 .. Len(ss)
  BY <1>1, <1>7
<1> QED
  BY <1>1, <1>2, <1>3, <1>5, <1>6, <1>9, <1>10 DEF RowsAreSound, RowsAdded

\* A call that makes rows has them in hand from then on.
LEMMA RowsMadeStep ==
  ASSUME ReplayIInv, NEW t \in ReplayTabs, rtab[t].calls # <<>>, ~AtWork(Its(t)),
         NEW d \in ReplayCalls, HeadBecomes(t, d), d.op = Its(t).op, d.op # "progress",
         NEW f, RowsAdded(results, results', f), RowsAreSound(results', orphaned'), Quietly, CallIsSound(d, results'),
         Hand(d) \cap (1 .. Len(results)) = {}, Len(results) + 1 .. Len(results') \subseteq Rest(d)
  PROVE  ReplayIInv'
<1>1. /\ RowsInHand(rtab[t]) = Hand(Its(t)) /\ ToDo(rtab[t]) = Rest(Its(t))
      /\ Rest(Its(t)) = {} /\ Grown(results, results', {})
  BY ItsCall DEF Rest, RowsAdded
<1>2. /\ scenarios' \subseteq Sigs \cup {NoSig} /\ harm' \in Nat /\ harm <= harm' /\ orphaned' = orphaned
  BY QuietFacts
<1>3. PICK q : /\ rtab' = [rtab EXCEPT ![t] = q] /\ TabIsSound(q, results', harm')
               /\ RowsInHand(q) = Hand(d) /\ ToDo(q) = Rest(d)
  BY <1>1, <1>2, ServedSound
<1>4. \A n \in 1 .. Len(results') : results'[n].status \in Unfinished =>
        \/ n \in orphaned' \/ n \in ToDo(q)
        \/ n \in 1 .. Len(results) /\ results[n].status \in Unfinished /\ n \notin ToDo(rtab[t])
  BY <1>1, <1>3 DEF RowsAdded
<1>5. {} \cap (1 .. Len(results)) \subseteq RowsInHand(rtab[t]) /\ orphaned \subseteq orphaned'
  BY <1>2
<1>6. RowsInHand(q) \cap (1 .. Len(results)) \subseteq RowsInHand(rtab[t])
  BY <1>3
<1> QED
  BY <1>1, <1>2, <1>3, <1>4, <1>5, <1>6, TabStep

LEMMA CreateJobStep ==
  ASSUME ReplayIInv, NEW t \in ReplayTabs, CreateJob(t)
  PROVE  ReplayIInv'
<1>1. PICK c, d, rs, ss, x, f :
        /\ c = Its(t) /\ rtab[t].calls # <<>> /\ c.op = "job" /\ c.at = "rows"
        /\ d = [c EXCEPT !.at = "simulate", !.row = Len(rs) + 1] /\ HeadBecomes(t, d)
        /\ rs = results /\ ss = results' /\ Len(rs) < MaxResults /\ ss = Append(rs, x) /\ f = <<x>>
        /\ x = [sig |-> c.sig, status |-> "running", said |-> "none"] /\ Quietly
  BY DEF CreateJob, Doing, Its
<1>2. /\ c \in ReplayCalls /\ CallIsSound(c, rs) /\ rs \in Seq(ResultRows) /\ Len(rs) \in Nat
  BY <1>1, ItsCall
<1>3. c.bulk = {} /\ x \in ResultRows
  BY <1>1, <1>2 DEF CallIsSound, ReplayCalls, ResultRows, Unfinished
<1>4. f \in Seq(ResultRows) /\ Len(f) = 1 /\ f[1] = x /\ ss = rs \o f
  BY <1>1, <1>2, <1>3
<1>5. \A k \in 1 .. Len(f) : f[k].status \in Unfinished /\ f[k].said = "none"
  BY <1>1, <1>4 DEF Unfinished
<1>6. RowsAreSound(rs, orphaned) /\ Len(rs) + Len(f) <= MaxResults
  BY <1>1, <1>2, <1>4, ReplayAssumption DEF ReplayIInv
<1>7. RowsAreSound(ss, orphaned) /\ RowsAdded(rs, ss, f)
  BY <1>4, <1>5, <1>6, AddedRows
<1>8. Len(ss) = Len(rs) + 1
  BY <1>4, <1>7 DEF RowsAdded
<1>9. d \in ReplayCalls /\ d.op = "job" /\ d.at = "simulate" /\ d.row = Len(rs) + 1 /\ d.bulk = {}
  <2>1. PICK r : r = Len(rs) + 1 /\ r \in Nat
    BY <1>2
  <2>2. d = [c EXCEPT !.at = "simulate", !.row = r]
    BY <1>1, <2>1
  <2>3. d \in ReplayCalls /\ d.op = c.op /\ d.at = "simulate" /\ d.row = r /\ d.bulk = c.bulk
    BY <1>2, <2>1, <2>2 DEF ReplayCalls
  <2> QED
    BY <1>1, <1>3, <2>1, <2>3
<1>10. CallIsSound(d, ss)
  BY <1>2, <1>8, <1>9 DEF CallIsSound
<1>11. Hand(d) = {Len(rs) + 1} /\ Rest(d) = {Len(rs) + 1}
  BY <1>9 DEF Hand, Rest, AtWork
<1>12. Hand(d) \cap (1 .. Len(rs)) = {} /\ Len(rs) + 1 .. Len(ss) \subseteq Rest(d)
  BY <1>2, <1>8, <1>11
<1>13. RowsAreSound(results', orphaned')
  BY <1>1, <1>7 DEF Quietly
<1>14. ~AtWork(c)
  BY <1>1 DEF AtWork
<1> QED
  BY <1>1, <1>7, <1>9, <1>10, <1>12, <1>13, <1>14, RowsMadeStep

LEMMA CreateBulkStep ==
  ASSUME ReplayIInv, NEW t \in ReplayTabs, CreateBulk(t)
  PROVE  ReplayIInv'
<1>1. PICK n \in 0 .. MaxResults - Len(results) :
        /\ Doing(t, {"bulk"}, "rows")
        /\ \E found \in [1 .. n -> Sigs] :
             results' = results \o [k \in 1 .. n |-> [sig |-> found[k], status |-> "queued", said |-> "none"]]
        /\ HeadBecomes(t, [Its(t) EXCEPT !.bulk = Len(results) + 1 .. Len(results) + n, !.row = Len(results) + 1,
                                         !.at = IF n = 0 THEN "ok" ELSE "simulate"])
        /\ Quietly
  BY DEF CreateBulk
<1>2. PICK found \in [1 .. n -> Sigs] :
        results' = results \o [k \in 1 .. n |-> [sig |-> found[k], status |-> "queued", said |-> "none"]]
  BY <1>1
<1>3. PICK c, b, d, rs, ss, f :
        /\ c = Its(t) /\ rtab[t].calls # <<>> /\ c.op = "bulk" /\ c.at = "rows" /\ b = IF n = 0 THEN "ok" ELSE "simulate"
        /\ d = [c EXCEPT !.bulk = Len(rs) + 1 .. Len(rs) + n, !.row = Len(rs) + 1, !.at = b] /\ HeadBecomes(t, d)
        /\ rs = results /\ ss = results' /\ ss = rs \o f
        /\ f = [k \in 1 .. n |-> [sig |-> found[k], status |-> "queued", said |-> "none"]]
  BY <1>1, <1>2 DEF Doing, Its
<1>4. /\ c \in ReplayCalls /\ rs \in Seq(ResultRows) /\ Len(rs) \in Nat /\ n \in Nat /\ Len(rs) + n <= MaxResults
  <2>1. c \in ReplayCalls /\ rs \in Seq(ResultRows) /\ Len(rs) \in Nat
    BY <1>3, ItsCall
  <2> QED
    BY <1>1, <1>3, <2>1, ReplayAssumption
<1>5. f \in Seq(ResultRows) /\ Len(f) = n
  <2>1. \A k \in 1 .. n : f[k] \in ResultRows
    BY <1>3 DEF ResultRows, Unfinished
  <2>2. f \in [1 .. n -> ResultRows]
    BY <1>3, <2>1
  <2> QED
    BY <1>4, <2>2
<1>6. \A k \in 1 .. Len(f) : f[k].status \in Unfinished /\ f[k].said = "none"
  BY <1>3, <1>5 DEF Unfinished
<1>7. RowsAreSound(rs, orphaned) /\ Len(rs) + Len(f) <= MaxResults
  BY <1>3, <1>4, <1>5 DEF ReplayIInv
<1>8. RowsAreSound(ss, orphaned) /\ RowsAdded(rs, ss, f)
  BY <1>3, <1>5, <1>6, <1>7, AddedRows
<1>9. Len(ss) = Len(rs) + n
  BY <1>5, <1>8 DEF RowsAdded
<1>10. /\ d \in ReplayCalls /\ d.op = "bulk" /\ d.at = b /\ d.row = Len(rs) + 1
       /\ d.bulk = Len(rs) + 1 .. Len(ss)
  <2>1. Len(rs) + 1 .. Len(rs) + n \in SUBSET Nat /\ Len(rs) + 1 \in Nat
    BY <1>4
  <2>2. b \in {"ok", "simulate"}
    BY <1>3
  <2> QED
    BY <1>3, <1>4, <1>9, <2>1, <2>2 DEF ReplayCalls
<1>11. /\ rtab[t].calls # <<>> /\ ~AtWork(Its(t)) /\ HeadBecomes(t, d) /\ d.op = Its(t).op /\ d.op # "progress"
       /\ RowsAdded(results, results', f) /\ RowsAreSound(results', orphaned') /\ Quietly
       /\ rs = results /\ ss = results'
  BY <1>1, <1>3, <1>8, <1>10 DEF Quietly, AtWork
<1>12. CASE n = 0
  <2>1. d.at = "ok" /\ d.bulk = {} /\ Len(rs) + 1 .. Len(ss) = {}
    BY <1>3, <1>4, <1>9, <1>10, <1>12
  <2>2. CallIsSound(d, ss) /\ Hand(d) = {}
    BY <1>10, <2>1 DEF CallIsSound, Hand, AtWork
  <2>3. Hand(d) \cap (1 .. Len(rs)) = {} /\ Len(rs) + 1 .. Len(ss) \subseteq Rest(d)
    BY <2>1, <2>2
  <2> QED
    BY <1>10, <1>11, <2>2, <2>3, RowsMadeStep
<1>13. CASE n # 0
  <2>1. d.at = "simulate" /\ d.row \in d.bulk
    BY <1>3, <1>4, <1>9, <1>10, <1>13
  <2>2. BulkUnderWay(d, ss)
    <3>1. d.bulk \subseteq 1 .. Len(ss)
      BY <1>4, <1>9, <1>10
    <3>2. \A j, m \in d.bulk, k \in Nat : j <= k /\ k <= m => k \in d.bulk
      BY <1>4, <1>9, <1>10
    <3>3. \A m \in d.bulk : m \notin Finished(ss) /\ ~(m < d.row)
      BY <1>4, <1>8, <1>9, <1>10 DEF RowsAdded
    <3> QED
      BY <2>1, <3>1, <3>2, <3>3 DEF BulkUnderWay
  <2>3. CallIsSound(d, ss)
    BY <1>10, <2>1, <2>2 DEF CallIsSound
  <2>4. Hand(d) = d.bulk /\ Rest(d) = d.bulk
    <3>1. \A m \in d.bulk : m = d.row \/ m > d.row
      BY <1>4, <1>9, <1>10
    <3> QED
      BY <1>10, <2>1, <3>1 DEF Hand, Rest, AtWork
  <2>5. Hand(d) \cap (1 .. Len(rs)) = {} /\ Len(rs) + 1 .. Len(ss) \subseteq Rest(d)
    BY <1>4, <1>9, <1>10, <2>4
  <2> QED
    BY <1>10, <1>11, <2>3, <2>5, RowsMadeStep
<1> QED
  BY <1>12, <1>13

Written(rs, r, w) ==
  [rs EXCEPT ![r] = [rs[r] EXCEPT !.status = IF w = "threw" THEN "failed" ELSE w, !.said = w]]
NextOf(c) ==
  IF {n \in c.bulk : n > c.row} = {} THEN [c EXCEPT !.at = "ok"]
  ELSE [c EXCEPT !.at = "simulate", !.row = @ + 1]

\* One row is written: it is finished now, the others are as they were.
RowWritten(rs, ss, r) ==
  /\ Len(rs) \in Nat /\ Len(ss) = Len(rs) /\ \A n \in 1 .. Len(rs) : n # r => ss[n] = rs[n]
  /\ Finished(ss) = Finished(rs) \cup {r} /\ Grown(rs, ss, {r})

LEMMA WrittenRow ==
  ASSUME NEW rs, NEW gone, RowsAreSound(rs, gone), NEW r \in 1 .. Len(rs), NEW w \in Outcomes \cup {"threw"},
         NEW ss, ss = Written(rs, r, w)
  PROVE  RowsAreSound(ss, gone) /\ RowWritten(rs, ss, r)
<1>1. /\ rs \in Seq(ResultRows) /\ Len(rs) \in Nat /\ gone \subseteq 1 .. Len(rs) /\ Len(rs) <= MaxResults
      /\ \A n \in 1 .. Len(rs) : RowTellsWhatWasSaid(rs[n])
  BY DEF RowsAreSound
<1>2. PICK o, x : o = (IF w = "threw" THEN "failed" ELSE w) /\ x = [rs[r] EXCEPT !.status = o, !.said = w]
  OBVIOUS
<1>3. rs[r] \in ResultRows /\ o \in Outcomes
  BY <1>1, <1>2 DEF Outcomes
<1>4. x \in ResultRows /\ x.status = o /\ x.said = w
  BY <1>2, <1>3 DEF ResultRows
<1>5. ss = [rs EXCEPT ![r] = x]
  BY <1>2 DEF Written
<1>6. /\ ss \in Seq(ResultRows) /\ Len(ss) = Len(rs) /\ ss[r] = x
      /\ \A n \in 1 .. Len(rs) : n # r => ss[n] = rs[n]
  BY <1>1, <1>4, <1>5, ExceptSeq
<1>7. RowTellsWhatWasSaid(x)
  BY <1>2, <1>4 DEF RowTellsWhatWasSaid, Outcomes
<1>8. \A n \in 1 .. Len(ss) : RowTellsWhatWasSaid(ss[n])
  BY <1>1, <1>6, <1>7
<1>9. Finished(ss) = Finished(rs) \cup {r}
  BY <1>3, <1>4, <1>6 DEF Finished
<1>10. Grown(rs, ss, {r})
  <2>1. Len(ss) = Len(rs) /\ Len(rs) \in Nat /\ Finished(ss) = Finished(rs) \cup {r}
    BY <1>1, <1>6, <1>9
  <2> QED
    BY <2>1 DEF Grown
<1> QED
  BY <1>1, <1>6, <1>8, <1>9, <1>10 DEF RowsAreSound, RowWritten

\* What the handler does next, with the rows rs, and the rows ss after it wrote its row.
GoesOn(c, d, ss) ==
  /\ d \in ReplayCalls /\ CallIsSound(d, ss) /\ d.op = c.op
  /\ Hand(d) \subseteq Hand(c) /\ Rest(c) \ {c.row} \subseteq Rest(d)

LEMMA NextRow ==
  ASSUME NEW rs, NEW ss, NEW c \in ReplayCalls, CallIsSound(c, rs), c.op \in {"job", "bulk"}, c.at = "write",
         RowWritten(rs, ss, c.row),
         NEW d, d = NextOf(c)
  PROVE  GoesOn(c, d, ss)
<1> USE DEF GoesOn
<1>1. PICK r, b, F : r = c.row /\ b = c.bulk /\ F = {n \in b : n > r} /\ r \in Nat /\ b \in SUBSET Nat
  BY DEF ReplayCalls
<1>2. Len(ss) = Len(rs) /\ Finished(ss) = Finished(rs) \cup {r} /\ Len(rs) \in Nat
  BY <1>1 DEF RowWritten
<1>3. Hand(c) = {r} \cup b /\ Rest(c) = {r} \cup F
  BY <1>1 DEF Hand, Rest, AtWork
<1>4. c.op = "job" => b = {} /\ r \in 1 .. Len(rs)
  BY <1>1 DEF CallIsSound
<1>5. c.op = "bulk" => BulkUnderWay(c, rs)
  BY DEF CallIsSound
<1>6. CASE F = {}
  <2>1. d = [c EXCEPT !.at = "ok"]
    BY <1>1, <1>6 DEF NextOf
  <2>2. d \in ReplayCalls /\ d.op = c.op /\ d.at = "ok" /\ d.row = r /\ d.bulk = b
    BY <1>1, <2>1 DEF ReplayCalls
  <2>3. c.op = "bulk" => b \subseteq Finished(ss)
    <3> SUFFICES ASSUME BulkUnderWay(c, rs), NEW n \in b PROVE n \in Finished(ss)
      BY <1>5
    <3>1. n < r \/ n = r
      BY <1>1, <1>6
    <3>2. n < r => n \in Finished(rs)
      BY <1>1 DEF BulkUnderWay
    <3> QED
      BY <1>2, <3>1, <3>2
  <2>4. CallIsSound(d, ss)
    BY <1>2, <1>4, <2>2, <2>3 DEF CallIsSound
  <2>5. Hand(d) = {} /\ Rest(c) \ {r} = {}
    BY <1>3, <1>6, <2>2 DEF Hand, AtWork
  <2> QED
    BY <1>1, <2>2, <2>4, <2>5
<1>7. CASE F # {}
  <2>1. c.op = "bulk" /\ BulkUnderWay(c, rs)
    BY <1>1, <1>4, <1>5, <1>7
  <2>2. PICK k : k = r + 1 /\ k \in Nat
    BY <1>1
  <2>3. d = [c EXCEPT !.at = "simulate", !.row = k]
    BY <1>1, <1>7, <2>2 DEF NextOf
  <2>4. d \in ReplayCalls /\ d.op = c.op /\ d.at = "simulate" /\ d.row = k /\ d.bulk = b
    BY <1>1, <2>2, <2>3 DEF ReplayCalls
  <2>5. BulkUnderWay(d, ss)
    <3>1. PICK m \in b : m > r /\ r \in b /\ m \in Nat
      BY <1>1, <1>7, <2>1 DEF BulkUnderWay
    <3>2. k \in b
      <4>1. r <= k /\ k <= m
        BY <1>1, <2>2, <3>1
      <4> QED
        BY <1>1, <2>1, <2>2, <3>1, <4>1 DEF BulkUnderWay
    <3>3. b \subseteq 1 .. Len(ss) /\ \A i, j \in b, l \in Nat : i <= l /\ l <= j => l \in b
      BY <1>1, <1>2, <2>1 DEF BulkUnderWay
    <3>4. ASSUME NEW n \in b PROVE n < k <=> n \in Finished(ss)
      <4>1. n < r <=> n \in Finished(rs)
        BY <1>1, <2>1 DEF BulkUnderWay
      <4>2. n < k <=> (n < r \/ n = r)
        BY <1>1, <2>2
      <4> QED
        BY <1>2, <4>1, <4>2
    <3> QED
      BY <2>4, <3>2, <3>3, <3>4 DEF BulkUnderWay
  <2>6. CallIsSound(d, ss)
    BY <2>1, <2>4, <2>5 DEF CallIsSound
  <2>7. Hand(d) = {k} \cup b /\ Rest(d) = {k} \cup {n \in b : n > k} /\ k \in b
    BY <2>1, <2>4, <2>5 DEF Hand, Rest, AtWork, BulkUnderWay
  <2>8. \A n \in b : n > r => n = k \/ n > k
    BY <1>1, <2>2
  <2>9. Rest(c) \ {r} \subseteq Rest(d)
    BY <1>1, <1>3, <2>7, <2>8
  <2> QED
    BY <1>1, <1>3, <2>4, <2>6, <2>7, <2>9
<1> QED
  BY <1>6, <1>7

LEMMA WriteOutcomeStep ==
  ASSUME ReplayIInv, NEW t \in ReplayTabs, WriteOutcome(t)
  PROVE  ReplayIInv'
<1>1. PICK c, d, rs, ss :
        /\ c = Its(t) /\ rtab[t].calls # <<>> /\ c.op \in {"job", "bulk"} /\ c.at = "write"
        /\ rs = results /\ ss = results' /\ ss = Written(rs, c.row, c.outcome)
        /\ d = NextOf(c) /\ HeadBecomes(t, d) /\ Quietly
  <2>1. PICK c : c = Its(t)
    OBVIOUS
  <2> QED
    BY <2>1 DEF WriteOutcome, Doing, Its, Outcome, Following, Written, NextOf
<1>2. /\ c \in ReplayCalls /\ CallIsSound(c, rs) /\ Hand(c) \subseteq 1 .. Len(rs)
      /\ RowsInHand(rtab[t]) = Hand(c) /\ ToDo(rtab[t]) = Rest(c) /\ RowsAreSound(rs, orphaned)
  BY <1>1, ItsCall DEF ReplayIInv
<1>3. c.row \in Hand(c) /\ c.row \in 1 .. Len(rs) /\ c.outcome \in Outcomes \cup {"threw"}
  BY <1>1, <1>2 DEF Hand, AtWork, CallIsSound
<1>4. RowsAreSound(ss, orphaned) /\ RowWritten(rs, ss, c.row)
  <2>1. PICK w, r : w = c.outcome /\ r = c.row
    OBVIOUS
  <2>2. RowsAreSound(ss, orphaned) /\ RowWritten(rs, ss, r)
    BY <1>1, <1>2, <1>3, <2>1, WrittenRow
  <2> QED
    BY <2>1, <2>2
<1>5. /\ d \in ReplayCalls /\ CallIsSound(d, ss) /\ d.op = c.op
      /\ Hand(d) \subseteq Hand(c) /\ Rest(c) \ {c.row} \subseteq Rest(d)
  <2>1. c.op \in {"job", "bulk"} /\ c.at = "write" /\ d = NextOf(c) /\ CallIsSound(c, rs)
    BY <1>1, <1>2
  <2>2. GoesOn(c, d, ss)
    BY <1>2, <1>4, <2>1, NextRow
  <2> QED
    BY <2>2 DEF GoesOn
<1>6. /\ scenarios' \subseteq Sigs \cup {NoSig} /\ harm' \in Nat /\ harm <= harm' /\ orphaned' = orphaned
  BY <1>1, QuietFacts
<1>7. Grown(results, results', {c.row}) /\ CallIsSound(d, results')
  BY <1>1, <1>4, <1>5 DEF RowWritten
<1>8. rtab[t].calls # <<>> /\ d.op = Its(t).op /\ d.op # "progress" /\ HeadBecomes(t, d)
  BY <1>1, <1>5
<1>9. PICK q : /\ rtab' = [rtab EXCEPT ![t] = q] /\ TabIsSound(q, results', harm')
               /\ RowsInHand(q) = Hand(d) /\ ToDo(q) = Rest(d)
  BY <1>5, <1>6, <1>7, <1>8, ServedSound
<1>10. ASSUME NEW n \in 1 .. Len(results'), results'[n].status \in Unfinished
       PROVE  \/ n \in orphaned' \/ n \in ToDo(q)
              \/ n \in 1 .. Len(results) /\ results[n].status \in Unfinished /\ n \notin ToDo(rtab[t])
  <2>1. n \notin Finished(ss)
    BY <1>1, <1>10 DEF Finished, Outcomes, Unfinished
  <2>2. n # c.row /\ n \in 1 .. Len(rs) /\ ss[n] = rs[n]
    BY <1>1, <1>4, <2>1 DEF RowWritten
  <2>3. n \in Rest(c) => n \in Rest(d)
    BY <1>5, <2>2
  <2> QED
    BY <1>1, <1>2, <1>9, <1>10, <2>2, <2>3
<1>11. /\ {c.row} \cap (1 .. Len(results)) \subseteq RowsInHand(rtab[t])
       /\ RowsInHand(q) \cap (1 .. Len(results)) \subseteq RowsInHand(rtab[t])
       /\ orphaned \subseteq orphaned' /\ RowsAreSound(results', orphaned')
  BY <1>1, <1>2, <1>3, <1>4, <1>5, <1>6, <1>9
<1> QED
  BY <1>6, <1>7, <1>9, <1>10, <1>11, TabStep

\* The tab whose first call is answered, and what it shows of a replay, a bulk
\* or a progress.
WithoutFirst(p) == [p EXCEPT !.calls = Tail(@)]
Showing(p, c) == [p EXCEPT !.shown = {[sig |-> c.sig, mods |-> c.mods, got |-> c.outcome]}]
ShowingProgress(p, c) == [p EXCEPT !.status = c.read, !.of = c.bulk]
WithoutBulk(p) == [p EXCEPT !.bulk = {}]
ReadingResult(p, c) == AskedBy(p, ResultOf(c.row, c.sig, c.mods))

Answered(p, c, r, q) ==
  \/ q = r /\ (c.op = "progress" => c.at = "threw")
  \/ q = Showing(r, c) /\ c.op # "progress"
  \/ q = ReadingResult(r, c) /\ c.op = "job" /\ c.at = "ok"
  \/ q = Tracked(r, c) /\ c.op = "bulk" /\ c.at = "ok"
  \/ q = WithoutBulk(r) /\ c.op # "progress"
  \/ q = ShowingProgress(r, c) /\ c.op = "progress" /\ c.at # "threw"

LEMMA TabTracks ==
  ASSUME NEW p, NEW rs, NEW h, TabIsSound(p, rs, h), NEW c \in ReplayCalls, c.bulk \subseteq Finished(rs),
         NEW q, q = Tracked(p, c)
  PROVE  TabIsSound(q, rs, h) /\ RowsInHand(q) = RowsInHand(p)
<1>1. PICK b, d, r : b = c.bulk /\ d = ProgressOf(b) /\ r = p.calls \o <<d>>
  OBVIOUS
<1>2. b \in SUBSET Nat /\ b \subseteq Finished(rs)
  BY <1>1 DEF ReplayCalls
<1>3. d \in ReplayCalls /\ CallIsSound(d, rs) /\ d.at = "gate" /\ d.op = "progress" /\ d.bulk = b
  BY <1>1, <1>2, AskProgressSound
<1>4. /\ p \in ReplayTabType /\ p.calls \in Seq(ReplayCalls) /\ Len(p.calls) \in Nat
      /\ \A k \in 1 .. Len(p.calls) : CallIsSound(p.calls[k], rs)
      /\ \A k \in 2 .. Len(p.calls) : p.calls[k].at = "gate"
  BY DEF TabIsSound, ReplayTabType
<1>5. /\ r \in Seq(ReplayCalls) /\ Len(r) = Len(p.calls) + 1 /\ r # <<>>
      /\ r[Len(p.calls) + 1] = d /\ \A k \in 1 .. Len(p.calls) : r[k] = p.calls[k]
      /\ p.calls # <<>> => Head(r) = Head(p.calls)
      /\ p.calls = <<>> => Head(r) = d
  BY <1>1, <1>3, <1>4, Joined
<1>6. r = Append(p.calls, d)
  BY <1>1, <1>3, <1>4
<1>7. q = [p EXCEPT !.bulk = b, !.calls = r]
  BY <1>1, <1>4, <1>6 DEF Tracked, ProgressOf, ReplayTabType
<1>8. /\ q \in ReplayTabType /\ q.calls = r /\ q.bulk = b /\ q.status = p.status /\ q.of = p.of
  BY <1>2, <1>4, <1>5, <1>7 DEF ReplayTabType
<1>9. \A k \in 1 .. Len(r) : k \in 1 .. Len(p.calls) \/ k = Len(p.calls) + 1
  BY <1>4, <1>5
<1>10. \A k \in 1 .. Len(r) : CallIsSound(r[k], rs)
  BY <1>3, <1>4, <1>5, <1>9
<1>11. \A k \in 2 .. Len(r) : r[k].at = "gate"
  <2> TAKE k \in 2 .. Len(r)
  <2>1. k \in 2 .. Len(p.calls) \/ k = Len(p.calls) + 1
    BY <1>4, <1>5
  <2>2. k \in 2 .. Len(p.calls) => k \in 1 .. Len(p.calls)
    BY <1>4
  <2> QED
    BY <1>3, <1>4, <1>5, <2>1, <2>2
<1>12. ProgressComes(q, h)
  <2>1. JoinsAsLast(p.calls, r, d, "progress")
    BY <1>1, <1>3, <1>4, LastJoins
  <2>2. LastOf(r, "progress", d)
    BY <1>3, <2>1 DEF JoinsAsLast
  <2>3. Of(r, "progress") # {} /\ \A e : LastOf(r, "progress", e) => e = d
    BY <2>2 DEF LastOf, Of
  <2> QED
    BY <1>3, <1>8, <2>3 DEF ProgressComes
<1>13. h = 0 => ~(Head(r).op = "progress" /\ Head(r).at = "threw")
  BY <1>3, <1>5 DEF TabIsSound
<1>14. q.bulk \subseteq Finished(rs) /\ q.status.done = q.status.total
  BY <1>2, <1>8 DEF TabIsSound
<1>15. TabIsSound(q, rs, h)
  BY <1>8, <1>10, <1>11, <1>12, <1>13, <1>14 DEF TabIsSound
<1>16. RowsInHand(q) = RowsInHand(p)
  <2>1. CASE p.calls # <<>>
    BY <1>5, <1>8, <2>1 DEF RowsInHand
  <2>2. CASE p.calls = <<>>
    BY <1>3, <1>5, <1>8, <2>2 DEF RowsInHand, Hand, AtWork
  <2> QED
    BY <2>1, <2>2
<1> QED
  BY <1>15, <1>16

LEMMA TabAnswered ==
  ASSUME NEW p, NEW rs, Len(rs) \in Nat, NEW h, TabIsSound(p, rs, h), p.calls # <<>>,
         NEW c, c = Head(p.calls), c.at \in {"ok", "refused", "threw"},
         NEW r, r = WithoutFirst(p), NEW q, Answered(p, c, r, q)
  PROVE  TabIsSound(q, rs, h) /\ RowsInHand(q) = {} /\ ToDo(p) = {}
<1>1. /\ p \in ReplayTabType /\ p.calls \in Seq(ReplayCalls) /\ p.status.done = p.status.total
      /\ c \in ReplayCalls /\ CallIsSound(c, rs) /\ ~AtWork(c)
      /\ h = 0 => ~(c.op = "progress" /\ c.at = "threw")
  <2>1. p \in ReplayTabType /\ p.calls \in Seq(ReplayCalls)
    BY DEF TabIsSound, ReplayTabType
  <2>2. c = p.calls[1] /\ 1 \in 1 .. Len(p.calls) /\ c \in ReplayCalls
    BY <2>1
  <2> QED
    BY <2>1, <2>2 DEF TabIsSound, AtWork
<1>2. /\ r \in ReplayTabType /\ r.calls = Tail(p.calls) /\ r.bulk = p.bulk
      /\ r.status = p.status /\ r.of = p.of
  <2>1. Tail(p.calls) \in Seq(ReplayCalls)
    BY <1>1
  <2> QED
    BY <1>1, <2>1 DEF ReplayTabType, WithoutFirst
<1>3. ASSUME NEW s \in ReplayTabType, s.calls = Tail(p.calls), s.bulk = p.bulk \/ s.bulk = {}, s.status.done = s.status.total,
             h = 0 => s.of = IF c.op = "progress" THEN c.bulk ELSE p.of
      PROVE  TabIsSound(s, rs, h) /\ RowsInHand(s) = {} /\ ToDo(p) = {}
  BY <1>1, <1>3, TabLeft
<1>4. ASSUME c.op = "progress" => h # 0
      PROVE  TabIsSound(r, rs, h) /\ RowsInHand(r) = {} /\ ToDo(p) = {}
  BY <1>1, <1>2, <1>3, <1>4
<1>5. CASE q = r /\ (c.op = "progress" => c.at = "threw")
  BY <1>1, <1>4, <1>5
<1>6. CASE q = Showing(r, c) /\ c.op # "progress"
  <2>1. PICK x : x = {[sig |-> c.sig, mods |-> c.mods, got |-> c.outcome]}
    OBVIOUS
  <2>2. x \in SUBSET [sig : Sigs \cup {NoSig}, mods : Sigs \cup {NoSig}, got : ReplayOutcomes]
    BY <1>1, <2>1 DEF ReplayCalls
  <2>3. q = [r EXCEPT !.shown = x]
    BY <1>6, <2>1 DEF Showing
  <2>4. /\ q \in ReplayTabType /\ q.calls = r.calls /\ q.bulk = r.bulk /\ q.status = r.status /\ q.of = r.of
    BY <1>2, <2>2, <2>3 DEF ReplayTabType
  <2> QED
    BY <1>1, <1>2, <1>3, <1>6, <2>4
<1>7. CASE q = ReadingResult(r, c) /\ c.op = "job" /\ c.at = "ok"
  <2>1. TabIsSound(r, rs, h) /\ RowsInHand(r) = {} /\ ToDo(p) = {}
    BY <1>4, <1>7
  <2>2. PICK d, n, s, m : n = c.row /\ s = c.sig /\ m = c.mods /\ d = ResultOf(n, s, m)
    OBVIOUS
  <2>3. n \in 1 .. Len(rs) /\ s \in Sigs \cup {NoSig} /\ m \in Sigs \cup {NoSig}
    BY <1>1, <1>7, <2>2 DEF CallIsSound, ReplayCalls
  <2>4. d \in ReplayCalls /\ CallIsSound(d, rs) /\ d.at = "gate" /\ d.op = "result"
    <3>1. Len(rs) \in Nat
      OBVIOUS
    <3>2. \E e : e = ResultOf(n, s, m) /\ e \in ReplayCalls /\ CallIsSound(e, rs) /\ e.at = "gate" /\ e.op = "result"
      BY <2>3, <3>1, AskResultSound
    <3> QED
      BY <2>2, <3>2
  <2>5. q = AskedBy(r, d)
    BY <1>7, <2>2 DEF ReadingResult
  <2>6. TabIsSound(q, rs, h) /\ RowsInHand(q) = RowsInHand(r)
    BY <2>1, <2>4, <2>5, TabJoined
  <2> QED
    BY <2>1, <2>6
<1>8. CASE q = Tracked(r, c) /\ c.op = "bulk" /\ c.at = "ok"
  <2>1. TabIsSound(r, rs, h) /\ RowsInHand(r) = {} /\ ToDo(p) = {}
    BY <1>4, <1>8
  <2>2. c.bulk \subseteq Finished(rs)
    BY <1>1, <1>8 DEF CallIsSound
  <2>3. TabIsSound(q, rs, h) /\ RowsInHand(q) = RowsInHand(r)
    BY <1>1, <1>8, <2>1, <2>2, TabTracks
  <2> QED
    BY <2>1, <2>3
<1>9. CASE q = WithoutBulk(r) /\ c.op # "progress"
  <2>1. /\ q \in ReplayTabType /\ q.calls = r.calls /\ q.bulk = {} /\ q.status = r.status /\ q.of = r.of
    BY <1>2, <1>9 DEF ReplayTabType, WithoutBulk
  <2> QED
    BY <1>1, <1>2, <1>3, <1>9, <2>1
<1>10. CASE q = ShowingProgress(r, c) /\ c.op = "progress" /\ c.at # "threw"
  <2>1. c.read \in [done : Nat, total : Nat] /\ c.bulk \in SUBSET Nat /\ c.read.done = c.read.total
    BY <1>1, <1>10 DEF CallIsSound, ReplayCalls
  <2>2. /\ q \in ReplayTabType /\ q.calls = r.calls /\ q.bulk = r.bulk /\ q.status = c.read /\ q.of = c.bulk
    BY <1>2, <1>10, <2>1 DEF ReplayTabType, ShowingProgress
  <2> QED
    BY <1>2, <1>3, <1>10, <2>1, <2>2
<1> QED
  BY <1>5, <1>6, <1>7, <1>8, <1>9, <1>10 DEF Answered

LEMMA TakeAnswerStep ==
  ASSUME ReplayIInv, NEW t \in ReplayTabs, TakeAnswer(t)
  PROVE  ReplayIInv'
<1>1. PICK p, c, r : p = rtab[t] /\ c = Its(t) /\ r = WithoutFirst(p)
  OBVIOUS
<1>2. /\ p.calls # <<>> /\ c = Head(p.calls) /\ c.at \in {"ok", "refused", "threw"}
      /\ UNCHANGED <<results, scenarios, asks, harm, orphaned>>
  BY <1>1 DEF TakeAnswer, Its
<1>3. /\ c \in ReplayCalls /\ CallIsSound(c, results) /\ p \in ReplayTabType /\ Len(results) \in Nat
      /\ TabIsSound(p, results, harm)
  BY <1>1, <1>2, ItsCall DEF ReplayIInv
<1>4. r.calls = Tail(p.calls)
  BY <1>1, <1>3 DEF WithoutFirst, ReplayTabType
<1>5. PICK x : x = [r EXCEPT !.calls = Append(Tail(p.calls), ResultOf(c.row, c.sig, c.mods))]
  OBVIOUS
<1>6. x = ReadingResult(r, c)
  BY <1>4, <1>5 DEF ReadingResult, AskedBy
<1>7. PICK q : /\ rtab' = [rtab EXCEPT ![t] = q]
               /\ q = CASE c.at = "threw" -> r
                        [] c.at # "threw" /\ c.op \in {"run", "result"} -> Showing(r, c)
                        [] c.op = "job" /\ c.at = "ok" -> x
                        [] c.op = "bulk" /\ c.at = "ok" -> Tracked(r, c)
                        [] c.op = "bulk" /\ c.at = "refused" -> WithoutBulk(r)
                        [] c.op = "progress" /\ c.at # "threw" -> ShowingProgress(r, c)
                        [] OTHER -> r
  BY <1>1, <1>5, Zenon DEF TakeAnswer, WithoutFirst, Showing, ShowingProgress, WithoutBulk, ResultOf
<1>8. Answered(p, c, r, q)
  <2>1. c.op \in {"run", "job", "save", "bulk", "progress", "result"} /\ (c.op = "progress" => c.at # "refused")
    BY <1>3 DEF ReplayCalls, CallIsSound
  <2>2. PICK at, op, s, b, w, g : /\ at = c.at /\ op = c.op /\ s = Showing(r, c) /\ b = Tracked(r, c)
                                  /\ w = WithoutBulk(r) /\ g = ShowingProgress(r, c)
    OBVIOUS
  <2>3. q = CASE at = "threw" -> r
               [] at # "threw" /\ op \in {"run", "result"} -> s
               [] op = "job" /\ at = "ok" -> x
               [] op = "bulk" /\ at = "ok" -> b
               [] op = "bulk" /\ at = "refused" -> w
               [] op = "progress" /\ at # "threw" -> g
               [] OTHER -> r
    BY <1>7, <2>2
  <2>4. /\ op \in {"run", "job", "save", "bulk", "progress", "result"} /\ (op = "progress" => at # "refused")
        /\ at \in {"ok", "refused", "threw"}
    BY <1>2, <2>1, <2>2
  <2>5. \/ q = r /\ (op = "progress" => at = "threw")
        \/ q = s /\ op # "progress"
        \/ q = x /\ op = "job" /\ at = "ok"
        \/ q = b /\ op = "bulk" /\ at = "ok"
        \/ q = w /\ op # "progress"
        \/ q = g /\ op = "progress" /\ at # "threw"
    BY <2>3, <2>4
  <2> QED
    BY <1>6, <2>2, <2>5 DEF Answered
<1>9. TabIsSound(q, results, harm) /\ RowsInHand(q) = {} /\ ToDo(p) = {}
  BY <1>1, <1>2, <1>3, <1>8, TabAnswered
<1>10. /\ scenarios' \subseteq Sigs \cup {NoSig} /\ harm' \in Nat /\ harm <= harm' /\ results' = results
       /\ orphaned \subseteq orphaned' /\ orphaned' \subseteq 1 .. Len(results) /\ harm' = harm
  BY <1>2 DEF ReplayIInv, RowsAreSound
<1>11. TabIsSound(q, results, harm')
  BY <1>9, <1>10
<1> QED
  BY <1>1, <1>7, <1>9, <1>10, <1>11, RowsStandStep

\* What a restart does to one tab.
Aborted(p, c) == [p EXCEPT !.calls[1] = [c EXCEPT !.at = "threw"]]

LEMMA TabAborted ==
  ASSUME NEW p, NEW rs, NEW h \in Nat, TabIsSound(p, rs, h), Len(rs) \in Nat, p.calls # <<>>,
         NEW c, c = Head(p.calls), c.at \in {"gate", "rows", "simulate", "write"},
         NEW q, q = Aborted(p, c)
  PROVE  TabIsSound(q, rs, h + 1) /\ RowsInHand(q) = {}
<1>1. PICK d, g : d = [c EXCEPT !.at = "threw"] /\ g = h + 1
  OBVIOUS
<1>2. p.calls \in Seq(ReplayCalls) /\ c \in ReplayCalls /\ CallIsSound(c, rs)
  <2>1. p.calls \in Seq(ReplayCalls)
    BY DEF TabIsSound, ReplayTabType
  <2>2. c = p.calls[1] /\ 1 \in 1 .. Len(p.calls) /\ c \in ReplayCalls
    BY <2>1
  <2> QED
    BY <2>1, <2>2 DEF TabIsSound
<1>3. d \in ReplayCalls /\ d.op = c.op /\ d.at = "threw" /\ d.bulk = c.bulk /\ d.row = c.row
  BY <1>1, <1>2 DEF ReplayCalls
<1>4. CallIsSound(d, rs) /\ Hand(d) = {}
  BY <1>2, <1>3 DEF CallIsSound, Hand, AtWork
<1>5. q = ServedAs(p, d)
  BY <1>1 DEF ServedAs, Aborted
<1>6. Grown(rs, rs, {}) /\ g \in Nat /\ h <= g /\ g # 0
  <2>1. Grown(rs, rs, {})
    BY NothingGrown
  <2> QED
    BY <1>1, <2>1
<1>7. d.op = "progress" => d.bulk = Head(p.calls).bulk /\ (g = 0 => d.at # "threw")
  BY <1>3, <1>6
<1>8. d.op = Head(p.calls).op
  BY <1>3
<1>9. TabIsSound(q, rs, g) /\ q.calls # <<>> /\ Head(q.calls) = d
  <2>1. PICK T : T = {}
    OBVIOUS
  <2>2. /\ Grown(rs, rs, T) /\ g \in Nat /\ h <= g /\ CallIsSound(d, rs) /\ d.op = Head(p.calls).op /\ d \in ReplayCalls
        /\ d.op = "progress" => d.bulk = Head(p.calls).bulk /\ (g = 0 => d.at # "threw")
    BY <1>3, <1>4, <1>6, <1>7, <1>8, <2>1
  <2> QED
    BY <1>5, <2>2, TabServed
<1> QED
  BY <1>1, <1>4, <1>9 DEF RowsInHand

LEMMA BackendRestartsStep ==
  ASSUME ReplayIInv, BackendRestarts
  PROVE  ReplayIInv'
<1>1. PICK hit, left :
        /\ hit = {t \in ReplayTabs : rtab[t].calls # <<>> /\ Its(t).at \in {"gate", "rows", "simulate", "write"}}
        /\ left = {t \in hit : Its(t).row > 0 /\ Its(t).op \in {"job", "bulk"}}
        /\ rtab' = [t \in ReplayTabs |-> IF t \notin hit THEN rtab[t]
                                         ELSE [rtab[t] EXCEPT !.calls[1] = [Its(t) EXCEPT !.at = "threw"]]]
        /\ orphaned' = orphaned \cup UNION {{Its(t).row} \cup Following(t) : t \in left}
        /\ results' = results /\ scenarios' = scenarios /\ harm' = harm + 1
  BY Zenon DEF BackendRestarts
<1>2. /\ harm \in Nat /\ RowsAreSound(results, orphaned) /\ Len(results) \in Nat /\ harm' \in Nat
      /\ scenarios' \subseteq Sigs \cup {NoSig}
  BY <1>1 DEF ReplayIInv, RowsAreSound
<1>3. ASSUME NEW t \in hit
      PROVE  TabIsSound(rtab'[t], results, harm + 1) /\ RowsInHand(rtab'[t]) = {}
  <2>1. PICK p, c, q : p = rtab[t] /\ c = Its(t) /\ q = Aborted(p, c)
    OBVIOUS
  <2>2. TabIsSound(p, results, harm) /\ p.calls # <<>> /\ c = Head(p.calls) /\ c.at \in {"gate", "rows", "simulate", "write"}
    BY <1>1, <2>1 DEF ReplayIInv, Its
  <2>3. TabIsSound(q, results, harm + 1) /\ RowsInHand(q) = {}
    BY <1>2, <2>1, <2>2, TabAborted
  <2>4. rtab'[t] = q
    BY <1>1, <2>1 DEF Aborted
  <2> QED
    BY <2>3, <2>4
<1>4. ASSUME NEW t \in ReplayTabs, t \notin hit
      PROVE  TabIsSound(rtab'[t], results, harm + 1) /\ RowsInHand(rtab'[t]) = {} /\ ToDo(rtab[t]) = {}
  <2>1. PICK p, g : p = rtab[t] /\ g = harm + 1
    OBVIOUS
  <2>2. TabIsSound(p, results, harm) /\ Grown(results, results, {}) /\ g \in Nat /\ harm <= g /\ harm \in Nat
    BY <1>2, <2>1, NothingGrown DEF ReplayIInv
  <2>3. TabIsSound(p, results, g)
    BY <2>2, TabStays
  <2>4. RowsInHand(p) = {} /\ ToDo(p) = {}
    BY <1>1, <1>4, <2>1 DEF RowsInHand, ToDo, Hand, Rest, AtWork, Its
  <2>5. rtab'[t] = p
    BY <1>1, <1>4, <2>1
  <2> QED
    BY <2>1, <2>3, <2>4, <2>5
<1>5. ASSUME NEW t \in left PROVE {Its(t).row} \cup Following(t) \subseteq 1 .. Len(results)
  <2>1. PICK c : c = Its(t) /\ c.row > 0 /\ c.op \in {"job", "bulk"} /\ c.at \in {"gate", "rows", "simulate", "write"}
    BY <1>1, <1>5
  <2>2. t \in ReplayTabs /\ rtab[t].calls # <<>>
    BY <1>1, <1>5
  <2>3. CallIsSound(c, results) /\ Hand(c) \subseteq 1 .. Len(results)
    BY <2>1, <2>2, ItsCall
  <2>4. AtWork(c)
    BY <2>1, <2>3 DEF CallIsSound, AtWork
  <2> QED
    BY <2>1, <2>3, <2>4 DEF Hand, Following
<1>6. ASSUME NEW t \in ReplayTabs PROVE ToDo(rtab[t]) \subseteq orphaned'
  <2>1. CASE t \in hit /\ AtWork(Its(t))
    <3>1. PICK c : c = Its(t)
      OBVIOUS
    <3>2. c \in ReplayCalls /\ CallIsSound(c, results) /\ ToDo(rtab[t]) = Rest(c) /\ Hand(c) \subseteq 1 .. Len(results)
      BY <1>1, <2>1, <3>1, ItsCall
    <3>3. c.row > 0 /\ c.op \in {"job", "bulk"}
      <4>1. c.row \in 1 .. Len(results)
        BY <2>1, <3>1, <3>2 DEF Hand
      <4> QED
        BY <1>2, <2>1, <3>1, <4>1 DEF AtWork
    <3>4. Rest(c) = {c.row} \cup Following(t)
      BY <2>1, <3>1 DEF Rest, Following
    <3>5. t \in left
      BY <1>1, <2>1, <3>1, <3>3
    <3> QED
      BY <1>1, <3>1, <3>2, <3>4, <3>5
  <2>2. CASE t \in hit /\ ~AtWork(Its(t))
    BY <2>2 DEF ToDo, Rest, Its
  <2>3. CASE t \notin hit
    BY <1>4, <2>3
  <2> QED
    BY <2>1, <2>2, <2>3
<1>7. RowsAreSound(results', orphaned')
  <2>1. orphaned' \subseteq 1 .. Len(results)
    BY <1>1, <1>2, <1>5 DEF RowsAreSound
  <2>2. PICK rs, gone, ss : rs = results /\ gone = orphaned' /\ ss = results'
    OBVIOUS
  <2>3. RowsAreSound(rs, orphaned) /\ ss = rs /\ gone \subseteq 1 .. Len(rs)
    BY <1>1, <1>2, <2>1, <2>2
  <2>4. RowsAreSound(ss, gone)
    BY <2>3 DEF RowsAreSound
  <2> QED
    BY <2>2, <2>4
<1>8. \A t \in ReplayTabs : TabIsSound(rtab'[t], results', harm') /\ RowsInHand(rtab'[t]) = {}
  BY <1>1, <1>3, <1>4
<1>9. rtab' = [t \in ReplayTabs |-> rtab'[t]]
  BY <1>1
<1>10. \A n \in 1 .. Len(results') : results'[n].status \in Unfinished => n \in orphaned'
  <2> SUFFICES ASSUME NEW n \in 1 .. Len(results), results[n].status \in Unfinished PROVE n \in orphaned'
    BY <1>1
  <2>1. n \in orphaned \/ \E t \in ReplayTabs : n \in ToDo(rtab[t])
    BY DEF ReplayIInv
  <2> QED
    BY <1>1, <1>6, <2>1
<1> QED
  BY <1>2, <1>7, <1>8, <1>9, <1>10 DEF ReplayIInv

LEMMA ReplayInitOK == ReplayInit => ReplayIInv
<1> SUFFICES ASSUME ReplayInit PROVE ReplayIInv
  OBVIOUS
<1>1. results = <<>> /\ scenarios = {} /\ harm = 0 /\ orphaned = {}
  BY DEF ReplayInit
<1>2. results \in Seq(ResultRows) /\ Len(results) = 0 /\ 1 .. Len(results) = {}
  BY <1>1
<1>3. RowsAreSound(results, orphaned)
  BY <1>1, <1>2, ReplayAssumption DEF RowsAreSound
<1>4. PICK p : p = [calls |-> <<>>, sig |-> NoSig, shown |-> {}, bulk |-> {},
                    status |-> [done |-> 0, total |-> 0], of |-> {}]
  OBVIOUS
<1>5. rtab = [t \in ReplayTabs |-> p]
  BY <1>4 DEF ReplayInit
<1>6. p \in ReplayTabType /\ p.calls = <<>> /\ p.bulk = {} /\ p.status.done = p.status.total
  BY <1>4 DEF ReplayTabType
<1>7. TabIsSound(p, results, harm) /\ RowsInHand(p) = {}
  BY <1>6 DEF TabIsSound, ProgressComes, RowsInHand
<1>8. \A t \in ReplayTabs : rtab[t] = p
  BY <1>5
<1> QED
  BY <1>1, <1>2, <1>3, <1>5, <1>7, <1>8 DEF ReplayIInv

LEMMA ReplayNextOK == ReplayIInv /\ [ReplayNext]_replayVars => ReplayIInv'
<1> SUFFICES ASSUME ReplayIInv, [ReplayNext]_replayVars PROVE ReplayIInv'
  OBVIOUS
<1>1. CASE UNCHANGED replayVars
  BY <1>1 DEF ReplayIInv, replayVars, RowsAreSound, TabIsSound, ReplayTabType
<1>2. CASE BackendRestarts
  BY <1>2, BackendRestartsStep
<1>3. ASSUME NEW t \in ReplayTabs, UserReplays(t) \/ ServeReplay(t) \/ WriteFails(t) \/ TakeAnswer(t)
      PROVE  ReplayIInv'
  <2>1. CASE UserReplays(t)
    BY <2>1, UserStep
  <2>2. CASE PassGate(t)
    BY <2>2, PassGateStep
  <2>3. CASE CreateJob(t)
    BY <2>3, CreateJobStep
  <2>4. CASE CreateBulk(t)
    BY <2>4, CreateBulkStep
  <2>5. CASE Simulate(t)
    BY <2>5, SimulateStep
  <2>6. CASE WriteOutcome(t)
    BY <2>6, WriteOutcomeStep
  <2>7. CASE ReadJob(t)
    BY <2>7, ReadJobStep
  <2>8. CASE ReadBulk(t)
    BY <2>8, ReadBulkStep
  <2>9. CASE CreateScenario(t)
    BY <2>9, CreateScenarioStep
  <2>10. CASE WriteFails(t)
    BY <2>10, WriteFailsStep
  <2>11. CASE TakeAnswer(t)
    BY <2>11, TakeAnswerStep
  <2> QED
    BY <1>3, <2>1, <2>2, <2>3, <2>4, <2>5, <2>6, <2>7, <2>8, <2>9, <2>10, <2>11 DEF ServeReplay
<1> QED
  BY <1>1, <1>2, <1>3 DEF ReplayNext

LEMMA ReplayInvFollows == ReplayIInv => ReplayInv
<1> SUFFICES ASSUME ReplayIInv PROVE ReplayInv
  OBVIOUS
<1>1. RowsAreSound(results, orphaned) /\ Len(results) \in Nat
  BY DEF ReplayIInv, RowsAreSound
<1>2. ReplayTypeOK
  <2>1. \A n \in 1 .. Len(results) : results[n] \in ResultRows
    BY <1>1 DEF RowsAreSound
  <2> QED
    BY <1>1, <2>1 DEF ReplayTypeOK, RowsAreSound, ResultRows
<1>3. SucceededWasSaid
  BY <1>1 DEF SucceededWasSaid, RowsAreSound, RowTellsWhatWasSaid
<1>4. UnfinishedIsWorkedOn
  <2> SUFFICES ASSUME NEW n \in 1 .. Len(results), results[n].status \in Unfinished, n \notin orphaned
               PROVE  Working(n)
    BY DEF UnfinishedIsWorkedOn
  <2>1. PICK t \in ReplayTabs : n \in ToDo(rtab[t])
    BY DEF ReplayIInv
  <2>2. rtab[t].calls # <<>> /\ n \in Rest(Its(t)) /\ AtWork(Its(t))
    BY <2>1 DEF ToDo, Rest, Its
  <2>3. n = Its(t).row \/ n \in Following(t)
    BY <2>2 DEF Rest, Following
  <2> QED
    BY <2>2, <2>3 DEF Working, AtWork
<1>5. BulksFinishInOrder
  <2> SUFFICES ASSUME NEW t \in ReplayTabs
               PROVE  /\ rtab[t].status.done = rtab[t].status.total
                      /\ Doing(t, {"bulk"}, "simulate") =>
                           \A n \in Its(t).bulk : n < Its(t).row <=> n \in Done(Its(t).bulk)
    BY DEF BulksFinishInOrder
  <2>1. rtab[t].status.done = rtab[t].status.total
    BY DEF ReplayIInv, TabIsSound
  <2>2. ASSUME Doing(t, {"bulk"}, "simulate"), NEW n \in Its(t).bulk
        PROVE  n < Its(t).row <=> n \in Done(Its(t).bulk)
    <3>1. PICK c : c = Its(t) /\ c.op = "bulk" /\ c.at = "simulate" /\ rtab[t].calls # <<>>
      BY <2>2 DEF Doing, Its
    <3>2. BulkUnderWay(c, results)
      BY <3>1, ItsCall DEF CallIsSound
    <3>3. n \in Done(Its(t).bulk) <=> n \in Finished(results)
      BY <2>2, <3>1, <3>2 DEF Done, Finished, BulkUnderWay
    <3> QED
      BY <2>2, <3>1, <3>2, <3>3 DEF BulkUnderWay
  <2> QED
    BY <2>1, <2>2
<1>6. ProgressIsOfItsBulk
  <2> SUFFICES ASSUME NEW t \in ReplayTabs, rtab[t].calls = <<>>, rtab[t].bulk # {}, ~(harm > 0)
               PROVE  rtab[t].of = rtab[t].bulk
    BY DEF ProgressIsOfItsBulk
  <2>1. harm = 0 /\ ProgressComes(rtab[t], harm)
    BY DEF ReplayIInv, TabIsSound
  <2>2. Of(rtab[t].calls, "progress") = {}
    BY DEF Of
  <2> QED
    BY <2>1, <2>2 DEF ProgressComes
<1> QED
  BY <1>2, <1>3, <1>4, <1>5, <1>6 DEF ReplayInv

\* Whatever is clicked, refused, thrown or restarted: every row says what the
\* service said of it, and one that is unfinished has a handler that comes to it
\* or is known to be orphaned; bulks finish in the order of their rows, a page
\* that reads a bulk's progress reads it finished, and a tab at rest shows the
\* progress of the bulk it names.
THEOREM ReplayInvariant == ReplaySpec => []ReplayInv
<1>1. ReplayInit => ReplayIInv
  BY ReplayInitOK
<1>2. ReplayIInv /\ [ReplayNext]_replayVars => ReplayIInv'
  BY ReplayNextOK
<1>3. ReplayIInv => ReplayInv
  BY ReplayInvFollows
<1> QED
  BY <1>1, <1>2, <1>3, PTL DEF ReplaySpec
=============================================================================
