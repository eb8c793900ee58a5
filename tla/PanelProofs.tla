---------------------------- MODULE PanelProofs ----------------------------
(***************************************************************************)
(* Proofs about the panels of a program's page: issues and their           *)
(* notifications, what a panel shows of its query, the state timeline, and *)
(* the dashboards of panels.                                               *)
(*                                                                         *)
(* The server actions of a tab run in order, so that every panel is a      *)
(* queue of calls of which only the first is ever served.  The lemmas      *)
(* about queues are stated once, for any set of calls.                     *)
(***************************************************************************)
EXTENDS Issues, PanelData, StateScrub, Workspace, SequenceTheorems, WellFoundedInduction, TLAPS

\* A call joins a queue: it is the last, and the others stay.
LEMMA Joined ==
  ASSUME NEW S, NEW q \in Seq(S), NEW c \in S, NEW r, r = q \o <<c>>
  PROVE  /\ r \in Seq(S) /\ Len(r) = Len(q) + 1 /\ r # <<>>
         /\ r[Len(q) + 1] = c /\ \A k \in 1 .. Len(q) : r[k] = q[k]
         /\ q # <<>> => Head(r) = Head(q)
         /\ q = <<>> => Head(r) = c
<1>1. r \in Seq(S) /\ Len(r) = Len(q) + 1 /\ r[Len(q) + 1] = c /\ \A k \in 1 .. Len(q) : r[k] = q[k]
  OBVIOUS
<1>2. r # <<>>
  BY <1>1
<1>3. q # <<>> => Len(q) >= 1
  OBVIOUS
<1>4. Head(r) = r[1] /\ (q # <<>> => Head(q) = q[1]) /\ (q = <<>> => Len(q) = 0)
  BY <1>1, <1>2
<1> QED
  BY <1>1, <1>2, <1>3, <1>4

\* The first call is served: only it changes.
LEMMA Served ==
  ASSUME NEW S, NEW q \in Seq(S), q # <<>>, NEW c \in S, NEW r, r = [q EXCEPT ![1] = c]
  PROVE  /\ r \in Seq(S) /\ Len(r) = Len(q) /\ r # <<>> /\ Head(r) = c /\ r[1] = c
         /\ \A k \in 2 .. Len(q) : r[k] = q[k]
         /\ 1 \in 1 .. Len(q) /\ Head(q) = q[1] /\ Head(q) \in S
<1>1. 1 \in 1 .. Len(q) /\ Head(q) = q[1] /\ Head(q) \in S /\ Len(q) \in Nat
  OBVIOUS
<1>2. q \in [1 .. Len(q) -> S]
  BY LenProperties
<1>3. r \in [1 .. Len(q) -> S] /\ r[1] = c /\ \A k \in 2 .. Len(q) : r[k] = q[k]
  BY <1>1, <1>2
<1>4. r \in Seq(S) /\ Len(r) = Len(q)
  BY <1>1, <1>3
<1>5. r # <<>>
  BY <1>1, <1>4
<1>6. Head(r) = r[1]
  BY <1>4, <1>5
<1> QED
  BY <1>1, <1>3, <1>4, <1>5, <1>6

\* The first call leaves: the others move up.
LEMMA Left ==
  ASSUME NEW S, NEW q \in Seq(S), q # <<>>, NEW r, r = Tail(q)
  PROVE  /\ r \in Seq(S) /\ Len(r) = Len(q) - 1 /\ Len(q) \in Nat \ {0}
         /\ \A k \in 1 .. Len(r) : r[k] = q[k + 1]
         /\ r # <<>> => 2 \in 1 .. Len(q) /\ Head(r) = q[2]
         /\ Head(q) = q[1] /\ Head(q) \in S
<1>1. r \in Seq(S) /\ Len(r) = Len(q) - 1 /\ Len(q) \in Nat \ {0} /\ Head(q) = q[1] /\ Head(q) \in S
  OBVIOUS
<1>2. \A k \in 1 .. Len(r) : r[k] = q[k + 1]
  OBVIOUS
<1>3. r # <<>> => Len(r) >= 1 /\ Head(r) = r[1]
  BY <1>1
<1> QED
  BY <1>1, <1>2, <1>3

\* The calls of one kind in a queue, and the one of them that is answered last.
Of(q, op) == {k \in 1 .. Len(q) : q[k].op = op}
LastOf(q, op, c) == \E k \in Of(q, op) : q[k] = c /\ \A j \in Of(q, op) : j <= k

JoinsAsLast(q, r, c, op) ==
  /\ c.op = op => LastOf(r, op, c)
  /\ c.op # op => Of(r, op) = Of(q, op) /\ \A d : LastOf(q, op, d) => LastOf(r, op, d)
LeavesTheLast(q, r, op) ==
  /\ Of(q, op) = {} => Of(r, op) = {}
  /\ \A d : LastOf(q, op, d) => LastOf(r, op, d) \/ (Of(r, op) = {} /\ q[1] = d /\ d.op = op)

LEMMA LastJoins ==
  ASSUME NEW S, NEW q \in Seq(S), NEW c \in S, NEW r, r = q \o <<c>>, NEW op
  PROVE  JoinsAsLast(q, r, c, op)
<1>1. /\ r \in Seq(S) /\ Len(r) = Len(q) + 1 /\ Len(q) \in Nat
      /\ r[Len(q) + 1] = c /\ \A k \in 1 .. Len(q) : r[k] = q[k]
  BY Joined
<1>2. ASSUME c.op = op PROVE LastOf(r, op, c)
  <2>1. Len(q) + 1 \in Of(r, op) /\ \A j \in Of(r, op) : j <= Len(q) + 1
    BY <1>1, <1>2 DEF Of
  <2> QED
    BY <2>1, <1>1 DEF LastOf
<1>3. ASSUME c.op # op PROVE Of(r, op) = Of(q, op) /\ \A d : LastOf(q, op, d) => LastOf(r, op, d)
  <2>1. Of(r, op) = Of(q, op) /\ \A k \in Of(q, op) : r[k] = q[k]
    BY <1>1, <1>3 DEF Of
  <2> QED
    BY <2>1 DEF LastOf
<1> QED
  BY <1>2, <1>3 DEF JoinsAsLast

LEMMA LastLeaves ==
  ASSUME NEW S, NEW q \in Seq(S), q # <<>>, NEW r \in Seq(S), Len(r) = Len(q) - 1,
         \A k \in 1 .. Len(r) : r[k] = q[k + 1], NEW op
  PROVE  LeavesTheLast(q, r, op)
<1>1. Len(q) \in Nat \ {0} /\ Len(r) \in Nat
  OBVIOUS
<1>2. \A k \in Of(r, op) : k \in 1 .. Len(r) /\ k + 1 \in Of(q, op)
  BY <1>1 DEF Of
<1>3. \A k \in Of(q, op) : k \in 1 .. Len(q) /\ q[k].op = op /\ (k # 1 => k - 1 \in Of(r, op) /\ r[k - 1] = q[k])
  <2> SUFFICES ASSUME NEW k \in Of(q, op)
               PROVE  k \in 1 .. Len(q) /\ q[k].op = op /\ (k # 1 => k - 1 \in Of(r, op) /\ r[k - 1] = q[k])
    OBVIOUS
  <2>1. k \in 1 .. Len(q) /\ q[k].op = op
    BY DEF Of
  <2>2. ASSUME k # 1 PROVE k - 1 \in Of(r, op) /\ r[k - 1] = q[k]
    <3>1. k - 1 \in 1 .. Len(r) /\ (k - 1) + 1 = k
      BY <1>1, <2>1, <2>2
    <3>2. r[k - 1] = q[k]
      BY <3>1
    <3> QED
      BY <2>1, <3>1, <3>2 DEF Of
  <2> QED
    BY <2>1, <2>2
<1>4. ASSUME NEW k \in Of(q, op), \A j \in Of(q, op) : j <= k
      PROVE  LastOf(r, op, q[k]) \/ (Of(r, op) = {} /\ k = 1 /\ q[k].op = op)
  <2>1. CASE k = 1
    <3>1. ASSUME NEW j \in Of(r, op) PROVE FALSE
      <4>1. j \in Nat /\ j >= 1 /\ j + 1 <= k
        BY <1>1, <1>2, <1>4, <3>1
      <4> QED
        BY <4>1, <2>1
    <3> QED
      BY <2>1, <3>1, <1>3, <1>4
  <2>2. CASE k # 1
    <3>1. k - 1 \in Of(r, op) /\ r[k - 1] = q[k] /\ k \in Nat
      BY <2>2, <1>3
    <3>2. \A j \in Of(r, op) : j <= k - 1
      BY <1>1, <1>2, <1>4, <3>1
    <3> QED
      BY <3>1, <3>2 DEF LastOf
  <2> QED
    BY <2>1, <2>2
<1> QED
  BY <1>2, <1>4 DEF LastOf, LeavesTheLast
-----------------------------------------------------------------------------
(* Issues. *)

IssueRow == [status : Statuses, until : Nat, last : Nat, mutedAt : Nat, comments : Nat]
IssueCall == [op : {"list", "detail", "update", "comment"}, issue : IssueSet \cup {NoIssue},
              what : Filters \cup {"none"}, at : {"first", "second", "answered"},
              list : SUBSET IssueSet, nth : Nat]
IssuePanel == [calls : Seq(IssueCall), shown : SUBSET IssueSet, filter : Filters,
               selected : IssueSet \cup {NoIssue}, detail : IssueSet \cup {NoIssue},
               crossed : BOOLEAN, threw : BOOLEAN]
Note == [kind : {"update", "comment"}, issue : IssueSet, what : Filters \cup {"none"}, of : Nat]

TypesOfIssues ==
  /\ issue \in [IssueSet -> IssueRow] /\ notes \subseteq Note
  /\ panel \in [IssueTabs -> IssuePanel]
  /\ now \in 1 .. MaxTime /\ bounds \in [changes : Nat, selects : Nat, lost : Nat]

\* Only the first call of a tab is ever served, and each is about an issue it can be about.
CallFits(c) ==
  /\ c.op # "list" => c.issue \in IssueSet
  /\ c.op = "update" => c.what \in Buttons
  /\ c.at = "second" => c.op \in {"update", "comment"}
QueueFits(q) == \A k \in 1 .. Len(q) : CallFits(q[k]) /\ (k > 1 => q[k].at = "first")
QueuesFit == \A t \in IssueTabs : QueueFits(panel[t].calls)

\* The detail that is shown, or the last one asked for, is of the selection.
DetailsAsked(q) == {k \in 1 .. Len(q) : q[k].op = "detail"}
DetailComes(p) ==
  \/ DetailsAsked(p.calls) = {} /\ p.detail = p.selected
  \/ \E k \in DetailsAsked(p.calls) :
       p.calls[k].issue = p.selected /\ \A j \in DetailsAsked(p.calls) : j <= k
DetailsCome == \A t \in IssueTabs : ~panel[t].threw /\ ~panel[t].crossed => DetailComes(panel[t])

\* Between its two statements a change is made and not told: by nobody yet, and
\* by no other handler.
InHand == {t \in IssueTabs : panel[t].calls # <<>> /\ It(t).at = "second"}
DoneSoFar(kind, i) == IF kind = "update" THEN issue[i].last ELSE issue[i].comments
HeldIsUntold == \A t \in InHand :
  /\ It(t).nth <= DoneSoFar(It(t).op, It(t).issue)
  /\ \A n \in notes : ~(n.kind = It(t).op /\ n.issue = It(t).issue /\ n.of = It(t).nth)
  /\ \A u \in InHand \ {t} :
       ~(It(u).op = It(t).op /\ It(u).issue = It(t).issue /\ It(u).nth = It(t).nth)

\* The last update of an issue is told, or a handler is about to.
LastIsToldOrHeld == bounds.lost = 0 => \A i \in IssueSet : issue[i].last > 0 =>
  \/ \E n \in notes : n.kind = "update" /\ n.issue = i /\ n.of = issue[i].last /\ n.what = issue[i].status
  \/ \E t \in InHand : /\ It(t).op = "update" /\ It(t).issue = i
                       /\ It(t).nth = issue[i].last /\ It(t).what = issue[i].status

\* muted_until is the end of the last mute, in whatever status the issue is now.
MutesEnd == \A i \in IssueSet :
  /\ issue[i].mutedAt <= now
  /\ issue[i].until # 0 => issue[i].mutedAt > 0 /\ issue[i].until = issue[i].mutedAt + MuteTime

IssuesIInv ==
  /\ TypesOfIssues /\ QueuesFit /\ DetailsCome /\ HeldIsUntold /\ NotesTellWhatWasDone
  /\ LastIsToldOrHeld /\ MutesEnd

-----------------------------------------------------------------------------
LEMMA IssuesStart == ASSUME IssuesAssumption, IssuesInit PROVE IssuesIInv
<1> DEFINE first == NewCall("list", NoIssue, "all")
<1>1. first \in IssueCall /\ CallFits(first) /\ first.op = "list" /\ first.at = "first"
  BY DEF NewCall, IssueCall, CallFits, Filters
<1> HIDE DEF first
<1>2. /\ <<first>> \in Seq(IssueCall) /\ Len(<<first>>) = 1 /\ Head(<<first>>) = first
      /\ \A k \in 1 .. Len(<<first>>) : <<first>>[k] = first
  BY <1>1
<1>3. \A t \in IssueTabs :
        panel[t] = [calls |-> <<first>>, shown |-> {}, filter |-> "all", selected |-> NoIssue,
                    detail |-> NoIssue, crossed |-> FALSE, threw |-> FALSE]
  BY DEF IssuesInit, first
<1>4. panel \in [IssueTabs -> IssuePanel]
  <2>1. [calls |-> <<first>>, shown |-> {}, filter |-> "all", selected |-> NoIssue,
         detail |-> NoIssue, crossed |-> FALSE, threw |-> FALSE] \in IssuePanel
    BY <1>2 DEF IssuePanel, Filters
  <2> QED
    BY <2>1 DEF IssuesInit, first
<1>5. TypesOfIssues
  <2>1. issue \in [IssueSet -> IssueRow]
    BY DEF IssuesInit, IssueRow, Statuses
  <2>2. now \in 1 .. MaxTime /\ bounds \in [changes : Nat, selects : Nat, lost : Nat] /\ notes = {}
    BY DEF IssuesInit, IssuesAssumption
  <2> QED
    BY <1>4, <2>1, <2>2 DEF TypesOfIssues
<1>6. QueuesFit
  BY <1>1, <1>2, <1>3 DEF QueuesFit, QueueFits
<1>7. DetailsCome
  <2> SUFFICES ASSUME NEW t \in IssueTabs PROVE DetailComes(panel[t])
    BY DEF DetailsCome
  <2>1. DetailsAsked(panel[t].calls) = {}
    BY <1>1, <1>2, <1>3 DEF DetailsAsked
  <2> QED
    BY <2>1, <1>3 DEF DetailComes
<1>8. InHand = {}
  BY <1>1, <1>2, <1>3 DEF InHand, It
<1>9. HeldIsUntold /\ NotesTellWhatWasDone /\ LastIsToldOrHeld /\ MutesEnd
  BY <1>8 DEF HeldIsUntold, NotesTellWhatWasDone, LastIsToldOrHeld, MutesEnd, IssuesInit
<1> QED
  BY <1>5, <1>6, <1>7, <1>9 DEF IssuesIInv

\* What a step leaves alone that changes no issue and tells nothing: the calls that
\* are in hand stay in hand, or it is a failure.
LEMMA QuietStep ==
  ASSUME IssuesIInv, NEW t \in IssueTabs, NEW p \in IssuePanel,
         panel' = [panel EXCEPT ![t] = p], UNCHANGED <<issue, notes, now>>,
         bounds' \in [changes : Nat, selects : Nat, lost : Nat],
         QueueFits(p.calls), ~p.threw /\ ~p.crossed => DetailComes(p),
         p.calls # <<>> /\ Head(p.calls).at = "second" => t \in InHand /\ Head(p.calls) = It(t),
         bounds'.lost = 0 => /\ bounds.lost = 0
                             /\ t \in InHand => p.calls # <<>> /\ Head(p.calls) = It(t)
  PROVE  IssuesIInv'
<1>1. panel \in [IssueTabs -> IssuePanel]
  BY DEF IssuesIInv, TypesOfIssues
<1>2. panel'[t] = p /\ \A u \in IssueTabs \ {t} : panel'[u] = panel[u]
  BY <1>1
<1>3. TypesOfIssues'
  BY <1>1 DEF IssuesIInv, TypesOfIssues
<1>4. QueuesFit'
  BY <1>2 DEF IssuesIInv, QueuesFit
<1>5. DetailsCome'
  BY <1>2 DEF IssuesIInv, DetailsCome
<1>6. \A u \in InHand' : u \in InHand /\ It(u)' = It(u)
  BY <1>2 DEF InHand, It
<1>7. HeldIsUntold'
  BY <1>6 DEF IssuesIInv, HeldIsUntold, DoneSoFar
<1>8. NotesTellWhatWasDone' /\ MutesEnd'
  BY DEF IssuesIInv, NotesTellWhatWasDone, MutesEnd
<1>9. bounds'.lost = 0 => \A u \in InHand : u \in InHand' /\ It(u)' = It(u)
  BY <1>2 DEF InHand, It
<1>10. LastIsToldOrHeld'
  BY <1>9 DEF IssuesIInv, LastIsToldOrHeld
<1> QED
  BY <1>3, <1>4, <1>5, <1>7, <1>8, <1>10 DEF IssuesIInv

\* A call that joins the queue of a tab, whose selection it may change.
LEMMA JoinKeeps ==
  ASSUME NEW p \in IssuePanel, QueueFits(p.calls), NEW c \in IssueCall, CallFits(c), c.at = "first",
         NEW r \in IssuePanel, r.calls = p.calls \o <<c>>,
         ~r.threw /\ ~r.crossed =>
           \/ c.op = "detail" /\ c.issue = r.selected
           \/ /\ c.op # "detail" /\ DetailComes(p)
              /\ r.selected = p.selected /\ r.detail = p.detail
  PROVE  /\ QueueFits(r.calls) /\ (~r.threw /\ ~r.crossed => DetailComes(r))
         /\ r.calls # <<>>
         /\ Head(r.calls).at = "second" => p.calls # <<>> /\ Head(r.calls) = Head(p.calls)
         /\ p.calls # <<>> => Head(r.calls) = Head(p.calls)
<1> DEFINE q == p.calls
           s == r.calls
<1>1. q \in Seq(IssueCall) /\ Len(q) \in Nat
  BY DEF IssuePanel
<1>2. /\ s \in Seq(IssueCall) /\ Len(s) = Len(q) + 1 /\ s # <<>>
      /\ s[Len(q) + 1] = c /\ \A k \in 1 .. Len(q) : s[k] = q[k]
      /\ q # <<>> => Head(s) = Head(q)
      /\ q = <<>> => Head(s) = c
  BY <1>1, Joined
<1>3. QueueFits(s)
  BY <1>1, <1>2 DEF QueueFits
<1>4. ASSUME ~r.threw, ~r.crossed PROVE DetailComes(r)
  <2>1. CASE c.op = "detail" /\ c.issue = r.selected
    <3>1. Len(q) + 1 \in DetailsAsked(s) /\ \A j \in DetailsAsked(s) : j <= Len(q) + 1
      BY <1>1, <1>2, <2>1 DEF DetailsAsked
    <3> QED
      BY <3>1, <1>2, <2>1 DEF DetailComes
  <2>2. CASE c.op # "detail" /\ DetailComes(p) /\ r.selected = p.selected /\ r.detail = p.detail
    <3>1. DetailsAsked(s) = DetailsAsked(q) /\ \A k \in DetailsAsked(q) : s[k] = q[k]
      BY <1>1, <1>2, <2>2 DEF DetailsAsked
    <3> QED
      BY <3>1, <2>2 DEF DetailComes
  <2> QED
    BY <1>4, <2>1, <2>2
<1> QED
  BY <1>2, <1>3, <1>4

\* The first call of a tab is served.
LEMMA ServeKeeps ==
  ASSUME NEW p \in IssuePanel, QueueFits(p.calls), p.calls # <<>>,
         NEW c \in IssueCall, c.op = Head(p.calls).op, c.issue = Head(p.calls).issue,
         CallFits(c), NEW r, r = [p EXCEPT !.calls = [p.calls EXCEPT ![1] = c]]
  PROVE  /\ r \in IssuePanel /\ QueueFits(r.calls) /\ (DetailComes(p) => DetailComes(r))
         /\ r.calls # <<>> /\ Head(r.calls) = c
<1> DEFINE q == p.calls
           s == r.calls
<1>1. q \in Seq(IssueCall) /\ s = [q EXCEPT ![1] = c]
  BY DEF IssuePanel
<1>2. /\ s \in Seq(IssueCall) /\ Len(s) = Len(q) /\ s # <<>> /\ Head(s) = c /\ s[1] = c
      /\ \A k \in 2 .. Len(q) : s[k] = q[k]
      /\ 1 \in 1 .. Len(q) /\ Head(q) = q[1]
  BY <1>1, Served
<1>3. r \in IssuePanel /\ r.detail = p.detail /\ r.selected = p.selected
  BY <1>2 DEF IssuePanel
<1>4. QueueFits(s)
  BY <1>2 DEF QueueFits
<1>5. ASSUME DetailComes(p) PROVE DetailComes(r)
  <2>1. \A k \in 1 .. Len(q) : s[k].op = q[k].op /\ s[k].issue = q[k].issue
    BY <1>2
  <2>2. DetailsAsked(s) = DetailsAsked(q)
    BY <2>1, <1>2 DEF DetailsAsked
  <2> QED
    BY <2>1, <2>2, <1>3, <1>5 DEF DetailComes, DetailsAsked
<1> QED
  BY <1>2, <1>3, <1>4, <1>5

\* It is answered, or thrown away, and the next one has not begun.
LEMMA LeaveKeeps ==
  ASSUME NEW p \in IssuePanel, QueueFits(p.calls), p.calls # <<>>,
         NEW r \in IssuePanel, r.calls = Tail(p.calls), r.selected = p.selected,
         r.detail = IF Head(p.calls).op = "detail" THEN Head(p.calls).issue ELSE p.detail
  PROVE  /\ QueueFits(r.calls) /\ (DetailComes(p) => DetailComes(r))
         /\ r.calls # <<>> => Head(r.calls).at = "first"
<1> DEFINE q == p.calls
           s == r.calls
<1>1. q \in Seq(IssueCall)
  BY DEF IssuePanel
<1>2. /\ s \in Seq(IssueCall) /\ Len(s) = Len(q) - 1 /\ Len(q) \in Nat \ {0}
      /\ \A k \in 1 .. Len(s) : s[k] = q[k + 1]
      /\ s # <<>> => 2 \in 1 .. Len(q) /\ Head(s) = q[2]
      /\ Head(q) = q[1]
  BY <1>1, Left
<1>3. QueueFits(s) /\ (s # <<>> => Head(s).at = "first")
  BY <1>2 DEF QueueFits
<1>4. ASSUME DetailComes(p) PROVE DetailComes(r)
  <2>1. \A k \in 1 .. Len(q) : k \in DetailsAsked(q) <=> IF k = 1 THEN q[1].op = "detail" ELSE k - 1 \in DetailsAsked(s)
    BY <1>2 DEF DetailsAsked
  <2>2. DetailsAsked(s) \subseteq 1 .. Len(s) /\ DetailsAsked(q) \subseteq 1 .. Len(q) /\ 1 \in 1 .. Len(q)
    BY <1>2 DEF DetailsAsked
  <2>3. \A k \in DetailsAsked(s) : k + 1 \in DetailsAsked(q)
    BY <2>1, <2>2, <1>2
  <2>4. CASE DetailsAsked(q) = {}
    <3>1. DetailsAsked(s) = {} /\ q[1].op # "detail"
      BY <2>4, <2>1, <2>2, <2>3
    <3> QED
      BY <3>1, <2>4, <1>2, <1>4 DEF DetailComes
  <2>5. ASSUME NEW k \in DetailsAsked(q), q[k].issue = p.selected, \A j \in DetailsAsked(q) : j <= k
        PROVE  DetailComes(r)
    <3>1. CASE k = 1
      <4>1. DetailsAsked(s) = {}
        BY <3>1, <2>2, <2>3, <2>5
      <4>2. q[1].op = "detail"
        BY <3>1, <2>5 DEF DetailsAsked
      <4> QED
        BY <4>1, <4>2, <3>1, <2>5, <1>2 DEF DetailComes
    <3>2. CASE k # 1
      <4>1. k \in 1 .. Len(q) /\ k - 1 \in DetailsAsked(s)
        BY <3>2, <2>1, <2>2, <2>5
      <4>2. k - 1 \in 1 .. Len(s) /\ s[k - 1] = q[k]
        BY <4>1, <2>2, <1>2
      <4>3. \A j \in DetailsAsked(s) : j <= k - 1
        BY <4>1, <2>2, <2>3, <2>5, <1>2
      <4> QED
        BY <4>1, <4>2, <4>3, <2>5 DEF DetailComes
    <3> QED
      BY <3>1, <3>2
  <2> QED
    BY <2>4, <2>5, <1>4 DEF DetailComes
<1> QED
  BY <1>3, <1>4

LEMMA AskKeeps ==
  ASSUME IssuesIInv, NEW t \in IssueTabs,
         SetStatus(t) \/ Select(t) \/ PressButton(t) \/ PressComment(t)
  PROVE  IssuesIInv'
<1> DEFINE p == panel[t]
<1>1. p \in IssuePanel /\ panel \in [IssueTabs -> IssuePanel] /\ p.calls \in Seq(IssueCall) /\ QueueFits(p.calls)
  BY DEF IssuesIInv, TypesOfIssues, IssuePanel, QueuesFit
<1>2. bounds \in [changes : Nat, selects : Nat, lost : Nat]
  BY DEF IssuesIInv, TypesOfIssues
<1>3. ~p.threw /\ ~p.crossed => DetailComes(p)
  BY DEF IssuesIInv, DetailsCome
<1>4. ASSUME NEW c \in IssueCall, CallFits(c), c.at = "first",
             NEW r \in IssuePanel, r.calls = p.calls \o <<c>>, panel' = [panel EXCEPT ![t] = r],
             r.threw = p.threw, r.crossed = p.crossed,
             \/ c.op = "detail" /\ c.issue = r.selected
             \/ c.op # "detail" /\ r.selected = p.selected /\ r.detail = p.detail,
             UNCHANGED <<issue, notes, now>>, bounds' \in [changes : Nat, selects : Nat, lost : Nat],
             bounds'.lost = bounds.lost
      PROVE  IssuesIInv'
  <2>1. /\ QueueFits(r.calls) /\ (~r.threw /\ ~r.crossed => DetailComes(r)) /\ r.calls # <<>>
        /\ Head(r.calls).at = "second" => p.calls # <<>> /\ Head(r.calls) = Head(p.calls)
        /\ p.calls # <<>> => Head(r.calls) = Head(p.calls)
    BY <1>1, <1>3, <1>4, JoinKeeps
  <2>2. Head(r.calls).at = "second" => t \in InHand /\ Head(r.calls) = It(t)
    BY <2>1 DEF InHand, It
  <2>3. t \in InHand => Head(r.calls) = It(t)
    BY <2>1 DEF InHand, It
  <2> QED
    BY <2>1, <2>2, <2>3, <1>4, QuietStep
<1>5. CASE SetStatus(t)
  <2>1. PICK f \in Filters :
          /\ bounds' = [bounds EXCEPT !.selects = @ + 1]
          /\ panel' = [panel EXCEPT ![t].filter = f, ![t].calls = Queue(t, NewCall("list", NoIssue, f))]
          /\ UNCHANGED <<issue, notes, now>>
    BY <1>5 DEF SetStatus
  <2> DEFINE c == NewCall("list", NoIssue, f)
             r == [p EXCEPT !.filter = f, !.calls = p.calls \o <<c>>]
  <2>2. c \in IssueCall /\ CallFits(c) /\ c.at = "first" /\ c.op = "list"
    BY DEF NewCall, IssueCall, CallFits
  <2> HIDE DEF c
  <2>3. p.calls \o <<c>> \in Seq(IssueCall)
    BY <1>1, <2>2
  <2>4. r \in IssuePanel /\ r.threw = p.threw /\ r.crossed = p.crossed /\ r.calls = p.calls \o <<c>>
        /\ r.selected = p.selected /\ r.detail = p.detail
    BY <1>1, <2>3 DEF IssuePanel
  <2>5. panel' = [panel EXCEPT ![t] = r]
    BY <2>1, <1>1 DEF Queue, c
  <2>6. bounds' \in [changes : Nat, selects : Nat, lost : Nat] /\ bounds'.lost = bounds.lost
    BY <2>1, <1>2
  <2> QED
    BY <2>1, <2>2, <2>4, <2>5, <2>6, <1>4
<1>6. CASE Select(t)
  <2>1. PICK i \in panel[t].shown :
          /\ bounds' = [bounds EXCEPT !.selects = @ + 1]
          /\ panel' = [panel EXCEPT ![t].selected = i, ![t].calls = Queue(t, NewCall("detail", i, "none"))]
          /\ UNCHANGED <<issue, notes, now>>
    BY <1>6 DEF Select
  <2> DEFINE c == NewCall("detail", i, "none")
             r == [p EXCEPT !.selected = i, !.calls = p.calls \o <<c>>]
  <2>2. i \in IssueSet
    BY <1>1 DEF IssuePanel
  <2>3. c \in IssueCall /\ CallFits(c) /\ c.at = "first" /\ c.op = "detail" /\ c.issue = i
    BY <2>2 DEF NewCall, IssueCall, CallFits
  <2> HIDE DEF c
  <2>4. p.calls \o <<c>> \in Seq(IssueCall)
    BY <1>1, <2>3
  <2>5. r \in IssuePanel /\ r.threw = p.threw /\ r.crossed = p.crossed /\ r.calls = p.calls \o <<c>>
        /\ r.selected = i
    BY <1>1, <2>2, <2>4 DEF IssuePanel
  <2>6. panel' = [panel EXCEPT ![t] = r]
    BY <2>1, <1>1 DEF Queue, c
  <2>7. bounds' \in [changes : Nat, selects : Nat, lost : Nat] /\ bounds'.lost = bounds.lost
    BY <2>1, <1>2
  <2> QED
    BY <2>1, <2>3, <2>5, <2>6, <2>7, <1>4
<1>7. ASSUME NEW op \in {"update", "comment"}, NEW what \in Buttons \cup {"none"},
             op = "update" => what \in Buttons, Press(t, op, what)
      PROVE  IssuesIInv'
  <2> DEFINE c == NewCall(op, panel[t].selected, what)
             r == [p EXCEPT !.calls = p.calls \o <<c>>]
  <2>1. /\ p.selected \in IssueSet
        /\ bounds' = [bounds EXCEPT !.changes = @ + 1]
        /\ panel' = [panel EXCEPT ![t].calls = p.calls \o <<c>>]
        /\ UNCHANGED <<issue, notes, now>>
    BY <1>1, <1>7 DEF Press, Queue, IssuePanel
  <2>2. c \in IssueCall /\ CallFits(c) /\ c.at = "first" /\ c.op # "detail"
    BY <1>7, <2>1 DEF NewCall, IssueCall, CallFits, Filters, Buttons
  <2> HIDE DEF c
  <2>3. p.calls \o <<c>> \in Seq(IssueCall)
    BY <1>1, <2>2
  <2>4. r \in IssuePanel /\ r.threw = p.threw /\ r.crossed = p.crossed /\ r.calls = p.calls \o <<c>>
        /\ r.selected = p.selected /\ r.detail = p.detail
    BY <1>1, <2>3 DEF IssuePanel
  <2>5. panel' = [panel EXCEPT ![t] = r]
    BY <2>1, <1>1
  <2>6. bounds' \in [changes : Nat, selects : Nat, lost : Nat] /\ bounds'.lost = bounds.lost
    BY <2>1, <1>2
  <2> QED
    BY <2>1, <2>2, <2>4, <2>5, <2>6, <1>4
<1>8. CASE PressButton(t)
  BY <1>7, <1>8 DEF PressButton
<1>9. CASE PressComment(t)
  BY <1>7, <1>9 DEF PressComment
<1> QED
  BY <1>5, <1>6, <1>8, <1>9

\* The reads, and the failures.
LEMMA ReadKeeps ==
  ASSUME IssuesIInv, NEW t \in IssueTabs, ReadIssues(t) \/ ReadDetail(t)
  PROVE  IssuesIInv'
<1> DEFINE p == panel[t]
<1>1. p \in IssuePanel /\ panel \in [IssueTabs -> IssuePanel] /\ p.calls \in Seq(IssueCall) /\ QueueFits(p.calls)
  BY DEF IssuesIInv, TypesOfIssues, IssuePanel, QueuesFit
<1>2. p.calls # <<>> /\ It(t) = Head(p.calls) /\ It(t).at = "first"
  BY DEF ReadIssues, ReadDetail, Serving, It
<1>3. 1 \in 1 .. Len(p.calls) /\ Head(p.calls) = p.calls[1] /\ p.calls[1] \in IssueCall
  BY <1>1, <1>2
<1>4. CallFits(p.calls[1])
  BY <1>1, <1>3 DEF QueueFits
<1>5. ListIssues(It(t).what) \in SUBSET IssueSet
  BY DEF ListIssues
<1>6. PICK c \in IssueCall :
        /\ c.op = Head(p.calls).op /\ c.issue = Head(p.calls).issue /\ CallFits(c) /\ c.at = "answered"
        /\ Becomes(t, c) /\ UNCHANGED <<issue, notes, now, bounds>>
  <2>1. CASE ReadIssues(t)
    <3> DEFINE c == [It(t) EXCEPT !.at = "answered", !.list = ListIssues(It(t).what)]
    <3>1. c \in IssueCall /\ c.op = It(t).op /\ c.issue = It(t).issue /\ CallFits(c) /\ c.at = "answered"
      BY <1>2, <1>3, <1>4, <1>5 DEF IssueCall, CallFits
    <3>2. Becomes(t, c) /\ UNCHANGED <<issue, notes, now, bounds>>
      BY <2>1 DEF ReadIssues
    <3> QED
      BY <3>1, <3>2, <1>2
  <2>2. CASE ReadDetail(t)
    <3> DEFINE c == [It(t) EXCEPT !.at = "answered"]
    <3>1. c \in IssueCall /\ c.op = It(t).op /\ c.issue = It(t).issue /\ CallFits(c) /\ c.at = "answered"
      BY <1>2, <1>3, <1>4 DEF IssueCall, CallFits
    <3>2. Becomes(t, c) /\ UNCHANGED <<issue, notes, now, bounds>>
      BY <2>2 DEF ReadDetail
    <3> QED
      BY <3>1, <3>2, <1>2
  <2> QED
    BY <2>1, <2>2
<1> DEFINE r == [p EXCEPT !.calls = [p.calls EXCEPT ![1] = c]]
<1>7. panel' = [panel EXCEPT ![t] = r] /\ UNCHANGED <<issue, notes, now, bounds>>
  BY <1>1, <1>6 DEF Becomes
<1>8. /\ r \in IssuePanel /\ QueueFits(r.calls) /\ (DetailComes(p) => DetailComes(r))
      /\ r.calls # <<>> /\ Head(r.calls) = c
  BY <1>1, <1>2, <1>6, ServeKeeps
<1>9. r.threw = p.threw /\ r.crossed = p.crossed
  BY <1>1 DEF IssuePanel
<1>10. ~r.threw /\ ~r.crossed => DetailComes(r)
  BY <1>8, <1>9 DEF IssuesIInv, DetailsCome
<1>11. t \notin InHand
  BY <1>2 DEF InHand, It
<1>12. bounds' \in [changes : Nat, selects : Nat, lost : Nat] /\ bounds'.lost = bounds.lost
  BY <1>7 DEF IssuesIInv, TypesOfIssues
<1> HIDE DEF r
<1> QED
  BY <1>6, <1>7, <1>8, <1>10, <1>11, <1>12, QuietStep

LEMMA FailKeeps ==
  ASSUME IssuesIInv, NEW t \in IssueTabs, IssueCallFails(t)
  PROVE  IssuesIInv'
<1> DEFINE p == panel[t]
           r == [p EXCEPT !.calls = Tail(p.calls), !.threw = TRUE]
           m == [p EXCEPT !.calls = Tail(p.calls),
                          !.detail = IF Head(p.calls).op = "detail" THEN Head(p.calls).issue ELSE @]
<1>1. p \in IssuePanel /\ panel \in [IssueTabs -> IssuePanel] /\ p.calls \in Seq(IssueCall) /\ QueueFits(p.calls)
  BY DEF IssuesIInv, TypesOfIssues, IssuePanel, QueuesFit
<1>2. p.calls # <<>> /\ panel' = [panel EXCEPT ![t] = r] /\ UNCHANGED <<issue, notes, now>>
      /\ bounds' = [bounds EXCEPT !.lost = @ + 1]
  BY <1>1 DEF IssueCallFails
<1>3. Tail(p.calls) \in Seq(IssueCall) /\ Head(p.calls) \in IssueCall
  BY <1>1, <1>2
<1>4. r \in IssuePanel /\ m \in IssuePanel /\ r.threw /\ r.calls = m.calls /\ m.calls = Tail(p.calls)
      /\ m.selected = p.selected
      /\ m.detail = IF Head(p.calls).op = "detail" THEN Head(p.calls).issue ELSE p.detail
  BY <1>1, <1>3 DEF IssuePanel, IssueCall
<1> HIDE DEF m, r
<1>5. QueueFits(m.calls) /\ (m.calls # <<>> => Head(m.calls).at = "first")
  BY <1>1, <1>2, <1>4, LeaveKeeps
<1>6. bounds' \in [changes : Nat, selects : Nat, lost : Nat] /\ bounds'.lost # 0
  BY <1>2 DEF IssuesIInv, TypesOfIssues
<1> QED
  BY <1>1, <1>2, <1>4, <1>5, <1>6, QuietStep

\* A change and its notification.
LEMMA TakesInHand ==
  ASSUME IssuesIInv, NEW t \in IssueTabs, NEW op \in {"update", "comment"}, Serving(t, op, "first"),
         NEW c \in IssueCall, Becomes(t, c), c.op = op, c.issue = It(t).issue, c.what = It(t).what,
         c.at = "second", c.nth = DoneSoFar(op, c.issue) + 1,
         UNCHANGED <<notes, now, bounds>>, issue' \in [IssueSet -> IssueRow], MutesEnd',
         \A kind \in {"update", "comment"}, i \in IssueSet :
           DoneSoFar(kind, i)' = IF kind = op /\ i = c.issue THEN DoneSoFar(kind, i) + 1 ELSE DoneSoFar(kind, i),
         \A i \in IssueSet :
           issue'[i].status = IF op = "update" /\ i = c.issue THEN c.what ELSE issue[i].status
  PROVE  IssuesIInv'
<1> DEFINE p == panel[t]
           r == [p EXCEPT !.calls = [p.calls EXCEPT ![1] = c]]
<1>1. p \in IssuePanel /\ panel \in [IssueTabs -> IssuePanel] /\ p.calls \in Seq(IssueCall) /\ QueueFits(p.calls)
  BY DEF IssuesIInv, TypesOfIssues, IssuePanel, QueuesFit
<1>2. p.calls # <<>> /\ It(t) = Head(p.calls) /\ It(t).op = op /\ It(t).at = "first"
  BY DEF Serving, It
<1>3. 1 \in 1 .. Len(p.calls) /\ Head(p.calls) = p.calls[1] /\ CallFits(p.calls[1])
  BY <1>1, <1>2 DEF QueueFits
<1>4. CallFits(c) /\ c.issue \in IssueSet
  BY <1>2, <1>3 DEF CallFits
<1>5. /\ r \in IssuePanel /\ QueueFits(r.calls) /\ (DetailComes(p) => DetailComes(r))
      /\ r.calls # <<>> /\ Head(r.calls) = c
  BY <1>1, <1>2, <1>4, ServeKeeps
<1>6. r.threw = p.threw /\ r.crossed = p.crossed
  BY <1>1 DEF IssuePanel
<1>7. panel' = [panel EXCEPT ![t] = r]
  BY <1>1 DEF Becomes
<1> HIDE DEF r
<1>8. panel'[t] = r /\ \A u \in IssueTabs \ {t} : panel'[u] = panel[u]
  BY <1>1, <1>7
<1>9. TypesOfIssues' /\ QueuesFit' /\ DetailsCome'
  <2>1. TypesOfIssues'
    BY <1>1, <1>5, <1>7 DEF IssuesIInv, TypesOfIssues
  <2>2. QueuesFit'
    BY <1>5, <1>8 DEF IssuesIInv, QueuesFit
  <2>3. DetailsCome'
    BY <1>5, <1>6, <1>8 DEF IssuesIInv, DetailsCome
  <2> QED
    BY <2>1, <2>2, <2>3
<1>10. /\ InHand' = InHand \cup {t} /\ t \notin InHand
       /\ It(t)' = c /\ \A u \in InHand : u # t /\ It(u)' = It(u)
  BY <1>2, <1>5, <1>8 DEF InHand, It
<1>11. \A u \in InHand : /\ It(u).op \in {"update", "comment"} /\ It(u).issue \in IssueSet
                         /\ It(u).nth \in Nat
  <2> SUFFICES ASSUME NEW u \in InHand
               PROVE  It(u).op \in {"update", "comment"} /\ It(u).issue \in IssueSet /\ It(u).nth \in Nat
    OBVIOUS
  <2>1. u \in IssueTabs /\ panel[u].calls \in Seq(IssueCall) /\ panel[u].calls # <<>> /\ It(u).at = "second"
        /\ It(u) = Head(panel[u].calls) /\ QueueFits(panel[u].calls)
    BY <1>1 DEF InHand, It, IssuePanel, IssuesIInv, QueuesFit
  <2>2. 1 \in 1 .. Len(panel[u].calls) /\ It(u) = panel[u].calls[1] /\ It(u) \in IssueCall
    BY <2>1
  <2>3. CallFits(It(u))
    BY <2>1, <2>2 DEF QueueFits
  <2> QED
    BY <2>1, <2>2, <2>3 DEF CallFits, IssueCall
<1>12. \A kind \in {"update", "comment"}, i \in IssueSet : DoneSoFar(kind, i) \in Nat /\ DoneSoFar(kind, i) <= DoneSoFar(kind, i)'
  BY DEF IssuesIInv, TypesOfIssues, IssueRow, DoneSoFar
<1>13. \A n \in notes : n.kind \in {"update", "comment"} /\ n.issue \in IssueSet /\ n.of \in Nat
                        /\ n.of <= DoneSoFar(n.kind, n.issue)
  BY DEF IssuesIInv, TypesOfIssues, Note, NotesTellWhatWasDone, DoneSoFar
<1>14. \A u \in InHand :
         /\ It(u).nth <= DoneSoFar(It(u).op, It(u).issue)
         /\ \A n \in notes : ~(n.kind = It(u).op /\ n.issue = It(u).issue /\ n.of = It(u).nth)
         /\ \A v \in InHand \ {u} :
              ~(It(v).op = It(u).op /\ It(v).issue = It(u).issue /\ It(v).nth = It(u).nth)
  BY DEF IssuesIInv, HeldIsUntold
<1>15. \A u \in InHand : ~(It(u).op = op /\ It(u).issue = c.issue /\ It(u).nth = c.nth)
  BY <1>4, <1>11, <1>12, <1>14
<1>16. \A n \in notes : ~(n.kind = op /\ n.issue = c.issue /\ n.of = c.nth)
  BY <1>4, <1>12, <1>13
<1>17. \A u \in InHand' : (u = t /\ It(u)' = c) \/ (u \in InHand /\ u # t /\ It(u)' = It(u))
  BY <1>10
<1>18. HeldIsUntold'
  <2> SUFFICES ASSUME NEW u \in InHand', NEW d, d = It(u)'
               PROVE  /\ d.nth <= DoneSoFar(d.op, d.issue)'
                      /\ \A n \in notes : ~(n.kind = d.op /\ n.issue = d.issue /\ n.of = d.nth)
                      /\ \A v \in InHand' \ {u} :
                           ~(It(v)'.op = d.op /\ It(v)'.issue = d.issue /\ It(v)'.nth = d.nth)
    BY DEF HeldIsUntold, DoneSoFar
  <2>1. CASE u = t
    <3>1. d = c
      BY <2>1, <1>10
    <3>2. d.nth <= DoneSoFar(d.op, d.issue)'
      BY <3>1, <1>4, <1>12
    <3> QED
      BY <2>1, <3>1, <3>2, <1>15, <1>16, <1>17
  <2>2. CASE u # t
    <3>1. u \in InHand /\ d = It(u)
      BY <2>2, <1>17
    <3>2. d.op \in {"update", "comment"} /\ d.issue \in IssueSet /\ d.nth \in Nat
          /\ d.nth <= DoneSoFar(d.op, d.issue)
      BY <3>1, <1>11, <1>14
    <3>3. d.nth <= DoneSoFar(d.op, d.issue)'
      BY <3>2, <1>12, <1>4
    <3>4. ~(c.op = d.op /\ c.issue = d.issue /\ c.nth = d.nth)
      BY <3>1, <1>15
    <3>5. \A v \in InHand' \ {u} : It(v)' = c \/ (v \in InHand \ {u} /\ It(v)' = It(v))
      BY <1>17
    <3>6. \A v \in InHand' \ {u} :
            ~(It(v)'.op = d.op /\ It(v)'.issue = d.issue /\ It(v)'.nth = d.nth)
      BY <3>1, <3>4, <3>5, <1>14
    <3> QED
      BY <3>1, <3>3, <3>6, <1>14
  <2> QED
    BY <2>1, <2>2
<1>19. NotesTellWhatWasDone'
  <2>1. \A n \in notes : n.of <= DoneSoFar(n.kind, n.issue)'
    BY <1>12, <1>13, <1>4
  <2>2. \A n \in notes : n.of <= (IF n.kind = "update" THEN issue'[n.issue].last ELSE issue'[n.issue].comments)
    BY <2>1 DEF DoneSoFar
  <2> QED
    BY <2>2 DEF IssuesIInv, NotesTellWhatWasDone
<1>20. LastIsToldOrHeld'
  <2> SUFFICES ASSUME bounds'.lost = 0, NEW i \in IssueSet, issue'[i].last > 0
               PROVE  \/ \E n \in notes : n.kind = "update" /\ n.issue = i /\ n.of = issue'[i].last
                                         /\ n.what = issue'[i].status
                      \/ \E u \in InHand' : /\ It(u)'.op = "update" /\ It(u)'.issue = i
                                            /\ It(u)'.nth = issue'[i].last /\ It(u)'.what = issue'[i].status
    BY DEF LastIsToldOrHeld
  <2>1. issue'[i].last = DoneSoFar("update", i)' /\ issue[i].last = DoneSoFar("update", i)
    BY DEF DoneSoFar
  <2>2. CASE op = "update" /\ i = c.issue
    <3>1. issue'[i].last = c.nth /\ issue'[i].status = c.what
      BY <2>1, <2>2
    <3> QED
      BY <3>1, <2>2, <1>10
  <2>3. CASE ~(op = "update" /\ i = c.issue)
    <3>1. issue'[i].last = issue[i].last /\ issue'[i].status = issue[i].status
      BY <2>1, <2>3
    <3>2. \/ \E n \in notes : n.kind = "update" /\ n.issue = i /\ n.of = issue[i].last
                              /\ n.what = issue[i].status
          \/ \E u \in InHand : /\ It(u).op = "update" /\ It(u).issue = i
                                /\ It(u).nth = issue[i].last /\ It(u).what = issue[i].status
      BY <3>1 DEF IssuesIInv, LastIsToldOrHeld
    <3> QED
      BY <3>1, <3>2, <1>10
  <2> QED
    BY <2>2, <2>3
<1> QED
  BY <1>9, <1>18, <1>19, <1>20 DEF IssuesIInv

LEMMA ChangeKeeps ==
  ASSUME IssuesAssumption, IssuesIInv, NEW t \in IssueTabs, UpdateIssue(t) \/ AddComment(t)
  PROVE  IssuesIInv'
<1> DEFINE i == It(t).issue
           s == It(t).what
<1>1. panel[t].calls \in Seq(IssueCall) /\ QueueFits(panel[t].calls) /\ panel[t].calls # <<>>
      /\ It(t) = Head(panel[t].calls) /\ It(t).at = "first"
  BY DEF IssuesIInv, TypesOfIssues, IssuePanel, QueuesFit, UpdateIssue, AddComment, Serving, It
<1>2. 1 \in 1 .. Len(panel[t].calls) /\ It(t) = panel[t].calls[1] /\ It(t) \in IssueCall
  BY <1>1
<1>3. CallFits(It(t))
  BY <1>1, <1>2 DEF QueueFits
<1>4. issue \in [IssueSet -> IssueRow] /\ now \in 1 .. MaxTime /\ now \in Nat
  BY DEF IssuesIInv, TypesOfIssues
<1>5. UNCHANGED <<notes, now, bounds>>
  BY DEF UpdateIssue, AddComment
<1>6. CASE UpdateIssue(t)
  <2>1. Serving(t, "update", "first") /\ i \in IssueSet /\ s \in Buttons /\ s \in Statuses
    BY <1>6, <1>3 DEF UpdateIssue, Serving, It, CallFits, Buttons
  <2> DEFINE row == Changed(i, s)
             c == [It(t) EXCEPT !.at = "second", !.nth = issue'[It(t).issue].last]
  <2>2. issue' = [issue EXCEPT ![i] = row] /\ Becomes(t, c)
    BY <1>6 DEF UpdateIssue
  <2>3. Until(i, s) = IF s = "muted" THEN now + MuteTime ELSE issue[i].until
    BY DEF Until
  <2>4. /\ issue[i] \in IssueRow /\ row \in IssueRow /\ row.status = s /\ row.last = issue[i].last + 1
        /\ row.comments = issue[i].comments /\ row.until = Until(i, s)
        /\ row.mutedAt = IF s = "muted" THEN now ELSE issue[i].mutedAt
    <3>1. issue[i] \in IssueRow
      BY <1>4, <2>1
    <3>2. PICK u \in Nat, m \in Nat, l \in Nat :
            u = Until(i, s) /\ m = (IF s = "muted" THEN now ELSE issue[i].mutedAt) /\ l = issue[i].last + 1
      <4>1. Until(i, s) \in Nat
        BY <3>1, <1>4, <2>3 DEF IssueRow, IssuesAssumption
      <4>2. (IF s = "muted" THEN now ELSE issue[i].mutedAt) \in Nat /\ issue[i].last + 1 \in Nat
        BY <3>1, <1>4 DEF IssueRow
      <4> QED
        BY <4>1, <4>2
    <3>3. row = [issue[i] EXCEPT !.status = s, !.until = u, !.last = l, !.mutedAt = m]
      BY <3>1, <3>2 DEF Changed, IssueRow
    <3> QED
      BY <3>1, <3>2, <3>3, <2>1 DEF IssueRow
  <2> HIDE DEF row
  <2>5. issue' \in [IssueSet -> IssueRow] /\ issue'[i] = row /\ \A j \in IssueSet \ {i} : issue'[j] = issue[j]
    BY <1>4, <2>1, <2>2, <2>4
  <2>6. c \in IssueCall /\ c.op = "update" /\ c.issue = i /\ c.what = s /\ c.at = "second"
        /\ c.nth = issue[i].last + 1
    BY <1>2, <2>1, <2>4, <2>5 DEF IssueCall, IssueRow, Serving, It
  <2> HIDE DEF c
  <2>7. MutesEnd'
    <3> SUFFICES ASSUME NEW j \in IssueSet
                 PROVE  /\ issue'[j].mutedAt <= now
                        /\ issue'[j].until # 0 => issue'[j].mutedAt > 0 /\ issue'[j].until = issue'[j].mutedAt + MuteTime
      BY <1>5 DEF MutesEnd
    <3>1. /\ issue[j].mutedAt <= now
          /\ issue[j].until # 0 => issue[j].mutedAt > 0 /\ issue[j].until = issue[j].mutedAt + MuteTime
      BY DEF IssuesIInv, MutesEnd
    <3>2. CASE j = i
      BY <3>1, <3>2, <1>4, <2>3, <2>4, <2>5
    <3>3. CASE j # i
      BY <3>1, <3>3, <2>5
    <3> QED
      BY <3>2, <3>3
  <2>8. \A kind \in {"update", "comment"}, j \in IssueSet :
          DoneSoFar(kind, j)' = IF kind = "update" /\ j = c.issue THEN DoneSoFar(kind, j) + 1 ELSE DoneSoFar(kind, j)
    BY <2>4, <2>5, <2>6 DEF DoneSoFar
  <2>9. \A j \in IssueSet :
          issue'[j].status = IF "update" = "update" /\ j = c.issue THEN c.what ELSE issue[j].status
    BY <2>4, <2>5, <2>6
  <2>10. c.nth = DoneSoFar("update", c.issue) + 1
    BY <2>6 DEF DoneSoFar
  <2> QED
    BY <1>5, <2>1, <2>2, <2>5, <2>6, <2>7, <2>8, <2>9, <2>10, TakesInHand
<1>7. CASE AddComment(t)
  <2>1. Serving(t, "comment", "first") /\ i \in IssueSet
    BY <1>7, <1>3 DEF AddComment, Serving, It, CallFits
  <2> DEFINE row == [issue[i] EXCEPT !.comments = @ + 1]
             c == [It(t) EXCEPT !.at = "second", !.nth = issue'[It(t).issue].comments]
  <2>2. issue' = [issue EXCEPT ![i] = row] /\ Becomes(t, c)
    BY <1>7 DEF AddComment
  <2>3. /\ issue[i] \in IssueRow /\ row \in IssueRow /\ row.status = issue[i].status /\ row.last = issue[i].last
        /\ row.comments = issue[i].comments + 1 /\ row.until = issue[i].until
        /\ row.mutedAt = issue[i].mutedAt
    BY <1>4, <2>1 DEF IssueRow
  <2> HIDE DEF row
  <2>4. issue' \in [IssueSet -> IssueRow] /\ issue'[i] = row /\ \A j \in IssueSet \ {i} : issue'[j] = issue[j]
    BY <1>4, <2>1, <2>2, <2>3
  <2>5. c \in IssueCall /\ c.op = "comment" /\ c.issue = i /\ c.what = s /\ c.at = "second"
        /\ c.nth = issue[i].comments + 1
    BY <1>2, <2>1, <2>3, <2>4 DEF IssueCall, IssueRow, Serving, It
  <2> HIDE DEF c
  <2>6. MutesEnd'
    <3>1. \A j \in IssueSet : issue'[j].mutedAt = issue[j].mutedAt /\ issue'[j].until = issue[j].until
      BY <2>3, <2>4
    <3> QED
      BY <3>1, <1>5 DEF IssuesIInv, MutesEnd
  <2>7. \A kind \in {"update", "comment"}, j \in IssueSet :
          DoneSoFar(kind, j)' = IF kind = "comment" /\ j = c.issue THEN DoneSoFar(kind, j) + 1 ELSE DoneSoFar(kind, j)
    BY <2>3, <2>4, <2>5 DEF DoneSoFar
  <2>8. \A j \in IssueSet :
          issue'[j].status = IF "comment" = "update" /\ j = c.issue THEN c.what ELSE issue[j].status
    BY <2>3, <2>4, <2>5
  <2>9. c.nth = DoneSoFar("comment", c.issue) + 1
    BY <2>5 DEF DoneSoFar
  <2> QED
    BY <1>5, <2>1, <2>2, <2>4, <2>5, <2>6, <2>7, <2>8, <2>9, TakesInHand
<1> QED
  BY <1>6, <1>7

LEMMA NotifyKeeps ==
  ASSUME IssuesIInv, NEW t \in IssueTabs, Notify(t)
  PROVE  IssuesIInv'
<1> DEFINE p == panel[t]
           d == It(t)
           c == [d EXCEPT !.at = "answered"]
           r == [p EXCEPT !.calls = [p.calls EXCEPT ![1] = c]]
           n == [kind |-> d.op, issue |-> d.issue, what |-> d.what, of |-> d.nth]
<1>1. p \in IssuePanel /\ panel \in [IssueTabs -> IssuePanel] /\ p.calls \in Seq(IssueCall) /\ QueueFits(p.calls)
  BY DEF IssuesIInv, TypesOfIssues, IssuePanel, QueuesFit
<1>2. /\ p.calls # <<>> /\ d = Head(p.calls) /\ d.at = "second" /\ d.op \in {"update", "comment"}
      /\ notes' = notes \cup {n} /\ Becomes(t, c) /\ UNCHANGED <<issue, now, bounds>>
  BY DEF Notify, Serving, It
<1>3. 1 \in 1 .. Len(p.calls) /\ d = p.calls[1] /\ d \in IssueCall
  BY <1>1, <1>2
<1>4. CallFits(d)
  BY <1>1, <1>3 DEF QueueFits
<1>5. c \in IssueCall /\ c.op = Head(p.calls).op /\ c.issue = Head(p.calls).issue /\ CallFits(c) /\ c.at = "answered"
  BY <1>2, <1>3, <1>4 DEF IssueCall, CallFits
<1>6. panel' = [panel EXCEPT ![t] = r]
  BY <1>1, <1>2 DEF Becomes
<1>7. n \in Note /\ n.kind = d.op /\ n.issue = d.issue /\ n.what = d.what /\ n.of = d.nth
  BY <1>2, <1>3, <1>4 DEF Note, IssueCall, CallFits
<1>8. t \in InHand
  BY <1>2 DEF InHand, It
<1> HIDE DEF c
<1>9. /\ r \in IssuePanel /\ QueueFits(r.calls) /\ (DetailComes(p) => DetailComes(r))
      /\ r.calls # <<>> /\ Head(r.calls) = c
  BY <1>1, <1>2, <1>5, ServeKeeps
<1>10. r.threw = p.threw /\ r.crossed = p.crossed
  BY <1>1 DEF IssuePanel
<1> HIDE DEF r, n
<1>11. panel'[t] = r /\ \A u \in IssueTabs \ {t} : panel'[u] = panel[u]
  BY <1>1, <1>6
<1>12. TypesOfIssues'
  BY <1>1, <1>2, <1>6, <1>7, <1>9 DEF IssuesIInv, TypesOfIssues
<1>13. QueuesFit' /\ DetailsCome'
  <2>1. QueuesFit'
    BY <1>9, <1>11 DEF IssuesIInv, QueuesFit
  <2>2. DetailsCome'
    BY <1>9, <1>10, <1>11 DEF IssuesIInv, DetailsCome
  <2> QED
    BY <2>1, <2>2
<1>14. InHand' = InHand \ {t} /\ \A u \in InHand \ {t} : It(u)' = It(u)
  BY <1>5, <1>9, <1>11 DEF InHand, It
<1>15. \A u \in InHand :
         /\ It(u).nth <= DoneSoFar(It(u).op, It(u).issue)
         /\ \A m \in notes : ~(m.kind = It(u).op /\ m.issue = It(u).issue /\ m.of = It(u).nth)
         /\ \A v \in InHand \ {u} :
              ~(It(v).op = It(u).op /\ It(v).issue = It(u).issue /\ It(v).nth = It(u).nth)
  BY DEF IssuesIInv, HeldIsUntold
<1>16. HeldIsUntold'
  <2> SUFFICES ASSUME NEW u \in InHand', NEW e, e = It(u)'
               PROVE  /\ e.nth <= DoneSoFar(e.op, e.issue)'
                      /\ \A m \in notes' : ~(m.kind = e.op /\ m.issue = e.issue /\ m.of = e.nth)
                      /\ \A v \in InHand' \ {u} :
                           ~(It(v)'.op = e.op /\ It(v)'.issue = e.issue /\ It(v)'.nth = e.nth)
    BY DEF HeldIsUntold, DoneSoFar
  <2>1. u \in InHand \ {t} /\ e = It(u)
    BY <1>14
  <2>2. ~(d.op = e.op /\ d.issue = e.issue /\ d.nth = e.nth)
    BY <2>1, <1>8, <1>15
  <2>3. \A m \in notes' : ~(m.kind = e.op /\ m.issue = e.issue /\ m.of = e.nth)
    BY <2>1, <2>2, <1>2, <1>7, <1>15
  <2>4. e.nth <= DoneSoFar(e.op, e.issue)'
    BY <2>1, <1>2, <1>15 DEF DoneSoFar
  <2>5. \A v \in InHand' \ {u} : ~(It(v)'.op = e.op /\ It(v)'.issue = e.issue /\ It(v)'.nth = e.nth)
    BY <2>1, <1>14, <1>15
  <2> QED
    BY <2>3, <2>4, <2>5
<1>17. NotesTellWhatWasDone'
  <2> SUFFICES ASSUME NEW m \in notes'
               PROVE  /\ m.of <= (IF m.kind = "update" THEN issue[m.issue].last ELSE issue[m.issue].comments)
                      /\ \A k \in notes' : k.kind = m.kind /\ k.issue = m.issue /\ k.of = m.of => k = m
    BY <1>2 DEF NotesTellWhatWasDone
  <2>1. m.of <= (IF m.kind = "update" THEN issue[m.issue].last ELSE issue[m.issue].comments)
    <3>1. d.nth <= DoneSoFar(d.op, d.issue)
      BY <1>8, <1>15
    <3> QED
      BY <3>1, <1>2, <1>7 DEF IssuesIInv, NotesTellWhatWasDone, DoneSoFar
  <2>2. \A k \in notes : ~(k.kind = d.op /\ k.issue = d.issue /\ k.of = d.nth)
    BY <1>8, <1>15
  <2>3. \A j, k \in notes : k.kind = j.kind /\ k.issue = j.issue /\ k.of = j.of => k = j
    BY DEF IssuesIInv, NotesTellWhatWasDone
  <2> QED
    BY <2>1, <2>2, <2>3, <1>2, <1>7
<1>18. LastIsToldOrHeld'
  <2> SUFFICES ASSUME bounds.lost = 0, NEW i \in IssueSet, issue[i].last > 0
               PROVE  \/ \E m \in notes' : m.kind = "update" /\ m.issue = i /\ m.of = issue[i].last
                                           /\ m.what = issue[i].status
                      \/ \E u \in InHand' : /\ It(u)'.op = "update" /\ It(u)'.issue = i
                                            /\ It(u)'.nth = issue[i].last /\ It(u)'.what = issue[i].status
    BY <1>2 DEF LastIsToldOrHeld
  <2>1. \/ \E m \in notes : m.kind = "update" /\ m.issue = i /\ m.of = issue[i].last /\ m.what = issue[i].status
        \/ \E u \in InHand : /\ It(u).op = "update" /\ It(u).issue = i
                             /\ It(u).nth = issue[i].last /\ It(u).what = issue[i].status
    BY DEF IssuesIInv, LastIsToldOrHeld
  <2>2. CASE \E m \in notes : m.kind = "update" /\ m.issue = i /\ m.of = issue[i].last /\ m.what = issue[i].status
    BY <2>2, <1>2
  <2>3. ASSUME NEW u \in InHand, It(u).op = "update", It(u).issue = i,
               It(u).nth = issue[i].last, It(u).what = issue[i].status
        PROVE  \/ \E m \in notes' : m.kind = "update" /\ m.issue = i /\ m.of = issue[i].last
                                    /\ m.what = issue[i].status
               \/ \E v \in InHand' : /\ It(v)'.op = "update" /\ It(v)'.issue = i
                                     /\ It(v)'.nth = issue[i].last /\ It(v)'.what = issue[i].status
    <3>1. CASE u = t
      <4>1. n \in notes' /\ n.kind = "update" /\ n.issue = i /\ n.of = issue[i].last /\ n.what = issue[i].status
        BY <3>1, <2>3, <1>2, <1>7
      <4> QED
        BY <4>1
    <3>2. CASE u # t
      BY <3>2, <2>3, <1>14
    <3> QED
      BY <3>1, <3>2
  <2> QED
    BY <2>1, <2>2, <2>3
<1>19. MutesEnd'
  BY <1>2 DEF IssuesIInv, MutesEnd
<1> QED
  BY <1>12, <1>13, <1>16, <1>17, <1>18, <1>19 DEF IssuesIInv

\* The answers.
LEMMA AnswerKeeps ==
  ASSUME IssuesIInv, NEW t \in IssueTabs, TakeIssueAnswer(t)
  PROVE  IssuesIInv'
<1> DEFINE p == panel[t]
           c == It(t)
           m == [p EXCEPT !.calls = Tail(p.calls), !.detail = IF c.op = "detail" THEN c.issue ELSE @]
           next == NewCall("detail", c.issue, "none")
<1>1. p \in IssuePanel /\ panel \in [IssueTabs -> IssuePanel] /\ p.calls \in Seq(IssueCall) /\ QueueFits(p.calls)
  BY DEF IssuesIInv, TypesOfIssues, IssuePanel, QueuesFit
<1>2. p.calls # <<>> /\ c = Head(p.calls) /\ c.at = "answered" /\ UNCHANGED <<issue, notes, now, bounds>>
  BY DEF TakeIssueAnswer, It
<1>3. 1 \in 1 .. Len(p.calls) /\ c = p.calls[1] /\ c \in IssueCall /\ Tail(p.calls) \in Seq(IssueCall)
  BY <1>1, <1>2
<1>4. CallFits(c)
  BY <1>1, <1>3 DEF QueueFits
<1>5. /\ m \in IssuePanel /\ m.calls = Tail(p.calls) /\ m.selected = p.selected
      /\ m.detail = IF c.op = "detail" THEN c.issue ELSE p.detail
      /\ m.threw = p.threw /\ m.crossed = p.crossed
  BY <1>1, <1>3 DEF IssuePanel, IssueCall
<1> HIDE DEF m
<1>6. /\ QueueFits(m.calls) /\ (DetailComes(p) => DetailComes(m))
      /\ m.calls # <<>> => Head(m.calls).at = "first"
  BY <1>1, <1>2, <1>5, LeaveKeeps
<1>7. ~p.threw /\ ~p.crossed => DetailComes(p)
  BY DEF IssuesIInv, DetailsCome
<1>8. t \notin InHand
  BY <1>2 DEF InHand, It
<1>9. bounds' \in [changes : Nat, selects : Nat, lost : Nat] /\ bounds'.lost = bounds.lost
  BY <1>2 DEF IssuesIInv, TypesOfIssues
<1>10. \E r \in IssuePanel :
         /\ panel' = [panel EXCEPT ![t] = r] /\ QueueFits(r.calls)
         /\ ~r.threw /\ ~r.crossed => DetailComes(r)
         /\ r.calls # <<>> => Head(r.calls).at = "first"
  <2>1. CASE c.op = "list"
    <3> DEFINE r == [p EXCEPT !.calls = Tail(p.calls), !.shown = c.list]
    <3>1. r \in IssuePanel /\ r.calls = m.calls /\ r.selected = m.selected /\ r.detail = m.detail
          /\ r.threw = p.threw /\ r.crossed = p.crossed
      BY <2>1, <1>1, <1>3, <1>5 DEF IssuePanel, IssueCall
    <3>2. panel' = [panel EXCEPT ![t] = r]
      BY <2>1, <1>1 DEF TakeIssueAnswer
    <3> HIDE DEF r
    <3>3. DetailComes(m) => DetailComes(r)
      BY <3>1 DEF DetailComes
    <3> QED
      BY <3>1, <3>2, <3>3, <1>6, <1>7
  <2>2. CASE c.op = "detail"
    <3>1. panel' = [panel EXCEPT ![t] = m]
      BY <2>2, <1>1 DEF TakeIssueAnswer, m
    <3> QED
      BY <3>1, <1>5, <1>6, <1>7
  <2>3. CASE c.op = "comment"
    <3>1. PICK crossed \in BOOLEAN : crossed = (p.crossed \/ c.issue # p.selected)
      OBVIOUS
    <3> DEFINE r == [p EXCEPT !.calls = Tail(p.calls) \o <<next>>, !.crossed = crossed]
    <3>2. next \in IssueCall /\ CallFits(next) /\ next.at = "first" /\ next.op = "detail" /\ next.issue = c.issue
      BY <2>3, <1>3, <1>4 DEF NewCall, IssueCall, CallFits
    <3>3. panel' = [panel EXCEPT ![t] = r]
      <4>1. panel' = [panel EXCEPT ![t] = [p EXCEPT !.calls = Tail(p.calls) \o <<next>>,
                                                    !.crossed = p.crossed \/ c.issue # p.selected]]
        <5>1. panel' = [panel EXCEPT ![t] = [[p EXCEPT !.calls = Tail(@)] EXCEPT !.calls = @ \o <<next>>,
                                                    !.crossed = @ \/ c.issue # panel[t].selected]]
          BY <2>3, <1>2 DEF TakeIssueAnswer
        <5> QED
          BY <5>1, <1>1 DEF IssuePanel
      <4> QED
        BY <4>1, <3>1
    <3> HIDE DEF next
    <3>4. Tail(p.calls) \o <<next>> \in Seq(IssueCall)
      BY <3>2, <1>3
    <3>5. /\ r \in IssuePanel /\ r.calls = m.calls \o <<next>> /\ r.selected = m.selected
          /\ r.threw = p.threw /\ r.crossed = crossed
      BY <3>1, <3>4, <1>1, <1>5 DEF IssuePanel
    <3> HIDE DEF r
    <3>6. ~r.threw /\ ~r.crossed => next.issue = r.selected
      BY <3>1, <3>2, <3>5, <1>5
    <3>7. /\ QueueFits(r.calls) /\ (~r.threw /\ ~r.crossed => DetailComes(r))
          /\ r.calls # <<>>
          /\ Head(r.calls).at = "second" => m.calls # <<>> /\ Head(r.calls) = Head(m.calls)
          /\ m.calls # <<>> => Head(r.calls) = Head(m.calls)
      BY <3>2, <3>5, <3>6, <1>5, <1>6, JoinKeeps
    <3>8. m.calls = <<>> => Head(r.calls) = next
      BY <3>2, <3>5, <1>5 DEF IssuePanel
    <3> QED
      BY <3>2, <3>3, <3>5, <3>7, <3>8, <1>6
  <2>4. CASE c.op = "update"
    <3> DEFINE r == [p EXCEPT !.calls = Tail(p.calls)]
    <3>1. r \in IssuePanel /\ r.calls = m.calls /\ r.selected = m.selected /\ r.detail = m.detail
          /\ r.threw = p.threw /\ r.crossed = p.crossed
      BY <2>4, <1>1, <1>3, <1>5 DEF IssuePanel
    <3>2. panel' = [panel EXCEPT ![t] = r]
      BY <2>4, <1>1 DEF TakeIssueAnswer
    <3> HIDE DEF r
    <3>3. DetailComes(m) => DetailComes(r)
      BY <3>1 DEF DetailComes
    <3> QED
      BY <3>1, <3>2, <3>3, <1>6, <1>7
  <2> QED
    BY <2>1, <2>2, <2>3, <2>4, <1>3 DEF IssueCall
<1> QED
  BY <1>2, <1>8, <1>9, <1>10, QuietStep

LEMMA IssuesStep ==
  ASSUME IssuesAssumption, IssuesIInv, [IssuesNext]_issueVars
  PROVE  IssuesIInv'
<1>1. ASSUME NEW t \in IssueTabs,
             SetStatus(t) \/ Select(t) \/ PressButton(t) \/ PressComment(t) \/ IssueStep(t) \/ IssueCallFails(t)
      PROVE  IssuesIInv'
  BY <1>1, AskKeeps, ReadKeeps, FailKeeps, ChangeKeeps, NotifyKeeps, AnswerKeeps DEF IssueStep
<1>2. CASE Tick \/ UNCHANGED issueVars
  <2>1. UNCHANGED <<issue, notes, panel, bounds>> /\ now' \in 1 .. MaxTime /\ now <= now' /\ now' \in Nat /\ now \in Nat
    BY <1>2 DEF Tick, issueVars, IssuesIInv, TypesOfIssues, IssuesAssumption
  <2>2. InHand' = InHand /\ \A t \in InHand : It(t)' = It(t)
    BY <2>1 DEF InHand, It
  <2>3. TypesOfIssues' /\ QueuesFit' /\ DetailsCome' /\ NotesTellWhatWasDone'
    BY <2>1 DEF IssuesIInv, TypesOfIssues, QueuesFit, DetailsCome, NotesTellWhatWasDone
  <2>4. HeldIsUntold' /\ LastIsToldOrHeld'
    BY <2>1, <2>2 DEF IssuesIInv, HeldIsUntold, LastIsToldOrHeld, DoneSoFar
  <2>5. MutesEnd'
    BY <2>1 DEF IssuesIInv, MutesEnd, TypesOfIssues, IssueRow
  <2> QED
    BY <2>3, <2>4, <2>5 DEF IssuesIInv
<1> QED
  BY <1>1, <1>2 DEF IssuesNext

LEMMA IssuesImplied == ASSUME IssuesAssumption, IssuesIInv PROVE IssuesInv
<1>1. issue \in [IssueSet -> IssueRow] /\ now \in 1 .. MaxTime
  BY DEF IssuesIInv, TypesOfIssues
<1>2. IssuesTypeOK
  <2>1. \A i \in IssueSet : issue[i].status \in Statuses /\ issue[i].until \in 0 .. MaxTime + MuteTime
    BY <1>1 DEF IssuesIInv, MutesEnd, IssueRow, IssuesAssumption
  <2> QED
    BY <1>1, <2>1 DEF IssuesTypeOK, IssuesIInv, TypesOfIssues, IssuePanel
<1>3. HiddenByItsMute
  BY <1>1 DEF HiddenByItsMute, Visible, IssuesIInv, MutesEnd, IssueRow, IssuesAssumption
<1>4. LastNoteTellsTheStatus
  BY DEF LastNoteTellsTheStatus, IssuesIInv, LastIsToldOrHeld, InHand
<1>5. DetailIsOfTheSelected
  <2> SUFFICES ASSUME NEW t \in IssueTabs, panel[t].calls = <<>>, ~panel[t].threw, ~panel[t].crossed
               PROVE  panel[t].detail = panel[t].selected
    BY DEF DetailIsOfTheSelected
  <2>1. DetailComes(panel[t])
    BY DEF IssuesIInv, DetailsCome
  <2>2. DetailsAsked(panel[t].calls) = {}
    BY DEF DetailsAsked
  <2> QED
    BY <2>1, <2>2 DEF DetailComes
<1> QED
  BY <1>2, <1>3, <1>4, <1>5 DEF IssuesInv, IssuesIInv

\* For any number of tabs, issues, updates, comments and failures: no notification
\* tells of a change that was not made or tells it twice; with no failure the last
\* one tells the status; a mute hides an issue for its time and no longer; and a
\* panel at rest shows the detail of what is selected.
THEOREM IssuesInvariant == IssuesSpec => []IssuesInv
<1>1. IssuesInit => IssuesIInv
  BY IssuesAssumption, IssuesStart
<1>2. IssuesIInv /\ [IssuesNext]_issueVars => IssuesIInv'
  BY IssuesAssumption, IssuesStep
<1>3. IssuesIInv => IssuesInv
  BY IssuesAssumption, IssuesImplied
<1> QED
  BY <1>1, <1>2, <1>3, PTL DEF IssuesSpec

-----------------------------------------------------------------------------
(* The panel and its query. *)

PanelCall == [op : {"query", "drill", "check"}, text : Texts \cup {NoText}, run : Nat]
TypesOfPanel ==
  /\ shared \in BOOLEAN /\ asked \in Seq(PanelCall)
  /\ runtime \in [text : Texts, run : 1 .. MaxRuns, loading : BOOLEAN, error : BOOLEAN, data : Nat,
                  fine : BOOLEAN]
  /\ editor \in [text : Texts, open : BOOLEAN, timer : BOOLEAN, error : {"none", "braces", "compile"},
                 lost : BOOLEAN]
  /\ dialog \in [clicked : Nat, shown : Nat] /\ spent \in [typings : Nat, clicks : Nat, losses : Nat]
  /\ editor.open => ~shared

\* A call whose run is the current one asks for the text the panel has.
RunsAreOfTheirText ==
  /\ runtime.data <= runtime.run
  /\ \A n \in 1 .. Len(asked) : asked[n].op = "query" =>
       asked[n].run <= runtime.run /\ (asked[n].run = runtime.run => asked[n].text = runtime.text)

\* Until it is checked the text of the editor waits for its timer, or is checked last.
Verdict(text) == IF Compiles(text) THEN "none" ELSE "compile"
TextIsChecked == editor.open /\ ~editor.timer =>
  \/ Of(asked, "check") = {} /\ (editor.lost \/ editor.error = Verdict(editor.text))
  \/ LastOf(asked, "check", [op |-> "check", text |-> editor.text, run |-> 0])

\* The drill-down that is shown, or the last one asked for, is the one clicked last.
DrillComes == ~shared /\ spent.losses = 0 =>
  \/ Of(asked, "drill") = {} /\ dialog.shown = dialog.clicked
  \/ LastOf(asked, "drill", [op |-> "drill", text |-> NoText, run |-> dialog.clicked])

PanelIInv ==
  /\ TypesOfPanel /\ RunsAreOfTheirText /\ DataIsOfTheQuery /\ TextIsChecked /\ DrillComes

OneRemoved(q, n, r) ==
  /\ Len(r) = Len(q) - 1 /\ q # <<>>
  /\ \A k \in 1 .. Len(r) : \E j \in 1 .. Len(q) : r[k] = q[j]
  /\ n = 1 => \A k \in 1 .. Len(r) : r[k] = q[k + 1]

LEMMA Removed ==
  ASSUME NEW S, NEW q \in Seq(S), NEW n \in 1 .. Len(q),
         NEW r, r = SubSeq(q, 1, n - 1) \o SubSeq(q, n + 1, Len(q))
  PROVE  r \in Seq(S) /\ OneRemoved(q, n, r)
<1> DEFINE a == SubSeq(q, 1, n - 1)
           b == SubSeq(q, n + 1, Len(q))
<1>1. Len(q) \in Nat /\ n \in Nat /\ n >= 1 /\ n <= Len(q) /\ q # <<>>
  OBVIOUS
<1>2. a \in Seq(S) /\ Len(a) = n - 1 /\ \A k \in 1 .. n - 1 : a[k] = q[k]
  <2>1. n - 1 <= Len(q) /\ n - 1 \in Int /\ 1 <= n
    BY <1>1
  <2>2. \A k \in 1 .. n - 1 : k \in 1 .. Len(q) /\ q[k] \in S
    BY <1>1, ElementOfSeq
  <2> QED
    BY <2>1, <2>2, <1>1, SubSeqProperties
<1>3. b \in Seq(S) /\ Len(b) = Len(q) - n /\ \A k \in 1 .. Len(q) - n : b[k] = q[n + k]
  <2>1. \A k \in n + 1 .. Len(q) : k \in 1 .. Len(q) /\ q[k] \in S
    BY <1>1, ElementOfSeq
  <2> QED
    BY <2>1, <1>1, SubSeqProperties
<1> HIDE DEF a, b
<1>4. r = a \o b
  BY DEF a, b
<1>5. /\ r \in Seq(S) /\ Len(r) = Len(a) + Len(b)
      /\ \A k \in 1 .. Len(a) + Len(b) : r[k] = IF k <= Len(a) THEN a[k] ELSE b[k - Len(a)]
  <2>1. a \in Seq(S) /\ b \in Seq(S)
    BY <1>2, <1>3
  <2> QED
    BY <2>1, <1>4, ConcatProperties, Zenon
<1> DEFINE l == Len(q)
<1> HIDE DEF l
<1>6. l \in Nat /\ n \in Nat /\ n >= 1 /\ n <= l /\ Len(a) = n - 1 /\ Len(b) = l - n /\ Len(r) = l - 1
      /\ (n - 1) + (l - n) = l - 1 /\ l = Len(q)
  <2>1. Len(a) = n - 1 /\ Len(b) = l - n /\ l \in Nat /\ n \in Nat /\ n >= 1 /\ n <= l /\ l = Len(q)
    BY <1>1, <1>2, <1>3 DEF l
  <2>2. Len(r) = Len(a) + Len(b)
    BY <1>5
  <2>3. (n - 1) + (l - n) = l - 1
    BY <2>1
  <2> QED
    BY <2>1, <2>2, <2>3
<1>7. ASSUME NEW k \in 1 .. l - 1
      PROVE  r[k] = (IF k < n THEN q[k] ELSE q[k + 1]) /\ k \in 1 .. l /\ k + 1 \in 1 .. l
  <2>1. k \in 1 .. l /\ k + 1 \in 1 .. l
    BY <1>6
  <2>2. r[k] = IF k <= n - 1 THEN a[k] ELSE b[k - (n - 1)]
    BY <1>5, <1>6
  <2>3. CASE k < n
    <3>1. k \in 1 .. n - 1
      BY <2>3, <1>6
    <3> QED
      <4>1. k <= n - 1
        BY <3>1, <1>6
      <4>2. r[k] = a[k] /\ a[k] = q[k]
        BY <4>1, <3>1, <2>2, <1>2
      <4> QED
        BY <4>2, <2>1, <2>3
  <2>4. CASE ~(k < n)
    <3>1. k - (n - 1) \in 1 .. l - n /\ n + (k - (n - 1)) = k + 1 /\ ~(k <= n - 1)
      BY <2>4, <1>6
    <3>2. b[k - (n - 1)] = q[n + (k - (n - 1))]
      BY <3>1, <1>3, <1>6
    <3> QED
      BY <3>1, <3>2, <2>1, <2>2, <2>4
  <2> QED
    BY <2>3, <2>4
<1> QED
  <2>1. \A k \in 1 .. l - 1 : \E j \in 1 .. l : r[k] = q[j]
    BY <1>7
  <2>2. n = 1 => \A k \in 1 .. l - 1 : r[k] = q[k + 1]
    BY <1>6, <1>7
  <2>3. Len(r) = Len(q) - 1 /\ q # <<>> /\ Len(r) = l - 1 /\ l = Len(q) /\ r \in Seq(S)
    BY <1>1, <1>5, <1>6
  <2> QED
    BY <2>1, <2>2, <2>3 DEF OneRemoved

LEMMA PanelStart == ASSUME PanelDataAssumption, PanelInit PROVE PanelIInv
<1>1. PICK text \in Texts :
       /\ asked = <<Query(text, 1)>>
       /\ runtime = [text |-> text, run |-> 1, loading |-> TRUE, error |-> FALSE, data |-> 0, fine |-> FALSE]
       /\ editor = [text |-> text, open |-> FALSE, timer |-> FALSE, error |-> "none", lost |-> FALSE]
  BY DEF PanelInit
<1>2. dialog = [clicked |-> 0, shown |-> 0] /\ spent = [typings |-> 0, clicks |-> 0, losses |-> 0]
      /\ shared \in BOOLEAN
  BY DEF PanelInit
<1> DEFINE c == Query(text, 1)
<1>3. c \in PanelCall /\ c.op = "query" /\ c.text = text
  BY DEF Query, PanelCall
<1> HIDE DEF c
<1>4. asked \in Seq(PanelCall) /\ Len(asked) = 1 /\ \A n \in 1 .. Len(asked) : asked[n] = c
  BY <1>1, <1>3 DEF c
<1>5. TypesOfPanel
  <2>1. runtime \in [text : Texts, run : 1 .. MaxRuns, loading : BOOLEAN, error : BOOLEAN, data : Nat, fine : BOOLEAN]
    BY <1>1 DEF PanelDataAssumption
  <2>2. editor \in [text : Texts, open : BOOLEAN, timer : BOOLEAN, error : {"none", "braces", "compile"}, lost : BOOLEAN]
        /\ ~editor.open
    BY <1>1
  <2> QED
    BY <2>1, <2>2, <1>2, <1>4 DEF TypesOfPanel
<1>6. RunsAreOfTheirText /\ DataIsOfTheQuery /\ TextIsChecked
  <2>1. runtime.run = 1 /\ runtime.text = text /\ runtime.loading /\ runtime.data = 0 /\ ~editor.open
    BY <1>1
  <2>2. c.run = 1
    BY DEF c, Query
  <2> QED
    BY <2>1, <2>2, <1>3, <1>4 DEF RunsAreOfTheirText, DataIsOfTheQuery, TextIsChecked
<1>7. DrillComes
  <2>1. Of(asked, "drill") = {}
    BY <1>3, <1>4 DEF Of
  <2> QED
    BY <2>1, <1>2 DEF DrillComes
<1> QED
  BY <1>5, <1>6, <1>7 DEF PanelIInv

PanelRuntime == [text : Texts, run : 1 .. MaxRuns, loading : BOOLEAN, error : BOOLEAN, data : Nat, fine : BOOLEAN]

\* A run, a drill or a check is asked for.
LEMMA PanelAsks ==
  ASSUME PanelDataAssumption, PanelIInv, ChangeQuery \/ Clock30s \/ Drill \/ Check
  PROVE  PanelIInv'
<1>1. asked \in Seq(PanelCall) /\ Len(asked) \in Nat
  BY DEF PanelIInv, TypesOfPanel
<1>2. CASE ChangeQuery \/ Clock30s
  <2>1. PICK text \in Texts : RunQuery(text) /\ UNCHANGED <<shared, editor, dialog, spent>>
    BY <1>2 DEF ChangeQuery, Clock30s, PanelIInv, TypesOfPanel
  <2> DEFINE c == Query(text, runtime.run + 1)
  <2>2. /\ runtime.run < MaxRuns /\ asked' = asked \o <<c>>
        /\ runtime' = [runtime EXCEPT !.text = text, !.run = @ + 1, !.loading = TRUE]
    BY <2>1, <1>1 DEF RunQuery
  <2>3. c \in PanelCall /\ c.op = "query" /\ c.text = text /\ c.run = runtime.run + 1
    BY DEF Query, PanelCall, PanelIInv, TypesOfPanel
  <2> HIDE DEF c
  <2>4. /\ asked' \in Seq(PanelCall) /\ Len(asked') = Len(asked) + 1
        /\ asked'[Len(asked) + 1] = c /\ \A k \in 1 .. Len(asked) : asked'[k] = asked[k]
    BY <1>1, <2>2, <2>3, Joined
  <2>5. /\ runtime'.run = runtime.run + 1 /\ runtime'.text = text /\ runtime'.loading /\ runtime'.data = runtime.data
        /\ runtime.run \in Nat /\ runtime.data \in Nat
    BY <2>2 DEF PanelIInv, TypesOfPanel
  <2>6. TypesOfPanel'
    <3>1. runtime' \in PanelRuntime
      <4>1. runtime \in PanelRuntime /\ runtime.run + 1 \in 1 .. MaxRuns
        BY <2>2 DEF PanelIInv, TypesOfPanel, PanelDataAssumption, PanelRuntime
      <4> QED
        BY <4>1, <2>2 DEF PanelRuntime
    <3> QED
      BY <3>1, <2>1, <2>4 DEF PanelIInv, TypesOfPanel, PanelRuntime
  <2>7. RunsAreOfTheirText'
    <3> SUFFICES ASSUME NEW n \in 1 .. Len(asked'), asked'[n].op = "query"
                 PROVE  /\ asked'[n].run <= runtime'.run
                        /\ asked'[n].run = runtime'.run => asked'[n].text = runtime'.text
      BY <2>5 DEF PanelIInv, RunsAreOfTheirText
    <3>1. CASE n = Len(asked) + 1
      BY <3>1, <2>3, <2>4, <2>5
    <3>2. CASE n # Len(asked) + 1
      <4>1. n \in 1 .. Len(asked) /\ asked'[n] = asked[n]
        BY <1>1, <2>4, <3>2
      <4>3. asked[n] \in PanelCall
        BY <4>1, <1>1, ElementOfSeq
      <4>4. asked[n].run \in Nat
        BY <4>3 DEF PanelCall
      <4>2. asked[n].run <= runtime.run
        BY <4>1 DEF PanelIInv, RunsAreOfTheirText
      <4> QED
        BY <4>1, <4>2, <4>4, <2>5
    <3> QED
      BY <3>1, <3>2
  <2>8. DataIsOfTheQuery'
    BY <2>5 DEF DataIsOfTheQuery
  <2>9. TextIsChecked' /\ DrillComes'
    <3>1. JoinsAsLast(asked, asked', c, "check") /\ JoinsAsLast(asked, asked', c, "drill")
      BY <1>1, <2>2, <2>3, LastJoins
    <3>2. \A op \in {"check", "drill"} :
            Of(asked', op) = Of(asked, op) /\ \A d : LastOf(asked, op, d) => LastOf(asked', op, d)
      BY <3>1, <2>3 DEF JoinsAsLast
    <3> QED
      BY <3>2, <2>1 DEF PanelIInv, TextIsChecked, DrillComes
  <2> QED
    BY <2>6, <2>7, <2>8, <2>9 DEF PanelIInv
<1>3. CASE Drill \/ Check
  <2>1. PICK c \in PanelCall :
          /\ asked' = asked \o <<c>> /\ c.op # "query" /\ UNCHANGED <<shared, runtime>>
          /\ \/ /\ Drill /\ c = [op |-> "drill", text |-> NoText, run |-> dialog'.clicked]
             \/ /\ Check /\ c = [op |-> "check", text |-> editor.text, run |-> 0]
    <3>1. CASE Drill
      <4> DEFINE c == [op |-> "drill", text |-> NoText, run |-> dialog.clicked + 1]
      <4>1. dialog'.clicked = dialog.clicked + 1
        BY <3>1 DEF Drill, PanelIInv, TypesOfPanel
      <4>2. c \in PanelCall
        BY DEF PanelCall, PanelIInv, TypesOfPanel
      <4>3. asked' = asked \o <<c>> /\ UNCHANGED <<shared, runtime>>
        <5>1. c = [op |-> "drill", text |-> NoText, run |-> dialog.clicked + 1] /\ asked' = Append(asked, c)
              /\ UNCHANGED <<shared, runtime>>
          BY <3>1 DEF Drill
        <5> HIDE DEF c
        <5> QED
          BY <5>1, <1>1
      <4> QED
        BY <3>1, <4>1, <4>2, <4>3
    <3>2. CASE Check
      <4> DEFINE c == [op |-> "check", text |-> editor.text, run |-> 0]
      <4>1. c \in PanelCall
        BY DEF PanelCall, PanelIInv, TypesOfPanel
      <4>2. asked' = asked \o <<c>> /\ UNCHANGED <<shared, runtime>>
        BY <3>2, <1>1 DEF Check
      <4> QED
        BY <3>2, <4>1, <4>2
    <3> QED
      BY <1>3, <3>1, <3>2
  <2>2. /\ asked' \in Seq(PanelCall) /\ Len(asked') = Len(asked) + 1
        /\ asked'[Len(asked) + 1] = c /\ \A k \in 1 .. Len(asked) : asked'[k] = asked[k]
    BY <1>1, <2>1, Joined
  <2>3. TypesOfPanel'
    <3>1. CASE Drill
      <4>1. dialog' = [dialog EXCEPT !.clicked = @ + 1] /\ spent' = [spent EXCEPT !.clicks = @ + 1]
            /\ UNCHANGED <<shared, runtime, editor>>
        BY <3>1 DEF Drill
      <4>2. dialog' \in [clicked : Nat, shown : Nat] /\ spent' \in [typings : Nat, clicks : Nat, losses : Nat]
        <5>1. dialog \in [clicked : Nat, shown : Nat] /\ spent \in [typings : Nat, clicks : Nat, losses : Nat]
          BY DEF PanelIInv, TypesOfPanel
        <5> QED
          BY <4>1, <5>1
      <4> QED
        BY <4>1, <4>2, <2>2 DEF PanelIInv, TypesOfPanel
    <3>2. CASE Check
      <4>1. editor' = [editor EXCEPT !.timer = FALSE] /\ UNCHANGED <<shared, runtime, dialog, spent>>
        BY <3>2 DEF Check
      <4>2. /\ editor' \in [text : Texts, open : BOOLEAN, timer : BOOLEAN, error : {"none", "braces", "compile"}, lost : BOOLEAN]
            /\ editor'.open = editor.open
        BY <4>1 DEF PanelIInv, TypesOfPanel
      <4> QED
        BY <4>1, <4>2, <2>2 DEF PanelIInv, TypesOfPanel
    <3> QED
      BY <1>3, <3>1, <3>2
  <2>4. RunsAreOfTheirText'
    BY <1>1, <2>1, <2>2 DEF PanelIInv, RunsAreOfTheirText
  <2>5. DataIsOfTheQuery'
    BY <2>1 DEF PanelIInv, DataIsOfTheQuery
  <2>6. \A op \in {"check", "drill"} :
          /\ c.op = op => LastOf(asked', op, c)
          /\ c.op # op => Of(asked', op) = Of(asked, op) /\ \A d : LastOf(asked, op, d) => LastOf(asked', op, d)
    <3>1. JoinsAsLast(asked, asked', c, "check") /\ JoinsAsLast(asked, asked', c, "drill")
      BY <1>1, <2>1, LastJoins
    <3> QED
      BY <3>1 DEF JoinsAsLast
  <2>7. TextIsChecked' /\ DrillComes'
    <3>1. CASE Drill /\ c = [op |-> "drill", text |-> NoText, run |-> dialog'.clicked]
      <4>1. c.op = "drill" /\ UNCHANGED <<editor, shared>>
        BY <3>1 DEF Drill
      <4>2. LastOf(asked', "drill", c) /\ Of(asked', "check") = Of(asked, "check")
            /\ \A d : LastOf(asked, "check", d) => LastOf(asked', "check", d)
        BY <4>1, <2>6
      <4> QED
        BY <3>1, <4>1, <4>2 DEF PanelIInv, TextIsChecked, DrillComes
    <3>2. CASE Check /\ c = [op |-> "check", text |-> editor.text, run |-> 0]
      <4>1. c.op = "check" /\ UNCHANGED <<dialog, spent, shared>> /\ editor'.text = editor.text
        BY <3>2 DEF Check, PanelIInv, TypesOfPanel
      <4>2. LastOf(asked', "check", c) /\ Of(asked', "drill") = Of(asked, "drill")
            /\ \A d : LastOf(asked, "drill", d) => LastOf(asked', "drill", d)
        BY <4>1, <2>6
      <4> QED
        BY <3>2, <4>1, <4>2 DEF PanelIInv, TextIsChecked, DrillComes
    <3> QED
      BY <2>1, <3>1, <3>2
  <2> QED
    BY <2>3, <2>4, <2>5, <2>7 DEF PanelIInv
<1> QED
  BY <1>2, <1>3

LEMMA EditorKeeps ==
  ASSUME PanelIInv, OpenDialog \/ CloseDialog \/ TypeDsl \/ UNCHANGED panelVars
  PROVE  PanelIInv'
<1>1. UNCHANGED <<shared, asked, runtime, dialog>> /\ spent' \in [typings : Nat, clicks : Nat, losses : Nat]
      /\ spent'.losses = spent.losses
  <2>1. spent \in [typings : Nat, clicks : Nat, losses : Nat]
    BY DEF PanelIInv, TypesOfPanel
  <2>2. UNCHANGED <<shared, asked, runtime, dialog>> /\ (UNCHANGED spent \/ spent' = [spent EXCEPT !.typings = @ + 1])
    BY DEF OpenDialog, CloseDialog, TypeDsl, panelVars
  <2> QED
    BY <2>1, <2>2
<1>2. RunsAreOfTheirText' /\ DataIsOfTheQuery' /\ DrillComes'
  BY <1>1 DEF PanelIInv, RunsAreOfTheirText, DataIsOfTheQuery, DrillComes
<1>3. TypesOfPanel'
  BY <1>1 DEF PanelIInv, TypesOfPanel, OpenDialog, CloseDialog, TypeDsl, panelVars
<1>4. TextIsChecked'
  <2>1. (editor'.open /\ ~editor'.timer) => UNCHANGED editor
    BY DEF PanelIInv, TypesOfPanel, OpenDialog, CloseDialog, TypeDsl, panelVars
  <2> QED
    BY <2>1, <1>1 DEF PanelIInv, TextIsChecked
<1> QED
  BY <1>2, <1>3, <1>4 DEF PanelIInv

\* An answer or a rejection takes its call away, in the workspace the first one.
LEMMA AnswersKeep ==
  ASSUME PanelIInv, AnswerPanel \/ RejectPanel
  PROVE  PanelIInv'
<1>1. PICK n \in Answerable :
        /\ asked' = WithoutCall(n) /\ UNCHANGED shared
        /\ \/ UNCHANGED spent /\ (QueryAnswered(n) \/ CheckAnswered(n) \/ DrillAnswered(n))
           \/ /\ spent' = [spent EXCEPT !.losses = @ + 1]
              /\ \/ QueryRejected(n) \/ CheckRejected(n)
                 \/ asked[n].op = "drill" /\ UNCHANGED <<runtime, editor, dialog>>
  <2>1. CASE AnswerPanel
    BY <2>1 DEF AnswerPanel
  <2>2. CASE RejectPanel
    BY <2>2 DEF RejectPanel
  <2> QED
    BY <2>1, <2>2
<1>2. asked \in Seq(PanelCall) /\ Len(asked) \in Nat /\ shared \in BOOLEAN
  BY DEF PanelIInv, TypesOfPanel
<1>3. n \in 1 .. Len(asked) /\ (~shared => n = 1)
  BY <1>1, <1>2 DEF Answerable
<1>4. /\ asked' \in Seq(PanelCall) /\ Len(asked') = Len(asked) - 1 /\ asked # <<>>
      /\ \A k \in 1 .. Len(asked') : \E j \in 1 .. Len(asked) : asked'[k] = asked[j]
      /\ n = 1 => \A k \in 1 .. Len(asked') : asked'[k] = asked[k + 1]
  <2>1. asked' = SubSeq(asked, 1, n - 1) \o SubSeq(asked, n + 1, Len(asked))
    BY <1>1 DEF WithoutCall
  <2>2. PICK r : r = asked'
    OBVIOUS
  <2>3. /\ r \in Seq(PanelCall) /\ Len(r) = Len(asked) - 1 /\ asked # <<>>
        /\ \A k \in 1 .. Len(r) : \E j \in 1 .. Len(asked) : r[k] = asked[j]
        /\ n = 1 => \A k \in 1 .. Len(r) : r[k] = asked[k + 1]
    <3>1. PICK q, i : q = asked /\ i = n
      OBVIOUS
    <3>4. q \in Seq(PanelCall) /\ i \in 1 .. Len(q)
      BY <3>1, <1>2, <1>3
    <3>2. r = SubSeq(q, 1, i - 1) \o SubSeq(q, i + 1, Len(q))
      BY <2>1, <2>2, <3>1
    <3>3. r \in Seq(PanelCall) /\ OneRemoved(q, i, r)
      BY <3>2, <3>4, Removed
    <3> QED
      BY <1>2, <3>1, <3>3 DEF OneRemoved
  <2> QED
    BY <2>2, <2>3
<1> DEFINE c == asked[n]
<1>5. c \in PanelCall
  BY <1>2, <1>3
<1>6. /\ runtime' \in [text : Texts, run : 1 .. MaxRuns, loading : BOOLEAN, error : BOOLEAN, data : Nat, fine : BOOLEAN]
      /\ runtime'.run = runtime.run /\ runtime'.text = runtime.text /\ runtime'.data <= runtime'.run
      /\ DataIsOfTheQuery'
  <2>1. /\ runtime \in [text : Texts, run : 1 .. MaxRuns, loading : BOOLEAN, error : BOOLEAN, data : Nat, fine : BOOLEAN]
        /\ runtime.data <= runtime.run /\ DataIsOfTheQuery
    BY DEF PanelIInv, TypesOfPanel, RunsAreOfTheirText
  <2>2. CASE UNCHANGED runtime
    BY <2>1, <2>2 DEF DataIsOfTheQuery
  <2>3. CASE QueryAnswered(n) /\ Current(n)
    <3>1. PICK e \in BOOLEAN, f \in BOOLEAN : e = ~Compiles(c.text) /\ f = Compiles(c.text)
      BY DEF Compiles
    <3>2. runtime' = [runtime EXCEPT !.loading = FALSE, !.error = e, !.data = c.run, !.fine = f]
      BY <2>3, <3>1 DEF QueryAnswered
    <3>3. c.run = runtime.run /\ c.text = runtime.text
      BY <2>3, <1>3 DEF QueryAnswered, Current, PanelIInv, RunsAreOfTheirText
    <3> HIDE DEF c
    <3> QED
      <4>1. c.run \in Nat
        BY <1>5 DEF PanelCall
      <4>2. /\ runtime'.loading = FALSE /\ runtime'.error = e /\ runtime'.data = c.run /\ runtime'.fine = f
            /\ runtime'.run = runtime.run /\ runtime'.text = runtime.text
        BY <2>1, <3>2
      <4>3. runtime' \in [text : Texts, run : 1 .. MaxRuns, loading : BOOLEAN, error : BOOLEAN, data : Nat, fine : BOOLEAN]
        BY <2>1, <3>1, <3>2, <4>1
      <4> QED
        BY <2>1, <3>1, <3>3, <4>1, <4>2, <4>3 DEF DataIsOfTheQuery
  <2>4. CASE QueryRejected(n) /\ Current(n)
    <3>1. runtime' = [runtime EXCEPT !.loading = FALSE, !.error = TRUE]
      BY <2>4 DEF QueryRejected
    <3> QED
      BY <2>1, <3>1 DEF DataIsOfTheQuery
  <2> QED
    BY <1>1, <2>2, <2>3, <2>4
    DEF QueryAnswered, QueryRejected, CheckAnswered, CheckRejected, DrillAnswered
<1>7. RunsAreOfTheirText'
  BY <1>4, <1>6 DEF PanelIInv, RunsAreOfTheirText
<1>8. /\ editor' \in [text : Texts, open : BOOLEAN, timer : BOOLEAN, error : {"none", "braces", "compile"}, lost : BOOLEAN]
      /\ editor'.open = editor.open /\ editor'.timer = editor.timer /\ editor'.text = editor.text
      /\ c.op # "check" => UNCHANGED editor
      /\ c.op = "check" /\ editor.open => editor'.lost \/ editor'.error = Verdict(c.text)
  <2>1. editor \in [text : Texts, open : BOOLEAN, timer : BOOLEAN, error : {"none", "braces", "compile"}, lost : BOOLEAN]
    BY DEF PanelIInv, TypesOfPanel
  <2>2. CASE CheckAnswered(n)
    BY <2>1, <2>2 DEF CheckAnswered, Verdict
  <2>3. CASE CheckRejected(n)
    BY <2>1, <2>3 DEF CheckRejected
  <2>4. CASE c.op # "check" /\ UNCHANGED editor
    BY <2>1, <2>4
  <2> QED
    BY <1>1, <2>2, <2>3, <2>4 DEF QueryAnswered, QueryRejected, DrillAnswered
<1>9. /\ dialog' \in [clicked : Nat, shown : Nat] /\ spent' \in [typings : Nat, clicks : Nat, losses : Nat]
      /\ dialog'.clicked = dialog.clicked
      /\ c.op # "drill" => UNCHANGED dialog
      /\ c.op = "drill" /\ spent'.losses = 0 => dialog'.shown = c.run
      /\ spent'.losses = 0 => spent.losses = 0
  <2>1. dialog \in [clicked : Nat, shown : Nat] /\ spent \in [typings : Nat, clicks : Nat, losses : Nat]
    BY DEF PanelIInv, TypesOfPanel
  <2>2. CASE DrillAnswered(n) /\ UNCHANGED spent
    BY <2>1, <2>2, <1>5 DEF DrillAnswered, PanelCall
  <2>3. CASE spent' = [spent EXCEPT !.losses = @ + 1] /\ UNCHANGED dialog
    BY <2>1, <2>3
  <2>4. CASE c.op # "drill" /\ UNCHANGED <<spent, dialog>>
    BY <2>1, <2>4
  <2> QED
    BY <1>1, <2>2, <2>3, <2>4 DEF QueryAnswered, QueryRejected, CheckAnswered, CheckRejected
<1>10. TypesOfPanel'
  BY <1>1, <1>4, <1>6, <1>8, <1>9 DEF PanelIInv, TypesOfPanel
<1>11. ~shared => \A op \in {"check", "drill"} :
         /\ Of(asked, op) = {} => Of(asked', op) = {}
         /\ \A d : LastOf(asked, op, d) => LastOf(asked', op, d) \/ (Of(asked', op) = {} /\ c = d /\ d.op = op)
         /\ c.op = op => Of(asked, op) # {}
  <2> SUFFICES ASSUME ~shared, NEW op \in {"check", "drill"}
               PROVE  /\ Of(asked, op) = {} => Of(asked', op) = {}
                      /\ \A d : LastOf(asked, op, d) => LastOf(asked', op, d) \/ (Of(asked', op) = {} /\ c = d /\ d.op = op)
                      /\ c.op = op => Of(asked, op) # {}
    OBVIOUS
  <2>1. n = 1 /\ \A k \in 1 .. Len(asked') : asked'[k] = asked[k + 1]
    BY <1>3, <1>4
  <2>2. c.op = op => Of(asked, op) # {}
    BY <1>3 DEF Of
  <2> QED
    <3>1. LeavesTheLast(asked, asked', op)
      BY <2>1, <1>2, <1>4, LastLeaves
    <3> QED
      BY <2>1, <2>2, <3>1 DEF LeavesTheLast
<1> HIDE DEF c
<1>12. TextIsChecked'
  <2> SUFFICES ASSUME editor'.open, ~editor'.timer
               PROVE  \/ Of(asked', "check") = {} /\ (editor'.lost \/ editor'.error = Verdict(editor'.text))
                      \/ LastOf(asked', "check", [op |-> "check", text |-> editor'.text, run |-> 0])
    BY DEF TextIsChecked, Verdict, Compiles
  <2>1. ~shared /\ editor.open /\ ~editor.timer
    BY <1>8 DEF PanelIInv, TypesOfPanel
  <2> DEFINE d == [op |-> "check", text |-> editor.text, run |-> 0]
  <2>2. CASE Of(asked, "check") = {} /\ (editor.lost \/ editor.error = Verdict(editor.text))
    BY <2>1, <2>2, <1>8, <1>11
  <2>3. CASE LastOf(asked, "check", d)
    <3>1. CASE LastOf(asked', "check", d)
      BY <3>1, <1>8
    <3>2. CASE Of(asked', "check") = {} /\ c = d
      <4>1. c.op = "check" /\ c.text = editor.text
        BY <3>2
      <4> QED
        BY <3>2, <4>1, <2>1, <1>8
    <3> QED
      BY <2>1, <2>3, <3>1, <3>2, <1>11
  <2> QED
    BY <2>1, <2>2, <2>3 DEF PanelIInv, TextIsChecked
<1>13. DrillComes'
  <2> SUFFICES ASSUME ~shared, spent'.losses = 0
               PROVE  \/ Of(asked', "drill") = {} /\ dialog'.shown = dialog'.clicked
                      \/ LastOf(asked', "drill", [op |-> "drill", text |-> NoText, run |-> dialog'.clicked])
    BY <1>1 DEF DrillComes
  <2> DEFINE d == [op |-> "drill", text |-> NoText, run |-> dialog.clicked]
  <2>1. \/ Of(asked, "drill") = {} /\ dialog.shown = dialog.clicked
        \/ LastOf(asked, "drill", d)
    BY <1>9 DEF PanelIInv, DrillComes
  <2>2. CASE Of(asked, "drill") = {} /\ dialog.shown = dialog.clicked
    BY <2>2, <1>9, <1>11
  <2>3. CASE LastOf(asked, "drill", d)
    <3>1. CASE LastOf(asked', "drill", d)
      BY <3>1, <1>9
    <3>2. CASE Of(asked', "drill") = {} /\ c = d
      <4>1. c.op = "drill" /\ c.run = dialog.clicked
        BY <3>2
      <4> QED
        BY <3>2, <4>1, <1>9
    <3> QED
      BY <2>3, <3>1, <3>2, <1>11
  <2> QED
    BY <2>1, <2>2, <2>3
<1> QED
  BY <1>6, <1>7, <1>10, <1>12, <1>13 DEF PanelIInv

LEMMA PanelImplied == ASSUME PanelIInv PROVE PanelInv
<1>1. PanelTypeOK
  BY DEF PanelIInv, TypesOfPanel, RunsAreOfTheirText, PanelTypeOK
<1>2. \A op, d : LastOf(asked, op, d) => \E n \in 1 .. Len(asked) : asked[n].op = op
  BY DEF LastOf, Of
<1>3. EditorTellsOfItsText
  BY <1>2 DEF EditorTellsOfItsText, PanelIInv, TextIsChecked, Verdict
<1>4. DrillIsTheLastClicked
  BY <1>2 DEF DrillIsTheLastClicked, PanelIInv, DrillComes
<1> QED
  BY <1>1, <1>3, <1>4 DEF PanelInv, PanelIInv

\* Whatever order the answers come in, on a shared page any: data that is shown is of
\* the query the panel has, an editor left alone tells what the compiler says of its
\* text, and in the workspace the drill-down is the one clicked last.
THEOREM PanelInvariant == PanelSpec => []PanelInv
<1>1. PanelInit => PanelIInv
  BY PanelDataAssumption, PanelStart
<1>2. PanelIInv /\ [PanelNext]_panelVars => PanelIInv'
  BY PanelDataAssumption, PanelAsks, EditorKeeps, AnswersKeep DEF PanelNext
<1>3. PanelIInv => PanelInv
  BY PanelImplied
<1> QED
  BY <1>1, <1>2, <1>3, PTL DEF PanelSpec

-----------------------------------------------------------------------------
(* The state timeline. *)

ScrubRow == [slot : Slots, fields : SUBSET Fields]
ScrubCalls == [op : {"history", "cur", "prev"}, account : Accounts, slot : 0 .. MaxSlot, served : BOOLEAN,
               answer : State, rows : SUBSET ScrubRow]
ScrubPanel == [account : Accounts \cup {NoAccount}, deltas : SUBSET ScrubRow, slot : 0 .. MaxSlot,
               cur : State, prev : State]

\* Deltas that were read of an account: its rows stand, and each was compared with
\* the one before it.
DeltasOf(rows, a) ==
  /\ SlotsOf(rows) \subseteq RowsOf(a)
  /\ \A d \in rows : d.fields = ChangedFields(SlotsOf(rows), a, d.slot)

\* A row was read, or there was none yet, or the call was refused.
CallStands(c) ==
  /\ c.op # "history" => c.slot > 0
  /\ c.served /\ c.op # "history" => c.answer \in {HeldAt(c.account, c.slot), Nothing}
  /\ c.served /\ c.op = "history" => DeltasOf(c.rows, c.account)

\* What the panel p holds of each kind is of its account and slot, or what was asked
\* for last, in the queue q, is; fl are the kinds whose last call failed.
Asks(q, op, a, s) == \E c \in ScrubCalls : LastOf(q, op, c) /\ c.account = a /\ c.slot = s
HistoryComes(p, q, fl) == p.account # NoAccount =>
  \/ Of(q, "history") = {} /\ ("history" \in fl \/ DeltasOf(p.deltas, p.account))
  \/ Asks(q, "history", p.account, 0)

\* The state v is the one at slot s; or none, of a slot that no history read has.
Loose(p, q, s, fl) == s \notin SlotsOf(p.deltas) \/ "history" \in fl \/ Of(q, "history") # {}
Good(p, q, s, fl, v) == v = HeldAt(p.account, s) \/ (v = Nothing /\ Loose(p, q, s, fl))
ShownOf(p, q, op, s, v, fl) ==
  \/ Of(q, op) = {} /\ (op \in fl \/ Good(p, q, s, fl, v))
  \/ \E c \in ScrubCalls : /\ LastOf(q, op, c) /\ c.account = p.account /\ c.slot = s
                           /\ c.served => op \in fl \/ Good(p, q, s, fl, c.answer)
StateComes(p, q, fl) == p.slot > 0 => ShownOf(p, q, "cur", p.slot, p.cur, fl)
RowsBefore(p) == Before(SlotsOf(p.deltas), p.slot)
StateBeforeComes(p, q, fl) == p.slot > 0 =>
  IF RowsBefore(p) = {} THEN Of(q, "prev") = {} /\ ("prev" \in fl \/ p.prev = Nothing)
  ELSE ShownOf(p, q, "prev", LastRow(RowsBefore(p)), p.prev, fl)

Sound(p, q, fl) ==
  /\ p \in ScrubPanel /\ q \in Seq(ScrubCalls)
  /\ p.account = NoAccount => p.slot = 0 /\ p.deltas = {} /\ q = <<>>
  /\ \A k \in 1 .. Len(q) : CallStands(q[k])
  /\ \A k \in 2 .. Len(q) : ~q[k].served
  /\ HistoryComes(p, q, fl)
Fits(p, q, raced, fl) == Sound(p, q, fl) /\ StateComes(p, q, fl) /\ (~raced => StateBeforeComes(p, q, fl))

TypesOfScrub == hist \in [Accounts -> [Slots -> State]] /\ moves \in Nat /\ prevRaced \in BOOLEAN
ScrubIInv == TypesOfScrub /\ Fits(seen, calls, prevRaced, failed)

LEMMA LatestRow ==
  ASSUME StateScrubAssumption, NEW S \in SUBSET Slots, S # {}
  PROVE  LastRow(S) \in S /\ LastRow(S) \in Slots /\ \A r \in S : r <= LastRow(S)
<1> DEFINE R == OpToRel(<, Nat)
           T == {MaxSlot - x : x \in S}
<1>1. MaxSlot \in Nat /\ \A x \in S : x \in Nat /\ x <= MaxSlot
  BY DEF StateScrubAssumption, Slots
<1>2. T \subseteq Nat /\ T # {}
  BY <1>1
<1>3. IsWellFoundedOn(R, Nat)
  BY NatLessThanWellFounded, Zenon
<1>4. PICK m \in T : \A y \in T : ~(<<y, m>> \in R)
  BY <1>2, <1>3, WFMin, Zenon
<1>5. PICK x \in S : m = MaxSlot - x
  BY <1>4
<1>6. \A y \in S : y <= x
  <2> TAKE y \in S
  <2>1. MaxSlot - y \in T /\ MaxSlot - y \in Nat /\ m \in Nat
    BY <1>1, <1>2, <1>4
  <2>2. ~(MaxSlot - y < m)
    BY <2>1, <1>4 DEF OpToRel
  <2> QED
    BY <2>1, <2>2, <1>1, <1>5
<1>7. LastRow(S) \in S /\ \A r \in S : r <= LastRow(S)
  BY <1>6 DEF LastRow
<1> QED
  BY <1>7

LEMMA ScrubStart == ASSUME StateScrubAssumption, ScrubInit PROVE ScrubIInv
<1>1. Nothing \in State
  BY DEF Nothing, State, Missing
<1>2. calls = <<>> /\ calls \in Seq(ScrubCalls) /\ Len(calls) = 0
  BY DEF ScrubInit
<1>3. seen.account = NoAccount /\ seen.deltas = {} /\ seen.slot = 0 /\ seen \in ScrubPanel
  BY <1>1 DEF ScrubInit, StateScrubAssumption, ScrubPanel
<1>4. TypesOfScrub
  BY <1>1 DEF TypesOfScrub, ScrubInit
<1> QED
  BY <1>2, <1>3, <1>4 DEF ScrubIInv, Fits, Sound, HistoryComes, StateComes, StateBeforeComes

\* What is held of a panel that is sound.
LEMMA SoundParts ==
  ASSUME StateScrubAssumption, NEW p, NEW q, NEW fl, Sound(p, q, fl)
  PROVE  /\ p \in ScrubPanel /\ q \in Seq(ScrubCalls)
         /\ p.account \in Accounts \cup {NoAccount} /\ p.deltas \in SUBSET ScrubRow
         /\ p.slot \in 0 .. MaxSlot /\ p.cur \in State /\ p.prev \in State
         /\ SlotsOf(p.deltas) \in SUBSET Slots
         /\ p.account = NoAccount => p.slot = 0 /\ p.deltas = {} /\ q = <<>>
         /\ \A k \in 1 .. Len(q) : CallStands(q[k])
         /\ \A k \in 2 .. Len(q) : ~q[k].served
         /\ HistoryComes(p, q, fl)
BY DEF Sound, ScrubPanel, ScrubRow, SlotsOf

\* A row is never written over: what was decoded of a slot stands.
LEMMA RowsStand ==
  ASSUME StateScrubAssumption, hist \in [Accounts -> [Slots -> State]], Decode
  PROVE  /\ hist' \in [Accounts -> [Slots -> State]]
         /\ \A a \in Accounts : RowsOf(a) \subseteq RowsOf(a)'
         /\ \A a \in Accounts : \A s \in RowsOf(a) : HeldAt(a, s)' = HeldAt(a, s)
<1>1. PICK a \in Accounts, s \in Slots, v \in State \ {Nothing} :
        s \notin RowsOf(a) /\ hist' = [hist EXCEPT ![a][s] = v]
  BY DEF Decode
<1>2. hist' \in [Accounts -> [Slots -> State]]
  BY <1>1
<1>3. \A b \in Accounts : \A r \in Slots : hist'[b][r] = IF b = a /\ r = s THEN v ELSE hist[b][r]
  BY <1>1
<1>4. \A b \in Accounts : RowsOf(b) \subseteq RowsOf(b)'
  BY <1>1, <1>3 DEF RowsOf
<1>5. \A b \in Accounts : \A r \in RowsOf(b) : HeldAt(b, r)' = HeldAt(b, r)
  BY <1>1, <1>3 DEF HeldAt, RowsOf
<1> QED
  BY <1>2, <1>4, <1>5

\* Where there is no row there is nothing, and where there is one, something.
LEMMA RowsHold ==
  ASSUME NEW a \in Accounts
  PROVE  /\ \A s : s \notin RowsOf(a) => HeldAt(a, s) = Nothing
         /\ \A s \in RowsOf(a) : s \in Slots /\ HeldAt(a, s) # Nothing
BY DEF RowsOf, HeldAt

\* Deltas that were read of an account stay the deltas of its rows.
LEMMA DeltasStand ==
  ASSUME StateScrubAssumption, hist \in [Accounts -> [Slots -> State]], Decode,
         NEW a \in Accounts, NEW D \in SUBSET ScrubRow, DeltasOf(D, a)
  PROVE  DeltasOf(D, a)'
<1>1. PICK R : R = SlotsOf(D)
  OBVIOUS
<1>2. R \subseteq RowsOf(a) /\ R \subseteq Slots /\ \A d \in D : d.slot \in R
  BY <1>1 DEF DeltasOf, RowsOf, SlotsOf
<1>3. R \subseteq RowsOf(a)' /\ \A s \in R : HeldAt(a, s)' = HeldAt(a, s)
  BY <1>2, RowsStand
<1>4. ASSUME NEW s \in R PROVE ChangedFields(R, a, s)' = ChangedFields(R, a, s)
  <2>1. Before(R, s) # {} => LastRow(Before(R, s)) \in R
    <3>1. Before(R, s) \in SUBSET Slots /\ Before(R, s) \subseteq R
      BY <1>2 DEF Before
    <3> QED
      BY <3>1, LatestRow
  <2>2. PICK b : b = LastRow(Before(R, s))
    OBVIOUS
  <2>3. Before(R, s) # {} => HeldAt(a, b)' = HeldAt(a, b)
    BY <2>1, <2>2, <1>3
  <2>4. HeldAt(a, s)' = HeldAt(a, s)
    BY <1>3, <1>4
  <2>5. /\ ChangedFields(R, a, s)' =
             LET prev == IF Before(R, s) = {} THEN Nothing ELSE HeldAt(a, b)'
             IN {f \in Fields : HeldAt(a, s)'[f] # Missing /\ HeldAt(a, s)'[f] # prev[f]}
        /\ ChangedFields(R, a, s) =
             LET prev == IF Before(R, s) = {} THEN Nothing ELSE HeldAt(a, b)
             IN {f \in Fields : HeldAt(a, s)[f] # Missing /\ HeldAt(a, s)[f] # prev[f]}
    BY <2>2 DEF ChangedFields
  <2> QED
    BY <2>3, <2>4, <2>5
<1>5. \A d \in D : d.fields = ChangedFields(R, a, d.slot)
  BY <1>1 DEF DeltasOf
<1>6. \A d \in D : d.fields = ChangedFields(R, a, d.slot)'
  BY <1>2, <1>4, <1>5
<1> QED
  BY <1>1, <1>3, <1>6 DEF DeltasOf

\* A state that was good stays so: its row stands, or comes after it was read.
LEMMA GoodStands ==
  ASSUME StateScrubAssumption, hist \in [Accounts -> [Slots -> State]], Decode,
         NEW p, NEW q, NEW fl, p.account \in Accounts, p.account # NoAccount, HistoryComes(p, q, fl),
         NEW s, NEW v, Good(p, q, s, fl, v)
  PROVE  Good(p, q, s, fl, v)'
<1>1. Loose(p, q, s, fl)' = Loose(p, q, s, fl)
  BY DEF Loose
<1>2. CASE s \in RowsOf(p.account)
  BY <1>1, <1>2, RowsStand DEF Good
<1>3. CASE s \notin RowsOf(p.account)
  <2>1. v = Nothing
    BY <1>3, RowsHold DEF Good
  <2>2. Of(q, "history") = {} => "history" \in fl \/ SlotsOf(p.deltas) \subseteq RowsOf(p.account)
    BY DEF HistoryComes, DeltasOf, Asks, LastOf
  <2>3. Loose(p, q, s, fl)
    BY <2>2, <1>3 DEF Loose
  <2> QED
    BY <2>1, <2>3, <1>1 DEF Good
<1> QED
  BY <1>2, <1>3

LEMMA ShownStands ==
  ASSUME StateScrubAssumption, hist \in [Accounts -> [Slots -> State]], Decode,
         NEW p, NEW q, NEW fl, p.account \in Accounts, p.account # NoAccount, HistoryComes(p, q, fl),
         NEW op, NEW s, NEW v, ShownOf(p, q, op, s, v, fl)
  PROVE  ShownOf(p, q, op, s, v, fl)'
<1>1. \A u : Good(p, q, s, fl, u) => Good(p, q, s, fl, u)'
  BY GoodStands
<1> QED
  BY <1>1 DEF ShownOf

\* A step of the decoder leaves what the panel has and asks for as it stands.
LEMMA DecodeKeeps ==
  ASSUME StateScrubAssumption, hist \in [Accounts -> [Slots -> State]], Decode,
         NEW p, NEW q, NEW raced, NEW fl, Fits(p, q, raced, fl)
  PROVE  Fits(p, q, raced, fl)'
<1>1. /\ Sound(p, q, fl) /\ StateComes(p, q, fl) /\ (~raced => StateBeforeComes(p, q, fl))
      /\ q \in Seq(ScrubCalls) /\ (\A k \in 1 .. Len(q) : CallStands(q[k])) /\ HistoryComes(p, q, fl)
      /\ p.account \in Accounts \cup {NoAccount} /\ p.deltas \in SUBSET ScrubRow /\ p.slot \in 0 .. MaxSlot
  BY SoundParts DEF Fits
<1>2. p.account # NoAccount => p.account \in Accounts
  BY <1>1
<1>3. p.slot > 0 => p.account # NoAccount
  BY <1>1, SoundParts
<1>4. ASSUME NEW k \in 1 .. Len(q) PROVE CallStands(q[k])'
  <2>1. PICK c \in ScrubCalls : c = q[k]
    BY <1>1
  <2>2. CallStands(c) /\ c.account \in Accounts /\ c.rows \in SUBSET ScrubRow
    BY <1>1, <2>1 DEF ScrubCalls
  <2>3. DeltasOf(c.rows, c.account) => DeltasOf(c.rows, c.account)'
    BY <2>2, DeltasStand
  <2>4. c.served /\ c.op # "history" => c.answer \in {HeldAt(c.account, c.slot)', Nothing}
    <3>1. CASE c.slot \in RowsOf(c.account)
      BY <3>1, <2>2, RowsStand DEF CallStands
    <3>2. CASE c.slot \notin RowsOf(c.account)
      BY <3>2, <2>2, RowsHold DEF CallStands
    <3> QED
      BY <3>1, <3>2
  <2>5. CallStands(c)'
    BY <2>2, <2>3, <2>4 DEF CallStands
  <2> QED
    BY <2>1, <2>5
<1>5. HistoryComes(p, q, fl)'
  <2>1. CASE p.account # NoAccount /\ DeltasOf(p.deltas, p.account)
    <3>1. DeltasOf(p.deltas, p.account)'
      BY <2>1, <1>1, <1>2, DeltasStand
    <3> QED
      BY <3>1, <1>1 DEF HistoryComes, Asks
  <2> QED
    BY <2>1, <1>1 DEF HistoryComes, Asks
<1>6. StateComes(p, q, fl)'
  BY <1>1, <1>2, <1>3, ShownStands DEF StateComes
<1>7. ASSUME ~raced PROVE StateBeforeComes(p, q, fl)'
  <2>1. PICK b : b = LastRow(RowsBefore(p))
    OBVIOUS
  <2>2. StateBeforeComes(p, q, fl)
    BY <1>1, <1>7
  <2>3. p.slot > 0 /\ ShownOf(p, q, "prev", b, p.prev, fl) => ShownOf(p, q, "prev", b, p.prev, fl)'
    BY <1>1, <1>2, <1>3, ShownStands
  <2> QED
    BY <2>1, <2>2, <2>3 DEF StateBeforeComes
<1>8. Sound(p, q, fl)'
  BY <1>1, <1>4, <1>5 DEF Sound
<1> QED
  BY <1>6, <1>7, <1>8 DEF Fits

\* Without one nothing of it changes.
LEMMA QuietHistory ==
  ASSUME UNCHANGED hist, NEW p, NEW q, NEW raced, NEW fl, Fits(p, q, raced, fl)
  PROVE  Fits(p, q, raced, fl)'
<1>1. \A a, s : HeldAt(a, s)' = HeldAt(a, s)
  BY DEF HeldAt
<1>2. \A a : RowsOf(a)' = RowsOf(a)
  BY DEF RowsOf
<1>3. \A R, a, s : ChangedFields(R, a, s)' = ChangedFields(R, a, s)
  BY <1>1 DEF ChangedFields
<1>4. \A D, a : DeltasOf(D, a)' = DeltasOf(D, a)
  BY <1>2, <1>3 DEF DeltasOf
<1>5. \A c : CallStands(c)' = CallStands(c)
  BY <1>1, <1>4 DEF CallStands
<1>6. HistoryComes(p, q, fl)' = HistoryComes(p, q, fl)
  BY <1>4 DEF HistoryComes, Asks
<1>7. \A s, v : Good(p, q, s, fl, v)' = Good(p, q, s, fl, v)
  BY <1>1 DEF Good, Loose
<1>8. \A op, s, v : ShownOf(p, q, op, s, v, fl)' = ShownOf(p, q, op, s, v, fl)
  BY <1>7 DEF ShownOf
<1>9. /\ StateComes(p, q, fl)' = StateComes(p, q, fl)
      /\ StateBeforeComes(p, q, fl)' = StateBeforeComes(p, q, fl)
  BY <1>8 DEF StateComes, StateBeforeComes
<1> QED
  BY <1>5, <1>6, <1>9 DEF Fits, Sound

\* A call joins the queue of the panel.
AskedNow(q, c, r) ==
  /\ r \in Seq(ScrubCalls) /\ \A k \in 1 .. Len(r) : CallStands(r[k])
  /\ \A k \in 2 .. Len(r) : ~r[k].served
  /\ LastOf(r, c.op, c)
  /\ \A op : op # c.op => /\ Of(r, op) = Of(q, op)
                          /\ \A d : LastOf(q, op, d) => LastOf(r, op, d)

LEMMA AskJoins ==
  ASSUME NEW q \in Seq(ScrubCalls), \A k \in 1 .. Len(q) : CallStands(q[k]), \A k \in 2 .. Len(q) : ~q[k].served,
         NEW c \in ScrubCalls, CallStands(c), ~c.served, NEW r, r = q \o <<c>>
  PROVE  AskedNow(q, c, r)
<1>1. /\ r \in Seq(ScrubCalls) /\ Len(r) = Len(q) + 1 /\ Len(q) \in Nat
      /\ r[Len(q) + 1] = c /\ \A k \in 1 .. Len(q) : r[k] = q[k]
  BY Joined
<1>2. \A k \in 1 .. Len(r) : k \in 1 .. Len(q) \/ k = Len(q) + 1
  BY <1>1
<1>3. \A k \in 1 .. Len(r) : CallStands(r[k])
  BY <1>1, <1>2
<1>4. \A k \in 2 .. Len(r) : ~r[k].served
  <2> TAKE k \in 2 .. Len(r)
  <2>1. (k \in 2 .. Len(q) /\ k \in 1 .. Len(q)) \/ k = Len(q) + 1
    BY <1>1
  <2> QED
    BY <2>1, <1>1
<1>5. LastOf(r, c.op, c)
  BY LastJoins DEF JoinsAsLast
<1>6. \A op : op # c.op => Of(r, op) = Of(q, op) /\ \A d : LastOf(q, op, d) => LastOf(r, op, d)
  <2> TAKE op
  <2>1. JoinsAsLast(q, r, c, op)
    BY LastJoins
  <2> QED
    BY <2>1 DEF JoinsAsLast
<1> QED
  BY <1>1, <1>3, <1>4, <1>5, <1>6 DEF AskedNow

\* The effect asks for the state at the slot and for the one before it.
LEMMA EffectKeeps ==
  ASSUME StateScrubAssumption, hist \in [Accounts -> [Slots -> State]], prevRaced \in BOOLEAN,
         NEW p, NEW q, Sound(p, q, failed), Effect(p, q),
         NEW p2, p2 = seen', NEW q2, q2 = calls', NEW r2, r2 = prevRaced', NEW f2, f2 = failed'
  PROVE  Fits(p2, q2, r2, f2) /\ r2 \in BOOLEAN
<1>1. /\ p \in ScrubPanel /\ q \in Seq(ScrubCalls)
      /\ p.account = NoAccount => p.slot = 0 /\ p.deltas = {} /\ q = <<>>
      /\ \A k \in 1 .. Len(q) : CallStands(q[k])
      /\ \A k \in 2 .. Len(q) : ~q[k].served
      /\ HistoryComes(p, q, failed)
  BY DEF Sound
<1>2. p.slot \in Nat /\ p.slot \in 0 .. MaxSlot /\ p.account \in Accounts \cup {NoAccount}
  BY <1>1 DEF ScrubPanel, StateScrubAssumption
<1>3. CASE p.slot = 0
  <2>1. p2 = p /\ q2 = q /\ r2 = prevRaced /\ f2 = failed
    BY <1>3 DEF Effect
  <2> QED
    BY <2>1, <1>2, <1>3 DEF Fits, StateComes, StateBeforeComes
<1>4. CASE p.slot # 0
  <2> DEFINE c == ScrubCall("cur", p.account, p.slot)
             B == RowsBefore(p)
  <2>1. p.account \in Accounts /\ p.account # NoAccount /\ p.slot > 0
    BY <1>1, <1>2, <1>4
  <2>2. Nothing \in State /\ {} \in SUBSET ScrubRow
    BY DEF Nothing, State, Missing
  <2>3. /\ c \in ScrubCalls /\ c.op = "cur" /\ c.account = p.account /\ c.slot = p.slot /\ ~c.served
    BY <2>1, <2>2, <1>2 DEF ScrubCall, ScrubCalls
  <2>4. CallStands(c)
    BY <2>1, <2>3 DEF CallStands
  <2>5. PICK x : x = q \o <<c>>
    OBVIOUS
  <2> HIDE DEF c
  <2>6. AskedNow(q, c, x)
    BY <1>1, <2>3, <2>4, <2>5, AskJoins
  <2>7. x \in Seq(ScrubCalls) /\ (\A k \in 1 .. Len(x) : CallStands(x[k])) /\ \A k \in 2 .. Len(x) : ~x[k].served
    BY <2>6 DEF AskedNow
  <2>8. LastOf(x, "cur", c)
    BY <2>3, <2>6 DEF AskedNow
  <2>9. \A op \in {"history", "prev"} : Of(x, op) = Of(q, op) /\ \A d : LastOf(q, op, d) => LastOf(x, op, d)
    BY <2>3, <2>6 DEF AskedNow
  <2>10. HistoryComes(p, x, failed)
    BY <1>1, <2>9 DEF HistoryComes, Asks
  <2>11. CASE B = {}
    <3>1. p2 = [p EXCEPT !.prev = Nothing] /\ q2 = x /\ r2 = (\E n \in 1 .. Len(q) : q[n].op = "prev") /\ f2 = failed \ {"prev"}
      <4>1. /\ p2 = [p EXCEPT !.prev = Nothing] /\ q2 = Append(q, c) /\ r2 = (\E n \in 1 .. Len(q) : q[n].op = "prev")
            /\ f2 = failed \ {"prev"}
        BY <2>1, <2>11, <1>4, Zenon DEF Effect, RowsBefore, c
      <4> QED
        BY <4>1, <2>5, <1>1, <2>3
    <3>2. p2 \in ScrubPanel /\ p2.account = p.account /\ p2.slot = p.slot /\ p2.deltas = p.deltas /\ p2.prev = Nothing
      BY <3>1, <1>1, <2>2 DEF ScrubPanel
    <3>3. HistoryComes(p2, q2, f2)
      BY <3>1, <3>2, <2>10 DEF HistoryComes
    <3>4. StateComes(p2, q2, f2)
      BY <3>1, <3>2, <2>3, <2>8 DEF StateComes, ShownOf
    <3>5. ASSUME ~r2 PROVE StateBeforeComes(p2, q2, f2)
      <4>1. Of(q, "prev") = {}
        BY <3>1, <3>5 DEF Of
      <4>2. RowsBefore(p2) = {}
        BY <2>11, <3>2 DEF RowsBefore
      <4> QED
        BY <4>1, <4>2, <3>1, <3>2, <2>9 DEF StateBeforeComes
    <3> QED
      BY <3>1, <3>2, <3>3, <3>4, <3>5, <1>1, <2>1, <2>7 DEF Fits, Sound
  <2>12. CASE B # {}
    <3> DEFINE d == ScrubCall("prev", p.account, LastRow(B))
    <3>1. p2 = p /\ q2 = q \o <<c, d>> /\ r2 = FALSE /\ f2 = failed
      BY <2>1, <2>12, <1>4, Zenon DEF Effect, RowsBefore, c
    <3>2. LastRow(B) \in Slots /\ LastRow(B) \in SlotsOf(p.deltas)
      <4>1. SlotsOf(p.deltas) \subseteq Slots
        BY <1>1 DEF ScrubPanel, ScrubRow, SlotsOf
      <4>2. B \in SUBSET Slots /\ B \subseteq SlotsOf(p.deltas)
        BY <4>1 DEF RowsBefore, Before
      <4> QED
        BY <4>2, <2>12, LatestRow
    <3>3. PICK b : b = LastRow(B) /\ b \in 0 .. MaxSlot /\ b > 0
      BY <3>2, <1>1 DEF Slots, StateScrubAssumption
    <3>4. d \in ScrubCalls /\ d.op = "prev" /\ d.account = p.account /\ d.slot = b /\ ~d.served
      BY <3>3, <2>1, <2>2 DEF ScrubCall, ScrubCalls
    <3>5. CallStands(d)
      BY <3>3, <3>4 DEF CallStands
    <3> HIDE DEF d
    <3>6. q2 = x \o <<d>>
      <4>1. <<c>> \in Seq(ScrubCalls) /\ <<d>> \in Seq(ScrubCalls) /\ <<c, d>> = <<c>> \o <<d>>
        BY <2>3, <3>4
      <4>2. q2 = q \o (<<c>> \o <<d>>)
        BY <3>1, <4>1
      <4> QED
        BY <4>1, <4>2, <2>5, <1>1, ConcatAssociative
    <3>7. AskedNow(x, d, q2)
      BY <3>4, <3>5, <3>6, <2>7, AskJoins
    <3>8. HistoryComes(p, q2, failed) /\ StateComes(p, q2, failed) /\ StateBeforeComes(p, q2, failed)
      <4>1. LastOf(q2, "prev", d)
        BY <3>4, <3>7 DEF AskedNow
      <4>2. \A op \in {"history", "cur"} : Of(q2, op) = Of(x, op) /\ \A e : LastOf(x, op, e) => LastOf(q2, op, e)
        BY <3>4, <3>7 DEF AskedNow
      <4>3. HistoryComes(p, q2, failed)
        BY <4>2, <2>10 DEF HistoryComes, Asks
      <4>4. StateComes(p, q2, failed)
        BY <4>2, <2>3, <2>8 DEF StateComes, ShownOf
      <4>5. StateBeforeComes(p, q2, failed)
        BY <4>1, <3>3, <3>4, <2>12 DEF StateBeforeComes, ShownOf
      <4> QED
        BY <4>3, <4>4, <4>5
    <3> QED
      BY <3>1, <3>7, <3>8, <1>1, <2>1 DEF Fits, Sound, AskedNow
  <2> QED
    BY <2>11, <2>12
<1> QED
  BY <1>3, <1>4

LEMMA BecomesSound ==
  ASSUME TypesOfScrub', NEW p, p = seen', NEW q, q = calls', NEW r, r = prevRaced', NEW fl, fl = failed',
         Fits(p, q, r, fl)'
  PROVE  ScrubIInv'
BY DEF ScrubIInv

LEMMA EffectStep ==
  ASSUME StateScrubAssumption, TypesOfScrub, UNCHANGED hist, moves' \in Nat,
         NEW p, NEW q, Sound(p, q, failed), Effect(p, q)
  PROVE  ScrubIInv'
<1>1. PICK p2, q2, r2, f2 : p2 = seen' /\ q2 = calls' /\ r2 = prevRaced' /\ f2 = failed'
  OBVIOUS
<1>2. Fits(p2, q2, r2, f2) /\ r2 \in BOOLEAN
  BY <1>1, EffectKeeps DEF TypesOfScrub
<1>3. Fits(p2, q2, r2, f2)'
  BY <1>2, QuietHistory
<1>4. TypesOfScrub'
  BY <1>1, <1>2 DEF TypesOfScrub
<1> QED
  BY <1>1, <1>3, <1>4, BecomesSound

LEMMA ChooseKeeps ==
  ASSUME StateScrubAssumption, ScrubIInv, NEW a \in Accounts, Choose(a)
  PROVE  ScrubIInv'
<1>1. PICK p, q : p = seen /\ q = calls /\ Sound(p, q, failed)
  BY DEF ScrubIInv, Fits
<1> DEFINE p1 == [p EXCEPT !.account = a]
           c == ScrubCall("history", a, 0)
<1>2. PICK q1 : q1 = q \o <<c>>
  OBVIOUS
<1>3. Effect(p1, q1) /\ UNCHANGED hist /\ moves' = moves + 1
  <2>1. c \in ScrubCalls
    BY DEF ScrubCall, ScrubCalls, Nothing, State, Missing, StateScrubAssumption
  <2>2. q1 = Append(q, c)
    BY <1>1, <1>2, <2>1, SoundParts
  <2> QED
    BY <1>1, <2>2 DEF Choose
<1>4. c \in ScrubCalls /\ c.op = "history" /\ c.account = a /\ c.slot = 0 /\ ~c.served
  BY DEF ScrubCall, ScrubCalls, Nothing, State, Missing, StateScrubAssumption
<1>5. CallStands(c)
  BY <1>4 DEF CallStands
<1>6. p1 \in ScrubPanel /\ p1.account = a /\ p1.slot = p.slot /\ p1.deltas = p.deltas
  BY <1>1, SoundParts DEF ScrubPanel
<1> HIDE DEF c, p1
<1>7. AskedNow(q, c, q1)
  BY <1>1, <1>2, <1>4, <1>5, SoundParts, AskJoins
<1>8. /\ q1 \in Seq(ScrubCalls) /\ (\A k \in 1 .. Len(q1) : CallStands(q1[k])) /\ (\A k \in 2 .. Len(q1) : ~q1[k].served)
      /\ LastOf(q1, "history", c)
  BY <1>4, <1>7 DEF AskedNow
<1>9. HistoryComes(p1, q1, failed)
  BY <1>4, <1>6, <1>8 DEF HistoryComes, Asks
<1>10. Sound(p1, q1, failed)
  BY <1>1, <1>6, <1>8, <1>9, SoundParts DEF Sound, StateScrubAssumption
<1>11. moves' \in Nat /\ TypesOfScrub
  BY <1>3 DEF ScrubIInv, TypesOfScrub
<1> QED
  BY <1>3, <1>10, <1>11, EffectStep

LEMMA SlideKeeps ==
  ASSUME StateScrubAssumption, ScrubIInv, NEW s \in Slots, Slide(s)
  PROVE  ScrubIInv'
<1>1. PICK p, q : p = seen /\ q = calls /\ Sound(p, q, failed)
  BY DEF ScrubIInv, Fits
<1> DEFINE p1 == [p EXCEPT !.slot = s]
<1>2. Effect(p1, q) /\ UNCHANGED hist /\ moves' = moves + 1 /\ p.deltas # {}
  BY <1>1 DEF Slide
<1>3. s \in 0 .. MaxSlot
  BY DEF Slots, StateScrubAssumption
<1>4. /\ p1 \in ScrubPanel /\ p1.account = p.account /\ p1.slot = s /\ p1.deltas = p.deltas
      /\ p.account # NoAccount
  BY <1>1, <1>2, <1>3, SoundParts DEF ScrubPanel
<1> HIDE DEF p1
<1>5. HistoryComes(p1, q, failed)
  BY <1>1, <1>4, SoundParts DEF HistoryComes
<1>6. Sound(p1, q, failed)
  BY <1>1, <1>4, <1>5, SoundParts DEF Sound
<1>7. moves' \in Nat /\ TypesOfScrub
  BY <1>2 DEF ScrubIInv, TypesOfScrub
<1> QED
  BY <1>2, <1>6, <1>7, EffectStep

\* The first call is answered, or fails, and leaves; what was asked for last of a kind
\* either is still in the queue, or it was this one.
AnsweredNow(q, c, r) ==
  /\ r \in Seq(ScrubCalls) /\ \A k \in 1 .. Len(r) : CallStands(r[k]) /\ ~r[k].served
  /\ c \in ScrubCalls /\ CallStands(c) /\ Of(q, c.op) # {}
  /\ \A op : /\ Of(q, op) = {} => Of(r, op) = {}
             /\ c.op # op /\ Of(q, op) # {} => Of(r, op) # {}
             /\ \A d : LastOf(q, op, d) => LastOf(r, op, d) \/ (Of(r, op) = {} /\ c.op = op /\ c = d)

LEMMA CallLeaves ==
  ASSUME NEW q \in Seq(ScrubCalls), q # <<>>, \A k \in 1 .. Len(q) : CallStands(q[k]),
         \A k \in 2 .. Len(q) : ~q[k].served, NEW r, r = Tail(q), NEW c, c = Head(q)
  PROVE  AnsweredNow(q, c, r)
<1>1. /\ r \in Seq(ScrubCalls) /\ Len(r) = Len(q) - 1 /\ Len(q) \in Nat \ {0}
      /\ \A k \in 1 .. Len(r) : r[k] = q[k + 1]
      /\ c = q[1] /\ c \in ScrubCalls
  BY Left
<1>2. \A k \in 1 .. Len(r) : CallStands(r[k]) /\ ~r[k].served
  <2> TAKE k \in 1 .. Len(r)
  <2>1. k + 1 \in 1 .. Len(q) /\ k + 1 \in 2 .. Len(q)
    BY <1>1
  <2> QED
    BY <2>1, <1>1
<1>3. CallStands(c) /\ Of(q, c.op) # {}
  BY <1>1 DEF Of
<1>4. \A op : LeavesTheLast(q, r, op)
  BY <1>1, LastLeaves
<1>5. ASSUME NEW op, c.op # op, NEW k \in Of(q, op) PROVE k - 1 \in Of(r, op)
  <2>1. k \in 1 .. Len(q) /\ q[k].op = op
    BY DEF Of
  <2>2. k # 1
    BY <1>1, <1>5, <2>1
  <2>3. k - 1 \in 1 .. Len(r) /\ (k - 1) + 1 = k
    BY <1>1, <2>1, <2>2
  <2>4. r[k - 1] = q[k]
    BY <1>1, <2>3
  <2> QED
    BY <2>1, <2>3, <2>4 DEF Of
<1>6. ASSUME NEW op PROVE c.op # op /\ Of(q, op) # {} => Of(r, op) # {}
  BY <1>5
<1>7. ASSUME NEW op
      PROVE  /\ Of(q, op) = {} => Of(r, op) = {}
             /\ \A d : LastOf(q, op, d) => LastOf(r, op, d) \/ (Of(r, op) = {} /\ c.op = op /\ c = d)
  BY <1>1, <1>4 DEF LeavesTheLast
<1> QED
  BY <1>1, <1>2, <1>3, <1>6, <1>7 DEF AnsweredNow

\* What is shown of a kind after the first call has left: its answer, if it was of this
\* kind and did not fail.
LEMMA ShownAfter ==
  ASSUME NEW p, NEW q, NEW c, NEW r, AnsweredNow(q, c, r), NEW fl, NEW f2, fl \subseteq f2,
         c.op = "history" => "history" \in f2,
         NEW op, NEW s, NEW v, ShownOf(p, q, op, s, v, fl), NEW v2, c.op # op => v2 = v,
         c.op = op => op \in f2 \/ (c.served /\ v2 = c.answer)
  PROVE  ShownOf(p, r, op, s, v2, f2)
<1>1. Loose(p, q, s, fl) => Loose(p, r, s, f2)
  BY DEF Loose, AnsweredNow
<1>2. \A u : Good(p, q, s, fl, u) => Good(p, r, s, f2, u)
  BY <1>1 DEF Good
<1>3. CASE Of(q, op) = {} /\ (op \in fl \/ Good(p, q, s, fl, v))
  <2>1. c.op # op /\ Of(r, op) = {}
    BY <1>3 DEF AnsweredNow
  <2> QED
    BY <1>2, <1>3, <2>1 DEF ShownOf
<1>4. ASSUME NEW d \in ScrubCalls, LastOf(q, op, d), d.account = p.account, d.slot = s,
             d.served => op \in fl \/ Good(p, q, s, fl, d.answer)
      PROVE  ShownOf(p, r, op, s, v2, f2)
  <2>1. CASE LastOf(r, op, d)
    <3>1. d.served => op \in f2 \/ Good(p, r, s, f2, d.answer)
      BY <1>2, <1>4
    <3> QED
      BY <1>4, <2>1, <3>1 DEF ShownOf
  <2>2. CASE Of(r, op) = {} /\ c.op = op /\ c = d
    <3>1. op \in f2 \/ Good(p, r, s, f2, v2)
      BY <1>2, <1>4, <2>2
    <3> QED
      BY <2>2, <3>1 DEF ShownOf
  <2> QED
    BY <1>4, <2>1, <2>2 DEF AnsweredNow
<1> QED
  BY <1>3, <1>4 DEF ShownOf

LEMMA HistoryKeeps ==
  ASSUME StateScrubAssumption, ScrubIInv, HistoryRead
  PROVE  ScrubIInv'
<1>1. PICK p, q, c, r : p = seen /\ q = calls /\ Sound(p, q, failed) /\ c = Head(q) /\ r = Tail(q)
  BY DEF ScrubIInv, Fits
<1> DEFINE n == IF c.rows = {} THEN p.slot ELSE LastRow(SlotsOf(c.rows))
           p1 == [p EXCEPT !.deltas = c.rows, !.slot = n]
<1>2. /\ q # <<>> /\ c.served /\ c.op = "history" /\ UNCHANGED <<hist, moves>>
      /\ Effect(p1, r)
  BY <1>1 DEF HistoryRead
<1>3. AnsweredNow(q, c, r)
  BY <1>1, <1>2, SoundParts, CallLeaves
<1>4. /\ r \in Seq(ScrubCalls) /\ (\A k \in 1 .. Len(r) : CallStands(r[k]) /\ ~r[k].served)
      /\ c \in ScrubCalls /\ CallStands(c) /\ Of(q, "history") # {}
  BY <1>2, <1>3 DEF AnsweredNow
<1>5. c.rows \in SUBSET ScrubRow /\ SlotsOf(c.rows) \in SUBSET Slots
  BY <1>4 DEF ScrubCalls, ScrubRow, SlotsOf
<1>6. c.account \in Accounts /\ DeltasOf(c.rows, c.account)
  BY <1>2, <1>4 DEF CallStands, ScrubCalls
<1>7. p.account # NoAccount
  BY <1>1, <1>2, SoundParts
<1>8. n \in 0 .. MaxSlot
  <2>1. CASE c.rows = {}
    BY <2>1, <1>1, SoundParts
  <2>2. CASE c.rows # {}
    <3>1. SlotsOf(c.rows) # {}
      BY <2>2 DEF SlotsOf
    <3>2. LastRow(SlotsOf(c.rows)) \in Slots
      BY <3>1, <1>5, LatestRow
    <3> QED
      BY <2>2, <3>2 DEF Slots, StateScrubAssumption
  <2> QED
    BY <2>1, <2>2
<1> HIDE DEF n
<1>9. p1 \in ScrubPanel /\ p1.account = p.account /\ p1.slot = n /\ p1.deltas = c.rows
  <2>1. p \in ScrubPanel
    BY <1>1, SoundParts
  <2> QED
    BY <2>1, <1>5, <1>8 DEF ScrubPanel
<1> HIDE DEF p1
<1>10. HistoryComes(p1, r, failed)
  <2>1. PICK d \in ScrubCalls : LastOf(q, "history", d) /\ d.account = p.account /\ d.slot = 0
    BY <1>1, <1>4, <1>7, SoundParts DEF HistoryComes, Asks
  <2>2. LastOf(r, "history", d) \/ (Of(r, "history") = {} /\ c = d)
    BY <2>1, <1>3 DEF AnsweredNow
  <2> QED
    BY <2>1, <2>2, <1>6, <1>9 DEF HistoryComes, Asks
<1>11. Sound(p1, r, failed)
  BY <1>4, <1>7, <1>9, <1>10 DEF Sound
<1>12. moves' \in Nat /\ TypesOfScrub /\ UNCHANGED hist
  BY <1>2 DEF ScrubIInv, TypesOfScrub
<1> QED
  BY <1>2, <1>11, <1>12, EffectStep

\* The first call leaves the queue: its answer is shown, or it failed and what is shown
\* stays.
LEMMA LeavingFits ==
  ASSUME StateScrubAssumption, NEW p, NEW q, NEW w, NEW fl, Fits(p, q, w, fl), q # <<>>,
         NEW c, c = Head(q), NEW q2, q2 = Tail(q), NEW f2, fl \subseteq f2,
         NEW p2 \in ScrubPanel, p2.account = p.account, p2.slot = p.slot, p2.deltas = p.deltas,
         c.op # "cur" => p2.cur = p.cur, c.op # "prev" => p2.prev = p.prev,
         c.op \in f2 \/ (c.served /\ c.op = "cur" /\ p2.cur = c.answer) \/ (c.served /\ c.op = "prev" /\ p2.prev = c.answer)
  PROVE  Fits(p2, q2, w, f2)
<1>1. Sound(p, q, fl) /\ StateComes(p, q, fl) /\ (~w => StateBeforeComes(p, q, fl))
  BY DEF Fits
<1>2. AnsweredNow(q, c, q2)
  BY <1>1, SoundParts, CallLeaves
<1>3. p.account # NoAccount
  BY <1>1, SoundParts
<1>4. c.op = "history" => "history" \in f2
  OBVIOUS
<1>5. \A op, s, v : ShownOf(p2, q2, op, s, v, f2) = ShownOf(p, q2, op, s, v, f2)
  BY DEF ShownOf, Good, Loose
<1>6. StateComes(p2, q2, f2)
  <2> SUFFICES ASSUME p.slot > 0 PROVE ShownOf(p, q2, "cur", p.slot, p2.cur, f2)
    BY <1>5 DEF StateComes
  <2>1. ShownOf(p, q, "cur", p.slot, p.cur, fl)
    BY <1>1 DEF StateComes
  <2>2. c.op = "cur" => "cur" \in f2 \/ (c.served /\ p2.cur = c.answer)
    OBVIOUS
  <2> QED
    BY <1>2, <1>4, <2>1, <2>2, ShownAfter
<1>7. ASSUME ~w PROVE StateBeforeComes(p2, q2, f2)
  <2>1. RowsBefore(p2) = RowsBefore(p)
    BY DEF RowsBefore
  <2>2. PICK b : b = LastRow(RowsBefore(p))
    OBVIOUS
  <2> SUFFICES ASSUME p.slot > 0
               PROVE  IF RowsBefore(p) = {} THEN Of(q2, "prev") = {} /\ ("prev" \in f2 \/ p2.prev = Nothing)
                      ELSE ShownOf(p, q2, "prev", b, p2.prev, f2)
    BY <1>5, <2>1, <2>2 DEF StateBeforeComes
  <2>3. CASE RowsBefore(p) = {}
    <3>1. Of(q, "prev") = {} /\ ("prev" \in fl \/ p.prev = Nothing)
      BY <2>3, <1>1, <1>7 DEF StateBeforeComes
    <3>2. c.op # "prev" /\ Of(q2, "prev") = {}
      BY <3>1, <1>2 DEF AnsweredNow
    <3> QED
      BY <2>3, <3>1, <3>2
  <2>4. CASE RowsBefore(p) # {}
    <3>1. ShownOf(p, q, "prev", b, p.prev, fl)
      BY <2>2, <2>4, <1>1, <1>7 DEF StateBeforeComes
    <3>2. c.op = "prev" => "prev" \in f2 \/ (c.served /\ p2.prev = c.answer)
      OBVIOUS
    <3>3. ShownOf(p, q2, "prev", b, p2.prev, f2)
      BY <1>2, <1>4, <3>1, <3>2, ShownAfter
    <3> QED
      BY <2>4, <3>3
  <2> QED
    BY <2>3, <2>4
<1>8. HistoryComes(p2, q2, f2)
  <2>1. CASE Of(q, "history") = {} /\ ("history" \in fl \/ DeltasOf(p.deltas, p.account))
    <3>1. Of(q2, "history") = {}
      BY <2>1, <1>2 DEF AnsweredNow
    <3> QED
      BY <2>1, <3>1 DEF HistoryComes
  <2>2. CASE Asks(q, "history", p.account, 0)
    <3>1. PICK d \in ScrubCalls : LastOf(q, "history", d) /\ d.account = p.account /\ d.slot = 0
      BY <2>2 DEF Asks
    <3>2. LastOf(q2, "history", d) \/ (Of(q2, "history") = {} /\ c.op = "history")
      BY <3>1, <1>2 DEF AnsweredNow
    <3> QED
      BY <3>1, <3>2, <1>4 DEF HistoryComes, Asks
  <2> QED
    BY <2>1, <2>2, <1>1, <1>3, SoundParts DEF HistoryComes
<1>9. Sound(p2, q2, f2)
  <2>1. q2 \in Seq(ScrubCalls) /\ \A k \in 1 .. Len(q2) : CallStands(q2[k]) /\ ~q2[k].served
    BY <1>2 DEF AnsweredNow
  <2> QED
    BY <1>3, <1>8, <2>1 DEF Sound
<1> QED
  BY <1>6, <1>7, <1>9 DEF Fits

LEMMA StateKeeps ==
  ASSUME StateScrubAssumption, ScrubIInv, StateRead
  PROVE  ScrubIInv'
<1>1. PICK p, q, w, fl : p = seen /\ q = calls /\ w = prevRaced /\ fl = failed /\ Fits(p, q, w, fl)
  BY DEF ScrubIInv
<1>2. PICK p2, q2, c : p2 = seen' /\ q2 = calls' /\ c = Head(q)
  OBVIOUS
<1>3. /\ q # <<>> /\ c.served /\ c.op # "history" /\ UNCHANGED <<hist, moves, prevRaced, failed>>
      /\ p2 = IF c.op = "cur" THEN [p EXCEPT !.cur = c.answer] ELSE [p EXCEPT !.prev = c.answer]
      /\ q2 = Tail(q)
  BY <1>1, <1>2 DEF StateRead
<1>4. Sound(p, q, fl) /\ q \in Seq(ScrubCalls) /\ p \in ScrubPanel
  BY <1>1, SoundParts DEF Fits
<1>5. c \in ScrubCalls /\ c.answer \in State /\ (c.op = "cur" \/ c.op = "prev")
  <2>1. c \in ScrubCalls
    BY <1>2, <1>3, <1>4
  <2> QED
    BY <1>3, <2>1 DEF ScrubCalls
<1>6. /\ p2 \in ScrubPanel /\ p2.account = p.account /\ p2.slot = p.slot /\ p2.deltas = p.deltas
      /\ c.op = "cur" => p2.cur = c.answer /\ p2.prev = p.prev
      /\ c.op # "cur" => p2.prev = c.answer /\ p2.cur = p.cur
  BY <1>3, <1>4, <1>5 DEF ScrubPanel
<1>7. Fits(p2, q2, w, fl)
  BY <1>1, <1>2, <1>3, <1>5, <1>6, LeavingFits
<1>8. Fits(p2, q2, w, fl)' /\ w = prevRaced' /\ fl = failed'
  BY <1>1, <1>3, <1>7, QuietHistory
<1>9. TypesOfScrub'
  BY <1>3 DEF ScrubIInv, TypesOfScrub
<1> QED
  BY <1>2, <1>8, <1>9, BecomesSound

LEMMA ScrubFailKeeps ==
  ASSUME StateScrubAssumption, ScrubIInv, ScrubCallFails
  PROVE  ScrubIInv'
<1>1. PICK p, q, w, fl : p = seen /\ q = calls /\ w = prevRaced /\ fl = failed /\ Fits(p, q, w, fl)
  BY DEF ScrubIInv
<1>2. PICK q2, f2, c : q2 = calls' /\ f2 = failed' /\ c = Head(q)
  OBVIOUS
<1>3. q # <<>> /\ q2 = Tail(q) /\ f2 = fl \cup {c.op} /\ UNCHANGED <<hist, seen, moves, prevRaced>>
  BY <1>1, <1>2 DEF ScrubCallFails
<1>4. p \in ScrubPanel
  BY <1>1, SoundParts DEF Fits
<1>5. fl \subseteq f2 /\ c.op \in f2
  BY <1>3
<1>6. Fits(p, q2, w, f2)
  BY <1>1, <1>2, <1>3, <1>4, <1>5, LeavingFits
<1>7. Fits(p, q2, w, f2)' /\ p = seen' /\ w = prevRaced'
  BY <1>1, <1>3, <1>6, QuietHistory
<1>8. TypesOfScrub'
  BY <1>3 DEF ScrubIInv, TypesOfScrub
<1> QED
  BY <1>2, <1>7, <1>8, BecomesSound

\* The history that is answered is the account's: its earliest rows, each with what
\* changed since the row before.
LEMMA DeltasAnswered ==
  ASSUME NEW a \in Accounts
  PROVE  Deltas(a) \in SUBSET ScrubRow /\ DeltasOf(Deltas(a), a)
<1>1. Earliest(a) \subseteq RowsOf(a) /\ Earliest(a) \subseteq Slots
  BY DEF Earliest, RowsOf
<1>2. \A s : ChangedFields(Earliest(a), a, s) \in SUBSET Fields
  BY DEF ChangedFields
<1>3. SlotsOf(Deltas(a)) = Earliest(a)
  <2>1. \A s : s \in SlotsOf(Deltas(a)) <=> \E d \in Deltas(a) : s = d.slot
    BY DEF SlotsOf
  <2>2. \A d : d \in Deltas(a) <=>
          \E s \in Earliest(a) : d = [slot |-> s, fields |-> ChangedFields(Earliest(a), a, s)]
    BY DEF Deltas
  <2>3. ASSUME NEW s \in Earliest(a) PROVE s \in SlotsOf(Deltas(a))
    <3>1. PICK d : d = [slot |-> s, fields |-> ChangedFields(Earliest(a), a, s)]
      OBVIOUS
    <3>2. d \in Deltas(a) /\ d.slot = s
      BY <3>1, <2>2
    <3> QED
      BY <3>2, <2>1
  <2>4. ASSUME NEW s \in SlotsOf(Deltas(a)) PROVE s \in Earliest(a)
    BY <2>1, <2>2
  <2> QED
    BY <2>3, <2>4
<1>4. \A d \in Deltas(a) : d.fields = ChangedFields(Earliest(a), a, d.slot)
  BY DEF Deltas
<1>5. Deltas(a) \in SUBSET ScrubRow
  BY <1>1, <1>2 DEF Deltas, ScrubRow
<1> QED
  BY <1>1, <1>3, <1>4, <1>5 DEF DeltasOf

\* The first call is answered: with what the backend holds, or by a refusal.
IsAnswered(q, q2, fl, f2, c, d) ==
  /\ q # <<>> /\ c = Head(q) /\ q2 = [q EXCEPT ![1] = d] /\ f2 \ {c.op} = fl \ {c.op}
  /\ d \in ScrubCalls /\ d.op = c.op /\ d.account = c.account /\ d.slot = c.slot /\ CallStands(d)
  /\ c.op \in f2 \/ c.op = "history" \/ d.answer = HeldAt(c.account, c.slot)

LEMMA AnswerFits ==
  ASSUME StateScrubAssumption, NEW p, NEW q, NEW w, NEW fl, Fits(p, q, w, fl),
         NEW c, NEW d, NEW q2, NEW f2, IsAnswered(q, q2, fl, f2, c, d)
  PROVE  Fits(p, q2, w, f2)
<1>0. /\ q # <<>> /\ c = Head(q) /\ q2 = [q EXCEPT ![1] = d] /\ f2 \ {c.op} = fl \ {c.op}
      /\ d \in ScrubCalls /\ d.op = c.op /\ d.account = c.account /\ d.slot = c.slot /\ CallStands(d)
      /\ c.op \in f2 \/ c.op = "history" \/ d.answer = HeldAt(c.account, c.slot)
  BY DEF IsAnswered
<1>1. /\ Sound(p, q, fl) /\ StateComes(p, q, fl) /\ (~w => StateBeforeComes(p, q, fl)) /\ q \in Seq(ScrubCalls)
      /\ (\A k \in 1 .. Len(q) : CallStands(q[k])) /\ (\A k \in 2 .. Len(q) : ~q[k].served) /\ HistoryComes(p, q, fl)
  BY SoundParts DEF Fits
<1>2. /\ q2 \in Seq(ScrubCalls) /\ Len(q2) = Len(q) /\ q2[1] = d /\ q2 # <<>>
      /\ \A k \in 2 .. Len(q) : q2[k] = q[k]
      /\ 1 \in 1 .. Len(q) /\ c = q[1] /\ c \in ScrubCalls
  BY <1>0, <1>1, Served
<1>3. \A k \in 1 .. Len(q) : k = 1 \/ k \in 2 .. Len(q)
  BY <1>1
<1>4. (\A k \in 1 .. Len(q2) : CallStands(q2[k])) /\ \A k \in 2 .. Len(q2) : ~q2[k].served
  BY <1>0, <1>1, <1>2, <1>3
<1>5. \A k \in 1 .. Len(q) : q2[k].op = q[k].op
  BY <1>0, <1>2, <1>3
<1>6. \A op : Of(q2, op) = Of(q, op)
  BY <1>2, <1>5 DEF Of
<1>7. Of(q, c.op) # {}
  BY <1>2 DEF Of
<1>8. ASSUME NEW op, NEW e, LastOf(q, op, e)
      PROVE  \/ e = c /\ op = c.op /\ LastOf(q2, op, d)
             \/ ~e.served /\ LastOf(q2, op, e)
  <2>1. PICK k \in Of(q, op) : q[k] = e /\ \A j \in Of(q, op) : j <= k
    BY <1>8 DEF LastOf
  <2>2. k \in 1 .. Len(q) /\ q[k].op = op
    BY <2>1 DEF Of
  <2>3. LastOf(q2, op, q2[k])
    BY <2>1, <1>6 DEF LastOf
  <2>4. CASE k = 1
    BY <2>1, <2>2, <2>3, <2>4, <1>0, <1>2
  <2>5. CASE k \in 2 .. Len(q)
    BY <2>1, <2>3, <2>5, <1>1, <1>2
  <2> QED
    BY <2>2, <2>4, <2>5, <1>3
<1>9. ASSUME NEW op, NEW s, NEW v, ShownOf(p, q, op, s, v, fl), op \in {"cur", "prev"} PROVE ShownOf(p, q2, op, s, v, f2)
  <2>1. Loose(p, q, s, fl) => Loose(p, q2, s, f2)
    BY <1>0, <1>6, <1>7 DEF Loose
  <2>2. CASE Of(q, op) = {} /\ (op \in fl \/ Good(p, q, s, fl, v))
    <3>1. op # c.op
      BY <2>2, <1>7
    <3>2. op \in fl => op \in f2
      BY <1>0, <3>1
    <3>3. Good(p, q, s, fl, v) => Good(p, q2, s, f2, v)
      BY <2>1 DEF Good
    <3> QED
      BY <2>2, <3>2, <3>3, <1>6 DEF ShownOf
  <2>3. ASSUME NEW e \in ScrubCalls, LastOf(q, op, e), e.account = p.account, e.slot = s PROVE ShownOf(p, q2, op, s, v, f2)
    <3>1. CASE e = c /\ op = c.op /\ LastOf(q2, op, d)
      <4>1. op \in f2 \/ d.answer = HeldAt(p.account, s)
        BY <3>1, <2>3, <1>0, <1>9
      <4> QED
        BY <3>1, <2>3, <4>1, <1>0 DEF ShownOf, Good
    <3>2. CASE ~e.served /\ LastOf(q2, op, e)
      BY <3>2, <2>3 DEF ShownOf
    <3> QED
      BY <2>3, <3>1, <3>2, <1>8
  <2> QED
    BY <1>9, <2>2, <2>3 DEF ShownOf
<1>10. StateComes(p, q2, f2)
  BY <1>1, <1>9 DEF StateComes
<1>11. ASSUME ~w PROVE StateBeforeComes(p, q2, f2)
  <2>1. PICK b : b = LastRow(RowsBefore(p))
    OBVIOUS
  <2>2. StateBeforeComes(p, q, fl)
    BY <1>1, <1>11
  <2>3. ShownOf(p, q, "prev", b, p.prev, fl) => ShownOf(p, q2, "prev", b, p.prev, f2)
    BY <1>9
  <2>4. Of(q, "prev") = {} => ("prev" \in fl => "prev" \in f2)
    BY <1>0, <1>7
  <2> QED
    BY <2>1, <2>2, <2>3, <2>4, <1>6 DEF StateBeforeComes
<1>12. HistoryComes(p, q2, f2)
  <2>1. CASE Of(q, "history") = {} /\ ("history" \in fl \/ DeltasOf(p.deltas, p.account))
    <3>1. "history" \in fl => "history" \in f2
      BY <1>0, <2>1, <1>7
    <3> QED
      BY <2>1, <3>1, <1>6 DEF HistoryComes
  <2>2. CASE Asks(q, "history", p.account, 0)
    <3>1. PICK e \in ScrubCalls : LastOf(q, "history", e) /\ e.account = p.account /\ e.slot = 0
      BY <2>2 DEF Asks
    <3>2. \/ LastOf(q2, "history", e)
          \/ LastOf(q2, "history", d) /\ d.account = p.account /\ d.slot = 0
      BY <1>0, <3>1, <1>8
    <3> QED
      BY <1>0, <3>1, <3>2 DEF HistoryComes, Asks
  <2>3. CASE p.account = NoAccount
    BY <2>3 DEF HistoryComes
  <2> QED
    BY <2>1, <2>2, <2>3, <1>1 DEF HistoryComes
<1>13. Sound(p, q2, f2)
  BY <1>1, <1>2, <1>4, <1>12, SoundParts DEF Sound
<1> QED
  BY <1>10, <1>11, <1>13 DEF Fits

LEMMA ServeScrubKeeps ==
  ASSUME StateScrubAssumption, ScrubIInv, ServeScrub \/ RefuseScrub
  PROVE  ScrubIInv'
<1>1. PICK p, q, w, fl : p = seen /\ q = calls /\ w = prevRaced /\ fl = failed /\ Fits(p, q, w, fl)
  BY DEF ScrubIInv
<1>2. /\ q # <<>> /\ UNCHANGED <<hist, seen, moves, prevRaced>> /\ q \in Seq(ScrubCalls)
      /\ \A k \in 1 .. Len(q) : CallStands(q[k])
  BY <1>1, SoundParts DEF ServeScrub, RefuseScrub, Fits
<1>3. PICK c, q2, f2 : c = Head(q) /\ q2 = calls' /\ f2 = failed'
  OBVIOUS
<1>4. Head(q) = q[1] /\ 1 \in 1 .. Len(q) /\ c = q[1] /\ c \in ScrubCalls /\ CallStands(c)
  BY <1>2, <1>3
<1>5. c.account \in Accounts /\ c.slot \in 0 .. MaxSlot
  BY <1>4 DEF ScrubCalls
<1>6. PICK a, rows :
        /\ a \in State /\ rows \in SUBSET ScrubRow /\ (c.op = "history" => DeltasOf(rows, c.account))
        /\ c.op # "history" => a \in {HeldAt(c.account, c.slot), Nothing}
        /\ q2 = [q EXCEPT ![1] = [c EXCEPT !.served = TRUE, !.answer = a, !.rows = rows]]
        /\ f2 \ {c.op} = fl \ {c.op}
        /\ c.op \in f2 \/ c.op = "history" \/ a = HeldAt(c.account, c.slot)
  <2>1. HeldAt(c.account, c.slot) \in State /\ Nothing \in State
    BY <1>5 DEF HeldAt, Nothing, State, Missing, ScrubIInv, TypesOfScrub
  <2>2. CASE ServeScrub
    <3>1. Deltas(c.account) \in SUBSET ScrubRow /\ DeltasOf(Deltas(c.account), c.account)
      BY <1>5, DeltasAnswered
    <3>2. PICK a, rows : /\ a = IF c.op = "history" THEN Nothing ELSE HeldAt(c.account, c.slot)
                         /\ rows = IF c.op = "history" THEN Deltas(c.account) ELSE {}
      OBVIOUS
    <3>3. /\ q2 = [q EXCEPT ![1] = [c EXCEPT !.served = TRUE, !.answer = a, !.rows = rows]]
          /\ f2 = fl \ {c.op}
      BY <2>2, <3>2, <1>1, <1>3, <1>4 DEF ServeScrub
    <3>4. a \in State /\ rows \in SUBSET ScrubRow /\ (c.op = "history" => DeltasOf(rows, c.account))
      BY <2>1, <3>1, <3>2
    <3> QED
      BY <3>2, <3>3, <3>4
  <2>3. CASE RefuseScrub
    <3>1. DeltasOf({}, c.account)
      BY DEF DeltasOf, SlotsOf
    <3>2. /\ q2 = [q EXCEPT ![1] = [c EXCEPT !.served = TRUE, !.answer = Nothing, !.rows = {}]]
          /\ f2 = fl \cup {c.op}
      BY <2>3, <1>1, <1>3, <1>4 DEF RefuseScrub
    <3>3. f2 \ {c.op} = fl \ {c.op} /\ c.op \in f2
      BY <3>2
    <3> QED
      BY <2>1, <3>1, <3>2, <3>3
  <2> QED
    BY <2>2, <2>3
<1>7. PICK d : d = [c EXCEPT !.served = TRUE, !.answer = a, !.rows = rows]
  OBVIOUS
<1>8. /\ d \in ScrubCalls /\ d.op = c.op /\ d.account = c.account /\ d.slot = c.slot
      /\ d.answer = a /\ d.rows = rows
  BY <1>4, <1>6, <1>7 DEF ScrubCalls
<1>9. CallStands(d)
  BY <1>4, <1>6, <1>8 DEF CallStands
<1>10. Fits(p, q2, w, f2)
  <2>1. q2 = [q EXCEPT ![1] = d]
    BY <1>6, <1>7, Zenon
  <2>2. c.op \in f2 \/ c.op = "history" \/ d.answer = HeldAt(c.account, c.slot)
    BY <1>6, <1>8
  <2>3. f2 \ {c.op} = fl \ {c.op} /\ c = Head(q) /\ q # <<>> /\ Fits(p, q, w, fl)
    BY <1>1, <1>2, <1>3, <1>6
  <2> QED
    <3>1. IsAnswered(q, q2, fl, f2, c, d)
      BY <1>8, <1>9, <2>1, <2>2, <2>3 DEF IsAnswered
    <3> QED
      BY <2>3, <3>1, AnswerFits
<1>11. Fits(p, q2, w, f2)' /\ p = seen' /\ w = prevRaced'
  BY <1>1, <1>2, <1>10, QuietHistory
<1>12. TypesOfScrub'
  BY <1>2 DEF ScrubIInv, TypesOfScrub
<1> QED
  BY <1>3, <1>11, <1>12, BecomesSound

LEMMA ScrubImplied ==
  ASSUME StateScrubAssumption, ScrubIInv
  PROVE  ScrubInv
<1>1. PICK p, q, w, fl : p = seen /\ q = calls /\ w = prevRaced /\ fl = failed /\ Fits(p, q, w, fl)
  BY DEF ScrubIInv
<1>2. Sound(p, q, fl) /\ StateComes(p, q, fl) /\ (~w => StateBeforeComes(p, q, fl)) /\ SlotsOf(p.deltas) \in SUBSET Slots
  BY <1>1, SoundParts DEF Fits
<1>3. ScrubTypeOK
  BY <1>1, <1>2, SoundParts DEF ScrubTypeOK
<1>4. ASSUME q = <<>>
      PROVE  /\ \A op : Of(q, op) = {}
             /\ \A a, s : ~Asks(q, "history", a, s)
             /\ \A op, s, v : ShownOf(p, q, op, s, v, fl) /\ op \notin fl =>
                  v = HeldAt(p.account, s) \/ (v = Nothing /\ (s \notin SlotsOf(p.deltas) \/ "history" \in fl))
  <2>1. \A op : Of(q, op) = {}
    BY <1>4 DEF Of
  <2> QED
    BY <2>1 DEF Asks, LastOf, ShownOf, Good, Loose
<1>5. StateIsAtTheSlot
  BY <1>1, <1>2, <1>4 DEF StateIsAtTheSlot, Settled, StateComes
<1>6. ASSUME q = <<>>, p.slot > 0, ~w, "prev" \notin fl
      PROVE  \/ RowsBefore(p) = {} /\ p.prev = Nothing
             \/ RowsBefore(p) # {} /\ p.prev = HeldAt(p.account, LastRow(RowsBefore(p)))
             \/ p.prev = Nothing /\ "history" \in fl
  <2>1. CASE RowsBefore(p) = {}
    BY <2>1, <1>2, <1>6 DEF StateBeforeComes
  <2>2. CASE RowsBefore(p) # {}
    <3>1. PICK b : b = LastRow(RowsBefore(p))
      OBVIOUS
    <3>2. b \in SlotsOf(p.deltas)
      <4>1. RowsBefore(p) \in SUBSET Slots /\ RowsBefore(p) \subseteq SlotsOf(p.deltas)
        BY <1>2 DEF RowsBefore, Before
      <4> QED
        BY <4>1, <3>1, <2>2, LatestRow
    <3>3. ShownOf(p, q, "prev", b, p.prev, fl)
      BY <2>2, <3>1, <1>2, <1>6 DEF StateBeforeComes
    <3> QED
      BY <2>2, <3>1, <3>2, <3>3, <1>4, <1>6
  <2> QED
    BY <2>1, <2>2
<1>7. ComparedWithTheRowBefore
  BY <1>1, <1>6 DEF ComparedWithTheRowBefore, Settled, RowsBefore
<1>8. DiffAgreesWithTheHistory
  <2> SUFFICES ASSUME NEW d \in p.deltas, q = <<>>, p.account # NoAccount, ~w, fl = {}, d.slot = p.slot
               PROVE  /\ d.fields \subseteq SimpleDiff
                      /\ \A f \in SimpleDiff \ d.fields : seen.cur[f] = Missing
    BY <1>1 DEF DiffAgreesWithTheHistory, Settled
  <2>1. DeltasOf(p.deltas, p.account)
    BY <1>2, <1>4, SoundParts DEF HistoryComes
  <2>2. d.slot \in SlotsOf(p.deltas) /\ p.slot > 0
    <3>1. d.slot \in SlotsOf(p.deltas)
      BY DEF SlotsOf
    <3> QED
      BY <3>1, <1>2 DEF Slots
  <2>3. p.cur = HeldAt(p.account, p.slot)
    BY <2>2, <1>2, <1>4 DEF StateComes
  <2>4. p.prev = IF RowsBefore(p) = {} THEN Nothing ELSE HeldAt(p.account, LastRow(RowsBefore(p)))
    BY <2>2, <1>6
  <2>5. d.fields = {f \in Fields : p.cur[f] # Missing /\ p.cur[f] # p.prev[f]}
    <3>1. d.fields = ChangedFields(SlotsOf(p.deltas), p.account, p.slot)
      BY <2>1 DEF DeltasOf
    <3>2. ChangedFields(SlotsOf(p.deltas), p.account, p.slot) =
            {f \in Fields : p.cur[f] # Missing /\ p.cur[f] # p.prev[f]}
      BY <2>3, <2>4 DEF ChangedFields, RowsBefore
    <3> QED
      BY <3>1, <3>2
  <2> QED
    BY <2>5, <1>1 DEF SimpleDiff
<1> QED
  BY <1>3, <1>5, <1>7, <1>8 DEF ScrubInv

\* However fast accounts are chosen and the slider is moved while the decoder writes rows
\* in any order, whichever calls fail or are refused: at rest the state panel shows the
\* state at its slot, unless reading it failed, compares it with the row before in the
\* history it read, and its difference is what that history calls changed there.
THEOREM ScrubInvariant == ScrubSpec => []ScrubInv
<1>1. ScrubInit => ScrubIInv
  BY StateScrubAssumption, ScrubStart
<1>2. ASSUME ScrubIInv, [ScrubNext]_scrubVars PROVE ScrubIInv'
  <2>1. CASE Decode
    <3>1. PICK p, q, w, fl : p = seen /\ q = calls /\ w = prevRaced /\ fl = failed /\ Fits(p, q, w, fl)
      BY <1>2 DEF ScrubIInv
    <3>2. UNCHANGED <<calls, seen, moves, prevRaced, failed>>
      BY <2>1 DEF Decode
    <3>3. hist \in [Accounts -> [Slots -> State]]
      BY <1>2 DEF ScrubIInv, TypesOfScrub
    <3>4. Fits(p, q, w, fl)' /\ hist' \in [Accounts -> [Slots -> State]]
      BY <2>1, <3>1, <3>3, StateScrubAssumption, DecodeKeeps, RowsStand
    <3>5. TypesOfScrub'
      BY <1>2, <3>2, <3>4 DEF ScrubIInv, TypesOfScrub
    <3> QED
      BY <3>1, <3>2, <3>4, <3>5, BecomesSound
  <2>2. CASE UNCHANGED scrubVars
    <3>1. PICK p, q, w, fl : p = seen /\ q = calls /\ w = prevRaced /\ fl = failed /\ Fits(p, q, w, fl)
      BY <1>2 DEF ScrubIInv
    <3>2. Fits(p, q, w, fl)'
      BY <2>2, <3>1, QuietHistory DEF scrubVars
    <3>3. TypesOfScrub'
      BY <1>2, <2>2 DEF ScrubIInv, TypesOfScrub, scrubVars
    <3> QED
      BY <2>2, <3>1, <3>2, <3>3, BecomesSound DEF scrubVars
  <2>3. CASE ServeScrub \/ RefuseScrub
    BY <2>3, <1>2, StateScrubAssumption, ServeScrubKeeps
  <2>4. CASE HistoryRead
    BY <2>4, <1>2, StateScrubAssumption, HistoryKeeps
  <2>5. CASE StateRead
    BY <2>5, <1>2, StateScrubAssumption, StateKeeps
  <2>6. CASE ScrubCallFails
    BY <2>6, <1>2, StateScrubAssumption, ScrubFailKeeps
  <2>7. CASE \E a \in Accounts : Choose(a)
    BY <2>7, <1>2, StateScrubAssumption, ChooseKeeps
  <2>8. CASE \E s \in Slots : Slide(s)
    BY <2>8, <1>2, StateScrubAssumption, SlideKeeps
  <2> QED
    BY <1>2, <2>1, <2>2, <2>3, <2>4, <2>5, <2>6, <2>7, <2>8 DEF ScrubNext
<1>3. ScrubIInv => ScrubInv
  BY StateScrubAssumption, ScrubImplied
<1> QED
  BY <1>1, <1>2, <1>3, PTL DEF ScrubSpec
-----------------------------------------------------------------------------
(* Dashboards.  m is the number of panels added so far.                     *)

Widgets(m) == [made : 1 .. m, gen : Nat, query : Queries \cup {NoQuery}, moved : BOOLEAN]
JobOps == {"load", "save", "layout", "share", "revoke", "install"}
WorkJobs(m) ==
  [op : JobOps, at : {"ask", "create", "told"}, list : SUBSET Widgets(m), calm : BOOLEAN, slug : Nat, token : Nat,
   refused : BOOLEAN]
Timers(m) == [set : BOOLEAN, list : SUBSET Widgets(m), calm : BOOLEAN]
WorkTabType(m) ==
  [calls : Seq(WorkJobs(m)), open : BOOLEAN, shown : SUBSET Widgets(m), timer : Timers(m),
   edit : Widgets(m) \cup {NoPanel}, query : Queries \cup {NoQuery}, token : Nat, seen : Nat,
   failed : SUBSET {"panels", "token"}]

\* What a queue of calls says: the board will be loaded again; a layout is still
\* to be saved; the head was loaded; only the head is served, or was calm.
LoadsAgain(c) == c.op \in {"save", "install", "revoke"} \/ (c.op = "load" /\ c.at = "ask")
Returning(q) == \E i \in 1 .. Len(q) : LoadsAgain(q[i])
Arranging(q) == \E i \in 1 .. Len(q) : q[i].op = "layout" /\ q[i].at = "ask"
JustLoaded(q) == q # <<>> /\ Head(q).op = "load" /\ Head(q).at = "told"
OthersAsk(q) == \A i \in 2 .. Len(q) : q[i].at = "ask" /\ ~q[i].calm
NoLayout(q) == \A i \in 1 .. Len(q) : q[i].op # "layout"
LastLayoutIs(q, l) ==
  \A i \in 1 .. Len(q) : q[i].op = "layout" /\ (\A j \in 1 .. Len(q) : j > i => q[j].op # "layout") => q[i].list = l

TimerOK(p) == p.timer.set => (p.open => p.timer.list = p.shown) /\ (p.timer.calm => NoLayout(p.calls))
LayoutOK(p) == p.open => p.timer.set \/ LastLayoutIs(p.calls, p.shown)
LoadedOK(p, b) ==
  p.seen = b.patches /\ JustLoaded(p.calls) /\ ~Head(p.calls).refused => Head(p.calls).list = b.panels
ShownOK(p, b) ==
  p.open /\ p.seen = b.patches /\ "panels" \notin p.failed
  /\ ~Returning(p.calls) /\ ~Arranging(p.calls) /\ ~JustLoaded(p.calls) =>
    /\ ~p.timer.set => Content(b.panels) = Content(p.shown)
    /\ p.timer.set /\ p.timer.calm => MadeOf(b.panels) \subseteq MadeOf(p.shown)
CalmOK(p, b) ==
  p.calls # <<>> /\ Head(p.calls).op \in {"save", "layout"} /\ Head(p.calls).at = "ask" /\ Head(p.calls).calm
  /\ p.seen = b.patches => MadeOf(b.panels) \subseteq MadeOf(Head(p.calls).list)
Telling(q, op) == q # <<>> /\ Head(q).at = "told" /\ Head(q).op = op
Links(p, b, v) == v = b.token \/ (v = 0 /\ "token" \in p.failed)
ShareOK(p, b, t) ==
  t \in b.by =>
    /\ Telling(p.calls, "share") => Links(p, b, Head(p.calls).token)
    /\ Telling(p.calls, "revoke") => Links(p, b, 0)
    /\ ~Telling(p.calls, "share") /\ ~Telling(p.calls, "revoke") => Links(p, b, p.token)
CreateOK(q) == q # <<>> /\ Head(q).at = "create" => Head(q).op = "install"

\* A call that asks was neither refused nor told a token, and no list to store is empty.
JobFits(c) == (c.op \in {"save", "layout"} => c.list # {}) /\ (c.at # "told" => ~c.refused /\ c.token = 0)
JobsFit(q) == \A i \in 1 .. Len(q) : JobFits(q[i])

\* Without dashboards nothing is shown, and they are about to be loaded unless that failed.
OpenOK(p) ==
  /\ ~p.open => p.shown = {} /\ ("panels" \in p.failed \/ Returning(p.calls) \/ JustLoaded(p.calls))
  /\ JustLoaded(p.calls) /\ Head(p.calls).refused => "panels" \in p.failed

\* A dashboard without panels never had any: no tab holds one.
Bare(p) == p.shown = {} /\ ~p.timer.set /\ NoLayout(p.calls)
LoadedHead(q) == JustLoaded(q) /\ ~Head(q).refused
FilledOK(p, b) ==
  /\ JobsFit(p.calls) /\ (p.timer.set => p.timer.list # {}) /\ (b.panels = {} => Bare(p))
  /\ LoadedHead(p.calls) /\ Head(p.calls).list = {} => Bare(p)
  /\ LoadedHead(p.calls) /\ Head(p.calls).list # {} => b.panels # {}

\* No panel twice, unless a list was loaded under an open editor.
Single(l) == \A p, q \in l : p.made = q.made => p = q
EditOK(p) ==
  p.edit # NoPanel /\ p.edit.made \in MadeOf(p.shown) => \E r \in p.shown : r.made = p.edit.made /\ r.gen = p.edit.gen
AllSingle(q) == \A i \in 1 .. Len(q) : Single(q[i].list)
SinglesOK(p) == Single(p.shown) /\ Single(p.timer.list) /\ AllSingle(p.calls) /\ EditOK(p)

WorkTabOK(p, b, t, m, single) ==
  /\ p \in WorkTabType(m) /\ p.seen <= b.patches /\ OthersAsk(p.calls) /\ CreateOK(p.calls)
  /\ TimerOK(p) /\ LayoutOK(p) /\ LoadedOK(p, b) /\ ShownOK(p, b) /\ CalmOK(p, b) /\ ShareOK(p, b, t)
  /\ OpenOK(p) /\ FilledOK(p, b)
  /\ single => SinglesOK(p)
BoardOK(b, m, single) ==
  /\ b \in [panels : SUBSET Widgets(m), patches : Nat, token : Nat, by : SUBSET WorkTabs]
  /\ \A p \in b.panels : p.gen \in 0 .. b.patches
  /\ single => Single(b.panels)
CountsOK ==
  /\ count \in [made : 0 .. MaxMade, acts : Nat, throws : Nat, tokens : Nat]
  /\ overlap \in [losses : SUBSET [calm : BOOLEAN, fresh : BOOLEAN], reloaded : BOOLEAN]
  /\ LossNeedsAnOverlap

WorkIInv ==
  /\ CountsOK /\ BoardOK(board, count.made, ~overlap.reloaded) /\ work = [t \in WorkTabs |-> work[t]]
  /\ \A t \in WorkTabs : WorkTabOK(work[t], board, t, count.made, ~overlap.reloaded)

-----------------------------------------------------------------------------
(* Queues of calls. *)

JobJoined(q, r, c, m) ==
  /\ r \in Seq(WorkJobs(m)) /\ r # <<>> /\ OthersAsk(r) /\ (q # <<>> => Head(r) = Head(q)) /\ (q = <<>> => Head(r) = c)
  /\ (Returning(r) <=> Returning(q) \/ LoadsAgain(c)) /\ (Arranging(r) <=> Arranging(q) \/ c.op = "layout")
  /\ (NoLayout(r) <=> NoLayout(q) /\ c.op # "layout")
  /\ \A l : c.op # "layout" /\ LastLayoutIs(q, l) => LastLayoutIs(r, l)
  /\ c.op = "layout" => LastLayoutIs(r, c.list)
  /\ AllSingle(q) /\ Single(c.list) => AllSingle(r)
  /\ JobsFit(q) /\ JobFits(c) => JobsFit(r)

LEMMA JobJoins ==
  ASSUME NEW m \in Nat, NEW q \in Seq(WorkJobs(m)), OthersAsk(q), NEW c \in WorkJobs(m), c.at = "ask", q # <<>> => ~c.calm,
         NEW r, r = Append(q, c)
  PROVE  JobJoined(q, r, c, m)
<1>1. /\ r \in Seq(WorkJobs(m)) /\ Len(q) \in Nat /\ Len(r) = Len(q) + 1 /\ r[Len(q) + 1] = c
      /\ \A i \in 1 .. Len(q) : r[i] = q[i]
  OBVIOUS
<1>2. \A i \in 1 .. Len(r) : i \in 1 .. Len(q) \/ i = Len(q) + 1
  BY <1>1
<1>3. \A i \in 1 .. Len(q) : i \in 1 .. Len(r)
  BY <1>1
<1>4. Len(q) + 1 \in 1 .. Len(r)
  BY <1>1
<1>5. r # <<>> /\ (q # <<>> => Head(r) = Head(q)) /\ (q = <<>> => Head(r) = c)
  BY <1>1
<1>6. OthersAsk(r)
  <2> SUFFICES ASSUME NEW i \in 2 .. Len(r) PROVE r[i].at = "ask" /\ ~r[i].calm
    BY DEF OthersAsk
  <2>1. (i \in 2 .. Len(q) /\ i \in 1 .. Len(q)) \/ (i = Len(q) + 1 /\ Len(q) # 0)
    BY <1>1
  <2>2. Len(q) # 0 => q # <<>>
    OBVIOUS
  <2> QED
    BY <1>1, <2>1, <2>2 DEF OthersAsk
<1>7. Returning(r) <=> Returning(q) \/ LoadsAgain(c)
  BY <1>1, <1>2, <1>3, <1>4 DEF Returning
<1>8. Arranging(r) <=> Arranging(q) \/ c.op = "layout"
  BY <1>1, <1>2, <1>3, <1>4 DEF Arranging
<1>9. NoLayout(r) <=> NoLayout(q) /\ c.op # "layout"
  BY <1>1, <1>2, <1>3, <1>4 DEF NoLayout
<1>10. ASSUME NEW l, c.op # "layout", LastLayoutIs(q, l) PROVE LastLayoutIs(r, l)
  <2> SUFFICES ASSUME NEW i \in 1 .. Len(r), r[i].op = "layout", \A j \in 1 .. Len(r) : j > i => r[j].op # "layout"
               PROVE  r[i].list = l
    BY DEF LastLayoutIs
  <2>1. i \in 1 .. Len(q)
    BY <1>1, <1>2, <1>10
  <2>2. \A j \in 1 .. Len(q) : j > i => q[j].op # "layout"
    BY <1>1, <1>3
  <2> QED
    BY <1>1, <1>10, <2>1, <2>2 DEF LastLayoutIs
<1>11. c.op = "layout" => LastLayoutIs(r, c.list)
  <2> SUFFICES ASSUME c.op = "layout", NEW i \in 1 .. Len(r), \A j \in 1 .. Len(r) : j > i => r[j].op # "layout"
               PROVE  r[i].list = c.list
    BY DEF LastLayoutIs
  <2>1. ~(Len(q) + 1 > i)
    BY <1>1, <1>4
  <2>2. i = Len(q) + 1
    BY <1>1, <1>2, <2>1
  <2> QED
    BY <1>1, <2>2
<1>12. AllSingle(q) /\ Single(c.list) => AllSingle(r)
  BY <1>1, <1>2 DEF AllSingle
<1>13. JobsFit(q) /\ JobFits(c) => JobsFit(r)
  BY <1>1, <1>2 DEF JobsFit
<1> QED
  BY <1>1, <1>5, <1>6, <1>7, <1>8, <1>9, <1>10, <1>11, <1>12, <1>13 DEF JobJoined

JobAnswered(q, r, c, m) ==
  /\ r \in Seq(WorkJobs(m)) /\ r # <<>> /\ OthersAsk(r) /\ Head(r) = c
  /\ (Returning(q) /\ c.op # "load" => Returning(r)) /\ (Arranging(q) /\ c.op # "layout" => Arranging(r))
  /\ NoLayout(q) => NoLayout(r)
  /\ \A l : (c.op = "layout" => c.list = Head(q).list) /\ LastLayoutIs(q, l) => LastLayoutIs(r, l)
  /\ \A l : c.op = "layout" /\ ~Arranging(r) /\ LastLayoutIs(q, l) => Head(q).list = l
  /\ AllSingle(q) /\ Single(c.list) => AllSingle(r)
  /\ JobsFit(q) /\ JobFits(c) => JobsFit(r)

LEMMA JobAnswers ==
  ASSUME NEW m \in Nat, NEW q \in Seq(WorkJobs(m)), OthersAsk(q), q # <<>>, NEW c \in WorkJobs(m), c.op = Head(q).op,
         c.op \in {"save", "install", "revoke"} \/ c.op = "load" \/ ~LoadsAgain(Head(q)), NEW r, r = [q EXCEPT ![1] = c]
  PROVE  JobAnswered(q, r, c, m)
<1>1. Len(q) \in Nat /\ 1 \in 1 .. Len(q) /\ Head(q) = q[1]
  OBVIOUS
<1>2. /\ r \in Seq(WorkJobs(m)) /\ Len(r) = Len(q) /\ r[1] = c
      /\ \A i \in 1 .. Len(q) : i # 1 => r[i] = q[i]
  BY <1>1
<1>3. r # <<>> /\ Head(r) = c
  BY <1>1, <1>2
<1>4. \A i \in 1 .. Len(q) : r[i].op = q[i].op
  BY <1>1, <1>2
<1>5. \A i \in 2 .. Len(q) : i \in 1 .. Len(q) /\ i # 1
  BY <1>1
<1>6. OthersAsk(r)
  BY <1>2, <1>5 DEF OthersAsk
<1>7. Returning(q) /\ c.op # "load" => Returning(r)
  <2>1. ASSUME NEW i \in 1 .. Len(q), LoadsAgain(q[i]), c.op # "load" PROVE LoadsAgain(r[i])
    <3>1. CASE i = 1
      BY <1>1, <1>2, <2>1, <3>1 DEF LoadsAgain
    <3>2. CASE i # 1
      BY <1>2, <2>1, <3>2
    <3> QED
      BY <3>1, <3>2
  <2> QED
    BY <1>2, <2>1 DEF Returning
<1>8. Arranging(q) /\ c.op # "layout" => Arranging(r)
  <2>1. ASSUME NEW i \in 1 .. Len(q), q[i].op = "layout", c.op # "layout" PROVE r[i] = q[i]
    BY <1>1, <1>2, <2>1
  <2> QED
    BY <1>2, <2>1 DEF Arranging
<1>9. NoLayout(q) => NoLayout(r)
  BY <1>2, <1>4 DEF NoLayout
<1>10. ASSUME NEW l, c.op = "layout" => c.list = Head(q).list, LastLayoutIs(q, l) PROVE LastLayoutIs(r, l)
  <2> SUFFICES ASSUME NEW i \in 1 .. Len(r), r[i].op = "layout", \A j \in 1 .. Len(r) : j > i => r[j].op # "layout"
               PROVE  r[i].list = l
    BY DEF LastLayoutIs
  <2>1. i \in 1 .. Len(q) /\ q[i].op = "layout" /\ \A j \in 1 .. Len(q) : j > i => q[j].op # "layout"
    BY <1>2, <1>4
  <2>2. q[i].list = l
    BY <1>10, <2>1 DEF LastLayoutIs
  <2>3. CASE i = 1
    BY <1>1, <1>2, <1>10, <2>2, <2>3
  <2>4. CASE i # 1
    BY <1>2, <2>1, <2>2, <2>4
  <2> QED
    BY <2>3, <2>4
<1>11. ASSUME NEW l, c.op = "layout", ~Arranging(r), LastLayoutIs(q, l) PROVE Head(q).list = l
  <2>1. ASSUME NEW j \in 1 .. Len(q), j > 1 PROVE q[j].op # "layout"
    <3>1. j \in 2 .. Len(q) /\ j # 1
      BY <1>1, <2>1
    <3>2. q[j].at = "ask" /\ r[j] = q[j]
      BY <1>2, <3>1 DEF OthersAsk
    <3> QED
      BY <1>2, <1>11, <3>2 DEF Arranging
  <2>2. q[1].op = "layout"
    BY <1>1, <1>11
  <2> QED
    BY <1>1, <1>11, <2>1, <2>2 DEF LastLayoutIs
<1>12. AllSingle(q) /\ Single(c.list) => AllSingle(r)
  <2>1. ASSUME NEW i \in 1 .. Len(r), AllSingle(q), Single(c.list) PROVE Single(r[i].list)
    <3>1. CASE i = 1
      BY <1>2, <2>1, <3>1
    <3>2. CASE i # 1
      BY <1>2, <2>1, <3>2 DEF AllSingle
    <3> QED
      BY <3>1, <3>2
  <2> QED
    BY <2>1 DEF AllSingle
<1>13. JobsFit(q) /\ JobFits(c) => JobsFit(r)
  <2>1. ASSUME NEW i \in 1 .. Len(r), JobsFit(q), JobFits(c) PROVE JobFits(r[i])
    <3>1. CASE i = 1
      BY <1>2, <2>1, <3>1
    <3>2. CASE i # 1
      BY <1>2, <2>1, <3>2 DEF JobsFit
    <3> QED
      BY <3>1, <3>2
  <2> QED
    BY <2>1 DEF JobsFit
<1> QED
  BY <1>2, <1>3, <1>6, <1>7, <1>8, <1>9, <1>10, <1>11, <1>12, <1>13 DEF JobAnswered

JobLeft(q, r, m) ==
  /\ r \in Seq(WorkJobs(m)) /\ OthersAsk(r) /\ (r # <<>> => Head(r).at = "ask" /\ ~Head(r).calm)
  /\ (Returning(q) <=> Returning(r) \/ LoadsAgain(Head(q)))
  /\ (Arranging(q) <=> Arranging(r) \/ (Head(q).op = "layout" /\ Head(q).at = "ask"))
  /\ (NoLayout(q) => NoLayout(r)) /\ (Len(q) = 1 => NoLayout(r))
  /\ \A l : LastLayoutIs(q, l) => LastLayoutIs(r, l)
  /\ (AllSingle(q) => AllSingle(r)) /\ (JobsFit(q) => JobsFit(r))

LEMMA JobLeaves ==
  ASSUME NEW m \in Nat, NEW q \in Seq(WorkJobs(m)), OthersAsk(q), q # <<>>, NEW r, r = Tail(q)
  PROVE  JobLeft(q, r, m)
<1>1. /\ Len(q) \in Nat /\ Len(q) >= 1 /\ Head(q) = q[1] /\ r \in Seq(WorkJobs(m)) /\ Len(r) = Len(q) - 1
      /\ \A i \in 1 .. Len(r) : r[i] = q[i + 1]
  OBVIOUS
<1>2. \A i \in 1 .. Len(q) : i = 1 \/ (i - 1 \in 1 .. Len(r) /\ r[i - 1] = q[i])
  <2> SUFFICES ASSUME NEW i \in 1 .. Len(q), i # 1 PROVE i - 1 \in 1 .. Len(r) /\ r[i - 1] = q[i]
    OBVIOUS
  <2>1. i - 1 \in 1 .. Len(r) /\ (i - 1) + 1 = i
    BY <1>1
  <2> QED
    BY <1>1, <2>1
<1>3. \A i \in 1 .. Len(r) : i + 1 \in 1 .. Len(q) /\ i + 1 \in 2 .. Len(q) /\ r[i] = q[i + 1]
  BY <1>1
<1>4. 1 \in 1 .. Len(q)
  BY <1>1
<1>5. \A i \in 1 .. Len(r) : r[i].at = "ask" /\ ~r[i].calm
  BY <1>3 DEF OthersAsk
<1>6. OthersAsk(r)
  <2>1. \A i \in 2 .. Len(r) : i \in 1 .. Len(r)
    BY <1>1
  <2> QED
    BY <1>5, <2>1 DEF OthersAsk
<1>7. r # <<>> => Head(r).at = "ask" /\ ~Head(r).calm
  <2>1. r \in Seq(WorkJobs(m))
    BY <1>1
  <2>2. r # <<>> => 1 \in 1 .. Len(r) /\ Head(r) = r[1]
    BY <2>1
  <2> QED
    BY <1>5, <2>2
<1>8. Returning(q) <=> Returning(r) \/ LoadsAgain(Head(q))
  BY <1>1, <1>2, <1>3, <1>4 DEF Returning
<1>9. Arranging(q) <=> Arranging(r) \/ (Head(q).op = "layout" /\ Head(q).at = "ask")
  BY <1>1, <1>2, <1>3, <1>4 DEF Arranging
<1>10. NoLayout(q) => NoLayout(r)
  BY <1>3 DEF NoLayout
<1>11. Len(q) = 1 => NoLayout(r)
  BY <1>1 DEF NoLayout
<1>12. ASSUME NEW l, LastLayoutIs(q, l) PROVE LastLayoutIs(r, l)
  <2> SUFFICES ASSUME NEW i \in 1 .. Len(r), r[i].op = "layout", \A j \in 1 .. Len(r) : j > i => r[j].op # "layout"
               PROVE  r[i].list = l
    BY DEF LastLayoutIs
  <2>1. ASSUME NEW j \in 1 .. Len(q), j > i + 1 PROVE q[j].op # "layout"
    <3>1. j # 1 /\ j - 1 > i
      BY <1>1, <2>1
    <3>2. j - 1 \in 1 .. Len(r) /\ r[j - 1] = q[j]
      BY <1>2, <3>1
    <3> QED
      BY <3>1, <3>2
  <2> QED
    BY <1>3, <1>12, <2>1 DEF LastLayoutIs
<1>13. AllSingle(q) => AllSingle(r)
  BY <1>3 DEF AllSingle
<1>14. JobsFit(q) => JobsFit(r)
  BY <1>3 DEF JobsFit
<1> QED
  BY <1>1, <1>6, <1>7, <1>8, <1>9, <1>10, <1>11, <1>12, <1>13, <1>14 DEF JobLeft

-----------------------------------------------------------------------------
(* Lists of panels. *)

LEMMA WidgetsGrow ==
  ASSUME NEW m \in Nat, NEW m2 \in Nat, m <= m2
  PROVE  Widgets(m) \subseteq Widgets(m2) /\ WorkTabType(m) \subseteq WorkTabType(m2)
<1>1. 1 .. m \subseteq 1 .. m2
  OBVIOUS
<1>2. Widgets(m) \subseteq Widgets(m2)
  BY <1>1 DEF Widgets
<1>3. WorkJobs(m) \subseteq WorkJobs(m2)
  BY <1>2 DEF WorkJobs
<1>4. Seq(WorkJobs(m)) \subseteq Seq(WorkJobs(m2))
  BY <1>3
<1>5. Timers(m) \subseteq Timers(m2)
  BY <1>2 DEF Timers
<1>6. WorkTabType(m) \subseteq WorkTabType(m2)
  <2> SUFFICES ASSUME NEW p \in WorkTabType(m) PROVE p \in WorkTabType(m2)
    OBVIOUS
  <2> QED
    BY <1>2, <1>4, <1>5 DEF WorkTabType
<1> QED
  BY <1>2, <1>6

LEMMA ContentMade ==
  ASSUME NEW m, NEW a \in SUBSET Widgets(m), NEW b \in SUBSET Widgets(m), Content(a) = Content(b)
  PROVE  MadeOf(a) \subseteq MadeOf(b)
<1> SUFFICES ASSUME NEW x \in a PROVE \E y \in b : x.made = y.made
  BY DEF MadeOf
<1>1. [x EXCEPT !.gen = 0] \in Content(b)
  BY DEF Content
<1>2. PICK y \in b : [x EXCEPT !.gen = 0] = [y EXCEPT !.gen = 0]
  BY <1>1 DEF Content
<1>3. x \in Widgets(m) /\ y \in Widgets(m)
  OBVIOUS
<1>4. [x EXCEPT !.gen = 0].made = x.made /\ [y EXCEPT !.gen = 0].made = y.made
  BY <1>3 DEF Widgets
<1> QED
  BY <1>2, <1>4

PanelPut(list, w, l) ==
  /\ MadeOf(list) \subseteq MadeOf(l)
  /\ Single(list) /\ (w.made \in MadeOf(list) => \E r \in list : r.made = w.made /\ r.gen = w.gen) => Single(l)
LEMMA WithPanelIs ==
  ASSUME NEW m, NEW list \in SUBSET Widgets(m), NEW w \in Widgets(m), NEW l, l = WithPanel(list, w)
  PROVE  l \in SUBSET Widgets(m) /\ PanelPut(list, w, l)
<1>1. l \in SUBSET Widgets(m) /\ w \in l
  BY DEF WithPanel
<1>2. \A x \in l : x = w \/ (x \in list /\ (x.made # w.made \/ x.gen # w.gen))
  BY DEF WithPanel
<1>3. MadeOf(list) \subseteq MadeOf(l)
  <2> SUFFICES ASSUME NEW x \in list PROVE \E y \in l : x.made = y.made
    BY DEF MadeOf
  <2> QED
    BY <1>1 DEF WithPanel
<1>4. ASSUME Single(list), w.made \in MadeOf(list) => \E r \in list : r.made = w.made /\ r.gen = w.gen PROVE Single(l)
  <2>1. ASSUME NEW x \in list, x.made = w.made PROVE x.gen = w.gen
    <3>1. w.made \in MadeOf(list)
      BY <2>1 DEF MadeOf
    <3> QED
      BY <1>4, <2>1, <3>1 DEF Single
  <2> QED
    BY <1>2, <1>4, <2>1 DEF Single
<1> QED
  BY <1>1, <1>3, <1>4 DEF PanelPut

\* A panel is dragged.
Toggled(x) == [x EXCEPT !.moved = ~x.moved]
LEMMA DraggedIs ==
  ASSUME NEW m, NEW list \in SUBSET Widgets(m), NEW x \in list, NEW y, y = Toggled(x), NEW l, l = (list \ {x}) \cup {y}
  PROVE  /\ l \in SUBSET Widgets(m) /\ MadeOf(list) \subseteq MadeOf(l) /\ (Single(list) => Single(l))
<1>1. x \in Widgets(m) /\ y \in Widgets(m) /\ y.made = x.made
  BY DEF Widgets, Toggled
<1>2. l \in SUBSET Widgets(m)
  BY <1>1
<1>3. MadeOf(list) \subseteq MadeOf(l)
  <2> SUFFICES ASSUME NEW z \in list PROVE \E u \in l : z.made = u.made
    BY DEF MadeOf
  <2>1. CASE z = x
    BY <1>1, <2>1
  <2>2. CASE z # x
    BY <2>2
  <2> QED
    BY <2>1, <2>2
<1>4. Single(list) => Single(l)
  BY <1>1 DEF Single
<1> QED
  BY <1>2, <1>3, <1>4

LEMMA ReplacedIs ==
  ASSUME NEW m, NEW list \in SUBSET Widgets(m), board.patches \in Nat, NEW l, l = Replaced(list)
  PROVE  /\ l \in SUBSET Widgets(m) /\ MadeOf(l) = MadeOf(list) /\ Content(l) = Content(list)
         /\ (\A p \in l : p.gen = board.patches + 1) /\ (Single(list) => Single(l))
<1> DEFINE g == board.patches + 1
           New(p) == [p EXCEPT !.gen = g]
<1>1. g \in Nat /\ l = {New(p) : p \in list}
  BY DEF Replaced
<1>2. \A p \in list : /\ New(p) \in Widgets(m) /\ New(p).made = p.made /\ New(p).gen = g
                      /\ [New(p) EXCEPT !.gen = 0] = [p EXCEPT !.gen = 0]
  BY <1>1 DEF Widgets
<1>3. (\A p \in list : New(p) \in l) /\ \A y \in l : \E p \in list : y = New(p)
  BY <1>1
<1> HIDE DEF New
<1>4. l \in SUBSET Widgets(m) /\ \A p \in l : p.gen = g
  BY <1>2, <1>3
<1>5. MadeOf(l) = MadeOf(list)
  <2>1. ASSUME NEW x \in MadeOf(l) PROVE x \in MadeOf(list)
    <3>1. PICK y \in l : x = y.made
      BY <2>1 DEF MadeOf
    <3>2. PICK p \in list : y = New(p)
      BY <1>3
    <3>3. x = p.made
      BY <1>2, <3>1, <3>2
    <3> QED
      BY <3>3 DEF MadeOf
  <2>2. ASSUME NEW x \in MadeOf(list) PROVE x \in MadeOf(l)
    <3>1. PICK p \in list : x = p.made
      BY <2>2 DEF MadeOf
    <3>2. New(p) \in l /\ New(p).made = x
      BY <1>2, <1>3, <3>1
    <3> QED
      BY <3>2 DEF MadeOf
  <2> QED
    BY <2>1, <2>2
<1>6. Content(l) = Content(list)
  <2>1. ASSUME NEW x \in Content(l) PROVE x \in Content(list)
    <3>1. PICK y \in l : x = [y EXCEPT !.gen = 0]
      BY <2>1 DEF Content
    <3>2. PICK p \in list : y = New(p)
      BY <1>3
    <3>3. x = [p EXCEPT !.gen = 0]
      BY <1>2, <3>1, <3>2
    <3> QED
      BY <3>3 DEF Content
  <2>2. ASSUME NEW x \in Content(list) PROVE x \in Content(l)
    <3>1. PICK p \in list : x = [p EXCEPT !.gen = 0]
      BY <2>2 DEF Content
    <3>2. New(p) \in l /\ x = [New(p) EXCEPT !.gen = 0]
      BY <1>2, <1>3, <3>1
    <3> QED
      BY <3>2 DEF Content
  <2> QED
    BY <2>1, <2>2
<1>7. Single(list) => Single(l)
  <2> SUFFICES ASSUME Single(list), NEW x \in l, NEW y \in l, x.made = y.made PROVE x = y
    BY DEF Single
  <2>1. PICK p \in list : x = New(p)
    BY <1>3
  <2>2. PICK q \in list : y = New(q)
    BY <1>3
  <2>3. p.made = q.made
    BY <1>2, <2>1, <2>2
  <2> QED
    BY <2>1, <2>2, <2>3 DEF Single
<1> QED
  BY <1>4, <1>5, <1>6, <1>7

-----------------------------------------------------------------------------
(* What a step leaves of a tab: of the others first. *)

LEMMA OthersWork ==
  ASSUME NEW m \in Nat, NEW m2 \in Nat, m <= m2, NEW s, NEW s2, s2 => s, NEW u, NEW p, NEW b, NEW b2,
         WorkTabOK(p, b, u, m, s), b.patches \in Nat, b2.patches \in Nat, b.patches <= b2.patches,
         p.seen = b2.patches => p.seen = b.patches /\ b2.panels = b.panels, b2.panels = {} => b.panels = {},
         u \in b2.by => u \in b.by /\ b2.token = b.token
  PROVE  WorkTabOK(p, b2, u, m2, s2)
<1>1. p \in WorkTabType(m) /\ p.seen \in Nat /\ p.seen <= b.patches
  BY DEF WorkTabOK, WorkTabType
<1>2. p \in WorkTabType(m2) /\ p.seen <= b2.patches
  BY <1>1, WidgetsGrow
<1>3. /\ LoadedOK(p, b) => LoadedOK(p, b2)
      /\ ShownOK(p, b) => ShownOK(p, b2)
      /\ CalmOK(p, b) => CalmOK(p, b2)
      /\ ShareOK(p, b, u) => ShareOK(p, b2, u)
      /\ FilledOK(p, b) => FilledOK(p, b2)
  BY DEF LoadedOK, ShownOK, CalmOK, ShareOK, Links, FilledOK
<1> QED
  BY <1>2, <1>3 DEF WorkTabOK

EditorOpened(p, e) == [p EXCEPT !.edit = e]

LEMMA TabOpens ==
  ASSUME NEW m, NEW s, NEW t, NEW p, NEW b, WorkTabOK(p, b, t, m, s), NEW e \in Widgets(m),
         e.made \in MadeOf(p.shown) => \E r \in p.shown : r.made = e.made /\ r.gen = e.gen,
         NEW p2, p2 = EditorOpened(p, e)
  PROVE  WorkTabOK(p2, b, t, m, s)
<1>1. p \in WorkTabType(m)
  BY DEF WorkTabOK
<1>2. /\ p2 \in WorkTabType(m) /\ p2.calls = p.calls /\ p2.shown = p.shown /\ p2.timer = p.timer /\ p2.edit = e
      /\ p2.query = p.query /\ p2.token = p.token /\ p2.seen = p.seen /\ p2.failed = p.failed /\ p2.open = p.open
  BY <1>1 DEF WorkTabType, EditorOpened
<1>3. SinglesOK(p) => SinglesOK(p2)
  BY <1>2 DEF SinglesOK, EditOK
<1> QED
  BY <1>2, <1>3 DEF WorkTabOK, TimerOK, LayoutOK, LoadedOK, ShownOK, CalmOK, ShareOK, Links, OpenOK, FilledOK, Bare

EditorClosed(p, query) == [p EXCEPT !.edit = NoPanel, !.query = query]

LEMMA TabCloses ==
  ASSUME NEW m, NEW s, NEW t, NEW p, NEW b, WorkTabOK(p, b, t, m, s), NEW query \in Queries \cup {NoQuery},
         NEW p2, p2 = EditorClosed(p, query)
  PROVE  WorkTabOK(p2, b, t, m, s)
<1>1. p \in WorkTabType(m)
  BY DEF WorkTabOK
<1>2. /\ p2 \in WorkTabType(m) /\ p2.calls = p.calls /\ p2.shown = p.shown /\ p2.timer = p.timer /\ p2.edit = NoPanel
      /\ p2.token = p.token /\ p2.seen = p.seen /\ p2.failed = p.failed /\ p2.open = p.open
  BY <1>1 DEF WorkTabType, EditorClosed
<1>3. SinglesOK(p) => SinglesOK(p2)
  BY <1>2 DEF SinglesOK, EditOK
<1> QED
  BY <1>2, <1>3 DEF WorkTabOK, TimerOK, LayoutOK, LoadedOK, ShownOK, CalmOK, ShareOK, Links, OpenOK, FilledOK, Bare

PanelSaved(p, query, r) == [p EXCEPT !.edit = NoPanel, !.query = query, !.calls = r]

LEMMA TabSaves ==
  ASSUME NEW m \in Nat, NEW s, NEW t, NEW p, NEW b, WorkTabOK(p, b, t, m, s), b.panels \in SUBSET Widgets(m),
         p.edit # NoPanel, p.open, NEW w \in Widgets(m), w.made = p.edit.made, w.gen = p.edit.gen,
         NEW query \in Queries \cup {NoQuery},
         NEW c \in WorkJobs(m), c.op = "save", c.at = "ask", JobFits(c), c.list = WithPanel(p.shown, w),
         c.calm => p.calls = <<>> /\ ~p.timer.set /\ "panels" \notin p.failed, NEW r, r = Append(p.calls, c),
         NEW p2, p2 = PanelSaved(p, query, r)
  PROVE  WorkTabOK(p2, b, t, m, s)
<1>1. p \in WorkTabType(m) /\ OthersAsk(p.calls) /\ p.shown \in SUBSET Widgets(m) /\ p.calls \in Seq(WorkJobs(m))
  BY DEF WorkTabOK, WorkTabType
<1>2. PICK q \in Seq(WorkJobs(m)) : q = p.calls
  BY <1>1
<1>3. JobJoined(q, r, c, m)
  <2>1. OthersAsk(q) /\ r = Append(q, c) /\ (q # <<>> => ~c.calm)
    BY <1>1, <1>2
  <2> QED
    BY <2>1, JobJoins
<1>4. /\ p2 \in WorkTabType(m) /\ p2.calls = r /\ p2.shown = p.shown /\ p2.timer = p.timer /\ p2.edit = NoPanel
      /\ p2.token = p.token /\ p2.seen = p.seen /\ p2.failed = p.failed /\ p2.open = p.open
  <2>1. r \in Seq(WorkJobs(m))
    BY <1>3 DEF JobJoined
  <2> QED
    BY <1>1, <2>1 DEF WorkTabType, PanelSaved
<1>5. MadeOf(p.shown) \subseteq MadeOf(c.list) /\ (SinglesOK(p) => Single(c.list))
  <2>1. SinglesOK(p) => Single(p.shown) /\ (w.made \in MadeOf(p.shown) => \E x \in p.shown : x.made = w.made /\ x.gen = w.gen)
    BY DEF SinglesOK, EditOK
  <2>2. PICK list \in SUBSET Widgets(m) : list = p.shown
    BY <1>1
  <2>3. PICK l : l = WithPanel(list, w)
    OBVIOUS
  <2>4. PanelPut(list, w, l)
    BY <2>3, WithPanelIs
  <2> QED
    BY <2>1, <2>2, <2>3, <2>4 DEF PanelPut
<1>6. SinglesOK(p) => SinglesOK(p2)
  BY <1>2, <1>3, <1>4, <1>5 DEF SinglesOK, JobJoined, EditOK
<1>7. Returning(r)
  BY <1>3 DEF JobJoined, LoadsAgain
<1>8. CalmOK(p2, b)
  <2>1. CASE q = <<>>
    <3> SUFFICES ASSUME c.calm, p.seen = b.patches PROVE MadeOf(b.panels) \subseteq MadeOf(c.list)
      BY <1>3, <1>4, <2>1 DEF CalmOK, JobJoined
    <3>1. ~Returning(q) /\ ~Arranging(q) /\ ~JustLoaded(q)
      BY <2>1 DEF Returning, Arranging, JustLoaded
    <3>2. Content(b.panels) = Content(p.shown)
      BY <1>2, <3>1 DEF WorkTabOK, ShownOK
    <3>3. MadeOf(b.panels) \subseteq MadeOf(p.shown)
      BY <1>1, <3>2, ContentMade
    <3> QED
      BY <1>5, <3>3
  <2>2. CASE q # <<>>
    BY <1>2, <1>3, <1>4, <2>2 DEF WorkTabOK, CalmOK, JobJoined
  <2> QED
    BY <2>1, <2>2
<1>9. CreateOK(r) /\ OthersAsk(r)
  BY <1>2, <1>3 DEF WorkTabOK, CreateOK, JobJoined
<1>10. TimerOK(p2) /\ LayoutOK(p2)
  BY <1>2, <1>3, <1>4 DEF WorkTabOK, TimerOK, LayoutOK, JobJoined
<1>11. \A op : Telling(r, op) <=> Telling(q, op)
  BY <1>3 DEF Telling, JobJoined
<1>12. ShareOK(p2, b, t)
  <2>1. \A op : Telling(q, op) => Head(r) = Head(q)
    BY <1>3 DEF Telling, JobJoined
  <2> QED
    BY <1>2, <1>4, <1>11, <2>1 DEF WorkTabOK, ShareOK, Links
<1>13. LoadedOK(p2, b)
  BY <1>2, <1>3, <1>4 DEF WorkTabOK, LoadedOK, JustLoaded, JobJoined
<1>14. ShownOK(p2, b)
  BY <1>4, <1>7 DEF ShownOK
<1>15. OpenOK(p2) /\ FilledOK(p2, b)
  <2>1. (JustLoaded(r) <=> JustLoaded(q)) /\ (JustLoaded(q) => Head(r) = Head(q)) /\ JobsFit(r)
    BY <1>2, <1>3 DEF WorkTabOK, FilledOK, JobJoined, JustLoaded
  <2>2. (Returning(q) => Returning(r)) /\ (NoLayout(q) => NoLayout(r))
    BY <1>3 DEF JobJoined
  <2> QED
    BY <1>2, <1>4, <2>1, <2>2 DEF WorkTabOK, OpenOK, FilledOK, LoadedHead, Bare
<1> QED
  BY <1>4, <1>6, <1>8, <1>9, <1>10, <1>12, <1>13, <1>14, <1>15 DEF WorkTabOK

PanelDragged(p, list, calm) == [p EXCEPT !.shown = list, !.timer = [set |-> TRUE, list |-> list, calm |-> calm]]

LEMMA TabDrags ==
  ASSUME NEW m \in Nat, NEW s, NEW t, NEW p, NEW b, WorkTabOK(p, b, t, m, s), b.panels \in SUBSET Widgets(m),
         p.edit = NoPanel, NEW x \in p.shown, NEW l, l = (p.shown \ {x}) \cup {Toggled(x)}, NEW calm \in BOOLEAN,
         calm => p.calls = <<>> /\ ~p.timer.set /\ "panels" \notin p.failed, NEW p2, p2 = PanelDragged(p, l, calm)
  PROVE  WorkTabOK(p2, b, t, m, s)
<1>1. p \in WorkTabType(m) /\ p.shown \in SUBSET Widgets(m) /\ p.calls \in Seq(WorkJobs(m))
  BY DEF WorkTabOK, WorkTabType
<1>2. /\ l \in SUBSET Widgets(m) /\ MadeOf(p.shown) \subseteq MadeOf(l) /\ (Single(p.shown) => Single(l))
  <2>1. PICK list \in SUBSET Widgets(m) : list = p.shown
    BY <1>1
  <2>2. PICK y : y = Toggled(x)
    OBVIOUS
  <2>3. x \in list /\ l = (list \ {x}) \cup {y}
    BY <2>1, <2>2
  <2>4. l \in SUBSET Widgets(m) /\ MadeOf(list) \subseteq MadeOf(l) /\ (Single(list) => Single(l))
    BY <2>2, <2>3, DraggedIs
  <2> QED
    BY <2>1, <2>4
<1>3. /\ p2 \in WorkTabType(m) /\ p2.calls = p.calls /\ p2.shown = l /\ p2.timer.set /\ p2.timer.list = l
      /\ p2.timer.calm = calm /\ p2.edit = NoPanel /\ p2.token = p.token /\ p2.seen = p.seen /\ p2.failed = p.failed /\ p2.open = p.open
  <2>1. PICK tm : tm = [set |-> TRUE, list |-> l, calm |-> calm]
    OBVIOUS
  <2>2. tm \in Timers(m) /\ tm.set /\ tm.list = l /\ tm.calm = calm
    BY <1>2, <2>1 DEF Timers
  <2>3. p2 = [p EXCEPT !.shown = l, !.timer = tm]
    BY <2>1 DEF PanelDragged
  <2> QED
    BY <1>1, <1>2, <2>2, <2>3 DEF WorkTabType
<1>4. SinglesOK(p) => SinglesOK(p2)
  BY <1>2, <1>3 DEF SinglesOK, EditOK
<1>5. TimerOK(p2) /\ LayoutOK(p2)
  <2>1. calm => NoLayout(p.calls)
    BY DEF NoLayout
  <2> QED
    BY <1>3, <2>1 DEF TimerOK, LayoutOK
<1>a. p.open /\ b.panels # {} /\ ~Bare(p)
  BY DEF WorkTabOK, OpenOK, FilledOK, Bare
<1>b. OpenOK(p2) /\ FilledOK(p2, b)
  BY <1>3, <1>a DEF WorkTabOK, OpenOK, FilledOK
<1>6. ShownOK(p2, b)
  <2> SUFFICES ASSUME calm, p.seen = b.patches PROVE MadeOf(b.panels) \subseteq MadeOf(l)
    BY <1>3 DEF ShownOK
  <2>1. ~Returning(p.calls) /\ ~Arranging(p.calls) /\ ~JustLoaded(p.calls)
    BY DEF Returning, Arranging, JustLoaded
  <2>2. Content(b.panels) = Content(p.shown)
    BY <1>a, <2>1 DEF WorkTabOK, ShownOK
  <2>3. MadeOf(b.panels) \subseteq MadeOf(p.shown)
    BY <1>1, <2>2, ContentMade
  <2> QED
    BY <1>2, <2>3
<1> QED
  BY <1>3, <1>4, <1>5, <1>6, <1>b DEF WorkTabOK, LoadedOK, CalmOK, ShareOK, Links

TimerFired(p, r) == [p EXCEPT !.timer = NoTimer, !.calls = r]

LEMMA TabFires ==
  ASSUME NEW m \in Nat, NEW s, NEW t, NEW p, NEW b, WorkTabOK(p, b, t, m, s), b.panels \in SUBSET Widgets(m), p.timer.set,
         NEW c \in WorkJobs(m), c.op = "layout", c.at = "ask", ~c.refused, c.token = 0, c.list = p.timer.list,
         c.calm => p.calls = <<>> /\ p.timer.calm /\ "panels" \notin p.failed, NEW r, r = Append(p.calls, c),
         NEW p2, p2 = TimerFired(p, r)
  PROVE  WorkTabOK(p2, b, t, m, s)
<1>1. p \in WorkTabType(m) /\ OthersAsk(p.calls) /\ p.calls \in Seq(WorkJobs(m))
  BY DEF WorkTabOK, WorkTabType
<1>2. PICK q \in Seq(WorkJobs(m)) : q = p.calls
  BY <1>1
<1>3. JobJoined(q, r, c, m)
  <2>1. OthersAsk(q) /\ r = Append(q, c) /\ (q # <<>> => ~c.calm)
    BY <1>1, <1>2
  <2> QED
    BY <2>1, JobJoins
<1>4. /\ p2 \in WorkTabType(m) /\ p2.calls = r /\ p2.shown = p.shown /\ ~p2.timer.set /\ p2.timer.list = {}
      /\ p2.edit = p.edit /\ p2.token = p.token /\ p2.seen = p.seen /\ p2.failed = p.failed /\ p2.open = p.open
  <2>1. r \in Seq(WorkJobs(m))
    BY <1>3 DEF JobJoined
  <2>2. NoTimer \in Timers(m) /\ ~NoTimer.set /\ NoTimer.list = {}
    BY DEF NoTimer, Timers
  <2> QED
    BY <1>1, <2>1, <2>2 DEF WorkTabType, TimerFired
<1>5. (p.open => c.list = p.shown) /\ JobFits(c) /\ ~Bare(p) /\ b.panels # {}
  BY DEF WorkTabOK, TimerOK, FilledOK, JobFits, Bare
<1>6. SinglesOK(p) => SinglesOK(p2)
  BY <1>2, <1>3, <1>4 DEF SinglesOK, JobJoined, EditOK, Single
<1>7. Arranging(r)
  BY <1>3 DEF JobJoined
<1>8. CalmOK(p2, b)
  <2>1. CASE q = <<>>
    <3> SUFFICES ASSUME c.calm, p.seen = b.patches PROVE MadeOf(b.panels) \subseteq MadeOf(c.list)
      BY <1>3, <1>4, <2>1 DEF CalmOK, JobJoined
    <3>1. ~Returning(q) /\ ~Arranging(q) /\ ~JustLoaded(q)
      BY <2>1 DEF Returning, Arranging, JustLoaded
    <3> QED
      BY <1>2, <1>5, <3>1 DEF WorkTabOK, ShownOK, OpenOK
  <2>2. CASE q # <<>>
    BY <1>2, <1>3, <1>4, <2>2 DEF WorkTabOK, CalmOK, JobJoined
  <2> QED
    BY <2>1, <2>2
<1>9. CreateOK(r) /\ OthersAsk(r)
  BY <1>2, <1>3 DEF WorkTabOK, CreateOK, JobJoined
<1>10. TimerOK(p2) /\ LayoutOK(p2)
  BY <1>3, <1>4, <1>5 DEF TimerOK, LayoutOK, JobJoined
<1>11. \A op : Telling(r, op) <=> Telling(q, op)
  BY <1>3 DEF Telling, JobJoined
<1>12. ShareOK(p2, b, t)
  <2>1. \A op : Telling(q, op) => Head(r) = Head(q)
    BY <1>3 DEF Telling, JobJoined
  <2> QED
    BY <1>2, <1>4, <1>11, <2>1 DEF WorkTabOK, ShareOK, Links
<1>13. LoadedOK(p2, b)
  BY <1>2, <1>3, <1>4 DEF WorkTabOK, LoadedOK, JustLoaded, JobJoined
<1>14. ShownOK(p2, b)
  BY <1>4, <1>7 DEF ShownOK
<1>15. OpenOK(p2) /\ FilledOK(p2, b)
  <2>1. (JustLoaded(r) <=> JustLoaded(q)) /\ (JustLoaded(q) => Head(r) = Head(q)) /\ JobsFit(r)
    BY <1>2, <1>3, <1>5 DEF WorkTabOK, FilledOK, JobJoined, JustLoaded
  <2>2. Returning(q) => Returning(r)
    BY <1>3 DEF JobJoined
  <2> QED
    BY <1>2, <1>4, <1>5, <2>1, <2>2 DEF WorkTabOK, OpenOK, FilledOK, LoadedHead
<1> QED
  BY <1>4, <1>6, <1>8, <1>9, <1>10, <1>12, <1>13, <1>14, <1>15 DEF WorkTabOK

CallsAre(p, r) == [p EXCEPT !.calls = r]
AnsweredWith(p, r, f) == [p EXCEPT !.calls = r, !.failed = f]

\* A call that changes no panel is asked: share, revoke, install, or load.
LEMMA TabAsks ==
  ASSUME NEW m \in Nat, NEW s, NEW t, NEW p, NEW b, WorkTabOK(p, b, t, m, s),
         NEW c \in WorkJobs(m), c.op \in {"share", "revoke", "install", "load"}, c.at = "ask", c.list = {}, ~c.calm, JobFits(c),
         NEW r, r = Append(p.calls, c), NEW p2, p2 = CallsAre(p, r)
  PROVE  WorkTabOK(p2, b, t, m, s) /\ Returning(r) = (Returning(p.calls) \/ LoadsAgain(c))
<1>1. p \in WorkTabType(m) /\ OthersAsk(p.calls) /\ p.calls \in Seq(WorkJobs(m))
  BY DEF WorkTabOK, WorkTabType
<1>2. PICK q \in Seq(WorkJobs(m)) : q = p.calls
  BY <1>1
<1>3. JobJoined(q, r, c, m)
  <2>1. OthersAsk(q) /\ r = Append(q, c) /\ (q # <<>> => ~c.calm)
    BY <1>1, <1>2
  <2> QED
    BY <2>1, JobJoins
<1>4. /\ p2 \in WorkTabType(m) /\ p2.calls = r /\ p2.shown = p.shown /\ p2.timer = p.timer
      /\ p2.edit = p.edit /\ p2.token = p.token /\ p2.seen = p.seen /\ p2.failed = p.failed /\ p2.open = p.open
  <2>1. r \in Seq(WorkJobs(m))
    BY <1>3 DEF JobJoined
  <2> QED
    BY <1>1, <2>1 DEF WorkTabType, CallsAre
<1>6. SinglesOK(p) => SinglesOK(p2)
  BY <1>2, <1>3, <1>4 DEF SinglesOK, JobJoined, EditOK, Single
<1>8. CalmOK(p2, b)
  BY <1>2, <1>3, <1>4 DEF WorkTabOK, CalmOK, JobJoined
<1>9. CreateOK(r) /\ OthersAsk(r)
  BY <1>2, <1>3 DEF WorkTabOK, CreateOK, JobJoined
<1>10. TimerOK(p2) /\ LayoutOK(p2)
  BY <1>2, <1>3, <1>4 DEF WorkTabOK, TimerOK, LayoutOK, JobJoined
<1>11. \A op : Telling(r, op) <=> Telling(q, op)
  BY <1>3 DEF Telling, JobJoined
<1>12. ShareOK(p2, b, t)
  <2>1. \A op : Telling(q, op) => Head(r) = Head(q)
    BY <1>3 DEF Telling, JobJoined
  <2> QED
    BY <1>2, <1>4, <1>11, <2>1 DEF WorkTabOK, ShareOK, Links
<1>13. LoadedOK(p2, b) /\ (JustLoaded(q) => JustLoaded(r))
  BY <1>2, <1>3, <1>4 DEF WorkTabOK, LoadedOK, JustLoaded, JobJoined
<1>14. ShownOK(p2, b)
  <2>1. (Returning(q) => Returning(r)) /\ (Arranging(q) => Arranging(r))
    BY <1>3 DEF JobJoined
  <2> QED
    BY <1>2, <1>4, <1>13, <2>1 DEF WorkTabOK, ShownOK
<1>16. Returning(r) <=> Returning(q) \/ LoadsAgain(c)
  BY <1>3 DEF JobJoined
<1>15. OpenOK(p2) /\ FilledOK(p2, b)
  <2>1. (JustLoaded(r) <=> JustLoaded(q)) /\ (JustLoaded(q) => Head(r) = Head(q)) /\ JobsFit(r)
    BY <1>2, <1>3 DEF WorkTabOK, FilledOK, JobJoined, JustLoaded
  <2>2. (Returning(q) => Returning(r)) /\ (NoLayout(q) => NoLayout(r))
    BY <1>3 DEF JobJoined
  <2> QED
    BY <1>2, <1>4, <2>1, <2>2 DEF WorkTabOK, OpenOK, FilledOK, LoadedHead, Bare
<1> QED
  BY <1>2, <1>4, <1>6, <1>8, <1>9, <1>10, <1>12, <1>13, <1>14, <1>15, <1>16 DEF WorkTabOK, Returning

Loaded(p, r, mark, f) == [p EXCEPT !.calls = r, !.seen = mark, !.failed = f]

\* The board was read: the answer holds its panels.
LEMMA TabReads ==
  ASSUME NEW m \in Nat, NEW s \in BOOLEAN, NEW t, NEW p, NEW b, WorkTabOK(p, b, t, m, s), b.panels \in SUBSET Widgets(m),
         b.patches \in Nat, s => Single(b.panels), p.calls # <<>>, Head(p.calls).op = "load", Head(p.calls).at = "ask",
         NEW c \in WorkJobs(m), c.op = "load", c.at = "told", c.list = b.panels, ~c.refused,
         NEW r, r = [p.calls EXCEPT ![1] = c], NEW f, f = p.failed \ {"panels"}, NEW p2, p2 = Loaded(p, r, b.patches, f)
  PROVE  WorkTabOK(p2, b, t, m, s)
<1>1. p \in WorkTabType(m) /\ OthersAsk(p.calls) /\ p.calls \in Seq(WorkJobs(m))
  BY DEF WorkTabOK, WorkTabType
<1>2. PICK q \in Seq(WorkJobs(m)) : q = p.calls
  BY <1>1
<1>3. JobAnswered(q, r, c, m)
  <2>1. OthersAsk(q) /\ q # <<>> /\ c.op = Head(q).op /\ r = [q EXCEPT ![1] = c]
    BY <1>1, <1>2
  <2> QED
    BY <2>1, JobAnswers
<1>4. /\ p2 \in WorkTabType(m) /\ p2.calls = r /\ p2.shown = p.shown /\ p2.timer = p.timer
      /\ p2.edit = p.edit /\ p2.token = p.token /\ p2.seen = b.patches /\ p2.failed = f /\ p2.open = p.open
  <2>1. r \in Seq(WorkJobs(m))
    BY <1>3 DEF JobAnswered
  <2> QED
    BY <1>1, <2>1 DEF WorkTabType, Loaded
<1>5. r # <<>> /\ Head(r) = c /\ OthersAsk(r)
  BY <1>3 DEF JobAnswered
<1>6. s => SinglesOK(p2)
  <2>1. s => SinglesOK(p) /\ Single(c.list)
    BY DEF WorkTabOK
  <2> QED
    <3>1. SinglesOK(p) => EditOK(p2)
      BY <1>4 DEF SinglesOK, EditOK
    <3>2. s => AllSingle(r)
      BY <1>2, <1>3, <2>1 DEF SinglesOK, JobAnswered
    <3> QED
      BY <1>4, <2>1, <3>1, <3>2 DEF SinglesOK
<1>7. TimerOK(p2) /\ LayoutOK(p2)
  BY <1>2, <1>3, <1>4 DEF WorkTabOK, TimerOK, LayoutOK, JobAnswered
<1>8. LoadedOK(p2, b) /\ CalmOK(p2, b) /\ CreateOK(r) /\ ShownOK(p2, b)
  BY <1>4, <1>5 DEF LoadedOK, CalmOK, CreateOK, ShownOK, JustLoaded
<1>9. ShareOK(p2, b, t)
  <2>1. /\ ~Telling(r, "share") /\ ~Telling(r, "revoke")
        /\ ~Telling(p.calls, "share") /\ ~Telling(p.calls, "revoke")
    BY <1>5 DEF Telling
  <2> QED
    BY <1>4, <2>1 DEF WorkTabOK, ShareOK, Links
<1>10. OpenOK(p2) /\ FilledOK(p2, b)
  <2>1. JustLoaded(r) /\ JobFits(c) /\ JobsFit(p.calls)
    BY <1>5 DEF JustLoaded, JobFits, WorkTabOK, FilledOK
  <2>2. JobsFit(r) /\ (NoLayout(q) => NoLayout(r))
    BY <1>2, <1>3, <2>1 DEF JobAnswered
  <2>3. /\ ~p.open => p.shown = {}
        /\ (p.timer.set => p.timer.list # {}) /\ (b.panels = {} => Bare(p))
    BY DEF WorkTabOK, OpenOK, FilledOK
  <2>4. OpenOK(p2)
    BY <1>4, <1>5, <2>1, <2>3 DEF OpenOK
  <2>5. b.panels = {} => Bare(p2)
    BY <1>2, <1>4, <2>2, <2>3 DEF Bare
  <2>6. /\ p2.calls = r /\ Head(r).list = b.panels
        /\ JobsFit(p2.calls) /\ (p2.timer.set => p2.timer.list # {})
    BY <1>4, <1>5, <2>2, <2>3
  <2>7. FilledOK(p2, b)
    BY <2>5, <2>6 DEF FilledOK
  <2> QED
    BY <2>4, <2>7
<1>11. p2.seen <= b.patches
  BY <1>4
<1> QED
  BY <1>4, <1>5, <1>6, <1>7, <1>8, <1>9, <1>10, <1>11 DEF WorkTabOK

\* A list was stored by this tab.
LEMMA TabStores ==
  ASSUME NEW m \in Nat, NEW s \in BOOLEAN, NEW t, NEW p, NEW b, WorkTabOK(p, b, t, m, s), b.patches \in Nat,
         p.calls # <<>>, Head(p.calls).op \in {"save", "layout"}, Head(p.calls).at = "ask",
         NEW c \in WorkJobs(m), c.op = Head(p.calls).op, c.at = "told", c.list = Head(p.calls).list,
         NEW r, r = [p.calls EXCEPT ![1] = c],
         NEW b2, Content(b2.panels) = Content(c.list), b2.patches = b.patches + 1, b2.token = b.token, b2.by = b.by,
         b2.panels # {}, NEW p2, p2 = Loaded(p, r, IF p.seen = b.patches THEN p.seen + 1 ELSE p.seen, p.failed)
  PROVE  WorkTabOK(p2, b2, t, m, s)
<1>1. p \in WorkTabType(m) /\ OthersAsk(p.calls) /\ p.calls \in Seq(WorkJobs(m)) /\ p.seen \in Nat /\ p.seen <= b.patches
  BY DEF WorkTabOK, WorkTabType
<1>2. PICK q \in Seq(WorkJobs(m)) : q = p.calls
  BY <1>1
<1>3. JobAnswered(q, r, c, m)
  <2>1. OthersAsk(q) /\ q # <<>> /\ c.op = Head(q).op /\ r = [q EXCEPT ![1] = c]
    BY <1>1, <1>2
  <2>2. c.op \in {"save", "install", "revoke"} \/ c.op = "load" \/ ~LoadsAgain(Head(q))
    BY <1>2 DEF LoadsAgain
  <2> QED
    BY <2>1, <2>2, JobAnswers
<1>4. /\ p2 \in WorkTabType(m) /\ p2.calls = r /\ p2.shown = p.shown /\ p2.timer = p.timer
      /\ p2.edit = p.edit /\ p2.token = p.token /\ p2.failed = p.failed /\ p2.open = p.open
      /\ p2.seen <= b2.patches /\ (p2.seen = b2.patches => p.seen = b.patches)
  <2>1. r \in Seq(WorkJobs(m))
    BY <1>3 DEF JobAnswered
  <2>2. PICK n : n = IF p.seen = b.patches THEN p.seen + 1 ELSE p.seen
    OBVIOUS
  <2>3. n \in Nat /\ n <= b2.patches /\ (n = b2.patches => p.seen = b.patches)
    BY <1>1, <2>2
  <2>4. p2 = Loaded(p, r, n, p.failed)
    BY <2>2
  <2> QED
    BY <1>1, <2>1, <2>3, <2>4 DEF WorkTabType, Loaded
<1>5. r # <<>> /\ Head(r) = c /\ OthersAsk(r)
  BY <1>3 DEF JobAnswered
<1>6. s => SinglesOK(p2)
  <2>1. s => SinglesOK(p) /\ Single(c.list)
    <3>1. q # <<>> => 1 \in 1 .. Len(q) /\ Head(q) = q[1]
      OBVIOUS
    <3> QED
      BY <1>2, <3>1 DEF WorkTabOK, SinglesOK, AllSingle
  <2> QED
    <3>1. SinglesOK(p) => EditOK(p2)
      BY <1>4 DEF SinglesOK, EditOK
    <3>2. s => AllSingle(r)
      BY <1>2, <1>3, <2>1 DEF SinglesOK, JobAnswered
    <3> QED
      BY <1>4, <2>1, <3>1, <3>2 DEF SinglesOK
<1>7. TimerOK(p2) /\ LayoutOK(p2)
  BY <1>2, <1>3, <1>4 DEF WorkTabOK, TimerOK, LayoutOK, JobAnswered
<1>8. LoadedOK(p2, b2) /\ CalmOK(p2, b2) /\ CreateOK(r)
  BY <1>4, <1>5 DEF LoadedOK, CalmOK, CreateOK, JustLoaded
<1>9. ShareOK(p2, b2, t)
  <2>1. /\ ~Telling(r, "share") /\ ~Telling(r, "revoke")
        /\ ~Telling(p.calls, "share") /\ ~Telling(p.calls, "revoke")
    BY <1>5 DEF Telling
  <2> QED
    BY <1>4, <2>1 DEF WorkTabOK, ShareOK, Links
<1>11. OpenOK(p2) /\ FilledOK(p2, b2)
  <2>1. ~JustLoaded(r) /\ ~JustLoaded(q) /\ (Returning(q) => Returning(r))
    BY <1>2, <1>3, <1>5 DEF JustLoaded, JobAnswered
  <2>2. JobsFit(q) /\ JobFits(Head(q))
    <3>1. q # <<>> => 1 \in 1 .. Len(q) /\ Head(q) = q[1]
      OBVIOUS
    <3> QED
      BY <1>2, <3>1 DEF WorkTabOK, FilledOK, JobsFit
  <2>3. JobsFit(r)
    BY <1>2, <1>3, <2>2 DEF JobAnswered, JobFits
  <2> QED
    BY <1>2, <1>4, <2>1, <2>3 DEF WorkTabOK, OpenOK, FilledOK, LoadedHead
<1>10. ShownOK(p2, b2)
  <2> SUFFICES ASSUME ~Returning(r), ~Arranging(r), p.open
               PROVE  /\ ~p.timer.set => Content(b2.panels) = Content(p.shown)
                      /\ p.timer.set => ~p.timer.calm
    BY <1>4 DEF ShownOK
  <2>1. 1 \in 1 .. Len(r) /\ r[1] = c
    <3>1. r \in Seq(WorkJobs(m)) /\ r # <<>>
      BY <1>3 DEF JobAnswered
    <3>2. 1 \in 1 .. Len(r) /\ r[1] = Head(r)
      BY <3>1
    <3> QED
      BY <1>5, <3>2
  <2>2. c.op = "layout"
    BY <2>1 DEF Returning, LoadsAgain
  <2>3. ~p.timer.set => Head(q).list = p.shown
    BY <1>2, <1>3, <2>2 DEF WorkTabOK, LayoutOK, JobAnswered
  <2>4. ~NoLayout(q)
    <3>1. 1 \in 1 .. Len(q) /\ Head(q) = q[1]
      BY <1>2
    <3> QED
      BY <1>2, <2>2, <3>1 DEF NoLayout
  <2> QED
    BY <1>2, <2>3, <2>4 DEF WorkTabOK, TimerOK
<1> QED
  BY <1>4, <1>5, <1>6, <1>7, <1>8, <1>9, <1>10, <1>11 DEF WorkTabOK

\* A call that changes no panel is served: share, revoke, or a step of an installation.
LEMMA TabIsServed ==
  ASSUME NEW m \in Nat, NEW s \in BOOLEAN, NEW t, NEW p, NEW b, WorkTabOK(p, b, t, m, s),
         p.calls # <<>>, Head(p.calls).op \in {"share", "revoke", "install"}, Head(p.calls).at # "told",
         NEW c \in WorkJobs(m), c.op = Head(p.calls).op, c.list = Head(p.calls).list, c.op # "install" => c.at = "told",
         JobFits(c), NEW r, r = [p.calls EXCEPT ![1] = c],
         NEW f, f = IF c.op = "install" THEN p.failed ELSE p.failed \ {"token"},
         NEW b2, b2.panels = b.panels, b2.patches = b.patches, c.op = "install" => b2.token = b.token /\ b2.by = b.by,
         c.op = "share" => b2.token = c.token, c.op = "revoke" => b2.token = 0,
         NEW p2, p2 = AnsweredWith(p, r, f)
  PROVE  WorkTabOK(p2, b2, t, m, s)
<1>1. p \in WorkTabType(m) /\ OthersAsk(p.calls) /\ p.calls \in Seq(WorkJobs(m))
  BY DEF WorkTabOK, WorkTabType
<1>2. PICK q \in Seq(WorkJobs(m)) : q = p.calls
  BY <1>1
<1>3. JobAnswered(q, r, c, m)
  <2>1. OthersAsk(q) /\ q # <<>> /\ c.op = Head(q).op /\ r = [q EXCEPT ![1] = c]
    BY <1>1, <1>2
  <2>2. c.op \in {"save", "install", "revoke"} \/ c.op = "load" \/ ~LoadsAgain(Head(q))
    BY <1>2 DEF LoadsAgain
  <2> QED
    BY <2>1, <2>2, JobAnswers
<1>4. /\ p2 \in WorkTabType(m) /\ p2.calls = r /\ p2.shown = p.shown /\ p2.timer = p.timer
      /\ p2.edit = p.edit /\ p2.token = p.token /\ p2.seen = p.seen /\ p2.failed = f /\ p2.open = p.open
  <2>1. r \in Seq(WorkJobs(m))
    BY <1>3 DEF JobAnswered
  <2> QED
    BY <1>1, <2>1 DEF WorkTabType, AnsweredWith
<1>5. r # <<>> /\ Head(r) = c /\ OthersAsk(r)
  BY <1>3 DEF JobAnswered
<1>6. s => SinglesOK(p2)
  <2>1. s => SinglesOK(p) /\ Single(c.list)
    <3>1. q # <<>> => 1 \in 1 .. Len(q) /\ Head(q) = q[1]
      OBVIOUS
    <3> QED
      BY <1>2, <3>1 DEF WorkTabOK, SinglesOK, AllSingle
  <2> QED
    <3>1. SinglesOK(p) => EditOK(p2)
      BY <1>4 DEF SinglesOK, EditOK
    <3>2. s => AllSingle(r)
      BY <1>2, <1>3, <2>1 DEF SinglesOK, JobAnswered
    <3> QED
      BY <1>4, <2>1, <3>1, <3>2 DEF SinglesOK
<1>7. TimerOK(p2) /\ LayoutOK(p2)
  BY <1>2, <1>3, <1>4 DEF WorkTabOK, TimerOK, LayoutOK, JobAnswered
<1>8. LoadedOK(p2, b2) /\ CalmOK(p2, b2) /\ CreateOK(r)
  <2>1. Head(r).op \in {"share", "revoke", "install"} /\ (Head(r).op # "install" => Head(r).at = "told")
    BY <1>5
  <2>2. ~JustLoaded(r)
    BY <2>1 DEF JustLoaded
  <2>3. LoadedOK(p2, b2) /\ CalmOK(p2, b2)
    BY <1>4, <2>1, <2>2 DEF LoadedOK, CalmOK
  <2>4. CreateOK(r)
    BY <2>1 DEF CreateOK
  <2> QED
    BY <2>3, <2>4
<1>9. ShareOK(p2, b2, t)
  <2>1. CASE c.op = "install"
    <3>1. /\ ~Telling(r, "share") /\ ~Telling(r, "revoke")
          /\ ~Telling(p.calls, "share") /\ ~Telling(p.calls, "revoke")
      BY <1>5, <2>1 DEF Telling
    <3> QED
      BY <1>4, <2>1, <3>1 DEF WorkTabOK, ShareOK, Links
  <2>2. CASE c.op # "install"
    <3>1. Telling(r, c.op)
      BY <1>5, <2>2 DEF Telling
    <3>2. c.op = "share" \/ c.op = "revoke"
      BY <2>2
    <3>3. (Telling(r, "share") => c.op = "share") /\ (Telling(r, "revoke") => c.op = "revoke")
      BY <1>5 DEF Telling
    <3> QED
      BY <1>4, <1>5, <3>1, <3>2, <3>3 DEF ShareOK, Links
  <2> QED
    BY <2>1, <2>2
<1>10. ShownOK(p2, b2)
  <2>1. (Returning(q) => Returning(r)) /\ (Arranging(q) => Arranging(r)) /\ ~JustLoaded(q)
    BY <1>2, <1>3 DEF JobAnswered, JustLoaded
  <2> QED
    BY <1>2, <1>4, <2>1 DEF WorkTabOK, ShownOK
<1>11. OpenOK(p2) /\ FilledOK(p2, b2)
  <2>1. ~JustLoaded(r) /\ ~JustLoaded(q) /\ (Returning(q) => Returning(r)) /\ (NoLayout(q) => NoLayout(r))
    BY <1>2, <1>3, <1>5 DEF JustLoaded, JobAnswered
  <2>2. JobsFit(r)
    BY <1>2, <1>3 DEF JobAnswered, WorkTabOK, FilledOK
  <2> QED
    BY <1>2, <1>4, <2>1, <2>2 DEF WorkTabOK, OpenOK, FilledOK, LoadedHead, Bare
<1> QED
  BY <1>4, <1>5, <1>6, <1>7, <1>8, <1>9, <1>10, <1>11 DEF WorkTabOK

\* A call is refused: told, with nothing done.
LEMMA TabRefused ==
  ASSUME NEW m \in Nat, NEW s \in BOOLEAN, NEW t, NEW p, NEW b, WorkTabOK(p, b, t, m, s),
         p.calls # <<>>, Head(p.calls).at = "ask",
         NEW c \in WorkJobs(m), c.op = Head(p.calls).op, c.list = Head(p.calls).list, c.at = "told", c.refused, c.token = 0,
         NEW r, r = [p.calls EXCEPT ![1] = c], NEW f, f = p.failed \cup InDoubt(c.op), NEW p2, p2 = AnsweredWith(p, r, f)
  PROVE  WorkTabOK(p2, b, t, m, s)
<1>1. p \in WorkTabType(m) /\ OthersAsk(p.calls) /\ p.calls \in Seq(WorkJobs(m))
  BY DEF WorkTabOK, WorkTabType
<1>2. PICK q \in Seq(WorkJobs(m)) : q = p.calls
  BY <1>1
<1>3. JobAnswered(q, r, c, m)
  <2>1. OthersAsk(q) /\ q # <<>> /\ c.op = Head(q).op /\ r = [q EXCEPT ![1] = c]
    BY <1>1, <1>2
  <2>2. c.op \in {"save", "install", "revoke"} \/ c.op = "load" \/ ~LoadsAgain(Head(q))
    BY <1>2 DEF LoadsAgain
  <2> QED
    BY <2>1, <2>2, JobAnswers
<1>4. /\ p2 \in WorkTabType(m) /\ p2.calls = r /\ p2.shown = p.shown /\ p2.timer = p.timer
      /\ p2.edit = p.edit /\ p2.token = p.token /\ p2.seen = p.seen /\ p2.failed = f /\ p2.open = p.open
  <2>1. r \in Seq(WorkJobs(m))
    BY <1>3 DEF JobAnswered
  <2>2. f \in SUBSET {"panels", "token"}
    BY <1>1 DEF InDoubt, WorkTabType
  <2> QED
    BY <1>1, <2>1, <2>2 DEF WorkTabType, AnsweredWith
<1>5. r # <<>> /\ Head(r) = c /\ OthersAsk(r)
  BY <1>3 DEF JobAnswered
<1>6. s => SinglesOK(p2)
  <2>1. s => SinglesOK(p) /\ Single(c.list)
    <3>1. q # <<>> => 1 \in 1 .. Len(q) /\ Head(q) = q[1]
      OBVIOUS
    <3> QED
      BY <1>2, <3>1 DEF WorkTabOK, SinglesOK, AllSingle
  <2> QED
    <3>1. SinglesOK(p) => EditOK(p2)
      BY <1>4 DEF SinglesOK, EditOK
    <3>2. s => AllSingle(r)
      BY <1>2, <1>3, <2>1 DEF SinglesOK, JobAnswered
    <3> QED
      BY <1>4, <2>1, <3>1, <3>2 DEF SinglesOK
<1>7. TimerOK(p2) /\ LayoutOK(p2)
  BY <1>2, <1>3, <1>4 DEF WorkTabOK, TimerOK, LayoutOK, JobAnswered
<1>8. LoadedOK(p2, b) /\ CalmOK(p2, b) /\ CreateOK(r)
  BY <1>4, <1>5 DEF LoadedOK, CalmOK, CreateOK
<1>9. ShareOK(p2, b, t)
  <2>1. (Telling(r, "share") => c.op = "share") /\ (Telling(r, "revoke") => c.op = "revoke")
    BY <1>5 DEF Telling
  <2>2. c.op \in {"share", "revoke"} => "token" \in f
    BY DEF InDoubt
  <2>3. ~Telling(p.calls, "share") /\ ~Telling(p.calls, "revoke") /\ p.failed \subseteq f
    BY DEF Telling
  <2> QED
    BY <1>4, <1>5, <2>1, <2>2, <2>3 DEF WorkTabOK, ShareOK, Links
<1>10. "panels" \in f \/ ("panels" \notin p.failed /\ c.op \in {"share", "revoke"})
  <2>1. c.op \notin {"share", "revoke"} => "panels" \in f
    BY DEF InDoubt
  <2>2. "panels" \in p.failed => "panels" \in f
    OBVIOUS
  <2> QED
    BY <2>1, <2>2
<1>11. /\ (Returning(q) /\ c.op # "load" => Returning(r)) /\ (Arranging(q) /\ c.op # "layout" => Arranging(r))
       /\ ~JustLoaded(q) /\ (JustLoaded(r) => c.op = "load") /\ (NoLayout(q) => NoLayout(r))
  BY <1>2, <1>3, <1>5 DEF JobAnswered, JustLoaded
<1>12. ShownOK(p2, b)
  BY <1>2, <1>4, <1>10, <1>11 DEF WorkTabOK, ShownOK
<1>13. OpenOK(p2)
  BY <1>2, <1>4, <1>10, <1>11 DEF WorkTabOK, OpenOK
<1>14. FilledOK(p2, b)
  <2>1. JobsFit(q) /\ JobFits(Head(q))
    <3>1. q # <<>> => 1 \in 1 .. Len(q) /\ Head(q) = q[1]
      OBVIOUS
    <3> QED
      BY <1>2, <3>1 DEF WorkTabOK, FilledOK, JobsFit
  <2>2. JobFits(c)
    BY <1>2, <2>1 DEF JobFits
  <2>3. JobsFit(r) /\ ~LoadedHead(r)
    BY <1>3, <1>5, <2>1, <2>2 DEF JobAnswered, LoadedHead
  <2> QED
    BY <1>2, <1>4, <1>11, <2>3 DEF WorkTabOK, FilledOK, Bare
<1> QED
  BY <1>4, <1>5, <1>6, <1>7, <1>8, <1>9, <1>12, <1>13, <1>14 DEF WorkTabOK


LEMMA TabThrows ==
  ASSUME NEW m \in Nat, NEW s, NEW t, NEW p, NEW b, WorkTabOK(p, b, t, m, s), p.calls # <<>>,
         Head(p.calls).at # "told", NEW r, r = Tail(p.calls),
         NEW f \in SUBSET {"panels", "token"}, p.failed \cup {"panels"} \subseteq f, NEW p2, p2 = AnsweredWith(p, r, f)
  PROVE  WorkTabOK(p2, b, t, m, s)
<1>1. p \in WorkTabType(m) /\ OthersAsk(p.calls) /\ p.calls \in Seq(WorkJobs(m))
  BY DEF WorkTabOK, WorkTabType
<1>2. PICK q \in Seq(WorkJobs(m)) : q = p.calls
  BY <1>1
<1>3. JobLeft(q, r, m)
  <2>1. OthersAsk(q) /\ q # <<>> /\ r = Tail(q)
    BY <1>1, <1>2
  <2> QED
    BY <2>1, JobLeaves
<1>4. /\ p2 \in WorkTabType(m) /\ p2.calls = r /\ p2.shown = p.shown /\ p2.timer = p.timer
      /\ p2.edit = p.edit /\ p2.token = p.token /\ p2.seen = p.seen /\ p2.failed = f /\ p2.open = p.open
  <2>1. r \in Seq(WorkJobs(m))
    BY <1>3 DEF JobLeft
  <2> QED
    BY <1>1, <2>1 DEF WorkTabType, AnsweredWith
<1>5. OthersAsk(r) /\ (r # <<>> => Head(r).at = "ask" /\ ~Head(r).calm)
  BY <1>3 DEF JobLeft
<1>6. SinglesOK(p) => SinglesOK(p2)
  BY <1>2, <1>3, <1>4 DEF SinglesOK, JobLeft, EditOK
<1>7. TimerOK(p2) /\ LayoutOK(p2)
  BY <1>2, <1>3, <1>4 DEF WorkTabOK, TimerOK, LayoutOK, JobLeft
<1>8. LoadedOK(p2, b) /\ CalmOK(p2, b) /\ CreateOK(r) /\ ShownOK(p2, b)
  BY <1>4, <1>5 DEF LoadedOK, CalmOK, CreateOK, ShownOK, JustLoaded
<1>9. ShareOK(p2, b, t)
  <2>1. /\ ~Telling(r, "share") /\ ~Telling(r, "revoke")
        /\ ~Telling(p.calls, "share") /\ ~Telling(p.calls, "revoke")
    BY <1>5 DEF Telling
  <2> QED
    BY <1>4, <2>1 DEF WorkTabOK, ShareOK, Links
<1>10. OpenOK(p2) /\ FilledOK(p2, b)
  <2>1. ~JustLoaded(r) /\ (NoLayout(q) => NoLayout(r)) /\ (JobsFit(q) => JobsFit(r))
    BY <1>3, <1>5 DEF JobLeft, JustLoaded
  <2> QED
    BY <1>2, <1>4, <2>1 DEF WorkTabOK, OpenOK, FilledOK, LoadedHead, Bare
<1> QED
  BY <1>4, <1>5, <1>6, <1>7, <1>8, <1>9, <1>10 DEF WorkTabOK

BoardShown(p, r, list, timer) == [p EXCEPT !.open = TRUE, !.shown = list, !.timer = timer, !.calls = r]

\* s2: whether no list was loaded under an open editor, this one included.
LEMMA TabShows ==
  ASSUME NEW m \in Nat, NEW s \in BOOLEAN, NEW s2 \in BOOLEAN, NEW t, NEW p, NEW b, WorkTabOK(p, b, t, m, s), LoadedHead(p.calls),
         NEW list, list = Head(p.calls).list, s2 => s /\ (p.edit = NoPanel \/ list = p.shown),
         NEW timer \in Timers(m), list = p.shown => timer = p.timer,
         list # p.shown => timer.set /\ timer.list = list /\ (timer.calm => Len(p.calls) = 1),
         NEW r, r = Tail(p.calls), NEW p2, p2 = BoardShown(p, r, list, timer)
  PROVE  WorkTabOK(p2, b, t, m, s2)
<1>1. p \in WorkTabType(m) /\ OthersAsk(p.calls) /\ p.calls \in Seq(WorkJobs(m)) /\ p.calls # <<>>
  BY DEF WorkTabOK, WorkTabType, JustLoaded, LoadedHead
<1>2. PICK q \in Seq(WorkJobs(m)) : q = p.calls
  BY <1>1
<1>3. JobLeft(q, r, m)
  <2>1. OthersAsk(q) /\ q # <<>> /\ r = Tail(q)
    BY <1>1, <1>2
  <2> QED
    BY <2>1, JobLeaves
<1>a. 1 \in 1 .. Len(q) /\ Head(q) = q[1] /\ q[1] \in WorkJobs(m)
  BY <1>1, <1>2
<1>b. list = q[1].list /\ list \in SUBSET Widgets(m)
  BY <1>2, <1>a DEF WorkJobs
<1>4. /\ p2 \in WorkTabType(m) /\ p2.calls = r /\ p2.shown = list /\ p2.timer = timer
      /\ p2.edit = p.edit /\ p2.token = p.token /\ p2.seen = p.seen /\ p2.failed = p.failed /\ p2.open
  <2>1. r \in Seq(WorkJobs(m))
    BY <1>3 DEF JobLeft
  <2> QED
    BY <1>1, <1>b, <2>1 DEF WorkTabType, BoardShown
<1>5. OthersAsk(r) /\ (r # <<>> => Head(r).at = "ask" /\ ~Head(r).calm)
  BY <1>3 DEF JobLeft
<1>6. s2 => SinglesOK(p2)
  <2> SUFFICES ASSUME s2 PROVE SinglesOK(p2)
    OBVIOUS
  <2>1. SinglesOK(p)
    BY DEF WorkTabOK
  <2>2. Single(list) /\ AllSingle(r)
    BY <1>2, <1>3, <1>a, <1>b, <2>1 DEF SinglesOK, AllSingle, JobLeft
  <2>3. Single(timer.list)
    BY <2>1, <2>2 DEF SinglesOK
  <2>4. EditOK(p2)
    BY <1>4, <2>1 DEF SinglesOK, EditOK
  <2> QED
    BY <1>4, <2>2, <2>3, <2>4 DEF SinglesOK
<1>c. (list = {} => Bare(p)) /\ (~p.open => p.shown = {}) /\ (list # {} => b.panels # {}) /\ (b.panels = {} => Bare(p))
  BY DEF WorkTabOK, OpenOK, FilledOK
<1>7. TimerOK(p2) /\ LayoutOK(p2)
  <2>1. CASE list = p.shown
    <3>1. CASE p.open
      BY <1>2, <1>3, <1>4, <2>1, <3>1 DEF WorkTabOK, TimerOK, LayoutOK, JobLeft
    <3>2. CASE ~p.open
      <4>1. ~p.timer.set /\ NoLayout(r)
        BY <1>2, <1>3, <1>c, <2>1, <3>2 DEF Bare, JobLeft
      <4>2. LastLayoutIs(r, list)
        BY <4>1 DEF LastLayoutIs, NoLayout
      <4>3. p2.timer = p.timer /\ p2.calls = r /\ p2.shown = list
        BY <1>4, <2>1
      <4> QED
        BY <4>1, <4>2, <4>3 DEF TimerOK, LayoutOK
    <3> QED
      BY <3>1, <3>2
  <2>2. CASE list # p.shown
    BY <1>2, <1>3, <1>4, <2>2 DEF TimerOK, LayoutOK, JobLeft
  <2> QED
    BY <2>1, <2>2
<1>8. LoadedOK(p2, b) /\ CalmOK(p2, b) /\ CreateOK(r)
  BY <1>4, <1>5 DEF LoadedOK, CalmOK, CreateOK, JustLoaded
<1>9. ShownOK(p2, b)
  <2>1. p.seen = b.patches => list = b.panels
    BY DEF WorkTabOK, LoadedOK, LoadedHead
  <2> QED
    BY <1>4, <2>1 DEF ShownOK
<1>10. ShareOK(p2, b, t)
  <2>1. /\ ~Telling(r, "share") /\ ~Telling(r, "revoke")
        /\ ~Telling(p.calls, "share") /\ ~Telling(p.calls, "revoke")
    BY <1>5 DEF Telling, JustLoaded, LoadedHead
  <2> QED
    BY <1>4, <2>1 DEF WorkTabOK, ShareOK, Links
<1>11. OpenOK(p2)
  BY <1>4, <1>5 DEF OpenOK, JustLoaded
<1>12. FilledOK(p2, b)
  <2>1. ~LoadedHead(r) /\ (NoLayout(q) => NoLayout(r)) /\ JobsFit(r)
    BY <1>2, <1>3, <1>5 DEF JobLeft, JustLoaded, LoadedHead, WorkTabOK, FilledOK
  <2>2. timer.set => timer.list # {}
    BY <1>c DEF WorkTabOK, FilledOK, Bare
  <2>3. b.panels = {} => list = p.shown /\ p.shown = {} /\ ~p.timer.set /\ NoLayout(q)
    BY <1>2, <1>c DEF Bare
  <2> QED
    BY <1>4, <2>1, <2>2, <2>3 DEF FilledOK, Bare
<1> QED
  BY <1>4, <1>5, <1>6, <1>7, <1>8, <1>9, <1>10, <1>11, <1>12 DEF WorkTabOK

BoardGone(p, r) == [p EXCEPT !.open = FALSE, !.shown = {}, !.calls = r]

\* A refused load: nothing is shown.
LEMMA TabEmpties ==
  ASSUME NEW m \in Nat, NEW s \in BOOLEAN, NEW t, NEW p, NEW b, WorkTabOK(p, b, t, m, s), JustLoaded(p.calls),
         Head(p.calls).refused, NEW r, r = Tail(p.calls), NEW p2, p2 = BoardGone(p, r)
  PROVE  WorkTabOK(p2, b, t, m, s)
<1>1. p \in WorkTabType(m) /\ OthersAsk(p.calls) /\ p.calls \in Seq(WorkJobs(m)) /\ p.calls # <<>>
  BY DEF WorkTabOK, WorkTabType, JustLoaded
<1>2. PICK q \in Seq(WorkJobs(m)) : q = p.calls
  BY <1>1
<1>3. JobLeft(q, r, m)
  <2>1. OthersAsk(q) /\ q # <<>> /\ r = Tail(q)
    BY <1>1, <1>2
  <2> QED
    BY <2>1, JobLeaves
<1>4. /\ p2 \in WorkTabType(m) /\ p2.calls = r /\ p2.shown = {} /\ p2.timer = p.timer
      /\ p2.edit = p.edit /\ p2.token = p.token /\ p2.seen = p.seen /\ p2.failed = p.failed /\ ~p2.open
  <2>1. r \in Seq(WorkJobs(m))
    BY <1>3 DEF JobLeft
  <2> QED
    BY <1>1, <2>1 DEF WorkTabType, BoardGone
<1>5. OthersAsk(r) /\ (r # <<>> => Head(r).at = "ask" /\ ~Head(r).calm)
  BY <1>3 DEF JobLeft
<1>6. SinglesOK(p) => SinglesOK(p2)
  BY <1>2, <1>3, <1>4 DEF SinglesOK, JobLeft, EditOK, Single, MadeOf
<1>7. TimerOK(p2) /\ LayoutOK(p2)
  BY <1>2, <1>3, <1>4 DEF WorkTabOK, TimerOK, LayoutOK, JobLeft
<1>8. LoadedOK(p2, b) /\ CalmOK(p2, b) /\ CreateOK(r) /\ ShownOK(p2, b)
  BY <1>4, <1>5 DEF LoadedOK, CalmOK, CreateOK, ShownOK, JustLoaded
<1>9. ShareOK(p2, b, t)
  <2>1. /\ ~Telling(r, "share") /\ ~Telling(r, "revoke")
        /\ ~Telling(p.calls, "share") /\ ~Telling(p.calls, "revoke")
    BY <1>5 DEF Telling, JustLoaded
  <2> QED
    BY <1>4, <2>1 DEF WorkTabOK, ShareOK, Links
<1>10. OpenOK(p2) /\ FilledOK(p2, b)
  <2>1. ~JustLoaded(r) /\ (NoLayout(q) => NoLayout(r)) /\ (JobsFit(q) => JobsFit(r))
    BY <1>3, <1>5 DEF JobLeft, JustLoaded
  <2> QED
    BY <1>2, <1>4, <2>1 DEF WorkTabOK, OpenOK, FilledOK, LoadedHead, Bare
<1> QED
  BY <1>4, <1>5, <1>6, <1>7, <1>8, <1>9, <1>10 DEF WorkTabOK

AnswerTaken(p, r, token) == [p EXCEPT !.calls = r, !.token = token]

\* The answer of another call is taken.
LEMMA TabTakes ==
  ASSUME NEW m \in Nat, NEW s, NEW t, NEW p, NEW b, WorkTabOK(p, b, t, m, s), p.calls # <<>>, Head(p.calls).at = "told",
         Head(p.calls).op # "load", NEW token \in Nat,
         Head(p.calls).op = "share" => token = Head(p.calls).token, Head(p.calls).op = "revoke" => token = 0,
         Head(p.calls).op \notin {"share", "revoke"} => token = p.token,
         NEW r, r = Tail(p.calls), Head(p.calls).op \in {"save", "install", "revoke"} => Returning(r),
         NEW p2, p2 = AnswerTaken(p, r, token)
  PROVE  WorkTabOK(p2, b, t, m, s)
<1>1. p \in WorkTabType(m) /\ OthersAsk(p.calls) /\ p.calls \in Seq(WorkJobs(m))
  BY DEF WorkTabOK, WorkTabType
<1>2. PICK q \in Seq(WorkJobs(m)) : q = p.calls
  BY <1>1
<1>3. JobLeft(q, r, m)
  <2>1. OthersAsk(q) /\ q # <<>> /\ r = Tail(q)
    BY <1>1, <1>2
  <2> QED
    BY <2>1, JobLeaves
<1>4. /\ p2 \in WorkTabType(m) /\ p2.calls = r /\ p2.shown = p.shown /\ p2.timer = p.timer
      /\ p2.edit = p.edit /\ p2.token = token /\ p2.seen = p.seen /\ p2.failed = p.failed /\ p2.open = p.open
  <2>1. r \in Seq(WorkJobs(m))
    BY <1>3 DEF JobLeft
  <2> QED
    BY <1>1, <2>1 DEF WorkTabType, AnswerTaken
<1>5. OthersAsk(r) /\ (r # <<>> => Head(r).at = "ask" /\ ~Head(r).calm)
  BY <1>3 DEF JobLeft
<1>6. SinglesOK(p) => SinglesOK(p2)
  BY <1>2, <1>3, <1>4 DEF SinglesOK, JobLeft, EditOK
<1>7. TimerOK(p2) /\ LayoutOK(p2)
  BY <1>2, <1>3, <1>4 DEF WorkTabOK, TimerOK, LayoutOK, JobLeft
<1>8. LoadedOK(p2, b) /\ CalmOK(p2, b) /\ CreateOK(r)
  BY <1>4, <1>5 DEF LoadedOK, CalmOK, CreateOK, JustLoaded
<1>9. ShownOK(p2, b)
  <2>1. (Returning(q) => Returning(r)) /\ (Arranging(q) => Arranging(r)) /\ ~JustLoaded(q)
    BY <1>2, <1>3 DEF JobLeft, JustLoaded, LoadsAgain
  <2> QED
    BY <1>2, <1>4, <2>1 DEF WorkTabOK, ShownOK
<1>10. ShareOK(p2, b, t)
  <2>1. /\ ~Telling(r, "share") /\ ~Telling(r, "revoke")
        /\ Telling(p.calls, "share") <=> Head(p.calls).op = "share"
        /\ Telling(p.calls, "revoke") <=> Head(p.calls).op = "revoke"
    BY <1>5 DEF Telling
  <2> QED
    BY <1>4, <2>1 DEF WorkTabOK, ShareOK, Links
<1>11. OpenOK(p2) /\ FilledOK(p2, b)
  <2>1. ~JustLoaded(r) /\ ~JustLoaded(q) /\ (NoLayout(q) => NoLayout(r)) /\ (JobsFit(q) => JobsFit(r))
    BY <1>2, <1>3, <1>5 DEF JobLeft, JustLoaded
  <2>2. Returning(q) => Returning(r)
    BY <1>2, <1>3 DEF JobLeft, LoadsAgain
  <2> QED
    BY <1>2, <1>4, <2>1, <2>2 DEF WorkTabOK, OpenOK, FilledOK, LoadedHead, Bare
<1> QED
  BY <1>4, <1>5, <1>6, <1>7, <1>8, <1>9, <1>10, <1>11 DEF WorkTabOK

-----------------------------------------------------------------------------
(* The steps of the workspace. *)

Counts == [made : 0 .. MaxMade, acts : Nat, throws : Nat, tokens : Nat]

LEMMA WorkMoves ==
  ASSUME WorkIInv, NEW t \in WorkTabs, NEW p2, work' = [work EXCEPT ![t] = p2], CountsOK', count.made <= count'.made,
         BoardOK(board', count'.made, ~overlap'.reloaded), ~overlap'.reloaded => ~overlap.reloaded,
         (board'.patches = board.patches /\ board'.panels = board.panels)
         \/ (board'.patches = board.patches + 1 /\ board'.panels # {}),
         \A u \in WorkTabs : u # t /\ u \in board'.by => u \in board.by /\ board'.token = board.token,
         WorkTabOK(p2, board', t, count'.made, ~overlap'.reloaded)
  PROVE  WorkIInv'
<1>1. board.patches \in Nat /\ board'.patches \in Nat /\ board.patches <= board'.patches
  BY DEF WorkIInv, BoardOK
<1>2. count.made \in Nat /\ count'.made \in Nat
  BY DEF WorkIInv, CountsOK
<1>3. work' = [u \in WorkTabs |-> work'[u]] /\ \A u \in WorkTabs : work'[u] = IF u = t THEN p2 ELSE work[u]
  BY DEF WorkIInv
<1>4. ASSUME NEW u \in WorkTabs PROVE WorkTabOK(work'[u], board', u, count'.made, ~overlap'.reloaded)
  <2>1. CASE u = t
    BY <1>3, <2>1
  <2>2. CASE u # t
    <3>1. PICK p : p = work[u]
      OBVIOUS
    <3>2. WorkTabOK(p, board, u, count.made, ~overlap.reloaded)
      BY <3>1 DEF WorkIInv
    <3>3. p.seen \in Nat /\ p.seen <= board.patches
      BY <3>2 DEF WorkTabOK, WorkTabType
    <3>4. p.seen = board'.patches => p.seen = board.patches /\ board'.panels = board.panels
      BY <1>1, <3>3
    <3>8. board'.panels = {} => board.panels = {}
      OBVIOUS
    <3>5. u \in board'.by => u \in board.by /\ board'.token = board.token
      BY <2>2
    <3>6. PICK m, m2, b, b2, s, s2 : /\ m = count.made /\ m2 = count'.made /\ b = board /\ b2 = board'
                                     /\ s = ~overlap.reloaded /\ s2 = ~overlap'.reloaded
      OBVIOUS
    <3>7. WorkTabOK(p, b2, u, m2, s2)
      <4>1. m \in Nat /\ m2 \in Nat /\ m <= m2 /\ (s2 => s) /\ WorkTabOK(p, b, u, m, s)
        BY <1>2, <3>2, <3>6
      <4>2. b.patches \in Nat /\ b2.patches \in Nat /\ b.patches <= b2.patches
        BY <1>1, <3>6
      <4>3. p.seen = b2.patches => p.seen = b.patches /\ b2.panels = b.panels
        BY <3>4, <3>6
      <4>4. u \in b2.by => u \in b.by /\ b2.token = b.token
        BY <3>5, <3>6
      <4>5. b2.panels = {} => b.panels = {}
        BY <3>6, <3>8
      <4> QED
        BY <4>1, <4>2, <4>3, <4>4, <4>5, OthersWork
    <3> QED
      BY <1>3, <2>2, <3>1, <3>6, <3>7
  <2> QED
    BY <2>1, <2>2
<1> QED
  BY <1>3, <1>4 DEF WorkIInv

\* A step that leaves the dashboard as it is.
LEMMA TabMoves ==
  ASSUME WorkIInv, NEW t \in WorkTabs, NEW p2, work' = [work EXCEPT ![t] = p2], count' \in Counts, count'.made = count.made,
         UNCHANGED <<board, overlap>>, WorkTabOK(p2, board, t, count.made, ~overlap.reloaded)
  PROVE  WorkIInv'
<1>1. CountsOK' /\ count.made <= count'.made
  <2>1. count.made \in Nat
    BY DEF WorkIInv, CountsOK
  <2> QED
    BY <2>1 DEF WorkIInv, CountsOK, LossNeedsAnOverlap, Counts
<1>2. BoardOK(board', count'.made, ~overlap'.reloaded)
  BY DEF WorkIInv, BoardOK
<1> QED
  BY <1>1, <1>2, WorkMoves

LEMMA WorkFacts ==
  ASSUME WorkIInv, NEW t \in WorkTabs
  PROVE  /\ WorkTabOK(work[t], board, t, count.made, ~overlap.reloaded) /\ count \in Counts /\ count.made \in Nat
         /\ work[t] \in WorkTabType(count.made) /\ work[t].calls \in Seq(WorkJobs(count.made))
         /\ board.panels \in SUBSET Widgets(count.made) /\ board.patches \in Nat /\ board.token \in Nat
<1>1. WorkTabOK(work[t], board, t, count.made, ~overlap.reloaded) /\ count \in Counts /\ count.made \in Nat
  BY DEF WorkIInv, CountsOK, Counts
<1>2. work[t] \in WorkTabType(count.made) /\ work[t].calls \in Seq(WorkJobs(count.made))
  BY <1>1 DEF WorkTabOK, WorkTabType
<1>3. board.panels \in SUBSET Widgets(count.made) /\ board.patches \in Nat /\ board.token \in Nat
  BY DEF WorkIInv, BoardOK
<1> QED
  BY <1>1, <1>2, <1>3

LEMMA CountsMove ==
  ASSUME count \in Counts
  PROVE  /\ [count EXCEPT !.acts = @ + 1] \in Counts /\ [count EXCEPT !.acts = @ + 1].made = count.made
         /\ [count EXCEPT !.throws = @ + 1] \in Counts /\ [count EXCEPT !.throws = @ + 1].made = count.made
         /\ [count EXCEPT !.tokens = @ + 1] \in Counts /\ [count EXCEPT !.tokens = @ + 1].made = count.made
BY DEF Counts

LEMMA StepAddPanel ==
  ASSUME WorkIInv, NEW t \in WorkTabs, AddPanel(t)
  PROVE  WorkIInv'
<1>1. PICK p : p = work[t]
  OBVIOUS
<1>2. PICK m, m2, s : m = count.made /\ m2 = m + 1 /\ s = ~overlap.reloaded
  OBVIOUS
<1>3. m \in Nat /\ m2 \in Nat /\ m <= m2 /\ WorkTabOK(p, board, t, m, s) /\ board.panels \in SUBSET Widgets(m) /\ board.patches \in Nat
  BY <1>1, <1>2, WorkFacts
<1>4. count' \in Counts /\ count'.made = m2
  BY <1>2, WorkFacts, WorkspaceAssumption DEF AddPanel, Counts
<1>5. WorkTabOK(p, board, t, m2, s)
  BY <1>3, OthersWork
<1>6. PICK e : e = Panel(m2)
  OBVIOUS
<1>7. e \in Widgets(m2) /\ e.made = m2
  BY <1>3, <1>6, <1>2 DEF Panel, Widgets
<1>8. e.made \notin MadeOf(p.shown)
  <2>1. p.shown \in SUBSET Widgets(m)
    BY <1>3 DEF WorkTabOK, WorkTabType
  <2> QED
    BY <1>2, <1>3, <1>7, <2>1 DEF MadeOf, Widgets
<1>9. PICK p2 : p2 = EditorOpened(p, e)
  OBVIOUS
<1>10. WorkTabOK(p2, board, t, m2, s)
  BY <1>5, <1>7, <1>8, <1>9, TabOpens
<1>11. work' = [work EXCEPT ![t] = p2] /\ UNCHANGED <<board, overlap>>
  BY <1>1, <1>2, <1>6, <1>9 DEF AddPanel, OpenEditor, Stored, EditorOpened
<1>12. CountsOK'
  BY <1>4, <1>11 DEF WorkIInv, CountsOK, LossNeedsAnOverlap, Counts
<1>13. BoardOK(board', count'.made, ~overlap'.reloaded)
  <2>1. Widgets(m) \subseteq Widgets(m2)
    BY <1>3, WidgetsGrow
  <2> QED
    BY <1>2, <1>4, <1>11, <2>1 DEF WorkIInv, BoardOK
<1> QED
  BY <1>2, <1>3, <1>4, <1>10, <1>11, <1>12, <1>13, WorkMoves

LEMMA StepEditPanel ==
  ASSUME WorkIInv, NEW t \in WorkTabs, EditPanel(t)
  PROVE  WorkIInv'
<1>1. PICK p : p = work[t]
  OBVIOUS
<1>2. PICK m, s : m = count.made /\ s = ~overlap.reloaded
  OBVIOUS
<1>3. WorkTabOK(p, board, t, m, s) /\ p \in WorkTabType(m) /\ count \in Counts
  BY <1>1, <1>2, WorkFacts
<1>4. PICK e \in p.shown : OpenEditor(t, e) /\ UNCHANGED count
  BY <1>1 DEF EditPanel
<1>5. e \in Widgets(m) /\ (e.made \in MadeOf(p.shown) => \E r \in p.shown : r.made = e.made /\ r.gen = e.gen)
  BY <1>3 DEF WorkTabType
<1>6. PICK p2 : p2 = EditorOpened(p, e)
  OBVIOUS
<1>7. WorkTabOK(p2, board, t, m, s)
  BY <1>3, <1>5, <1>6, TabOpens
<1>8. work' = [work EXCEPT ![t] = p2] /\ UNCHANGED <<board, overlap, count>>
  BY <1>1, <1>4, <1>6 DEF OpenEditor, Stored, EditorOpened
<1> QED
  BY <1>2, <1>3, <1>7, <1>8, TabMoves

LEMMA JobTyped ==
  ASSUME NEW m, NEW op \in JobOps, NEW c, c = Job(op)
  PROVE  c \in WorkJobs(m) /\ c.op = op /\ c.at = "ask" /\ c.list = {} /\ ~c.calm /\ ~c.refused /\ c.token = 0
BY DEF Job, WorkJobs

ListJob(op, l, calm) == [Job(op) EXCEPT !.list = l, !.calm = calm]
LEMMA ListJobTyped ==
  ASSUME NEW m, NEW op \in JobOps, NEW l \in SUBSET Widgets(m), NEW calm \in BOOLEAN, NEW c, c = ListJob(op, l, calm)
  PROVE  c \in WorkJobs(m) /\ c.op = op /\ c.at = "ask" /\ c.list = l /\ c.calm = calm /\ ~c.refused /\ c.token = 0
BY DEF Job, WorkJobs, ListJob

LEMMA StepSavePanel ==
  ASSUME WorkIInv, NEW t \in WorkTabs, SavePanel(t)
  PROVE  WorkIInv'
<1>1. PICK p : p = work[t]
  OBVIOUS
<1>2. PICK m, s : m = count.made /\ s = ~overlap.reloaded
  OBVIOUS
<1>3. /\ WorkTabOK(p, board, t, m, s) /\ p \in WorkTabType(m) /\ count \in Counts /\ m \in Nat
      /\ board.panels \in SUBSET Widgets(m)
  BY <1>1, <1>2, WorkFacts
<1>4. PICK query \in {p.query} \cup Queries :
         /\ p.edit # NoPanel /\ p.open /\ Act
         /\ LET w == [p.edit EXCEPT !.query = query]
            IN work' = [work EXCEPT ![t].edit = NoPanel, ![t].query = query,
                          ![t].calls = Append(@, [Job("save") EXCEPT !.list = WithPanel(p.shown, w), !.calm = Calm(t)])]
         /\ Stored /\ UNCHANGED overlap
  BY <1>1 DEF SavePanel, HasDashboard
<1>5. query \in Queries \cup {NoQuery}
  BY <1>3, <1>4 DEF WorkTabType
<1>6. PICK w : w = [p.edit EXCEPT !.query = query]
  OBVIOUS
<1>7. w \in Widgets(m) /\ w.made = p.edit.made /\ w.gen = p.edit.gen
  <2>1. p.edit \in Widgets(m)
    BY <1>3, <1>4 DEF WorkTabType
  <2> QED
    BY <1>5, <1>6, <2>1 DEF Widgets
<1>8. PICK l : l = WithPanel(p.shown, w)
  OBVIOUS
<1>9. l \in SUBSET Widgets(m) /\ w \in l
  BY <1>3, <1>7, <1>8 DEF WithPanel, WorkTabType
<1>10. PICK calm \in BOOLEAN : calm = Calm(t)
  BY DEF Calm
<1>11. PICK c \in WorkJobs(m) : /\ c = ListJob("save", l, calm)
                                /\ c.op = "save" /\ c.at = "ask" /\ c.list = l /\ c.calm = calm /\ JobFits(c)
  <2>1. PICK c : c = ListJob("save", l, calm)
    OBVIOUS
  <2>2. "save" \in JobOps
    BY DEF JobOps
  <2>3. c \in WorkJobs(m) /\ c.op = "save" /\ c.at = "ask" /\ c.list = l /\ c.calm = calm
    BY <1>9, <2>1, <2>2, ListJobTyped
  <2>4. JobFits(c)
    BY <1>9, <2>1, <2>2, <2>3, ListJobTyped DEF JobFits
  <2> QED
    BY <2>1, <2>3, <2>4
<1>12. PICK r : r = Append(p.calls, c)
  OBVIOUS
<1>13. PICK p2 : p2 = PanelSaved(p, query, r)
  OBVIOUS
<1>14. c.calm => p.calls = <<>> /\ ~p.timer.set /\ "panels" \notin p.failed
  BY <1>1, <1>10, <1>11 DEF Calm
<1>15. WorkTabOK(p2, board, t, m, s)
  <2>1. c.list = WithPanel(p.shown, w)
    BY <1>8, <1>11
  <2> QED
    BY <1>3, <1>4, <1>5, <1>7, <1>11, <1>12, <1>13, <1>14, <2>1, TabSaves
<1>16. work' = [work EXCEPT ![t] = p2]
  <2>1. work' = [work EXCEPT ![t].edit = NoPanel, ![t].query = query, ![t].calls = Append(@, c)]
    BY <1>4, <1>6, <1>8, <1>10, <1>11 DEF ListJob
  <2>2. t \in DOMAIN work /\ DOMAIN p = {"calls", "open", "shown", "timer", "edit", "query", "token", "seen", "failed"}
    BY <1>3 DEF WorkIInv, WorkTabType
  <2> QED
    BY <1>1, <1>12, <1>13, <2>1, <2>2 DEF PanelSaved
<1>17. count' \in Counts /\ count'.made = m /\ UNCHANGED <<board, overlap>>
  BY <1>2, <1>3, <1>4, CountsMove DEF Act, Stored
<1> QED
  BY <1>2, <1>15, <1>16, <1>17, TabMoves

LEMMA StepSaveNowhere ==
  ASSUME WorkIInv, NEW t \in WorkTabs, SaveNowhere(t)
  PROVE  WorkIInv'
<1>1. PICK p, m, s : p = work[t] /\ m = count.made /\ s = ~overlap.reloaded
  OBVIOUS
<1>2. WorkTabOK(p, board, t, m, s) /\ p \in WorkTabType(m) /\ count \in Counts
  BY <1>1, WorkFacts
<1>3. PICK query \in {p.query} \cup Queries :
         work' = [work EXCEPT ![t].edit = NoPanel, ![t].query = query] /\ UNCHANGED <<board, count, overlap>>
  BY <1>1 DEF SaveNowhere, Stored
<1>4. query \in Queries \cup {NoQuery}
  BY <1>2, <1>3 DEF WorkTabType
<1>5. PICK p2 : p2 = EditorClosed(p, query)
  OBVIOUS
<1>6. WorkTabOK(p2, board, t, m, s)
  BY <1>2, <1>4, <1>5, TabCloses
<1>7. work' = [work EXCEPT ![t] = p2]
  <2>1. t \in DOMAIN work /\ DOMAIN p = {"calls", "open", "shown", "timer", "edit", "query", "token", "seen", "failed"}
    BY <1>2 DEF WorkIInv, WorkTabType
  <2> QED
    BY <1>1, <1>3, <1>5, <2>1 DEF EditorClosed
<1> QED
  BY <1>1, <1>2, <1>3, <1>6, <1>7, TabMoves

LEMMA StepDragPanel ==
  ASSUME WorkIInv, NEW t \in WorkTabs, DragPanel(t)
  PROVE  WorkIInv'
<1>1. PICK p : p = work[t]
  OBVIOUS
<1>2. PICK m, s : m = count.made /\ s = ~overlap.reloaded
  OBVIOUS
<1>3. /\ WorkTabOK(p, board, t, m, s) /\ p \in WorkTabType(m) /\ count \in Counts /\ m \in Nat
      /\ board.panels \in SUBSET Widgets(m)
  BY <1>1, <1>2, WorkFacts
<1>4. PICK x \in p.shown :
         /\ p.edit = NoPanel /\ Act
         /\ LET list == (p.shown \ {x}) \cup {[x EXCEPT !.moved = ~@]}
            IN work' = [work EXCEPT ![t].shown = list, ![t].timer = [set |-> TRUE, list |-> list, calm |-> Calm(t)]]
         /\ Stored /\ UNCHANGED overlap
  BY <1>1 DEF DragPanel
<1>5. PICK l : l = (p.shown \ {x}) \cup {Toggled(x)}
  OBVIOUS
<1>6. PICK calm \in BOOLEAN : calm = Calm(t)
  BY DEF Calm
<1>7. PICK p2 : p2 = PanelDragged(p, l, calm)
  OBVIOUS
<1>8. calm => p.calls = <<>> /\ ~p.timer.set /\ "panels" \notin p.failed
  BY <1>1, <1>6 DEF Calm
<1>9. WorkTabOK(p2, board, t, m, s)
  BY <1>3, <1>4, <1>5, <1>7, <1>8, TabDrags
<1>10. work' = [work EXCEPT ![t] = p2]
  <2>1. work' = [work EXCEPT ![t].shown = l, ![t].timer = [set |-> TRUE, list |-> l, calm |-> calm]]
    BY <1>4, <1>5, <1>6 DEF Toggled
  <2>2. t \in DOMAIN work /\ DOMAIN p = {"calls", "open", "shown", "timer", "edit", "query", "token", "seen", "failed"}
    BY <1>3 DEF WorkIInv, WorkTabType
  <2> QED
    BY <1>1, <1>7, <2>1, <2>2 DEF PanelDragged
<1>11. count' \in Counts /\ count'.made = m /\ UNCHANGED <<board, overlap>>
  BY <1>2, <1>3, <1>4, CountsMove DEF Act, Stored
<1> QED
  BY <1>2, <1>9, <1>10, <1>11, TabMoves

LEMMA StepLayoutTimer ==
  ASSUME WorkIInv, NEW t \in WorkTabs, LayoutTimer(t)
  PROVE  WorkIInv'
<1>1. PICK p : p = work[t]
  OBVIOUS
<1>2. PICK m, s : m = count.made /\ s = ~overlap.reloaded
  OBVIOUS
<1>3. /\ WorkTabOK(p, board, t, m, s) /\ p \in WorkTabType(m) /\ count \in Counts /\ m \in Nat
      /\ board.panels \in SUBSET Widgets(m)
  BY <1>1, <1>2, WorkFacts
<1>4. PICK l \in SUBSET Widgets(m) : l = p.timer.list
  BY <1>3 DEF WorkTabType, Timers
<1>5. PICK calm \in BOOLEAN : calm = (p.timer.calm /\ p.calls = <<>> /\ "panels" \notin p.failed)
  OBVIOUS
<1>6. PICK c \in WorkJobs(m) : /\ c = ListJob("layout", l, calm)
                               /\ c.op = "layout" /\ c.at = "ask" /\ c.list = l /\ c.calm = calm
                               /\ ~c.refused /\ c.token = 0
  <2>1. PICK c : c = ListJob("layout", l, calm)
    OBVIOUS
  <2>2. "layout" \in JobOps
    BY DEF JobOps
  <2>3. c \in WorkJobs(m) /\ c.op = "layout" /\ c.at = "ask" /\ c.list = l /\ c.calm = calm /\ ~c.refused /\ c.token = 0
    BY <2>1, <2>2, ListJobTyped
  <2> QED
    BY <2>1, <2>3
<1>7. PICK r : r = Append(p.calls, c)
  OBVIOUS
<1>8. PICK p2 : p2 = TimerFired(p, r)
  OBVIOUS
<1>9. p.timer.set
  BY <1>1 DEF LayoutTimer
<1>10. WorkTabOK(p2, board, t, m, s)
  <2>1. c.list = p.timer.list /\ (c.calm => p.calls = <<>> /\ p.timer.calm /\ "panels" \notin p.failed)
    BY <1>4, <1>5, <1>6
  <2> QED
    BY <1>3, <1>6, <1>7, <1>8, <1>9, <2>1, TabFires
<1>11. work' = [work EXCEPT ![t] = p2]
  <2>1. work' = [work EXCEPT ![t].timer = NoTimer, ![t].calls = Append(@, [Job("layout") EXCEPT !.list = p.timer.list,
                               !.calm = p.timer.calm /\ p.calls = <<>> /\ "panels" \notin p.failed])]
    BY <1>1 DEF LayoutTimer
  <2>2. work' = [work EXCEPT ![t].timer = NoTimer, ![t].calls = Append(@, c)]
    BY <1>4, <1>5, <1>6, <2>1 DEF ListJob
  <2>3. t \in DOMAIN work /\ DOMAIN p = {"calls", "open", "shown", "timer", "edit", "query", "token", "seen", "failed"}
    BY <1>3 DEF WorkIInv, WorkTabType
  <2> QED
    BY <1>1, <1>7, <1>8, <2>2, <2>3 DEF TimerFired
<1>12. count' \in Counts /\ count'.made = m /\ UNCHANGED <<board, overlap>>
  BY <1>2, <1>3 DEF LayoutTimer, Stored
<1> QED
  BY <1>2, <1>10, <1>11, <1>12, TabMoves

LEMMA StepPress ==
  ASSUME WorkIInv, NEW t \in WorkTabs, NEW op \in {"share", "revoke", "install"},
         Act, Enqueue(t, Job(op)), Stored, UNCHANGED overlap
  PROVE  WorkIInv'
<1>1. PICK p : p = work[t]
  OBVIOUS
<1>2. PICK m, s : m = count.made /\ s = ~overlap.reloaded
  OBVIOUS
<1>3. WorkTabOK(p, board, t, m, s) /\ p \in WorkTabType(m) /\ count \in Counts /\ m \in Nat
  BY <1>1, <1>2, WorkFacts
<1>4. PICK c : c = Job(op)
  OBVIOUS
<1>5. c \in WorkJobs(m) /\ c.op = op /\ c.at = "ask" /\ c.list = {} /\ ~c.calm /\ JobFits(c)
  BY <1>4, JobTyped DEF JobOps, JobFits
<1>6. PICK r : r = Append(p.calls, c)
  OBVIOUS
<1>7. PICK p2 : p2 = CallsAre(p, r)
  OBVIOUS
<1>8. WorkTabOK(p2, board, t, m, s)
  BY <1>3, <1>5, <1>6, <1>7, TabAsks
<1>9. work' = [work EXCEPT ![t] = p2]
  BY <1>1, <1>4, <1>6, <1>7 DEF Enqueue, CallsAre
<1>10. count' \in Counts /\ count'.made = m /\ UNCHANGED <<board, overlap>>
  BY <1>2, <1>3, CountsMove DEF Act, Stored
<1> QED
  BY <1>2, <1>8, <1>9, <1>10, TabMoves

-----------------------------------------------------------------------------
(* The handlers. *)

\* The first call, as it is and as it is answered.
LEMMA HeadTyped ==
  ASSUME WorkIInv, NEW t \in WorkTabs, work[t].calls # <<>>
  PROVE  /\ Head(work[t].calls) = work[t].calls[1] /\ Head(work[t].calls) \in WorkJobs(count.made)
         /\ JobFits(Head(work[t].calls)) /\ 1 \in DOMAIN work[t].calls /\ t \in DOMAIN work
         /\ DOMAIN work[t] = {"calls", "open", "shown", "timer", "edit", "query", "token", "seen", "failed"}
<1>1. work[t] \in WorkTabType(count.made) /\ work[t].calls \in Seq(WorkJobs(count.made))
  BY WorkFacts
<1>2. /\ 1 \in DOMAIN work[t].calls /\ Head(work[t].calls) = work[t].calls[1] /\ Head(work[t].calls) \in WorkJobs(count.made)
      /\ 1 \in 1 .. Len(work[t].calls)
  BY <1>1
<1>4. JobFits(Head(work[t].calls))
  BY <1>2 DEF WorkIInv, WorkTabOK, FilledOK, JobsFit
<1>3. DOMAIN work[t] = {"calls", "open", "shown", "timer", "edit", "query", "token", "seen", "failed"}
  BY <1>1 DEF WorkTabType
<1> QED
  BY <1>2, <1>3, <1>4 DEF WorkIInv

LEMMA StepGetDashboards ==
  ASSUME WorkIInv, NEW t \in WorkTabs, GetDashboards(t)
  PROVE  WorkIInv'
<1>1. PICK p : p = work[t]
  OBVIOUS
<1>2. PICK m, s : m = count.made /\ s = ~overlap.reloaded
  OBVIOUS
<1>3. /\ WorkTabOK(p, board, t, m, s) /\ p \in WorkTabType(m) /\ count \in Counts /\ m \in Nat
      /\ board.panels \in SUBSET Widgets(m) /\ board.patches \in Nat /\ s \in BOOLEAN /\ (s => Single(board.panels))
  BY <1>1, <1>2, WorkFacts DEF WorkIInv, BoardOK
<1>4. p.calls # <<>> /\ Head(p.calls).op = "load" /\ Head(p.calls).at = "ask" /\ UNCHANGED <<board, count, overlap>>
  BY <1>1 DEF GetDashboards, Asked
<1>5. PICK h : h = Head(p.calls)
  OBVIOUS
<1>6. /\ h = p.calls[1] /\ h \in WorkJobs(m) /\ JobFits(h) /\ 1 \in DOMAIN p.calls /\ t \in DOMAIN work
      /\ DOMAIN p = {"calls", "open", "shown", "timer", "edit", "query", "token", "seen", "failed"}
  BY <1>1, <1>2, <1>4, <1>5, HeadTyped
<1>7. PICK c : c = [h EXCEPT !.at = "told", !.list = board.panels]
  OBVIOUS
<1>8. c \in WorkJobs(m) /\ c.op = "load" /\ c.at = "told" /\ c.list = board.panels /\ ~c.refused
  BY <1>3, <1>4, <1>5, <1>6, <1>7 DEF WorkJobs, JobFits
<1>9. PICK r : r = [p.calls EXCEPT ![1] = c]
  OBVIOUS
<1>10. PICK f, p2 : f = p.failed \ {"panels"} /\ p2 = Loaded(p, r, board.patches, f)
  OBVIOUS
<1>11. WorkTabOK(p2, board, t, m, s)
  BY <1>3, <1>4, <1>8, <1>9, <1>10, TabReads
<1>12. work' = [work EXCEPT ![t] = p2]
  <2>1. work' = [work EXCEPT ![t].calls[1].at = "told", ![t].calls[1].list = board.panels, ![t].seen = board.patches,
                                 ![t].failed = @ \ {"panels"}]
    BY DEF GetDashboards
  <2>2. PICK h1, r1, q1, w1 : /\ h1 = [p.calls[1] EXCEPT !.at = "told"] /\ r1 = [p.calls EXCEPT ![1] = h1]
                              /\ q1 = [p EXCEPT !.calls = r1] /\ w1 = [work EXCEPT ![t] = q1]
    OBVIOUS
  <2>3. w1 = [work EXCEPT ![t].calls[1].at = "told"]
    BY <1>1, <2>2
  <2>4. work' = [w1 EXCEPT ![t].calls[1].list = board.panels, ![t].seen = board.patches, ![t].failed = @ \ {"panels"}]
    BY <2>1, <2>3
  <2>5. w1[t] = q1 /\ q1.calls = r1 /\ r1[1] = h1 /\ DOMAIN q1 = DOMAIN p
    BY <1>1, <1>6, <2>2
  <2>6. PICK r2, q2, w2 : r2 = [r1 EXCEPT ![1] = c] /\ q2 = [q1 EXCEPT !.calls = r2] /\ w2 = [w1 EXCEPT ![t] = q2]
    OBVIOUS
  <2>7. c = [h1 EXCEPT !.list = board.panels]
    BY <1>6, <1>7, <2>2
  <2>8. w2 = [w1 EXCEPT ![t].calls[1].list = board.panels]
    BY <2>5, <2>6, <2>7
  <2>9. work' = [w2 EXCEPT ![t].seen = board.patches, ![t].failed = @ \ {"panels"}]
    BY <2>4, <2>8
  <2>10. r2 = r
    BY <1>9, <2>2, <2>6
  <2>11. q2 = [p EXCEPT !.calls = r]
    BY <2>2, <2>6, <2>10
  <2>12. w2 = [work EXCEPT ![t] = q2]
    BY <2>2, <2>6
  <2>13. p2 = [q2 EXCEPT !.seen = board.patches, !.failed = @ \ {"panels"}]
    BY <1>6, <1>10, <2>11 DEF Loaded
  <2>14. w2[t] = q2 /\ t \in DOMAIN w2
    BY <1>6, <2>12
  <2>15. work' = [w2 EXCEPT ![t] = p2]
    BY <2>9, <2>13, <2>14
  <2> QED
    BY <2>12, <2>15
<1> QED
  BY <1>2, <1>3, <1>4, <1>11, <1>12, TabMoves

\* The first call is answered, and nothing else of the tab changes.
HeadAt(t, at) == [work EXCEPT ![t].calls[1].at = at]
LEMMA HeadSet ==
  ASSUME WorkIInv, NEW t \in WorkTabs, NEW p, p = work[t], p.calls # <<>>, NEW h, h = Head(p.calls), NEW at,
         NEW c, c = [h EXCEPT !.at = at], NEW r, r = [p.calls EXCEPT ![1] = c], NEW q, q = CallsAre(p, r)
  PROVE  HeadAt(t, at) = [work EXCEPT ![t] = q]
<1>1. h = p.calls[1] /\ 1 \in DOMAIN p.calls /\ t \in DOMAIN work
  BY HeadTyped
<1> QED
  BY <1>1 DEF CallsAre, HeadAt

LEMMA StepPatchDashboard ==
  ASSUME WorkIInv, NEW t \in WorkTabs, PatchDashboard(t)
  PROVE  WorkIInv'
<1>1. PICK p : p = work[t]
  OBVIOUS
<1>2. PICK m, s : m = count.made /\ s = ~overlap.reloaded
  OBVIOUS
<1>3. /\ WorkTabOK(p, board, t, m, s) /\ p \in WorkTabType(m) /\ count \in Counts /\ m \in Nat
      /\ board.patches \in Nat /\ s \in BOOLEAN /\ p.calls \in Seq(WorkJobs(m))
      /\ board \in [panels : SUBSET Widgets(m), patches : Nat, token : Nat, by : SUBSET WorkTabs]
  BY <1>1, <1>2, WorkFacts DEF WorkIInv, BoardOK
<1>4. p.calls # <<>> /\ Head(p.calls).op \in {"save", "layout"} /\ Head(p.calls).at = "ask" /\ UNCHANGED count
  BY <1>1 DEF PatchDashboard, Asked
<1>5. PICK h : h = Head(p.calls)
  OBVIOUS
<1>6. /\ h = p.calls[1] /\ h \in WorkJobs(m) /\ JobFits(h) /\ 1 \in DOMAIN p.calls /\ t \in DOMAIN work
      /\ DOMAIN p = {"calls", "open", "shown", "timer", "edit", "query", "token", "seen", "failed"}
  BY <1>1, <1>2, <1>4, <1>5, HeadTyped
<1>7. PICK c : c = [h EXCEPT !.at = "told"]
  OBVIOUS
<1>8. c \in WorkJobs(m) /\ c.op = h.op /\ c.at = "told" /\ c.list = h.list
  BY <1>6, <1>7 DEF WorkJobs
<1>9. PICK r : r = [p.calls EXCEPT ![1] = c]
  OBVIOUS
<1>10. PICK p2 : p2 = Loaded(p, r, IF p.seen = board.patches THEN p.seen + 1 ELSE p.seen, p.failed)
  OBVIOUS
<1>11. PICK l : l = Replaced(h.list)
  OBVIOUS
<1>12. /\ l \in SUBSET Widgets(m) /\ MadeOf(l) = MadeOf(h.list) /\ Content(l) = Content(h.list)
       /\ (\A x \in l : x.gen = board.patches + 1) /\ (Single(h.list) => Single(l))
  <2>1. PICK list \in SUBSET Widgets(m) : list = h.list
    BY <1>6 DEF WorkJobs
  <2>2. l = Replaced(list)
    BY <1>11, <2>1
  <2>3. /\ l \in SUBSET Widgets(m) /\ MadeOf(l) = MadeOf(list) /\ Content(l) = Content(list)
        /\ (\A x \in l : x.gen = board.patches + 1) /\ (Single(list) => Single(l))
    BY <1>3, <2>2, ReplacedIs
  <2> QED
    BY <2>1, <2>3
<1>13. board' = [board EXCEPT !.panels = l, !.patches = @ + 1]
  BY <1>1, <1>5, <1>11 DEF PatchDashboard, The
<1>14. /\ board' \in [panels : SUBSET Widgets(m), patches : Nat, token : Nat, by : SUBSET WorkTabs]
       /\ board'.panels = l /\ board'.patches = board.patches + 1 /\ board'.token = board.token /\ board'.by = board.by
  <2>1. PICK n \in Nat : n = board.patches + 1
    BY <1>3
  <2>2. board' = [board EXCEPT !.panels = l, !.patches = n] /\ l \in SUBSET Widgets(m)
    BY <1>12, <1>13, <2>1
  <2> QED
    BY <1>3, <2>1, <2>2
<1>23. l # {}
  <2>1. h.list # {}
    BY <1>4, <1>5, <1>6 DEF JobFits
  <2>2. MadeOf(h.list) # {}
    BY <2>1 DEF MadeOf
  <2>3. MadeOf(l) # {}
    BY <1>12, <2>2
  <2> QED
    BY <2>3 DEF MadeOf
<1>15. PICK b2 \in [panels : SUBSET Widgets(m), patches : Nat, token : Nat, by : SUBSET WorkTabs] : b2 = board'
  BY <1>14
<1>16. WorkTabOK(p2, b2, t, m, s)
  <2>1. c.op = Head(p.calls).op /\ c.list = Head(p.calls).list /\ Content(b2.panels) = Content(c.list)
    BY <1>5, <1>8, <1>12, <1>14, <1>15
  <2>2. b2.patches = board.patches + 1 /\ b2.token = board.token /\ b2.by = board.by /\ b2.panels # {}
    BY <1>14, <1>15, <1>23
  <2> QED
    BY <1>3, <1>4, <1>8, <1>9, <1>10, <2>1, <2>2, TabStores
<1>17. work' = [work EXCEPT ![t] = p2]
  <2>1. PICK w1 : w1 = HeadAt(t, "told")
    OBVIOUS
  <2>2. work' = [w1 EXCEPT ![t].seen = IF p.seen = board.patches THEN @ + 1 ELSE @]
    BY <1>1, <2>1 DEF PatchDashboard, HeadAt
  <2>4. PICK q1 : q1 = CallsAre(p, r)
    OBVIOUS
  <2>3. w1 = [work EXCEPT ![t] = q1]
    BY <1>1, <1>4, <1>5, <1>7, <1>9, <2>1, <2>4, HeadSet
  <2>5. w1[t] = q1 /\ q1.seen = p.seen /\ t \in DOMAIN w1
    BY <1>6, <2>3, <2>4 DEF CallsAre
  <2>6. p2 = [q1 EXCEPT !.seen = IF p.seen = board.patches THEN @ + 1 ELSE @]
    BY <1>6, <1>10, <2>4, <2>5 DEF Loaded, CallsAre
  <2> QED
    BY <2>2, <2>3, <2>4, <2>5, <2>6
<1>18. overlap' = overlap \/ \E f \in BOOLEAN :
         /\ f = (p.seen = board.patches) /\ MadeOf(board.panels) \ MadeOf(l) # {}
         /\ overlap' = [overlap EXCEPT !.losses = @ \cup {[calm |-> h.calm, fresh |-> f]}]
  <2>1. PICK f \in BOOLEAN : f = (p.seen = board.patches)
    OBVIOUS
  <2>2. overlap' = IF MadeOf(board.panels) \ MadeOf(l) = {} THEN overlap
                   ELSE [overlap EXCEPT !.losses = @ \cup {[calm |-> h.calm, fresh |-> p.seen = board.patches]}]
    BY <1>1, <1>5, <1>11 DEF PatchDashboard, The
  <2> QED
    BY <2>1, <2>2
<1>19. CountsOK' /\ overlap'.reloaded = overlap.reloaded
  <2>1. CASE overlap' = overlap
    BY <1>4, <2>1 DEF WorkIInv, CountsOK, LossNeedsAnOverlap
  <2>2. CASE overlap' # overlap
    <3>1. PICK f \in BOOLEAN : /\ f = (p.seen = board.patches) /\ MadeOf(board.panels) \ MadeOf(l) # {}
                               /\ overlap' = [overlap EXCEPT !.losses = @ \cup {[calm |-> h.calm, fresh |-> f]}]
      BY <1>18, <2>2
    <3>2. ~(h.calm /\ f)
      BY <1>4, <1>5, <1>3, <1>12, <3>1 DEF WorkTabOK, CalmOK
    <3>3. PICK x : x = [calm |-> h.calm, fresh |-> f]
      OBVIOUS
    <3>4. x \in [calm : BOOLEAN, fresh : BOOLEAN] /\ ~(x.calm /\ x.fresh)
      BY <1>6, <3>2, <3>3 DEF WorkJobs
    <3>5. overlap \in [losses : SUBSET [calm : BOOLEAN, fresh : BOOLEAN], reloaded : BOOLEAN]
      BY DEF WorkIInv, CountsOK
    <3>6. /\ overlap' \in [losses : SUBSET [calm : BOOLEAN, fresh : BOOLEAN], reloaded : BOOLEAN]
          /\ overlap'.losses = overlap.losses \cup {x} /\ overlap'.reloaded = overlap.reloaded
      BY <3>1, <3>3, <3>4, <3>5
    <3> QED
      BY <1>4, <3>4, <3>6 DEF WorkIInv, CountsOK, LossNeedsAnOverlap
  <2> QED
    BY <2>1, <2>2
<1>20. BoardOK(board', m, s)
  <2>1. s => Single(h.list)
    BY <1>3, <1>6 DEF WorkTabOK, SinglesOK, AllSingle
  <2> QED
    BY <1>3, <1>12, <1>14, <2>1 DEF BoardOK
<1>21. m <= count'.made /\ count'.made = m
  BY <1>2, <1>3, <1>4
<1>22. \A u \in WorkTabs : u # t /\ u \in board'.by => u \in board.by /\ board'.token = board.token
  BY <1>14
<1> QED
  BY <1>2, <1>14, <1>15, <1>16, <1>17, <1>19, <1>20, <1>21, <1>22, <1>23, WorkMoves

\* A call that stores no list is answered; the dashboard's token may change.
LEMMA ServedMoves ==
  ASSUME WorkIInv, NEW t \in WorkTabs, NEW p, p = work[t], NEW m, m = count.made, NEW s, s = ~overlap.reloaded,
         count' \in Counts, count'.made = m, UNCHANGED overlap,
         NEW p2, work' = [work EXCEPT ![t] = p2], WorkTabOK(p2, board', t, m, s),
         NEW token \in Nat, board' = [board EXCEPT !.token = token, !.by = {t}]
  PROVE  WorkIInv'
<1>1. board \in [panels : SUBSET Widgets(m), patches : Nat, token : Nat, by : SUBSET WorkTabs] /\ BoardOK(board, m, s)
  BY DEF WorkIInv, BoardOK
<1>2. /\ board' \in [panels : SUBSET Widgets(m), patches : Nat, token : Nat, by : SUBSET WorkTabs]
      /\ board'.panels = board.panels /\ board'.patches = board.patches /\ board'.by = {t}
  BY <1>1
<1>3. BoardOK(board', m, s)
  BY <1>1, <1>2 DEF BoardOK
<1>4. CountsOK' /\ count.made <= count'.made
  <2>1. count.made \in Nat
    BY DEF WorkIInv, CountsOK
  <2> QED
    BY <2>1 DEF WorkIInv, CountsOK, LossNeedsAnOverlap, Counts
<1> QED
  BY <1>2, <1>3, <1>4, WorkMoves

LEMMA StepShareDashboard ==
  ASSUME WorkIInv, NEW t \in WorkTabs, ShareDashboard(t)
  PROVE  WorkIInv'
<1>1. PICK p : p = work[t]
  OBVIOUS
<1>2. PICK m, s : m = count.made /\ s = ~overlap.reloaded
  OBVIOUS
<1>3. WorkTabOK(p, board, t, m, s) /\ p \in WorkTabType(m) /\ count \in Counts /\ m \in Nat /\ s \in BOOLEAN
  BY <1>1, <1>2, WorkFacts
<1>4. p.calls # <<>> /\ Head(p.calls).op = "share" /\ Head(p.calls).at = "ask" /\ UNCHANGED overlap
  BY <1>1 DEF ShareDashboard, Asked
<1>5. PICK h : h = Head(p.calls)
  OBVIOUS
<1>6. /\ h = p.calls[1] /\ h \in WorkJobs(m) /\ JobFits(h) /\ 1 \in DOMAIN p.calls /\ t \in DOMAIN work
      /\ DOMAIN p = {"calls", "open", "shown", "timer", "edit", "query", "token", "seen", "failed"}
  BY <1>1, <1>2, <1>4, <1>5, HeadTyped
<1>7. PICK token \in Nat : token = NewToken
  BY <1>3 DEF NewToken, Counts
<1>8. PICK h1, c : h1 = [h EXCEPT !.at = "told"] /\ c = [h1 EXCEPT !.token = token]
  OBVIOUS
<1>9. c \in WorkJobs(m) /\ c.op = "share" /\ c.at = "told" /\ c.list = h.list /\ c.token = token /\ JobFits(c)
  BY <1>4, <1>5, <1>6, <1>8 DEF WorkJobs, JobFits
<1>10. PICK r : r = [p.calls EXCEPT ![1] = c]
  OBVIOUS
<1>11. PICK f, p2 : f = p.failed \ {"token"} /\ p2 = AnsweredWith(p, r, f)
  OBVIOUS
<1>12. board' = [board EXCEPT !.token = token, !.by = {t}]
  BY <1>7 DEF ShareDashboard
<1>13. board'.panels = board.panels /\ board'.patches = board.patches /\ board'.token = token
  BY <1>12 DEF WorkIInv, BoardOK
<1>14. PICK b2 : b2 = board'
  OBVIOUS
<1>15. WorkTabOK(p2, b2, t, m, s)
  <2>1. Head(p.calls).op \in {"share", "revoke", "install"} /\ Head(p.calls).at # "told"
    BY <1>4
  <2>2. c.op = Head(p.calls).op /\ c.list = Head(p.calls).list /\ c.op # "install" /\ c.op # "revoke"
    BY <1>4, <1>5, <1>9
  <2>3. b2.panels = board.panels /\ b2.patches = board.patches /\ b2.token = c.token
    BY <1>9, <1>13, <1>14
  <2> QED
    BY <1>3, <1>4, <1>9, <1>10, <1>11, <2>1, <2>2, <2>3, TabIsServed
<1>16. work' = [work EXCEPT ![t] = p2]
  <2>1. PICK w1, r1, q1 : w1 = HeadAt(t, "told") /\ r1 = [p.calls EXCEPT ![1] = h1] /\ q1 = CallsAre(p, r1)
    OBVIOUS
  <2>2. work' = [w1 EXCEPT ![t].calls[1].token = token, ![t].failed = @ \ {"token"}]
    BY <1>7, <2>1 DEF ShareDashboard, HeadAt
  <2>3. w1 = [work EXCEPT ![t] = q1]
    BY <1>1, <1>4, <1>5, <1>8, <2>1, HeadSet
  <2>4. /\ w1[t] = q1 /\ q1.calls = [p.calls EXCEPT ![1] = h1] /\ q1.calls[1] = h1
        /\ DOMAIN q1 = DOMAIN p /\ q1.failed = p.failed /\ t \in DOMAIN w1
    BY <1>6, <2>1, <2>3 DEF CallsAre
  <2>6. [q1.calls EXCEPT ![1] = c] = r
    BY <1>10, <2>4
  <2>5. PICK q2, w2 : q2 = [q1 EXCEPT !.calls = r] /\ w2 = [w1 EXCEPT ![t] = q2]
    OBVIOUS
  <2>8. w2 = [w1 EXCEPT ![t].calls[1].token = token]
    BY <1>8, <2>4, <2>5, <2>6
  <2>9. w2[t] = q2 /\ t \in DOMAIN w2 /\ q2.failed = p.failed
    BY <2>4, <2>5
  <2>10. work' = [w2 EXCEPT ![t].failed = @ \ {"token"}]
    BY <2>2, <2>8
  <2>7. [q2 EXCEPT !.failed = f] = p2
    BY <1>6, <1>11, <2>1, <2>5 DEF CallsAre, AnsweredWith
  <2>11. work' = [w2 EXCEPT ![t] = p2]
    BY <1>11, <2>7, <2>9, <2>10
  <2> QED
    BY <2>3, <2>5, <2>11
<1>17. count' \in Counts /\ count'.made = m
  BY <1>2, <1>3, CountsMove DEF ShareDashboard
<1> QED
  BY <1>1, <1>2, <1>4, <1>7, <1>12, <1>14, <1>15, <1>16, <1>17, ServedMoves

LEMMA StepRevokeShare ==
  ASSUME WorkIInv, NEW t \in WorkTabs, RevokeShare(t)
  PROVE  WorkIInv'
<1>1. PICK p : p = work[t]
  OBVIOUS
<1>2. PICK m, s : m = count.made /\ s = ~overlap.reloaded
  OBVIOUS
<1>3. WorkTabOK(p, board, t, m, s) /\ p \in WorkTabType(m) /\ count \in Counts /\ m \in Nat /\ s \in BOOLEAN
  BY <1>1, <1>2, WorkFacts
<1>4. p.calls # <<>> /\ Head(p.calls).op = "revoke" /\ Head(p.calls).at = "ask" /\ UNCHANGED <<count, overlap>>
  BY <1>1 DEF RevokeShare, Asked
<1>5. PICK h : h = Head(p.calls)
  OBVIOUS
<1>6. /\ h \in WorkJobs(m) /\ JobFits(h) /\ t \in DOMAIN work
      /\ DOMAIN p = {"calls", "open", "shown", "timer", "edit", "query", "token", "seen", "failed"}
  BY <1>1, <1>2, <1>4, <1>5, HeadTyped
<1>8. PICK c : c = [h EXCEPT !.at = "told"]
  OBVIOUS
<1>9. c \in WorkJobs(m) /\ c.op = "revoke" /\ c.at = "told" /\ c.list = h.list /\ JobFits(c)
  BY <1>4, <1>5, <1>6, <1>8 DEF WorkJobs, JobFits
<1>10. PICK r : r = [p.calls EXCEPT ![1] = c]
  OBVIOUS
<1>11. PICK f, p2 : f = p.failed \ {"token"} /\ p2 = AnsweredWith(p, r, f)
  OBVIOUS
<1>12. board' = [board EXCEPT !.token = 0, !.by = {t}]
  BY DEF RevokeShare
<1>13. board'.panels = board.panels /\ board'.patches = board.patches /\ board'.token = 0
  BY <1>12 DEF WorkIInv, BoardOK
<1>14. PICK b2 : b2 = board'
  OBVIOUS
<1>15. WorkTabOK(p2, b2, t, m, s)
  <2>1. Head(p.calls).op \in {"share", "revoke", "install"} /\ Head(p.calls).at # "told"
    BY <1>4
  <2>2. c.op = Head(p.calls).op /\ c.list = Head(p.calls).list /\ c.op # "install" /\ c.op # "share"
    BY <1>4, <1>5, <1>9
  <2>3. b2.panels = board.panels /\ b2.patches = board.patches /\ b2.token = 0
    BY <1>13, <1>14
  <2> QED
    BY <1>3, <1>4, <1>9, <1>10, <1>11, <2>1, <2>2, <2>3, TabIsServed
<1>16. work' = [work EXCEPT ![t] = p2]
  <2>1. PICK w1, q1 : w1 = HeadAt(t, "told") /\ q1 = CallsAre(p, r)
    OBVIOUS
  <2>2. work' = [w1 EXCEPT ![t].failed = @ \ {"token"}]
    BY <2>1 DEF RevokeShare, HeadAt
  <2>3. w1 = [work EXCEPT ![t] = q1]
    BY <1>1, <1>4, <1>5, <1>8, <1>10, <2>1, HeadSet
  <2>4. w1[t] = q1 /\ t \in DOMAIN w1 /\ q1.failed = p.failed
    BY <1>6, <2>1, <2>3 DEF CallsAre
  <2>5. p2 = [q1 EXCEPT !.failed = f]
    BY <1>6, <1>11, <2>1 DEF CallsAre, AnsweredWith
  <2>6. work' = [w1 EXCEPT ![t] = p2]
    BY <1>11, <2>2, <2>4, <2>5
  <2> QED
    BY <2>3, <2>6
<1>17. count' \in Counts /\ count'.made = m /\ 0 \in Nat
  BY <1>2, <1>3, <1>4
<1> QED
  BY <1>1, <1>2, <1>4, <1>12, <1>14, <1>15, <1>16, <1>17, ServedMoves

\* A step of an installation.
LEMMA InstallMoves ==
  ASSUME WorkIInv, NEW t \in WorkTabs, NEW p, p = work[t], NEW m, m = count.made,
         p.calls # <<>>, Head(p.calls).op = "install", Head(p.calls).at # "told",
         NEW c \in WorkJobs(m), c.op = "install", c.list = Head(p.calls).list, JobFits(c), NEW r, r = [p.calls EXCEPT ![1] = c],
         NEW p2, p2 = CallsAre(p, r), work' = [work EXCEPT ![t] = p2], UNCHANGED <<board, count, overlap>>
  PROVE  WorkIInv'
<1>1. PICK s \in BOOLEAN : s = ~overlap.reloaded
  OBVIOUS
<1>2. WorkTabOK(p, board, t, m, s) /\ count \in Counts /\ m \in Nat
  BY <1>1, WorkFacts
<1>3. PICK b2 : b2 = board
  OBVIOUS
<1>5. PICK f : f = p.failed
  OBVIOUS
<1>6. p2 = AnsweredWith(p, r, f)
  <2>1. DOMAIN p = {"calls", "open", "shown", "timer", "edit", "query", "token", "seen", "failed"}
    BY HeadTyped
  <2> QED
    BY <1>5, <2>1 DEF CallsAre, AnsweredWith
<1>4. WorkTabOK(p2, b2, t, m, s)
  <2>1. c.op = Head(p.calls).op /\ c.op # "share" /\ c.op # "revoke" /\ Head(p.calls).op \in {"share", "revoke", "install"}
    OBVIOUS
  <2>2. b2.panels = board.panels /\ b2.patches = board.patches /\ b2.token = board.token /\ b2.by = board.by
    BY <1>3
  <2> QED
    BY <1>2, <1>5, <1>6, <2>1, <2>2, TabIsServed
<1> QED
  BY <1>1, <1>2, <1>3, <1>4, TabMoves

LEMMA StepFindSlug ==
  ASSUME WorkIInv, NEW t \in WorkTabs, FindSlug(t)
  PROVE  WorkIInv'
<1>1. PICK p, m, h : p = work[t] /\ m = count.made /\ h = Head(p.calls)
  OBVIOUS
<1>2. p.calls # <<>> /\ h.op = "install" /\ h.at = "ask" /\ UNCHANGED <<board, count, overlap>>
  BY <1>1 DEF FindSlug, Asked
<1>3. /\ h = p.calls[1] /\ h \in WorkJobs(m) /\ JobFits(h) /\ 1 \in DOMAIN p.calls /\ t \in DOMAIN work
  BY <1>1, <1>2, HeadTyped
<1>4. CASE h.slug \in slugs
  <2>1. PICK n \in Nat : n = h.slug + 1
    BY <1>3 DEF WorkJobs
  <2>2. PICK c, r, p2 : c = [h EXCEPT !.slug = n] /\ r = [p.calls EXCEPT ![1] = c] /\ p2 = CallsAre(p, r)
    OBVIOUS
  <2>3. c \in WorkJobs(m) /\ c.op = "install" /\ c.list = h.list /\ JobFits(c)
    BY <1>2, <1>3, <2>2 DEF WorkJobs, JobFits
  <2>4. work' = [work EXCEPT ![t].calls[1].slug = @ + 1]
    BY <1>1, <1>4 DEF FindSlug, The
  <2>5. work' = [work EXCEPT ![t] = p2]
    BY <1>1, <1>3, <2>1, <2>2, <2>4 DEF CallsAre
  <2> QED
    BY <1>1, <1>2, <2>2, <2>3, <2>5, InstallMoves
<1>5. CASE h.slug \notin slugs
  <2>2. PICK c, r, p2 : c = [h EXCEPT !.at = "create"] /\ r = [p.calls EXCEPT ![1] = c] /\ p2 = CallsAre(p, r)
    OBVIOUS
  <2>3. c \in WorkJobs(m) /\ c.op = "install" /\ c.list = h.list /\ JobFits(c)
    BY <1>2, <1>3, <2>2 DEF WorkJobs, JobFits
  <2>4. work' = HeadAt(t, "create")
    BY <1>1, <1>5 DEF FindSlug, The, HeadAt
  <2>5. work' = [work EXCEPT ![t] = p2]
    BY <1>1, <1>2, <2>2, <2>4, HeadSet
  <2> QED
    BY <1>1, <1>2, <2>2, <2>3, <2>5, InstallMoves
<1> QED
  BY <1>4, <1>5

\* The first call fails.
LEMMA ThrowMoves ==
  ASSUME WorkIInv, NEW t \in WorkTabs, work[t].calls # <<>>, Head(work[t].calls).at # "told",
         NEW F \in SUBSET {"panels", "token"}, "panels" \in F,
         work' = [work EXCEPT ![t].calls = Tail(@), ![t].failed = @ \cup F], UNCHANGED <<board, overlap>>, count' \in Counts, count'.made = count.made
  PROVE  WorkIInv'
<1>1. PICK p, m, s : p = work[t] /\ m = count.made /\ s = ~overlap.reloaded
  OBVIOUS
<1>2. WorkTabOK(p, board, t, m, s) /\ m \in Nat /\ p.failed \in SUBSET {"panels", "token"}
  BY <1>1, WorkFacts DEF WorkTabType
<1>7. PICK f \in SUBSET {"panels", "token"} : f = p.failed \cup F
  BY <1>2
<1>3. PICK r, p2 : r = Tail(p.calls) /\ p2 = AnsweredWith(p, r, f)
  OBVIOUS
<1>4. WorkTabOK(p2, board, t, m, s)
  BY <1>1, <1>2, <1>3, <1>7, TabThrows
<1>5. t \in DOMAIN work /\ DOMAIN p = {"calls", "open", "shown", "timer", "edit", "query", "token", "seen", "failed"}
  BY <1>1, HeadTyped
<1>6. work' = [work EXCEPT ![t] = p2]
  BY <1>1, <1>3, <1>5, <1>7 DEF AnsweredWith
<1> QED
  BY <1>1, <1>4, <1>6, TabMoves

LEMMA StepInsertDashboard ==
  ASSUME WorkIInv, NEW t \in WorkTabs, InsertDashboard(t)
  PROVE  WorkIInv'
<1>1. PICK p, m, h : p = work[t] /\ m = count.made /\ h = Head(p.calls)
  OBVIOUS
<1>2. p.calls # <<>> /\ h.at = "create" /\ UNCHANGED <<board, count, overlap>>
  BY <1>1 DEF InsertDashboard, The
<1>3. h \in WorkJobs(m) /\ JobFits(h)
  BY <1>1, <1>2, HeadTyped
<1>4. h.op = "install"
  BY <1>1, <1>2 DEF WorkIInv, WorkTabOK, CreateOK
<1>5. CASE h.slug \in slugs
  <2>1. work' = [work EXCEPT ![t].calls = Tail(@), ![t].failed = @ \cup {"panels"}]
    BY <1>1, <1>5 DEF InsertDashboard, The
  <2>2. count' \in Counts /\ count'.made = count.made
    BY <1>2, WorkFacts
  <2> QED
    BY <1>1, <1>2, <2>1, <2>2, ThrowMoves
<1>6. CASE h.slug \notin slugs
  <2>2. PICK c, r, p2 : c = [h EXCEPT !.at = "told"] /\ r = [p.calls EXCEPT ![1] = c] /\ p2 = CallsAre(p, r)
    OBVIOUS
  <2>3. c \in WorkJobs(m) /\ c.op = "install" /\ c.list = h.list /\ JobFits(c)
    BY <1>3, <1>4, <2>2 DEF WorkJobs, JobFits
  <2>4. work' = HeadAt(t, "told")
    BY <1>1, <1>6 DEF InsertDashboard, The, HeadAt
  <2>5. work' = [work EXCEPT ![t] = p2]
    BY <1>1, <1>2, <2>2, <2>4, HeadSet
  <2>6. Head(p.calls).op = "install" /\ Head(p.calls).at # "told"
    BY <1>1, <1>2, <1>4
  <2> QED
    BY <1>1, <1>2, <2>2, <2>3, <2>5, <2>6, InstallMoves
<1> QED
  BY <1>5, <1>6

LEMMA StepJobFails ==
  ASSUME WorkIInv, NEW t \in WorkTabs, JobFails(t)
  PROVE  WorkIInv'
<1>1. count' \in Counts /\ count'.made = count.made
  BY WorkFacts, CountsMove DEF JobFails
<1>2. PICK F \in SUBSET {"panels", "token"} : F = InDoubt(The(t).op) \cup {"panels"}
  BY DEF InDoubt
<1>3. work' = [work EXCEPT ![t].calls = Tail(@), ![t].failed = @ \cup F]
  <2>1. \A x : x \cup InDoubt(The(t).op) \cup {"panels"} = x \cup F
    BY <1>2
  <2> QED
    BY <2>1 DEF JobFails
<1>4. work[t].calls # <<>> /\ Head(work[t].calls).at # "told" /\ UNCHANGED <<board, overlap>>
  BY DEF JobFails, The
<1> QED
  BY <1>1, <1>2, <1>3, <1>4, ThrowMoves

LEMMA StepRefuseJob ==
  ASSUME WorkIInv, NEW t \in WorkTabs, RefuseJob(t)
  PROVE  WorkIInv'
<1>1. PICK p, m, h : p = work[t] /\ m = count.made /\ h = Head(p.calls)
  OBVIOUS
<1>2. PICK s \in BOOLEAN : s = ~overlap.reloaded
  OBVIOUS
<1>3. p.calls # <<>> /\ h.at = "ask" /\ UNCHANGED <<board, overlap>>
  BY <1>1 DEF RefuseJob, The
<1>4. /\ WorkTabOK(p, board, t, m, s) /\ m \in Nat /\ h = p.calls[1] /\ h \in WorkJobs(m) /\ JobFits(h)
      /\ 1 \in DOMAIN p.calls /\ t \in DOMAIN work
      /\ DOMAIN p = {"calls", "open", "shown", "timer", "edit", "query", "token", "seen", "failed"}
  BY <1>1, <1>2, <1>3, WorkFacts, HeadTyped
<1>5. PICK c : c = [h EXCEPT !.at = "told", !.refused = TRUE]
  OBVIOUS
<1>6. c \in WorkJobs(m) /\ c.op = h.op /\ c.list = h.list /\ c.at = "told" /\ c.refused /\ c.token = 0
  BY <1>3, <1>4, <1>5 DEF WorkJobs, JobFits
<1>7. PICK r, f, p2 : r = [p.calls EXCEPT ![1] = c] /\ f = p.failed \cup InDoubt(c.op) /\ p2 = AnsweredWith(p, r, f)
  OBVIOUS
<1>8. WorkTabOK(p2, board, t, m, s)
  BY <1>1, <1>3, <1>4, <1>6, <1>7, TabRefused
<1>9. work' = [work EXCEPT ![t] = p2]
  <2>1. work' = [work EXCEPT ![t].calls[1] = [@ EXCEPT !.at = "told", !.refused = TRUE],
                             ![t].failed = @ \cup InDoubt(h.op)]
    BY <1>1 DEF RefuseJob, The
  <2>2. PICK q1, w1 : q1 = [p EXCEPT !.calls = r] /\ w1 = [work EXCEPT ![t] = q1]
    OBVIOUS
  <2>3. w1 = [work EXCEPT ![t].calls[1] = [@ EXCEPT !.at = "told", !.refused = TRUE]]
    BY <1>1, <1>4, <1>5, <1>7, <2>2
  <2>4. work' = [w1 EXCEPT ![t].failed = @ \cup InDoubt(h.op)]
    BY <2>1, <2>3
  <2>5. w1[t] = q1 /\ t \in DOMAIN w1 /\ q1.failed = p.failed
    BY <1>4, <2>2
  <2>6. p2 = [q1 EXCEPT !.failed = f]
    BY <1>4, <1>7, <2>2 DEF AnsweredWith
  <2>7. work' = [w1 EXCEPT ![t] = p2]
    BY <1>6, <1>7, <2>4, <2>5, <2>6
  <2> QED
    BY <2>2, <2>7
<1>10. count' \in Counts /\ count'.made = m
  BY <1>1, WorkFacts, CountsMove DEF RefuseJob
<1> QED
  BY <1>1, <1>2, <1>3, <1>8, <1>9, <1>10, TabMoves

-----------------------------------------------------------------------------
(* The answers. *)

LEMMA StepDashboardsLoaded ==
  ASSUME WorkIInv, NEW t \in WorkTabs, DashboardsLoaded(t)
  PROVE  WorkIInv'
<1>1. PICK p, m, s, h : p = work[t] /\ m = count.made /\ s = ~overlap.reloaded /\ h = Head(p.calls)
  OBVIOUS
<1>2. p.calls # <<>> /\ h.op = "load" /\ h.at = "told" /\ ~h.refused /\ UNCHANGED <<board, count>>
  BY <1>1 DEF DashboardsLoaded, TookAnswer, The, Stored
<1>3. /\ WorkTabOK(p, board, t, m, s) /\ p \in WorkTabType(m) /\ count \in Counts /\ m \in Nat /\ s \in BOOLEAN
      /\ h \in WorkJobs(m) /\ t \in DOMAIN work
      /\ DOMAIN p = {"calls", "open", "shown", "timer", "edit", "query", "token", "seen", "failed"}
  BY <1>1, <1>2, WorkFacts, HeadTyped
<1>4. PICK list \in SUBSET Widgets(m) : list = h.list
  BY <1>3 DEF WorkJobs
<1>5. PICK calm \in BOOLEAN : calm = (Len(p.calls) = 1)
  OBVIOUS
<1>6. PICK tm : tm = [set |-> TRUE, list |-> list, calm |-> calm]
  OBVIOUS
<1>7. tm \in Timers(m) /\ tm.set /\ tm.list = list /\ tm.calm = calm
  BY <1>6 DEF Timers
<1>8. PICK timer : timer = IF list = p.shown THEN p.timer ELSE tm
  OBVIOUS
<1>9. /\ timer \in Timers(m) /\ (list = p.shown => timer = p.timer)
      /\ (list # p.shown => timer.set /\ timer.list = list /\ (timer.calm => Len(p.calls) = 1))
  BY <1>3, <1>5, <1>7, <1>8 DEF WorkTabType
<1>10. PICK r, p2 : r = Tail(p.calls) /\ p2 = BoardShown(p, r, list, timer)
  OBVIOUS
<1>11. overlap \in [losses : SUBSET [calm : BOOLEAN, fresh : BOOLEAN], reloaded : BOOLEAN]
  BY DEF WorkIInv, CountsOK
<1>12. PICK again \in BOOLEAN : again = (overlap.reloaded \/ (p.edit # NoPanel /\ list # p.shown))
  BY <1>11
<1>13. overlap' = [overlap EXCEPT !.reloaded = again]
  BY <1>1, <1>4, <1>11, <1>12 DEF DashboardsLoaded, The
<1>14. /\ overlap' \in [losses : SUBSET [calm : BOOLEAN, fresh : BOOLEAN], reloaded : BOOLEAN]
       /\ overlap'.losses = overlap.losses /\ overlap'.reloaded = again
  BY <1>11, <1>13
<1>15. PICK s2 \in BOOLEAN : s2 = ~again
  OBVIOUS
<1>16. WorkTabOK(p2, board, t, m, s2)
  <2>1. LoadedHead(p.calls) /\ list = Head(p.calls).list
    BY <1>1, <1>2, <1>4 DEF JustLoaded, LoadedHead
  <2>2. s2 => s /\ (p.edit = NoPanel \/ list = p.shown)
    BY <1>1, <1>12, <1>15
  <2> QED
    BY <1>3, <1>9, <1>10, <2>1, <2>2, TabShows
<1>17. work' = [work EXCEPT ![t] = p2]
  <2>1. work' = [work EXCEPT ![t] = [[p EXCEPT !.open = TRUE, !.shown = h.list,
            !.timer = IF h.list = p.shown THEN @
                      ELSE [set |-> TRUE, list |-> h.list, calm |-> Len(p.calls) = 1]] EXCEPT !.calls = Tail(@)]]
    BY <1>1 DEF DashboardsLoaded, The, Dequeue
  <2>2. timer = IF h.list = p.shown THEN p.timer
                ELSE [set |-> TRUE, list |-> h.list, calm |-> Len(p.calls) = 1]
    BY <1>4, <1>5, <1>6, <1>8
  <2>3. [p EXCEPT !.open = TRUE, !.shown = h.list, !.timer = IF h.list = p.shown THEN @
                      ELSE [set |-> TRUE, list |-> h.list, calm |-> Len(p.calls) = 1]]
        = [p EXCEPT !.open = TRUE, !.shown = list, !.timer = timer]
    BY <1>3, <1>4, <2>2
  <2>4. [p EXCEPT !.open = TRUE, !.shown = list, !.timer = timer].calls = p.calls
    BY <1>3
  <2>5. work' = [work EXCEPT ![t] = [[p EXCEPT !.open = TRUE, !.shown = list, !.timer = timer] EXCEPT !.calls = Tail(@)]]
    BY <2>1, <2>3
  <2> QED
    BY <1>10, <2>4, <2>5 DEF BoardShown
<1>18. CountsOK' /\ count.made <= count'.made
  BY <1>1, <1>2, <1>3, <1>14 DEF WorkIInv, CountsOK, LossNeedsAnOverlap
<1>19. BoardOK(board', m, s2) /\ (s2 => ~overlap.reloaded)
  BY <1>1, <1>2, <1>12, <1>15 DEF WorkIInv, BoardOK
<1> QED
  BY <1>1, <1>2, <1>14, <1>15, <1>16, <1>17, <1>18, <1>19, WorkMoves

LEMMA StepNothingLoaded ==
  ASSUME WorkIInv, NEW t \in WorkTabs, NothingLoaded(t)
  PROVE  WorkIInv'
<1>1. PICK p, m, h : p = work[t] /\ m = count.made /\ h = Head(p.calls)
  OBVIOUS
<1>2. PICK s \in BOOLEAN : s = ~overlap.reloaded
  OBVIOUS
<1>3. p.calls # <<>> /\ h.op = "load" /\ h.at = "told" /\ h.refused /\ UNCHANGED <<board, count, overlap>>
  BY <1>1 DEF NothingLoaded, TookAnswer, The, Stored
<1>4. /\ WorkTabOK(p, board, t, m, s) /\ m \in Nat /\ count \in Counts
      /\ DOMAIN p = {"calls", "open", "shown", "timer", "edit", "query", "token", "seen", "failed"}
  BY <1>1, <1>2, <1>3, WorkFacts, HeadTyped
<1>5. PICK r, p2 : r = Tail(p.calls) /\ p2 = BoardGone(p, r)
  OBVIOUS
<1>6. WorkTabOK(p2, board, t, m, s)
  <2>1. JustLoaded(p.calls) /\ Head(p.calls).refused
    BY <1>1, <1>3 DEF JustLoaded
  <2> QED
    BY <1>4, <1>5, <2>1, TabEmpties
<1>7. work' = [work EXCEPT ![t] = p2]
  <2>1. PICK p1 : p1 = [p EXCEPT !.open = FALSE, !.shown = {}]
    OBVIOUS
  <2>2. work' = [work EXCEPT ![t] = [p1 EXCEPT !.calls = Tail(@)]]
    BY <1>1, <2>1 DEF NothingLoaded, Dequeue
  <2>3. p1.calls = p.calls
    BY <1>4, <2>1
  <2>4. [p1 EXCEPT !.calls = r] = p2
    BY <1>5, <2>1 DEF BoardGone
  <2> QED
    BY <1>5, <2>2, <2>3, <2>4
<1> QED
  BY <1>1, <1>2, <1>3, <1>4, <1>6, <1>7, TabMoves

\* The answer of another call is taken: the first of queue q, r being the rest.
LEMMA TakeMoves ==
  ASSUME WorkIInv, NEW t \in WorkTabs, NEW p, WorkTabOK(p, board, t, count.made, ~overlap.reloaded),
         p.calls # <<>>, Head(p.calls).at = "told", Head(p.calls).op # "load", NEW token \in Nat,
         Head(p.calls).op = "share" => token = Head(p.calls).token, Head(p.calls).op = "revoke" => token = 0,
         Head(p.calls).op \notin {"share", "revoke"} => token = p.token,
         Head(p.calls).op \in {"save", "install", "revoke"} => Returning(Tail(p.calls)),
         work' = [work EXCEPT ![t] = AnswerTaken(p, Tail(p.calls), token)], UNCHANGED <<board, count, overlap>>
  PROVE  WorkIInv'
<1>1. PICK m, s : m = count.made /\ s = ~overlap.reloaded
  OBVIOUS
<1>2. WorkTabOK(p, board, t, m, s) /\ m \in Nat /\ count \in Counts
  BY <1>1, WorkFacts
<1>3. PICK r, p2 : r = Tail(p.calls) /\ p2 = AnswerTaken(p, r, token)
  OBVIOUS
<1>4. WorkTabOK(p2, board, t, m, s)
  BY <1>2, <1>3, TabTakes
<1> QED
  BY <1>1, <1>2, <1>3, <1>4, TabMoves

LEMMA StepLayoutSaved ==
  ASSUME WorkIInv, NEW t \in WorkTabs, LayoutSaved(t)
  PROVE  WorkIInv'
<1>1. PICK p, token, h : p = work[t] /\ token = p.token /\ h = Head(p.calls)
  OBVIOUS
<1>2. p.calls # <<>> /\ h.op = "layout" /\ h.at = "told" /\ UNCHANGED <<board, count, overlap>>
  BY <1>1 DEF LayoutSaved, TookAnswer, The, Stored
<1>3. WorkTabOK(p, board, t, count.made, ~overlap.reloaded) /\ p \in WorkTabType(count.made)
  BY <1>1, WorkFacts
<1>4. token \in Nat /\ p = [p EXCEPT !.token = token]
  BY <1>1, <1>3 DEF WorkTabType
<1>5. work' = [work EXCEPT ![t] = AnswerTaken(p, Tail(p.calls), token)]
  <2>1. work' = [work EXCEPT ![t] = [p EXCEPT !.calls = Tail(p.calls)]]
    BY <1>1 DEF LayoutSaved, Dequeue
  <2>2. [p EXCEPT !.calls = Tail(p.calls)] = AnswerTaken(p, Tail(p.calls), token)
    BY <1>1, <1>3 DEF AnswerTaken, WorkTabType
  <2> QED
    BY <2>1, <2>2
<1>6. /\ Head(p.calls).at = "told" /\ Head(p.calls).op = "layout"
  BY <1>1, <1>2
<1> QED
  BY <1>1, <1>2, <1>3, <1>4, <1>5, <1>6, TakeMoves

LEMMA StepLinkShown ==
  ASSUME WorkIInv, NEW t \in WorkTabs, LinkShown(t)
  PROVE  WorkIInv'
<1>1. PICK p, h, token : p = work[t] /\ h = Head(p.calls) /\ token = h.token
  OBVIOUS
<1>2. p.calls # <<>> /\ h.op = "share" /\ h.at = "told" /\ UNCHANGED <<board, count, overlap>>
  BY <1>1 DEF LinkShown, TookAnswer, The, Stored
<1>3. /\ WorkTabOK(p, board, t, count.made, ~overlap.reloaded) /\ h \in WorkJobs(count.made)
      /\ DOMAIN p = {"calls", "open", "shown", "timer", "edit", "query", "token", "seen", "failed"}
  BY <1>1, <1>2, WorkFacts, HeadTyped
<1>4. token \in Nat
  BY <1>1, <1>3 DEF WorkJobs
<1>5. work' = [work EXCEPT ![t] = AnswerTaken(p, Tail(p.calls), token)]
  <2>1. PICK p1 : p1 = [p EXCEPT !.token = token]
    OBVIOUS
  <2>2. work' = [work EXCEPT ![t] = [p1 EXCEPT !.calls = Tail(@)]]
    BY <1>1, <2>1 DEF LinkShown, Dequeue, The
  <2>3. p1.calls = p.calls
    BY <1>3, <2>1
  <2>4. [p1 EXCEPT !.calls = Tail(p.calls)] = AnswerTaken(p, Tail(p.calls), token)
    BY <2>1 DEF AnswerTaken
  <2> QED
    BY <2>2, <2>3, <2>4
<1>6. Head(p.calls).at = "told" /\ Head(p.calls).op = "share" /\ token = Head(p.calls).token
  BY <1>1, <1>2
<1> QED
  BY <1>1, <1>2, <1>3, <1>4, <1>5, <1>6, TakeMoves

LEMMA StepThenLoadAgain ==
  ASSUME WorkIInv, NEW t \in WorkTabs, ThenLoadAgain(t)
  PROVE  WorkIInv'
<1>1. PICK p, m, s, h : p = work[t] /\ m = count.made /\ s = ~overlap.reloaded /\ h = Head(p.calls)
  OBVIOUS
<1>2. p.calls # <<>> /\ h.op \in {"save", "install", "revoke"} /\ h.at = "told" /\ UNCHANGED <<board, count, overlap>>
  BY <1>1 DEF ThenLoadAgain, TookAnswer, The, Stored
<1>3. /\ WorkTabOK(p, board, t, m, s) /\ p \in WorkTabType(m) /\ m \in Nat /\ p.calls \in Seq(WorkJobs(m))
      /\ DOMAIN p = {"calls", "open", "shown", "timer", "edit", "query", "token", "seen", "failed"}
  BY <1>1, <1>2, WorkFacts, HeadTyped
<1>4. PICK c : c = Job("load")
  OBVIOUS
<1>5. c \in WorkJobs(m) /\ c.op = "load" /\ c.at = "ask" /\ c.list = {} /\ ~c.calm /\ JobFits(c)
  BY <1>4, JobTyped DEF JobOps, JobFits
<1>6. PICK r, p1 : r = Append(p.calls, c) /\ p1 = CallsAre(p, r)
  OBVIOUS
<1>7. WorkTabOK(p1, board, t, m, s)
  BY <1>3, <1>5, <1>6, TabAsks
<1>8. p1.calls = r /\ p1.token = p.token /\ p1.token \in Nat
  BY <1>3, <1>6 DEF CallsAre, WorkTabType
<1>9. r # <<>> /\ Head(r) = h /\ Returning(Tail(r))
  <2>1. PICK q \in Seq(WorkJobs(m)) : q = p.calls
    BY <1>3
  <2>2. r = Append(q, c) /\ q # <<>> /\ h = Head(q)
    BY <1>1, <1>2, <1>6, <2>1
  <2>3. r # <<>> /\ Head(r) = Head(q)
    BY <1>5, <2>2
  <2>4. Len(q) \in Nat /\ Len(q) >= 1 /\ r \in Seq(WorkJobs(m)) /\ Len(r) = Len(q) + 1 /\ r[Len(q) + 1] = c
    BY <1>5, <2>2
  <2>5. Len(Tail(r)) = Len(q) /\ Tail(r)[Len(q)] = r[Len(q) + 1]
    BY <2>3, <2>4
  <2>6. Len(q) \in 1 .. Len(Tail(r)) /\ LoadsAgain(Tail(r)[Len(q)])
    BY <1>5, <2>4, <2>5 DEF LoadsAgain
  <2> QED
    BY <2>2, <2>3, <2>6 DEF Returning
<1>10. PICK token \in Nat : token = IF h.op = "revoke" THEN 0 ELSE p.token
  BY <1>8
<1>11. work' = [work EXCEPT ![t] = AnswerTaken(p1, Tail(p1.calls), token)]
  <2>1. PICK q1 : q1 = [p EXCEPT !.calls = r, !.token = token]
    OBVIOUS
  <2>2. work' = [work EXCEPT ![t] = [q1 EXCEPT !.calls = Tail(@)]]
    <3>1. work' = [work EXCEPT ![t] = [[p EXCEPT !.calls = Append(@, c), !.token = IF h.op = "revoke" THEN 0 ELSE @]
                                       EXCEPT !.calls = Tail(@)]]
      BY <1>1, <1>4 DEF ThenLoadAgain, Dequeue, The
    <3>2. [p EXCEPT !.calls = Append(@, c), !.token = IF h.op = "revoke" THEN 0 ELSE @] = q1
      BY <1>3, <1>6, <1>10, <2>1
    <3> QED
      BY <3>1, <3>2
  <2>3. q1.calls = r
    BY <1>3, <2>1
  <2>4. [q1 EXCEPT !.calls = Tail(r)] = AnswerTaken(p1, Tail(r), token)
    BY <1>6, <2>1 DEF AnswerTaken, CallsAre
  <2> QED
    BY <1>8, <2>2, <2>3, <2>4
<1>12. /\ p1.calls # <<>> /\ Head(p1.calls).at = "told" /\ Head(p1.calls).op \in {"save", "install", "revoke"}
       /\ (Head(p1.calls).op = "revoke" => token = 0) /\ (Head(p1.calls).op # "revoke" => token = p1.token)
       /\ Returning(Tail(p1.calls))
  BY <1>2, <1>8, <1>9, <1>10
<1>13. WorkTabOK(p1, board, t, count.made, ~overlap.reloaded)
  BY <1>1, <1>7
<1> QED
  BY <1>2, <1>11, <1>12, <1>13, TakeMoves

-----------------------------------------------------------------------------
LEMMA WorkStarts == WorkInit => WorkIInv
<1> SUFFICES ASSUME WorkInit PROVE WorkIInv
  OBVIOUS
<1>1. PICK c : c = Job("load")
  OBVIOUS
<1>2. c \in WorkJobs(0) /\ c.op = "load" /\ c.at = "ask" /\ c.list = {} /\ ~c.calm /\ JobFits(c)
  BY <1>1, JobTyped DEF JobOps, JobFits
<1>3. PICK q \in Seq(WorkJobs(0)) : q = <<c>>
  <2>1. PICK S : S = WorkJobs(0)
    OBVIOUS
  <2>2. c \in S
    BY <1>2, <2>1
  <2>3. <<c>> \in Seq(S)
    BY <2>2
  <2> QED
    BY <2>1, <2>3
<1>4. Len(q) = 1 /\ q[1] = c /\ q # <<>> /\ Head(q) = c /\ \A i \in 1 .. Len(q) : i = 1
  BY <1>3
<1>5. /\ OthersAsk(q) /\ CreateOK(q) /\ NoLayout(q) /\ LastLayoutIs(q, {}) /\ Returning(q) /\ ~JustLoaded(q) /\ AllSingle(q)
      /\ JobsFit(q)
  BY <1>2, <1>4 DEF JobsFit, OthersAsk, CreateOK, NoLayout, LastLayoutIs, Returning, LoadsAgain, JustLoaded, AllSingle, Single
<1>6. PICK p : p = [calls |-> q, open |-> FALSE, shown |-> {}, timer |-> NoTimer, edit |-> NoPanel,
                    query |-> NoQuery, token |-> 0, seen |-> 0, failed |-> {}]
  OBVIOUS
<1>7. work = [t \in WorkTabs |-> p]
  BY <1>1, <1>3, <1>6 DEF WorkInit
<1>8. NoTimer \in Timers(0) /\ ~NoTimer.set /\ NoTimer.list = {}
  BY DEF NoTimer, Timers
<1>9. /\ p \in WorkTabType(0) /\ p.calls = q /\ p.shown = {} /\ p.timer = NoTimer /\ p.edit = NoPanel /\ p.token = 0
      /\ p.seen = 0 /\ p.failed = {} /\ ~p.open
  BY <1>6, <1>8 DEF WorkTabType
<1>10. /\ board \in [panels : SUBSET Widgets(0), patches : Nat, token : Nat, by : SUBSET WorkTabs]
       /\ board.panels = {} /\ board.patches = 0 /\ board.by = {}
  BY DEF WorkInit
<1>11. count \in Counts /\ count.made = 0
  BY WorkspaceAssumption DEF WorkInit, Counts
<1>12. /\ overlap \in [losses : SUBSET [calm : BOOLEAN, fresh : BOOLEAN], reloaded : BOOLEAN]
       /\ overlap.losses = {} /\ ~overlap.reloaded
  BY DEF WorkInit
<1>13. SinglesOK(p)
  BY <1>5, <1>8, <1>9 DEF SinglesOK, Single, EditOK
<1>14. ASSUME NEW t \in WorkTabs PROVE WorkTabOK(p, board, t, 0, TRUE)
  <2>1. TimerOK(p) /\ LayoutOK(p) /\ LoadedOK(p, board) /\ ShownOK(p, board) /\ CalmOK(p, board) /\ ShareOK(p, board, t)
    BY <1>2, <1>4, <1>5, <1>8, <1>9, <1>10 DEF TimerOK, LayoutOK, LoadedOK, ShownOK, CalmOK, ShareOK
  <2>2. OpenOK(p) /\ FilledOK(p, board)
    BY <1>5, <1>8, <1>9 DEF OpenOK, FilledOK, Bare, LoadedHead
  <2> QED
    BY <1>5, <1>9, <1>10, <1>13, <2>1, <2>2 DEF WorkTabOK
<1>15. BoardOK(board, 0, TRUE) /\ CountsOK
  BY <1>10, <1>11, <1>12 DEF BoardOK, CountsOK, LossNeedsAnOverlap, Single, Counts
<1>16. \A t \in WorkTabs : work[t] = p
  BY <1>7
<1> QED
  BY <1>7, <1>11, <1>12, <1>14, <1>15, <1>16 DEF WorkIInv

LEMMA WorkSteps == WorkIInv /\ [WorkNext]_workVars => WorkIInv'
<1> SUFFICES ASSUME WorkIInv, [WorkNext]_workVars PROVE WorkIInv'
  OBVIOUS
<1>1. ASSUME UNCHANGED <<board, work, count, overlap>> PROVE WorkIInv'
  BY <1>1 DEF WorkIInv, CountsOK, LossNeedsAnOverlap, BoardOK
<1>2. ASSUME NEW t \in WorkTabs, UserWorks(t) PROVE WorkIInv'
  <2>1. CASE PressShare(t)
    BY <2>1, StepPress DEF PressShare
  <2>2. CASE PressRevoke(t)
    BY <2>2, StepPress DEF PressRevoke
  <2>3. CASE InstallTemplate(t)
    BY <2>3, StepPress DEF InstallTemplate
  <2> QED
    BY <1>2, <2>1, <2>2, <2>3, StepAddPanel, StepEditPanel, StepSavePanel, StepSaveNowhere, StepDragPanel DEF UserWorks
<1>3. ASSUME NEW t \in WorkTabs, LayoutTimer(t) PROVE WorkIInv'
  BY <1>3, StepLayoutTimer
<1>4. ASSUME NEW t \in WorkTabs, ServeWork(t) PROVE WorkIInv'
  BY <1>4, StepGetDashboards, StepPatchDashboard, StepShareDashboard, StepRevokeShare, StepFindSlug, StepInsertDashboard
     DEF ServeWork
<1>5. ASSUME NEW t \in WorkTabs, RefuseJob(t) \/ JobFails(t) PROVE WorkIInv'
  BY <1>5, StepRefuseJob, StepJobFails
<1>6. ASSUME NEW t \in WorkTabs, ContinueWork(t) PROVE WorkIInv'
  BY <1>6, StepDashboardsLoaded, StepNothingLoaded, StepLayoutSaved, StepThenLoadAgain, StepLinkShown DEF ContinueWork
<1>7. CASE OpenShare \/ ShareQuery
  BY <1>1, <1>7 DEF OpenShare, ShareQuery
<1>8. CASE UNCHANGED workVars
  BY <1>1, <1>8 DEF workVars
<1> QED
  BY <1>2, <1>3, <1>4, <1>5, <1>6, <1>7, <1>8 DEF WorkNext

\* Everything the workspace's runs check follows.
LEMMA WorkHolds == WorkIInv => WorkInv
<1> SUFFICES ASSUME WorkIInv PROVE WorkInv
  OBVIOUS
<1>1. count.made \in 0 .. MaxMade /\ MaxMade \in Nat
  BY WorkspaceAssumption DEF WorkIInv, CountsOK
<1>2. /\ board.panels \in SUBSET Widgets(count.made) /\ board.patches \in Nat
      /\ \A p \in board.panels : p.gen \in 0 .. board.patches
  BY DEF WorkIInv, BoardOK
<1>3. WorkTypeOK
  <2>1. \A p \in board.panels : p.made \in 1 .. MaxMade /\ p.query \in Queries \cup {NoQuery}
    BY <1>1, <1>2 DEF Widgets
  <2>2. MadeOf(board.panels) \subseteq 1 .. MaxMade
    BY <2>1 DEF MadeOf
  <2>3. \A t \in WorkTabs : work[t].seen <= board.patches
    BY DEF WorkIInv, WorkTabOK
  <2> QED
    BY <1>2, <2>1, <2>2, <2>3 DEF WorkTypeOK
<1>4. LossNeedsAnOverlap /\ TwinsNeedAReload
  BY DEF WorkIInv, CountsOK, BoardOK, TwinsNeedAReload, Single
<1>5. ASSUME NEW t \in WorkTabs, Calm(t), work[t].seen = board.patches
      PROVE  Content(work[t].shown) = Content(board.panels)
  <2>1. PICK p : p = work[t]
    OBVIOUS
  <2>2. p.calls = <<>> /\ ~p.timer.set /\ "panels" \notin p.failed
    BY <1>5, <2>1 DEF Calm
  <2>3. ShownOK(p, board) /\ OpenOK(p)
    BY <2>1 DEF WorkIInv, WorkTabOK
  <2>4. ~Returning(p.calls) /\ ~Arranging(p.calls) /\ ~JustLoaded(p.calls)
    BY <2>2 DEF Returning, Arranging, JustLoaded
  <2>5. p.open
    BY <2>2, <2>3, <2>4 DEF OpenOK
  <2> QED
    BY <1>5, <2>1, <2>2, <2>3, <2>4, <2>5 DEF ShownOK
<1>6. ASSUME NEW t \in WorkTabs, work[t].calls = <<>>, t \in board.by
      PROVE  work[t].token = board.token \/ (work[t].token = 0 /\ "token" \in work[t].failed)
  <2>1. ShareOK(work[t], board, t)
    BY DEF WorkIInv, WorkTabOK
  <2>2. ~Telling(work[t].calls, "share") /\ ~Telling(work[t].calls, "revoke")
    BY <1>6 DEF Telling
  <2> QED
    BY <1>6, <2>1, <2>2 DEF ShareOK, Links
<1> QED
  BY <1>3, <1>4, <1>5, <1>6 DEF WorkInv, RestShowsTheStored, ShareShownIsLive

\* What members see of a dashboard and what is stored of it: no panel is lost by
\* a calm and fresh save, none is doubled but under an open editor, and a tab at
\* rest shows what is stored.
THEOREM WorkInvariant == WorkSpec => []WorkInv
<1>1. WorkIInv /\ [][WorkNext]_workVars => []WorkIInv
  BY WorkSteps, PTL
<1> QED
  BY <1>1, WorkStarts, WorkHolds, PTL DEF WorkSpec
=============================================================================
