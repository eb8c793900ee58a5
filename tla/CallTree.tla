------------------------------- MODULE CallTree ------------------------------
(***************************************************************************)
(* What the decoder makes of the log of a transaction: an edge per call    *)
(* with its compute units, and the call each event belongs to; the numbers *)
(* it gives instructions; and the tree the waterfall panel draws of the    *)
(* edges.  The runtime that writes the log keeps the calls as they are.    *)
(***************************************************************************)
EXTENDS Integers, Sequences, FiniteSets, FiniteSetsExt, SequencesExt

CONSTANTS Callees,  \* programs that are invoked
          Builtins, \* those of them that do not report compute units
          MaxLog,   \* bound: lines of the log
          MaxDepth  \* bound: nested calls

ASSUME CallBounds == Builtins \subseteq Callees /\ MaxLog \in Nat /\ MaxDepth \in Nat

VARIABLES lines,   \* the log
          made,    \* the calls made, in order
          running, \* those that have not returned, the latest last
          emitters \* per event of the log the call that emitted it

callVars == <<lines, made, running, emitters>>

Logged(k, p, u) == [k |-> k, program |-> p, units |-> u]
CallsInit == lines = <<>> /\ made = <<>> /\ running = <<>> /\ emitters = <<>>

Invoke(p) ==
  /\ Len(lines) < MaxLog /\ Len(running) < MaxDepth
  /\ lines' = Append(lines, Logged("invoke", p, 0))
  /\ made' = Append(made, [program |-> p, caller |-> IF running = <<>> THEN 0 ELSE Last(running),
                           units |-> 0])
  /\ running' = Append(running, Len(made) + 1)
  /\ UNCHANGED emitters

Emit ==
  /\ Len(lines) < MaxLog /\ running # <<>> /\ made[Last(running)].program \notin Builtins
  /\ lines' = Append(lines, Logged("data", "", 0))
  /\ emitters' = Append(emitters, Last(running))
  /\ UNCHANGED <<made, running>>

\* Units differ from call to call.
Return ==
  /\ running # <<>>
  /\ LET k == Last(running)
         p == made[k].program
     IN IF p \in Builtins
        THEN UNCHANGED <<lines, made>>
        ELSE /\ Len(lines) < MaxLog
             /\ lines' = Append(lines, Logged("consumed", p, Len(lines) + 1))
             /\ made' = [made EXCEPT ![k].units = Len(lines) + 1]
  /\ running' = Front(running)
  /\ UNCHANGED emitters

CallsNext == Emit \/ Return \/ \E p \in Callees : Invoke(p)
CallsSpec == CallsInit /\ [][CallsNext]_callVars

-----------------------------------------------------------------------------
(* The decoder. *)

Invokes == SelectSeq([i \in DOMAIN lines |-> i], LAMBDA i : lines[i].k = "invoke")

\* The stack of invocations is never popped: its top is the latest of all calls.
Top(line) == Cardinality({i \in DOMAIN Invokes : Invokes[i] < line})

\* The edge a report of compute units is written to, the latest of its program.
Reported(line) ==
  Max({k \in 1 .. Top(line) : lines[Invokes[k]].program = lines[line].program})

Reports(k) == {i \in DOMAIN lines : lines[i].k = "consumed" /\ Reported(i) = k}

\* A call is numbered from 0; without a call before it its parent is 0 as well.
Edges ==
  [k \in DOMAIN Invokes |->
    [child |-> k - 1, parent |-> IF k = 1 THEN 0 ELSE Top(Invokes[k]) - 1,
     callee |-> lines[Invokes[k]].program,
     units |-> IF Reports(k) = {} THEN 0 ELSE lines[Max(Reports(k))].units]]

Events == SelectSeq([i \in DOMAIN lines |-> i], LAMBDA i : lines[i].k = "data")
EventIndex(e) == Top(Events[e]) - 1

\* An instruction of the message has its place, one that was called by it a hundred
\* times that place and its own place among those.
Instructions == {k \in DOMAIN made : made[k].caller = 0}
TopLevel(k) == Max({j \in Instructions : j <= k})
PlaceOf(k) == Cardinality({j \in Instructions : j < TopLevel(k)})
InnerPlace(k) == Cardinality({j \in 1 .. k - 1 : j \notin Instructions /\ TopLevel(j) = TopLevel(k)})
IxIndex(k) == IF k \in Instructions THEN PlaceOf(k) ELSE PlaceOf(k) * 100 + InnerPlace(k)

-----------------------------------------------------------------------------
(* The waterfall panel. *)

\* Roots are the edges whose parent is no edge's child; below a node five are drawn.
Roots(edges) == {e.child : e \in {f \in edges : \A g \in edges : g.child # f.parent}}
Below(edges, id) ==
  LET children == {e.child : e \in {f \in edges : f.parent = id}}
  IN {c \in children : Cardinality({d \in children : d < c}) < 5}
Drawn(edges) ==
  LET after[n \in 0 .. Cardinality(edges)] ==
        IF n = 0 THEN Roots(edges) ELSE after[n - 1] \cup UNION {Below(edges, id) : id \in after[n - 1]}
  IN after[Cardinality(edges)]

-----------------------------------------------------------------------------

\* Every call is one edge, in the order of the log.
EveryCallIsAnEdge ==
  /\ Len(Edges) = Len(made)
  /\ \A k \in DOMAIN made : Edges[k].callee = made[k].program

Enclosing[k \in 1 .. MaxLog] ==
  IF k \in Instructions THEN {} ELSE {made[k].caller} \cup Enclosing[made[k].caller]

\* The units of a call are those it reported, wherever its program was not called
\* again from inside it and does not enclose it: then the later report is kept.
UnitsAreTheCalls ==
  \A k \in DOMAIN made :
    (\A j \in DOMAIN made :
       made[j].program = made[k].program => j \notin Enclosing[k] /\ k \notin Enclosing[j])
      => Edges[k].units = made[k].units

\* A call made from the call before it hangs below it, and an event is its
\* emitter's if that has made no call before; the rest is misplaced.
PlacesAreTheCallers ==
  /\ \A k \in DOMAIN made : k > 1 => (Edges[k].parent = made[k].caller - 1) = (made[k].caller = k - 1)
  /\ \A e \in DOMAIN Events :
       (EventIndex(e) = emitters[e] - 1) =
         (\A j \in DOMAIN made : Invokes[j] < Events[e] => j <= emitters[e])

\* Instructions have different numbers, but for those called by the first one, whose
\* numbers are those of the next instructions.
NumbersDiffer ==
  \A k, j \in DOMAIN made :
    k # j /\ IxIndex(k) = IxIndex(j) => \E i \in {k, j} : i \notin Instructions /\ PlaceOf(i) = 0

\* The first call is recorded as its own caller and all others below it: the
\* waterfall finds no root and draws nothing.
NothingIsDrawn == Drawn(Range(Edges)) = {}

CallTreeInv ==
  EveryCallIsAnEdge /\ UnitsAreTheCalls /\ PlacesAreTheCallers /\ NumbersDiffer /\ NothingIsDrawn
==============================================================================
