-------------------------------- MODULE Query --------------------------------
(***************************************************************************)
(* A panel's query from its text to what a click on one of its points      *)
(* lists: the query language compiled to SQL over tables of one row a      *)
(* minute, the rows shaped into series, the shared dashboard's redaction,  *)
(* the drill-down.  A text is an expression; times are in seconds, and a   *)
(* value is a pair: numerator, denominator.                                *)
(***************************************************************************)
EXTENDS Integers, Sequences, FiniteSets, FiniteSetsExt, SequencesExt, Functions, TLC

CONSTANTS
  Now,      \* when the panel asks
  Moments,  \* when calls are made
  Drawn     \* bound: points that can be clicked

ASSUME QueryAssumption == Now \in Nat /\ Moments \subseteq 0 .. Now /\ Drawn \in Nat

VARIABLES
  happened, \* the program's calls
  query,   \* the query under way: expression, range, whether it is redacted
  series,  \* its answer
  drill    \* the point that was clicked, and what it lists

queryVars == <<happened, query, series, drill>>

Ranges == [h1 |-> 3600, h24 |-> 86400, d7 |-> 604800]
NoQuestion == [expr |-> [k |-> "none"], range |-> "h1", redact |-> FALSE]
NoDrill == [of |-> <<>>, lists |-> {}]

Call == {[instruction |-> i, status |-> s, signer |-> "x", error_name |-> IF s = "failed" THEN "e" ELSE ""] :
           i \in {"a", "b"}, s \in {"success", "failed"}}
NothingAsked == query = NoQuestion /\ series = <<>> /\ drill = NoDrill

QueryInit ==
  /\ happened \in {f \in [1 .. 2 -> {[at |-> m] @@ c : m \in Moments, c \in Call}] : f[1].at <= f[2].at}
  /\ NothingAsked

-----------------------------------------------------------------------------
(* The step of a query; without one it follows from the window. *)

StepOf(text) == text[1] * (CASE text[2] = "s" -> 1 [] text[2] = "m" -> 60 [] text[2] = "h" -> 3600 [] OTHER -> 86400)
DefaultStep(window) ==
  IF window <= 3600 THEN 30 ELSE IF window <= 86400 THEN 60 ELSE IF window <= 604800 THEN 300 ELSE 3600
ParseStep(text, window) ==
  IF text = <<>> THEN DefaultStep(window) ELSE IF text[2] = "?" THEN 60 ELSE Max({1, StepOf(text)})

\* What the panel asks for, with a step of its own.
RangeToWindow(range) ==
  [from |-> Now - Ranges[range], to |-> Now,
   step |-> CASE range = "h1" -> <<30, "s">> [] range = "h24" -> <<1, "m">> [] OTHER -> <<5, "m">>]

-----------------------------------------------------------------------------
(* The query language. *)

LabelsOfMetric == [calls |-> {"instruction", "status"}, errors |-> {"instruction", "error_name"},
                   fees |-> {"signer", "status"}]

Vec(metric, filters, range) == [k |-> "vector", metric |-> metric, filters |-> filters, range |-> range]
Rate(e) == [k |-> "rate", of |-> e]
Increase(e) == [k |-> "increase", of |-> e]
Sum(by, e) == [k |-> "sum", by |-> by, of |-> e]
Ratio(l, r) == [k |-> "ratio", left |-> l, right |-> r]
TopK(n, e) == [k |-> "topk", n |-> n, of |-> e]

All(metric) == Vec(metric, <<>>, 0)
Of(i) == Vec("calls", <<<<"instruction", i>>>>, 0)
Questions ==
  {All("calls"), Of("a"), Rate(All("calls")), Sum({}, Increase(All("calls"))), Sum({"instruction"}, Rate(All("calls"))),
   Sum({}, Of("b")), Sum({"signer"}, Increase(All("fees"))), All("errors"), Sum({}, Rate(Vec("calls", <<>>, 60))),
   Increase(Vec("fees", <<>>, 60)), TopK(1, Sum({"instruction"}, Increase(All("calls")))),
   Ratio(Sum({}, Of("a")), Sum({}, Of("b"))),
   Ratio(Sum({}, Vec("calls", <<<<"status", "success">>>>, 0)), Sum({}, All("calls"))),
   Sum({"signer"}, All("calls")), Rate(Sum({}, All("calls"))), Vec("fees", <<<<"instruction", "a">>>>, 0)}

RECURSIVE LabelsOf(_)
LabelsOf(e) ==
  CASE e.k = "vector" -> LabelsOfMetric[e.metric]
    [] e.k = "sum" -> e.by
    [] e.k = "ratio" -> {}
    [] OTHER -> LabelsOf(e.of)

RECURSIVE Compiled(_)
Compiled(e) ==
  CASE e.k = "vector" -> \A i \in DOMAIN e.filters : e.filters[i][1] \in LabelsOf(e)
    [] e.k \in {"rate", "increase"} -> e.of.k = "vector" /\ Compiled(e.of)
    [] e.k = "sum" -> Compiled(e.of) /\ e.by \subseteq LabelsOf(e.of)
    [] e.k = "ratio" -> Compiled(e.left) /\ Compiled(e.right)
    [] OTHER -> Compiled(e.of)

\* The parameters are one map for the whole text: a filter's is named by its place
\* in its own selector.
\* Mutant of Bind: a parameter that is there is kept.
BindFirst(values, params) == params @@ values
Bind(values, params) == values @@ params

RECURSIVE Params(_, _)
Params(e, params) ==
  CASE e.k = "vector" ->
         Bind([i \in DOMAIN e.filters |-> e.filters[i][2]] @@ (IF e.range > 0 THEN 0 :> e.range ELSE <<>>), params)
    [] e.k = "ratio" -> Params(e.right, Params(e.left, params))
    [] OTHER -> Params(e.of, params)

-----------------------------------------------------------------------------
(* The rows: a time, labels, a value; of tells rows apart. *)

Minute(at) == (at \div 60) * 60
Row(t, labels, n, d, of) == [t |-> t, labels |-> labels, n |-> n, d |-> d, of |-> of]
Total(rows) == MapThenSumSet(LAMBDA r : r.n, rows)

\* The metrics' tables have the minute only, the transactions their time.
TimeOf(metric, c) == IF metric = "fees" THEN c.at ELSE Minute(c.at)
Selected(e, p, w) ==
  {i \in DOMAIN happened :
     LET c == happened[i]
         time == TimeOf(e.metric, c)
     IN /\ e.metric = "errors" => c.status = "failed"
        /\ time \in w.from .. w.to
        /\ e.range > 0 => time >= w.to - p[0]
        /\ \A f \in DOMAIN e.filters : c[e.filters[f][1]] = p[f]}

Grouped(rows, labels) ==
  LET key(r) == <<r.t, Restrict(r.labels, labels)>>
      part(k) == {r \in rows : key(r) = k}
  IN {Row(k[1], k[2], Total(part(k)), (CHOOSE r \in part(k) : TRUE).d, 0) : k \in {key(r) : r \in rows}}

RECURSIVE Rows(_, _, _)
Rows(e, p, w) ==
  CASE e.k = "vector" ->
         Grouped({Row(Minute(happened[i].at), happened[i], 1, 1, i) : i \in Selected(e, p, w)}, LabelsOf(e))
    [] e.k = "rate" -> {[r EXCEPT !.d = Max({w.step, 1})] : r \in Rows(e.of, p, w)}
    [] e.k = "increase" -> Rows(e.of, p, w)
    [] e.k = "sum" -> Grouped(Rows(e.of, p, w), e.by)
    [] e.k = "ratio" ->
         {Row(q[1].t, <<>>, q[1].n * q[2].d, q[1].d * q[2].n, q) :
            q \in {pair \in Rows(e.left, p, w) \X Rows(e.right, p, w) : pair[1].t = pair[2].t}}

\* Of equals topk takes any; its rows are dated at the end of the window.
Results(e, w) ==
  LET p == Params(e, <<>>)
      sums == Grouped({[r EXCEPT !.t = w.to] : r \in Rows(e.of, p, w)}, LabelsOf(e.of))
  IN IF e.k # "topk" THEN {Rows(e, p, w)}
     ELSE {S \in SUBSET sums : /\ Cardinality(S) = Min({e.n, Cardinality(sums)})
                               /\ \A r \in S, q \in sums \ S : r.n >= q.n}

-----------------------------------------------------------------------------
(* The answer and the panel. *)

\* Rows come in the order of time, of one time in any; series in that of their first row.
Ordered(rows) == {s \in SetToSeqs(rows) : \A i, j \in DOMAIN s : i < j => s[i].t <= s[j].t}
PointsOf(s, labels) == SelectSeq(s, LAMBDA r : r.labels = labels)
Point(r) == [t |-> r.t, n |-> r.n, d |-> r.d]
ShapeQueryResult(s) ==
  LET first == SelectSeq([i \in DOMAIN s |-> i], LAMBDA i : \A j \in 1 .. i - 1 : s[j].labels # s[i].labels)
      points(labels) == PointsOf(s, labels)
  IN [k \in DOMAIN first |->
        LET labels == s[first[k]].labels
        IN [labels |-> labels, points |-> [n \in DOMAIN points(labels) |-> Point(points(labels)[n])]]]

Redacted(labels) == [l \in DOMAIN labels |-> IF l = "signer" THEN "redacted" ELSE labels[l]]

AskQuery ==
  \E e \in Questions, range \in DOMAIN Ranges, redact \in BOOLEAN :
    LET w == RangeToWindow(range)
        window == [w EXCEPT !.step = ParseStep(@, w.to - w.from)]
    IN /\ query' = [expr |-> e, range |-> range, redact |-> redact]
       /\ \/ ~Compiled(e) /\ series' = <<>>
          \/ /\ Compiled(e)
             /\ \E rows \in Results(e, window) : \E s \in Ordered(rows) :
                  series' = [k \in DOMAIN ShapeQueryResult(s) |->
                               IF redact THEN [ShapeQueryResult(s)[k] EXCEPT !.labels = Redacted(@)]
                               ELSE ShapeQueryResult(s)[k]]
       /\ drill' = NoDrill
       /\ UNCHANGED happened

\* A click lists the transactions around the point, by the labels it has.
DrillWindow(t) == t - 30 .. t + 30
Listed(t, labels) ==
  {i \in DOMAIN happened : /\ happened[i].at \in DrillWindow(t)
                        /\ \A l \in DOMAIN labels \cap {"instruction", "signer", "status"} : happened[i][l] = labels[l]}
ClickPoint ==
  \E k \in DOMAIN series : \E n \in DOMAIN series[k].points :
    /\ n <= Drawn /\ ~query.redact
    /\ drill' = [of |-> <<k, n>>, lists |-> Listed(series[k].points[n].t, series[k].labels)]
    /\ UNCHANGED <<happened, query, series>>

\* What the kinds of panel take of the answer: a single value the last of the first
\* series, a table the last of ten, a list a button for fifty of which those work
\* that have a signature.
LatestValue == IF series = <<>> THEN <<>> ELSE <<Last(series[1].points)>>
TableRows == [k \in 1 .. Min({10, Len(series)}) |-> Last(series[k].points)]
Openable == {k \in 1 .. Min({50, Len(series)}) : "signature" \in DOMAIN series[k].labels}

QueryNext == (query = NoQuestion /\ AskQuery) \/ ClickPoint
QuerySpec == QueryInit /\ [][QueryNext]_queryVars

-----------------------------------------------------------------------------

AllPoints == UNION {{<<k, n>> : n \in DOMAIN series[k].points} : k \in DOMAIN series}
At(x) == series[x[1]].points[x[2]]
Summed == MapThenSumSet(LAMBDA x : At(x).n, AllPoints)
Counts(c, w) == c.at <= w.to /\ Minute(c.at) >= w.from
Window == RangeToWindow(query.range)
IsAsked(e) == query.expr = e

\* The values of an increase over the window are the calls of its minutes, the first
\* of which does not count if the window starts within it.
PointsAddUp ==
  /\ IsAsked(Sum({}, Increase(All("calls")))) \/ IsAsked(All("calls")) =>
       Summed = Cardinality({i \in DOMAIN happened : Counts(happened[i], Window)})
  /\ IsAsked(Sum({"signer"}, Increase(All("fees")))) =>
       Summed = Cardinality({i \in DOMAIN happened : happened[i].at \in Window.from .. Window.to})

\* A series has one point a minute and no two series have the same labels; only
\* redaction makes them alike, and it leaves no signer.
SeriesAreFunctions ==
  query.expr.k # "ratio" =>
    /\ \A k \in DOMAIN series : \A n, m \in DOMAIN series[k].points :
         n < m => series[k].points[n].t < series[k].points[m].t
    /\ \A j, k \in DOMAIN series :
         series[j].labels = series[k].labels => j = k \/ (query.redact /\ "signer" \in DOMAIN series[j].labels)
    /\ query.redact => \A k \in DOMAIN series : "signer" \in DOMAIN series[k].labels => series[k].labels.signer = "redacted"

\* A rate divides the calls of a minute by the step of the panel, so that it is one
\* per second only where the step is a minute.
RateIsOfTheStep ==
  IsAsked(Rate(All("calls"))) => \A x \in AllPoints : At(x).d = 60 <=> query.range = "h24"

\* Both sides of a ratio have the filter that was compiled last: a ratio of two
\* instructions is one in every minute the second is called, and has no other point.
RatioHasOneFilter ==
  IsAsked(Ratio(Sum({}, Of("a")), Sum({}, Of("b")))) =>
    /\ \A x \in AllPoints : At(x).n = At(x).d
    /\ {At(x).t : x \in AllPoints} =
         {Minute(happened[i].at) : i \in {j \in DOMAIN happened : happened[j].instruction = "b" /\ Counts(happened[j], Window)}}

\* A selector's range cuts the window of every panel to its last seconds.
RangeCutsTheWindow ==
  IsAsked(Sum({}, Rate(Vec("calls", <<>>, 60)))) \/ IsAsked(Increase(Vec("fees", <<>>, 60))) =>
    \A x \in AllPoints : At(x).t >= Minute(Now - 60)

\* A click on a point lists of its minute the first half, and of the minute before
\* the second; what a filter of the text left out is listed as well.
DrillIsHalfTheBucket ==
  LET p == At(drill.of)
      own == {i \in DOMAIN happened : Minute(happened[i].at) = p.t}
  IN drill # NoDrill /\ IsAsked(All("calls")) =>
       /\ \A i \in drill.lists : i \notin own => p.t - happened[i].at <= 30
       /\ {i \in own : happened[i].at - p.t <= 30 /\ \A l \in DOMAIN series[drill.of[1]].labels :
                          happened[i][l] = series[drill.of[1]].labels[l]} \subseteq drill.lists
       /\ p.n - Cardinality(drill.lists \cap own) <= Cardinality({i \in own : happened[i].at - p.t > 30})

\* The step of a panel is the one its window would have without it, and keeps a
\* window of at most a week, and one second more, within 2016 steps.
StepsAgree ==
  \A range \in DOMAIN Ranges :
    LET w == RangeToWindow(range)
    IN /\ ParseStep(w.step, Ranges[range]) = ParseStep(<<>>, Ranges[range])
       /\ \A d \in {0, 1} : (Ranges[range] + d) \div ParseStep(<<>>, Ranges[range] + d) <= 2016

\* The value shown as the latest is the newest minute's if the answer has one series,
\* and else one of the table's; no button of a transaction list opens anything.
LatestIsOfTheFirst ==
  /\ series # <<>> =>
       /\ LatestValue[1] \in Range(TableRows)
       /\ Len(series) = 1 => \A x \in AllPoints : At(x).t <= LatestValue[1].t
  /\ Openable = {}

QueryInv ==
  /\ PointsAddUp /\ SeriesAreFunctions /\ RateIsOfTheStep /\ RatioHasOneFilter
  /\ RangeCutsTheWindow /\ DrillIsHalfTheBucket /\ StepsAgree /\ LatestIsOfTheFirst
==============================================================================
