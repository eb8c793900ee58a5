------------------------------- MODULE Figures -------------------------------
(***************************************************************************)
(* What panels draw of an answer's points: lines, heatmaps, gauges and     *)
(* lines of block characters, on canvases of fixed size.  Times are in     *)
(* seconds, positions in pixels from the upper left, rounded down.         *)
(***************************************************************************)
EXTENDS Integers, Sequences, FiniteSets, FiniteSetsExt, SequencesExt

CONSTANTS
  FigTimes,   \* times of points
  FigValues,  \* values of points
  Repeats     \* how often the last value is repeated in a line of blocks

ASSUME FiguresAssumption == FigTimes \subseteq Nat /\ FigValues \subseteq Nat /\ Repeats \subseteq Nat

VARIABLES
  points,  \* what is drawn: a sequence of times with values
  drawn    \* the figures

figureVars == <<points, drawn>>

NoFigures == [of |-> 0]

FiguresInit ==
  /\ points \in UNION {[1 .. n -> [t : FigTimes, v : FigValues]] : n \in 1 .. 3}
  /\ drawn = NoFigures

LeastOf(field) == Min({points[i][field] : i \in DOMAIN points})
MostOf(field) == Max({points[i][field] : i \in DOMAIN points})
-----------------------------------------------------------------------------

\* A linear scale; a domain of one value is drawn at the middle of the range.
Scale(x, low, high, from, to) ==
  IF low = high THEN (from + to) \div 2 ELSE from + ((x - low) * (to - from)) \div (high - low)

\* The line of a time series; its top is rounded up to a nice number.
TimeSeries(top) ==
  [i \in DOMAIN points |->
     [x |-> Scale(points[i].t, LeastOf("t"), MostOf("t"), 48, 740), y |-> Scale(points[i].v, 0, top, 190, 10)]]

\* A single value has a small line if there are two points.
Tiny(top) ==
  IF Len(points) < 2 THEN <<>>
  ELSE [i \in DOMAIN points |->
          [x |-> Scale(points[i].t, LeastOf("t"), MostOf("t"), 0, 220), y |-> Scale(points[i].v, 0, top, 48, 0)]]

GaugePercent(v) == Max({0, Min({100, v})})

\* A cell is six pixels a minute and eight a twentieth of the values' range.
CellOf(p) ==
  LET range == MostOf("v") - LeastOf("v")
      above == p.v - LeastOf("v")
  IN <<(p.t - LeastOf("t")) \div 60, IF range <= 20 THEN above ELSE (above * 20) \div range>>
Heatmap ==
  LET cells == {CellOf(points[i]) : i \in DOMAIN points}
  IN {[x |-> c[1] * 6, y |-> 220 - c[2] * 8, count |-> Cardinality({i \in DOMAIN points : CellOf(points[i]) = c})] :
        c \in cells}

\* The last 24 values, by the extremes of all.
BlockOf(v, low, high) == Max({0, Min({7, ((v - low) * 7) \div (high - low)})})
Kept(values) == SubSeq(values, Max({1, Len(values) - 23}), Len(values))
Sparkline(values) ==
  LET low == Min(Range(values))
      high == Max(Range(values))
  IN IF low = high THEN [i \in DOMAIN Kept(values) |-> 4]
     ELSE [i \in DOMAIN Kept(values) |-> BlockOf(Kept(values)[i], low, high)]

ValuesOf(repeat) == [i \in DOMAIN points |-> points[i].v] \o [i \in 1 .. repeat |-> Last(points).v]

DrawFigures ==
  /\ drawn = NoFigures
  /\ \E top \in {MostOf("v"), MostOf("v") + 3}, repeat \in Repeats :
       /\ top > MostOf("v") => MostOf("v") > 0
       /\ drawn' = [of |-> top, repeat |-> repeat, line |-> TimeSeries(top), tiny |-> Tiny(top),
                    gauge |-> GaugePercent(Last(points).v), cells |-> Heatmap, blocks |-> Sparkline(ValuesOf(repeat))]
  /\ UNCHANGED points

FiguresSpec == FiguresInit /\ [][DrawFigures]_figureVars
-----------------------------------------------------------------------------

\* A line stays within its axes, later is never farther left and more never lower;
\* nothing is drawn at the height of the axis if every value is zero.
LinesAreOrdered ==
  \A i, j \in DOMAIN points :
    LET at == drawn.line
    IN /\ at[i].x \in 48 .. 740 /\ at[i].y \in 10 .. 190
       /\ points[i].t <= points[j].t => at[i].x <= at[j].x
       /\ points[i].v <= points[j].v => at[i].y >= at[j].y
       /\ points[i].v = 0 => (at[i].y = 190 <=> MostOf("v") > 0)
       /\ drawn.tiny # <<>> => drawn.tiny[i].x \in 0 .. 220 /\ drawn.tiny[i].y \in 0 .. 48

\* Every point is counted in a cell; on the canvas are those of the first 127 minutes
\* which are not in the lowest of the twenty rows.
HeatmapShowsMost ==
  LET seen == {c \in drawn.cells : c.x < 760 /\ c.y < 220}
      least == Max({MostOf("v") - LeastOf("v"), 20})
      kept == {i \in DOMAIN points : /\ points[i].t - LeastOf("t") < 127 * 60
                                     /\ (points[i].v - LeastOf("v")) * 20 >= least}
  IN /\ MapThenSumSet(LAMBDA c : c.count, drawn.cells) = Len(points)
     /\ MapThenSumSet(LAMBDA c : c.count, seen) = Cardinality(kept)
     /\ \A c \in drawn.cells : c.y \in 60 .. 220

\* Blocks are at most 24 and ordered like the values; those of the least and of the
\* most are the lowest and the highest of all, unless they are too old to be shown.
BlocksAreOrdered ==
  LET values == ValuesOf(drawn.repeat)
      kept == Kept(values)
  IN /\ Len(drawn.blocks) = Min({24, Len(values)})
     /\ \A i, j \in DOMAIN kept : kept[i] <= kept[j] => drawn.blocks[i] <= drawn.blocks[j]
     /\ LeastOf("v") < MostOf("v") =>
          \A i \in DOMAIN kept : /\ kept[i] = LeastOf("v") => drawn.blocks[i] = 0
                                 /\ kept[i] = MostOf("v") <=> drawn.blocks[i] = 7

FiguresInv == drawn # NoFigures => LinesAreOrdered /\ HeatmapShowsMost /\ BlocksAreOrdered /\ drawn.gauge <= 100
==============================================================================
