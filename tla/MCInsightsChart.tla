---------------------------- MODULE MCInsightsChart ----------------------------
(***************************************************************************)
(* The charts against what a reader takes from them, for a few widths and  *)
(* every set of up to three points in eight days; TLC evaluates the        *)
(* assumptions of this module once.                                        *)
(***************************************************************************)
EXTENDS InsightsChart

FewPoints ==
    UNION {[1..n -> [day : {1, 2, 4, 8}, value : {0, 3, 20}]] : n \in 0..2}
    \cup {<<[day |-> 1, value |-> 7], [day |-> d, value |-> 0], [day |-> e, value |-> 9]>> :
              d \in 1..8, e \in 1..8}
Everyday(n) == [i \in 1..n |-> [day |-> i, value |-> (i * i) % 7]]
Hosts == {<<240, 112>>, <<0, 0>>, <<38, 40>>}

\* The scale holds the greatest value and is at most two and a half times it.
ScaleFits ==
    \A v \in 0..1200 : LET s == ChooseScaleMax(v) IN v <= s /\ (v > 0 => 2 * s <= 5 * v)
ASSUME ScaleFits

\* The bars keep to the plot, stand in the order of their days, and two never
\* cover more of each other than a twentieth of the room of a day: the first
\* and the last are moved inwards by half their width.
BarsAreApart ==
    \A points \in FewPoints \cup {Everyday(n) : n \in {21, 22, 30, 90}}, host \in Hosts :
        LET chart == DictationTimeChart(points, host[1], host[2])
            bars == chart.bars
            room == (chart.right - chart.left) \div DaySpan(Normalize(points))
        IN /\ \A i \in DOMAIN bars :
                 /\ chart.left <= bars[i].x /\ bars[i].x + bars[i].width <= chart.right
                 /\ chart.top <= bars[i].y /\ bars[i].y + bars[i].height = chart.zero
           /\ \A i \in 1..(Len(bars) - 1) :
                 /\ bars[i].day < bars[i + 1].day
                 /\ 20 * (bars[i].x + bars[i].width - bars[i + 1].x) <= room
                 /\ DaySpan(Normalize(points)) <= 21 =>
                        bars[i].x + bars[i].width <= bars[i + 1].x
ASSUME BarsAreApart

\* Taller means more, and the total is that of the points.
BarsTellTheValues ==
    \A points \in FewPoints :
        LET chart == DictationTimeChart(points, 240, 112)
            Value(d) == MapThenSumSet(LAMBDA i : points[i].value,
                                      {i \in DOMAIN points : points[i].day = d})
        IN /\ \A b \in ToSet(chart.bars) :
                 b.height * chart.scale = Value(b.day) * (chart.zero - chart.top)
           /\ chart.total = MapThenSumSet(LAMBDA i : points[i].value, DOMAIN points)
           /\ chart.gapDays + Len(chart.bars) =
                  IF points = <<>> THEN 0 ELSE DaySpan(Normalize(points))
ASSUME BarsTellTheValues

\* The line stays in the plot.  It never runs backwards where days follow each
\* other without a gap; after a long gap it does (in All time), since its
\* control points reach 0.18 of the way across the gap.
LineRunsForward ==
    \A points \in FewPoints \cup {Everyday(n) : n \in 1..9} :
        LET chart == WordsAreaChart(points, 720, 160)
            line == SmoothLine(chart)
        IN \A i \in DOMAIN line :
              /\ line[i].y1 \in 50 * chart.top..50 * chart.bottom
              /\ line[i].y2 \in 50 * chart.top..50 * chart.bottom
              /\ chart.gapDays = 0 =>
                     line[i].from <= line[i].x1 /\ line[i].x1 <= line[i].x2 /\ line[i].x2 <= line[i].to
ASSUME LineRunsForward

LineRunsBackAfterAGap ==
    LET days == <<1, 8, 9>>
        line == SmoothLine(WordsAreaChart(
            [i \in 1..3 |-> [day |-> days[i], value |-> 3]], 720, 160))
    IN line[2].x1 > line[2].to
ASSUME LineRunsBackAfterAGap

\* The pointer and the keys choose a point there is, and the keys reach each.
HoverFindsAPoint ==
    \A points \in FewPoints \ {<<>>} :
        LET p == WordsAreaChart(points, 720, 160).points
            keys == {"Home", "End", "ArrowLeft", "ArrowRight"}
        IN /\ \A i \in DOMAIN p : HoveredByPointer(p, p[i].x) = i
           /\ \A i \in DOMAIN p, key \in keys : HoveredByKey(p, i, key) \in DOMAIN p
           /\ \A i \in 1..(Len(p) - 1) : HoveredByKey(p, i, "ArrowRight") = i + 1
ASSUME HoverFindsAPoint

\* A duration below an hour is told to half a second, a longer one to the
\* minute below; 119.5 seconds read "1m 60s".
DurationIsNear ==
    /\ \A t \in 0..80000 :
          LET d == InsightsDuration(t)
              told == 36000 * d.h + 600 * d.m + 10 * d.s
          IN IF t < 36000 THEN told - t \in -4..5 ELSE t - told \in 0..599
    /\ InsightsDuration(1195) = [h |-> 0, m |-> 1, s |-> 60]
ASSUME DurationIsNear

\* A comparison is told with a period that had words, and its direction is
\* that of the change; "saved" means that typing would have taken longer.
ComparisonIsTrue ==
    \A a, b \in 0..25 :
        LET c == Comparison(a, b, "7d")
        IN /\ c = <<>> <=> b = 0
           /\ c # <<>> => /\ c[1].direction = "up" <=> a > b
                          /\ c[1].percent * b \in (100 * (IF a > b THEN a - b ELSE b - a) - b)
                                                  ..(100 * (IF a > b THEN a - b ELSE b - a) + b)
           /\ TypingDifference(a, b).kind = "saved" <=> 60 * a > 40 * b
ASSUME ComparisonIsTrue
===============================================================================
