----------------------------- MODULE InsightsChart -----------------------------
(***************************************************************************)
(* The charts of the Insights page (renderer/app/insights-chart.ts) and    *)
(* how the page reads them out (views/InsightsView.svelte).                *)
(*                                                                         *)
(* A point is [day, value]; days are integers, so every key is a valid     *)
(* date, and values are naturals.  A length across the chart is counted in *)
(* the XUnit-th part of a pixel, one down the chart in the 2 * scale-th,   *)
(* so that everything stays an integer; SVG text and labels are left out.  *)
(***************************************************************************)
EXTENDS Integers, Sequences, FiniteSets, SequencesExt, FiniteSetsExt

Larger(a, b) == IF a >= b THEN a ELSE b
Smaller(a, b) == IF a <= b THEN a ELSE b
Clamp(value, minimum, maximum) == Smaller(maximum, Larger(minimum, value))
Positive(value, fallback) == IF value > 0 THEN value ELSE fallback
Gap(from, to) == Larger(0, to - from - 1)

\* The points of one day are added up; the days come in order.
Normalize(points) ==
    LET days == {points[i].day : i \in DOMAIN points}
        Value(d) == MapThenSumSet(LAMBDA i : points[i].value,
                                  {i \in DOMAIN points : points[i].day = d})
    IN [i \in 1..Cardinality(days) |->
           LET d == CHOOSE d \in days : Cardinality({c \in days : c < d}) = i - 1
           IN [day |-> d, value |-> Value(d)]]

\* The least of 1, 2, 5 and 10 times the power of ten below the value that
\* reaches it.
ChooseScaleMax(value) ==
    LET power[n \in Nat] == IF n < 10 THEN 1 ELSE 10 * power[n \div 10]
        fits == {step \in {1, 2, 5, 10} : value <= step * power[value]}
    IN IF value = 0 THEN 1 ELSE Min(fits) * power[value]

GapDays(seq) ==
    MapThenSumSet(LAMBDA i : Gap(seq[i].day, seq[i + 1].day), 1..(Len(seq) - 1))
DaySpan(seq) == IF seq = <<>> THEN 1 ELSE Last(seq).day - Head(seq).day + 1
XUnit(seq) == 20 * DaySpan(seq) * Larger(1, DaySpan(seq) - 1)
\* A lone point stands in the middle, others where their day is.
CenterOf(seq, i, left, plotWidth) ==
    IF Len(seq) = 1 THEN left * XUnit(seq) + (plotWidth * XUnit(seq)) \div 2
    ELSE left * XUnit(seq) + (seq[i].day - seq[1].day) * plotWidth * 20 * DaySpan(seq)

Peak(seq) == Max({0} \cup {seq[i].value : i \in DOMAIN seq})

\* The time dictated per day, as bars.
DictationTimeChart(points, hostWidth, hostHeight) ==
    LET seq == Normalize(points)
        width == Positive(hostWidth, 240)
        height == Positive(hostHeight, 112)
        left == Clamp(34, 0, width)
        right == Larger(left, width - Smaller(8, width - left))
        plotWidth == right - left
        top == Clamp(10, 0, height)
        zero == Clamp(82, top, height)
        scale == ChooseScaleMax(Peak(seq))
        unit == XUnit(seq)
        \* min(18, 0.7 of the room of a day)
        barWidth == IF seq = <<>> THEN 0
                    ELSE Smaller(18 * unit, (plotWidth * 7 * unit) \div (10 * DaySpan(seq)))
        Bar(i) ==
            LET tall == Clamp(seq[i].value * (zero - top) * 2, 0, (zero - top) * 2 * scale)
            IN [day |-> seq[i].day, width |-> barWidth, height |-> tall,
                x |-> Clamp(CenterOf(seq, i, left, plotWidth) - barWidth \div 2, left * unit,
                            Larger(left * unit, right * unit - barWidth)),
                y |-> Clamp(2 * scale * zero - tall, 2 * scale * top, 2 * scale * zero),
                gapBefore |-> IF i = 1 THEN 0 ELSE Gap(seq[i - 1].day, seq[i].day)]
    IN [left |-> left * unit, right |-> right * unit, top |-> top * 2 * scale,
        zero |-> zero * 2 * scale, scale |-> scale, gapDays |-> GapDays(seq),
        total |-> MapThenSumSet(LAMBDA i : seq[i].value, DOMAIN seq),
        bars |-> [i \in DOMAIN seq |-> Bar(i)],
        ticks |-> {zero * 2 * scale - part * (zero - top) * scale : part \in 0..2}]

\* The words per day, as points of an area.
WordsAreaChart(points, hostWidth, hostHeight) ==
    LET seq == Normalize(points)
        width == Positive(hostWidth, 720)
        height == Positive(hostHeight, 160)
        left == Clamp(8, 0, width)
        right == Larger(left, width - Smaller(8, width - left))
        top == Clamp(12, 0, height)
        bottom == Larger(top, height - Smaller(22, height - top))
        scale == ChooseScaleMax(Peak(seq))
        unit == XUnit(seq)
        Point(i) ==
            [day |-> seq[i].day, words |-> seq[i].value,
             x |-> Clamp(CenterOf(seq, i, left, right - left), left * unit, right * unit),
             y |-> Clamp(2 * scale * bottom - 2 * seq[i].value * (bottom - top),
                         2 * scale * top, 2 * scale * bottom)]
    IN [left |-> left * unit, right |-> right * unit, top |-> 2 * scale * top,
        bottom |-> 2 * scale * bottom, scale |-> scale, gapDays |-> GapDays(seq),
        total |-> MapThenSumSet(LAMBDA i : seq[i].value, DOMAIN seq),
        points |-> [i \in DOMAIN seq |-> Point(i)]]

\* The Bezier segments between neighbouring points, in fiftieths: 0.18 of the
\* way across the neighbours, and never above or below the plot.
SmoothLine(chart) ==
    LET p == chart.points
        At(i) == p[Clamp(i, 1, Len(p))]
        Segment(i) ==
            LET Y(y) == Clamp(y, 50 * chart.top, 50 * chart.bottom)
            IN [from |-> 50 * p[i].x, to |-> 50 * p[i + 1].x,
                x1 |-> 50 * p[i].x + 9 * (p[i + 1].x - At(i - 1).x),
                x2 |-> 50 * p[i + 1].x - 9 * (At(i + 2).x - p[i].x),
                y1 |-> Y(50 * p[i].y + 9 * (p[i + 1].y - At(i - 1).y)),
                y2 |-> Y(50 * p[i + 1].y - 9 * (At(i + 2).y - p[i].y))]
    IN [i \in 1..(Len(p) - 1) |-> Segment(i)]

(* What the page reads out *)

\* The point nearest to the pointer, the first of two as near.
HoveredByPointer(points, pointerX) ==
    LET Distance(i) == Larger(points[i].x - pointerX, pointerX - points[i].x)
    IN CHOOSE i \in DOMAIN points :
           /\ \A j \in DOMAIN points : Distance(i) <= Distance(j)
           /\ \A j \in 1..(i - 1) : Distance(i) < Distance(j)
NoPoint == 0
HoveredByKey(points, hovered, key) ==
    LET current == IF hovered = NoPoint THEN 1 ELSE hovered
    IN CASE key = "Home" -> 1
         [] key = "End" -> Len(points)
         [] key = "ArrowRight" -> Clamp(current + 1, 1, Len(points))
         [] key = "ArrowLeft" -> Clamp(current - 1, 1, Len(points))
         [] OTHER -> hovered

Rounded(n, d) == (2 * n + d) \div (2 * d)
\* A duration in tenths of a second.
InsightsDuration(tenths) ==
    LET minutes == tenths \div 600
        seconds == Rounded(tenths % 600, 10)
    IN IF tenths < 600 THEN [h |-> 0, m |-> 0, s |-> Rounded(tenths, 10)]
       ELSE IF minutes < 60 THEN [h |-> 0, m |-> minutes, s |-> seconds]
       ELSE [h |-> minutes \div 60, m |-> minutes % 60, s |-> 0]

\* At most one comparison, and none with an empty period.
Comparison(current, previous, range) ==
    IF previous <= 0 \/ range = "all" THEN <<>>
    ELSE LET percent == Rounded((current - previous) * 100, previous)
         IN <<[direction |-> IF current > previous THEN "up"
                             ELSE IF current < previous THEN "down" ELSE "same",
               percent |-> Larger(percent, -percent)]>>

\* Typing at 40 words a minute against the time spoken.
TypingDifference(words, seconds) ==
    LET tenths == 15 * words - 10 * seconds
    IN [kind |-> IF tenths > 0 THEN "saved" ELSE IF tenths < 0 THEN "more spoken" ELSE "same",
        duration |-> InsightsDuration(Larger(tenths, -tenths))]

HeatLevel(words) == Cardinality({bound \in {1, 150, 300, 500} : words >= bound})
\* The share of the most frequent word, in percent, rounded down.
CommonWordWidth(count, counts) ==
    Clamp((count * 100) \div Max({1} \cup counts), 1, 100)
===============================================================================
