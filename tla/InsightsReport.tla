---------------------------- MODULE InsightsReport ----------------------------
(***************************************************************************)
(* What the insights of the history service report, computed from its      *)
(* entries and its rollups (main/services/history.ts, shared/insights.ts), *)
(* and the calendars the Insights and Home pages draw from the report.     *)
(*                                                                         *)
(* A day is an integer, day 0 a Monday; a timestamp counts the hours since *)
(* day 0 (the code's days are local calendar days; changes of time zone    *)
(* are left out).  An entry is a record [id, ts, text, words, audio, time] *)
(* whose text is a sequence of words, numbers in alphabetical order.  Sums *)
(* do not saturate and ratios are compared by cross multiplication.        *)
(***************************************************************************)
EXTENDS Integers, Sequences, FiniteSets, SequencesExt, FiniteSetsExt

Ranges == {"today", "7d", "30d", "90d", "1y", "all"}
RangeDays(range) ==
    CASE range = "today" -> 1 [] range = "7d" -> 7 [] range = "30d" -> 30
      [] range = "90d" -> 90 [] range = "1y" -> 365

DayOf(ts) == ts \div 24
HourOf(ts) == ts % 24
Weekday(day) == day % 7

RangeStart(range, today) == today + 1 - RangeDays(range)
InRange(day, range, today) == range = "all" \/ day >= RangeStart(range, today)
EntriesInRange(entries, range, today) ==
    {e \in entries : InRange(DayOf(e.ts), range, today)}

\* The elements of S in the strict total order Before.
InOrder(S, Before(_, _)) ==
    [i \in 1..Cardinality(S) |->
        CHOOSE x \in S : Cardinality({y \in S : Before(y, x)}) = i - 1]
Top(limit, seq) == SubSeq(seq, 1, IF limit < Len(seq) THEN limit ELSE Len(seq))

(* Rollups *)

EmptyRow(day) == [day |-> day, dictations |-> 0, words |-> 0, audio |-> 0, time |-> 0]
RowOf(entries, day) ==
    LET today == {e \in entries : DayOf(e.ts) = day}
        Sum(f(_)) == MapThenSumSet(f, today)
    IN [day |-> day, dictations |-> Cardinality(today),
        words |-> Sum(LAMBDA e : e.words), audio |-> Sum(LAMBDA e : e.audio),
        time |-> Sum(LAMBDA e : e.time)]
\* The rows the ledger holds when every entry is processed.
Rollups(entries) == {RowOf(entries, DayOf(e.ts)) : e \in entries}

DailyRows(rows, range, today) ==
    InOrder({r \in rows : InRange(r.day, range, today)}, LAMBDA r, s : r.day < s.day)
RowOfDay(rows, day) ==
    IF \E r \in rows : r.day = day THEN CHOOSE r \in rows : r.day = day ELSE EmptyRow(day)

RangeDayKeys(range, today) ==
    [i \in 1..RangeDays(range) |-> RangeStart(range, today) + i - 1]
Trends(rows, range, today) ==
    IF range = "all" THEN DailyRows(rows, range, today)
    ELSE LET days == RangeDayKeys(range, today)
             inRange == ToSet(DailyRows(rows, range, today))
         IN [i \in DOMAIN days |-> RowOfDay(inRange, days[i])]

\* The same points straight from the entries (buildTrendPoints).
TrendPoints(entries, range, today) ==
    LET chosen == EntriesInRange(entries, range, today)
        buckets == {DayOf(e.ts) : e \in chosen}
                   \cup IF range = "all" THEN {} ELSE ToSet(RangeDayKeys(range, today))
        days == InOrder(buckets, <)
    IN [i \in DOMAIN days |-> RowOf(chosen, days[i])]

LongestStreak(days) ==
    LET Step(s, d) ==
            LET current == IF s.previous + 1 = d /\ s.current > 0 THEN s.current + 1 ELSE 1
            IN [longest |-> IF current > s.longest THEN current ELSE s.longest,
                current |-> current, previous |-> d]
    IN FoldLeft(Step, [longest |-> 0, current |-> 0, previous |-> 0], days).longest
CurrentStreak(days, today) ==
    LET back[d \in Int] == IF d \in days THEN 1 + back[d - 1] ELSE 0
    IN IF today \in days THEN back[today] ELSE back[today - 1]

Busier(r, s) ==
    \/ r.words > s.words
    \/ r.words = s.words /\ r.dictations > s.dictations
    \/ r.words = s.words /\ r.dictations = s.dictations /\ r.day < s.day
Summary(rows, range, today) ==
    LET daily == DailyRows(rows, range, today)
        inRange == ToSet(daily)
        Sum(f(_)) == MapThenSumSet(f, inRange)
        active == SelectSeq(daily, LAMBDA r : r.dictations > 0)
    IN [dictations |-> Sum(LAMBDA r : r.dictations), words |-> Sum(LAMBDA r : r.words),
        audio |-> Sum(LAMBDA r : r.audio), time |-> Sum(LAMBDA r : r.time),
        longestStreak |-> LongestStreak([i \in DOMAIN active |-> active[i].day]),
        busiest |-> Top(1, SelectSeq(Top(1, InOrder(inRange, Busier)),
                                     LAMBDA r : r.dictations > 0))]

PreviousPeriodWords(rows, range, today) ==
    LET start == RangeStart(range, today)
        previous == {r \in rows : r.day >= start - RangeDays(range) /\ r.day < start}
    IN MapThenSumSet(LAMBDA r : r.words, previous)

YearStart(today) == today - 52 * 7 - Weekday(today)
YearActivity(rows, today) ==
    [i \in 1..(today - YearStart(today) + 1) |-> RowOfDay(rows, YearStart(today) + i - 1)]

(* Entries *)

HourlyDictations(entries, range, today) ==
    [h \in 0..23 |-> Cardinality({e \in EntriesInRange(entries, range, today) :
                                     HourOf(e.ts) = h})]

Newer(a, b) == a.ts > b.ts \/ (a.ts = b.ts /\ a.id > b.id)
Faster(a, b) ==
    LET left == a.words * b.audio
        right == b.words * a.audio
    IN left > right \/ (left = right /\ Newer(a, b))
\* A sequence of at most one entry.
FastestEntry(entries, range, today) ==
    Top(1, InOrder({e \in EntriesInRange(entries, range, today) : e.words > 0 /\ e.audio > 0},
                   Faster))

\* SQLite may return what these leave equal in any order; here by id.
Longer(a, b) ==
    \/ a.audio > b.audio
    \/ a.audio = b.audio /\ a.words > b.words
    \/ a.audio = b.audio /\ a.words = b.words /\ a.id < b.id
LongestEntries(entries, range, today, limit) ==
    Top(limit, InOrder(EntriesInRange(entries, range, today), Longer))
Slower(a, b) ==
    LET left == a.audio * b.time
        right == b.audio * a.time
    IN \/ left < right
       \/ left = right /\ a.time > b.time
       \/ left = right /\ a.time = b.time /\ a.id < b.id
SlowestEntries(entries, range, today, limit) ==
    Top(limit, InOrder({e \in EntriesInRange(entries, range, today) :
                           e.audio > 0 /\ e.time > 0}, Slower))

(* Words and phrases: bags of what was said, the most frequent first *)

Tokens(text, stopWords) == SelectSeq(text, LAMBDA w : w \notin stopWords)
Occurrences(entries, stopWords, word) ==
    MapThenSumSet(LAMBDA e : Len(SelectSeq(Tokens(e.text, stopWords), LAMBDA w : w = word)),
                  entries)
\* A row per day and word: what the ledger keeps of the words.
WordRows(entries, stopWords) ==
    {[day |-> d, word |-> w,
      count |-> Occurrences({e \in entries : DayOf(e.ts) = d}, stopWords, w)] :
         d \in {DayOf(e.ts) : e \in entries},
         w \in UNION {ToSet(Tokens(e.text, stopWords)) : e \in entries}}
SortStats(stats, limit, TextBefore(_, _)) ==
    Top(limit, InOrder({s \in stats : s.count > 0},
                       LAMBDA a, b : a.count > b.count
                                     \/ (a.count = b.count /\ TextBefore(a.text, b.text))))
CommonWords(wordRows, range, today, limit) ==
    LET rows == {r \in wordRows : InRange(r.day, range, today)}
        Count(w) == MapThenSumSet(LAMBDA r : r.count, {r \in rows : r.word = w})
    IN SortStats({[text |-> r.word, count |-> Count(r.word)] : r \in rows}, limit, <)

Before2(p, q) == p[1] < q[1] \/ (p[1] = q[1] /\ p[2] < q[2])
\* The pairs of neighbours that are left when the stop words are gone, in
\* the newest `within` entries.
PhraseStats(entries, stopWords, range, today, within, limit) ==
    LET recent == ToSet(Top(within, InOrder(EntriesInRange(entries, range, today), Newer)))
        Pairs(e) == LET t == Tokens(e.text, stopWords)
                    IN {<<i, <<t[i], t[i + 1]>>>> : i \in 1..(Len(t) - 1)}
        phrases == UNION {{p[2] : p \in Pairs(e)} : e \in recent}
        Count(phrase) == MapThenSumSet(
            LAMBDA e : Cardinality({p \in Pairs(e) : p[2] = phrase}), recent)
    IN SortStats({[text |-> p, count |-> Count(p)] : p \in phrases}, limit, Before2)

(* The report *)

Indexing(processed, entries) ==
    LET done == Cardinality(processed)
        total == Cardinality(entries)
    IN [isIndexing |-> done < total, processed |-> IF done < total THEN done ELSE total,
        total |-> total]

\* What is read from the entries alone is held back while entries are
\* still to be indexed, since the totals would not agree with it.
InsightsResponse(entries, processed, stopWords, range, today) ==
    LET rows == Rollups(processed)
        indexing == Indexing(processed, entries)
        summary == Summary(rows, range, today)
        always == [indexing |-> indexing, summary |-> summary,
                   hasData |-> summary.dictations > 0,
                   trends |-> Trends(rows, range, today),
                   words |-> CommonWords(WordRows(processed, stopWords), range, today, 18),
                   phrases |-> PhraseStats(entries, stopWords, range, today, 5000, 12),
                   longest |-> LongestEntries(entries, range, today, 5),
                   slowest |-> SlowestEntries(entries, range, today, 5)]
        settled == [hourly |-> HourlyDictations(entries, range, today),
                    year |-> YearActivity(rows, today),
                    streak |-> CurrentStreak({r.day : r \in rows}, today),
                    previousWords |-> IF range = "all" THEN 0
                                      ELSE PreviousPeriodWords(rows, range, today),
                    fastest |-> FastestEntry(entries, range, today)]
    IN [always |-> always, settled |-> IF indexing.isIndexing THEN <<>> ELSE <<settled>>]

(* The calendars of the pages *)

\* The heat map of the Insights page: 53 weeks that begin on Mondays.
Heatmap(activity) ==
    LET end == activity[Len(activity)].day
        cells == [week \in 0..52, weekday \in 0..6 |->
                     LET day == YearStart(end) + 7 * week + weekday
                     IN [day |-> day, future |-> day > end,
                         words |-> RowOfDay(ToSet(activity), day).words]]
        counted == {c \in {cells[w, d] : w \in 0..52, d \in 0..6} : ~c.future /\ c.words > 0}
    IN [cells |-> cells, activeDays |-> Cardinality(counted),
        totalWords |-> MapThenSumSet(LAMBDA c : c.words, counted)]

\* The 35 days the Home page shows: this week and the four before it.
ActivityDays(activity, today) ==
    LET first == today - 28 - Weekday(today)
    IN [i \in 1..35 |-> [RowOfDay(ToSet(activity), first + i - 1) EXCEPT !.day = first + i - 1]]

HourBars(counts) ==
    LET peak == Max({counts[h] : h \in 0..23})
    IN [peakCount |-> peak, peakHour |-> Min({h \in 0..23 : counts[h] = peak})]
===============================================================================
