--------------------------- MODULE MCInsightsReport ---------------------------
(***************************************************************************)
(* The insights report against reference definitions, for every subset of  *)
(* a few entries, every weekday of today and ranges short enough to reach  *)
(* past them; TLC evaluates the assumptions of this module once.           *)
(***************************************************************************)
EXTENDS InsightsReport

Todays == 700..706
SomeRanges == {"today", "7d", "30d", "all"}
\* Ages in days and hours of the day, texts over the words 1..4, 4 a stop word.
Entry(id, today, age, hour, text, audio, time) ==
    [id |-> id, ts |-> 24 * (today - age) + hour, text |-> text, words |-> Len(text),
     audio |-> audio, time |-> time]
SomeEntries(today) ==
    {Entry(1, today, 0, 9, <<1, 4, 2>>, 6, 3), Entry(2, today, 0, 23, <<2, 1>>, 4, 2),
     Entry(3, today, 1, 9, <<1, 2, 1, 2>>, 8, 1), Entry(4, today, 6, 0, <<>>, 2, 0),
     Entry(5, today, 7, 5, <<3>>, 0, 2), Entry(6, today, 13, 5, <<4, 3, 1>>, 5, 5)}
ForEachReport(P(_, _, _)) ==
    \A today \in {700, 706}, range \in SomeRanges :
        \A entries \in SUBSET SomeEntries(today) : P(entries, range, today)

TotalOf(rows, f(_)) == MapThenSumSet(f, ToSet(rows))

\* The points computed from the rollups are those computed from the entries,
\* and they add up to the summary above them.
TrendsAreThoseOfTheEntries ==
    LET Agree(entries, range, today) ==
            LET trends == Trends(Rollups(entries), range, today)
                summary == Summary(Rollups(entries), range, today)
            IN /\ trends = TrendPoints(entries, range, today)
               /\ TotalOf(trends, LAMBDA r : r.words) = summary.words
               /\ TotalOf(trends, LAMBDA r : r.dictations) = summary.dictations
    IN ForEachReport(Agree)
ASSUME TrendsAreThoseOfTheEntries

\* A streak is the longest run of active days; the current one ends today or
\* yesterday.  The code counts both in a single pass.
StreaksAreRuns ==
    \A days \in SUBSET (1..8) :
        LET Runs(last) == {n \in 0..8 : (last - n + 1)..last \subseteq days}
            longest == Max({Max(Runs(d)) : d \in 1..8})
        IN /\ LongestStreak(InOrder(days, <)) = longest
           /\ \A today \in 1..8 :
                 CurrentStreak(days, today) =
                     IF today \in days THEN Max(Runs(today)) ELSE Max(Runs(today - 1))
ASSUME StreaksAreRuns

\* The words a range is compared with are those the same range told when it
\* was last over.
PreviousPeriodIsTheRangeBefore ==
    \A today \in Todays, range \in {"today", "7d"} :
        \A entries \in SUBSET SomeEntries(today) :
            LET rows == Rollups(entries)
                before == today - RangeDays(range)
            IN PreviousPeriodWords(rows, range, today) =
               Summary({r \in rows : r.day <= before}, range, before).words
ASSUME PreviousPeriodIsTheRangeBefore

\* The hours count the dictations of the summary, the fastest entry is as
\* fast as any, and the year on the heat map and on the Home page is the
\* year of the ledger.
ViewsShowTheSummary ==
    LET Agree(entries, range, today) ==
            LET summary == Summary(Rollups(entries), range, today)
                hourly == HourlyDictations(entries, range, today)
                fastest == FastestEntry(entries, range, today)
            IN /\ MapThenSumSet(LAMBDA h : hourly[h], 0..23) = summary.dictations
               /\ HourBars(hourly).peakCount * 24 >= summary.dictations
               /\ \A e \in EntriesInRange(entries, range, today) :
                     e.words > 0 /\ e.audio > 0 =>
                         /\ Len(fastest) = 1
                         /\ fastest[1].words * e.audio >= e.words * fastest[1].audio
    IN ForEachReport(Agree)
ASSUME ViewsShowTheSummary

CalendarsShowTheYear ==
    \A today \in Todays : \A entries \in {SomeEntries(today), {}} :
        LET year == YearActivity(Rollups(entries), today)
            heat == Heatmap(year)
            home == ActivityDays(year, today)
        IN /\ year[Len(year)].day = today /\ Weekday(year[1].day) = 0
           /\ {r.day : r \in ToSet(year)} =
                  {c.day : c \in {heat.cells[w, d] : w \in 0..52, d \in 0..6}} \cap YearStart(today)..today
           /\ heat.totalWords = TotalOf(year, LAMBDA r : r.words)
           /\ \E i \in 29..35 : home[i].day = today
           /\ TotalOf(home, LAMBDA r : r.words) = heat.totalWords
ASSUME CalendarsShowTheYear

\* The counts of the words are those of the texts, and no word left out is
\* more frequent than one listed.
WordsAreCounted ==
    LET AreCounted(entries, range, today) ==
            LET said == EntriesInRange(entries, range, today)
                listed == CommonWords(WordRows(entries, {4}), range, today, 2)
            IN /\ \A i \in DOMAIN listed :
                     listed[i].count = Occurrences(said, {4}, listed[i].text)
               /\ \A w \in 1..3 \ {listed[i].text : i \in DOMAIN listed} :
                     /\ Occurrences(said, {4}, w) > 0 => Len(listed) = 2
                     /\ \A i \in DOMAIN listed : listed[i].count >= Occurrences(said, {4}, w)
    IN ForEachReport(AreCounted)
ASSUME WordsAreCounted

\* Only a report with nothing left to index tells what needs them all, and
\* its numbers are then those of the stored entries.
IndexingHoldsBack ==
    \A entries \in SUBSET SomeEntries(700) : \A processed \in SUBSET entries :
        LET report == InsightsResponse(entries, processed, {4}, "7d", 700)
        IN /\ report.settled = <<>> <=> processed # entries
           /\ report.settled # <<>> =>
                 /\ report.always.trends = TrendPoints(entries, "7d", 700)
                 /\ report.settled[1].streak <=
                        Summary(Rollups(entries), "all", 700).longestStreak
ASSUME IndexingHoldsBack
===============================================================================
