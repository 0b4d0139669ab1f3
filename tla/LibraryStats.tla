---------------------------- MODULE LibraryStats ----------------------------
(***************************************************************************)
(* The statistics of reviews and of reading (pergamon-storage/src/db.rs):  *)
(* calendar arithmetic, streaks, and counts by day, week and month.  They  *)
(* are functions of a history: the days of the review logs with their      *)
(* outcome, and the days on which items were saved and read.  A moment is  *)
(* a day; that a cutoff falls in the middle of a day is left out, and the  *)
(* fields the reports copy (totals by status or state) are too.            *)
(***************************************************************************)
EXTENDS Integers, Sequences, SequencesExt, FiniteSets, FiniteSetsExt, Functions

-----------------------------------------------------------------------------
(* Dates. *)

\* julian_day and from_julian_day; / rounds towards zero, which for these is \div.
julian_day(d) ==
    LET a == (14 - d.m) \div 12
        y == d.y + 4800 - a
        m == d.m + 12 * a - 3
    IN  d.d + (153 * m + 2) \div 5 + 365 * y + y \div 4 - y \div 100 + y \div 400 - 32045

from_julian_day(jd) ==
    LET a == jd + 32044
        b == (4 * a + 3) \div 146097
        c == a - (146097 * b) \div 4
        d == (4 * c + 3) \div 1461
        e == c - (1461 * d) \div 4
        m == (5 * e + 2) \div 153
    IN  [y |-> 100 * b + d - 4800 + m \div 10,
         m |-> m + 3 - 12 * (m \div 10),
         d |-> e - (153 * m + 2) \div 5 + 1]

\* The calendar itself, for reference: what day follows a day.
Leap(y) == (y % 4 = 0 /\ y % 100 # 0) \/ y % 400 = 0
DaysIn(y, m) ==
    CASE m \in {4, 6, 9, 11} -> 30
      [] m = 2 -> IF Leap(y) THEN 29 ELSE 28
      [] OTHER -> 31
DayAfter(t) ==
    IF t.d < DaysIn(t.y, t.m) THEN [t EXCEPT !.d = @ + 1]
    ELSE IF t.m < 12 THEN [y |-> t.y, m |-> t.m + 1, d |-> 1]
    ELSE [y |-> t.y + 1, m |-> 1, d |-> 1]

Days(dates) == {julian_day(t) : t \in dates}
Back(today, n) == from_julian_day(julian_day(today) - n)

\* words_to_minutes: 238 words a minute, rounded up.
words_to_minutes(words) == IF words <= 0 THEN 0 ELSE (words + 237) \div 238

-----------------------------------------------------------------------------
(* Streaks. *)

\* The walk over the sorted days that both functions make.
Walk(sorted) ==
    FoldLeft(LAMBDA acc, k :
        LET run == IF sorted[k + 1] - sorted[k] = 1 THEN acc.run + 1 ELSE 1
        IN  [run |-> run, longest |-> Max({acc.longest, run})],
        [run |-> 1, longest |-> 1], [k \in 1 .. Len(sorted) - 1 |-> k])

compute_longest_streak(dates) ==
    IF dates = {} THEN 0 ELSE Walk(SetToSortSeq(Days(dates), <)).longest

\* compute_streaks: from today, or from yesterday when today has none yet, back by dates.
compute_streaks(dates, today) ==
    LET latest == CHOOSE t \in dates : \A u \in dates : julian_day(t) >= julian_day(u)
        start == IF latest = today THEN 0 ELSE 1
        here(n) == Back(today, start + n) \in dates
        current == CHOOSE n \in 0 .. Cardinality(dates) :
                     ~here(n) /\ \A k \in 0 .. n - 1 : here(k)
        longest == compute_longest_streak(dates)
    IN  IF dates = {} THEN <<0, 0>>
        ELSE IF latest \notin {today, Back(today, 1)} THEN <<0, longest>>
        ELSE <<current, Max({longest, current})>>

\* Mutant: a streak ends when nothing was read today.
compute_reading_streaksToday(dates, today) ==
    LET sorted == SetToSortSeq(Days(dates), <)
    IN  IF dates = {} THEN <<0, 0>>
        ELSE IF julian_day(today) > Last(sorted) THEN <<0, Walk(sorted).longest>>
        ELSE <<Walk(sorted).run, Walk(sorted).longest>>

\* compute_reading_streaks: the last run, if it reaches yesterday.
compute_reading_streaks(dates, today) ==
    LET sorted == SetToSortSeq(Days(dates), <)
    IN  IF dates = {} THEN <<0, 0>>
        ELSE IF julian_day(today) - Last(sorted) > 1 THEN <<0, Walk(sorted).longest>>
        ELSE <<Walk(sorted).run, Walk(sorted).longest>>

-----------------------------------------------------------------------------
(* Counts.  A history is [reviews, saved, read]: sequences of dates, of reviews also whether *)
(* they succeeded, of items read also their words.                                            *)

Since(s, today, n) == SelectSeq(s, LAMBDA e : julian_day(e.date) >= julian_day(today) - n)
Count(s, Test(_)) == Len(SelectSeq(s, Test))

\* The history of reviews: rows only for the periods that have one.
HistoryBy(h, today, days, Period(_)) ==
    LET logs == Since(h.reviews, today, days)
    IN  [p \in {Period(logs[k].date) : k \in DOMAIN logs} |->
            [reviews |-> Count(logs, LAMBDA e : Period(e.date) = p),
             successes |-> Count(logs, LAMBDA e : Period(e.date) = p /\ e.good)]]

\* The day itself, STRFTIME('%Y-%m'), and '%Y-W%W': weeks begin on Monday, and the days of a
\* year before its first Monday are week 0.
DayOf(t) == t
MonthOf(t) == <<t.y, t.m>>
YearDay(t) == julian_day(t) - julian_day([y |-> t.y, m |-> 1, d |-> 1])
MondayBased(t) == julian_day(t) % 7
WeekOf(t) == <<t.y, (YearDay(t) + 7 - MondayBased(t)) \div 7>>

review_daily_history(h, today, days) == HistoryBy(h, today, days, DayOf)
review_weekly_history(h, today, days) == HistoryBy(h, today, days, WeekOf)
review_monthly_history(h, today, days) == HistoryBy(h, today, days, MonthOf)

WordsRead(s) == FoldLeft(LAMBDA n, e : n + e.words, 0, s)
Row(saved, read) ==
    [items_saved |-> Len(saved), items_read |-> Len(read), reading_minutes |-> words_to_minutes(WordsRead(read))]

\* usage_daily: a row for each of the last days, today included.
usage_daily(h, today, days) ==
    [k \in 1 .. days |->
        LET t == Back(today, days - k)
        IN  Row(SelectSeq(h.saved, LAMBDA e : e.date = t), SelectSeq(h.read, LAMBDA e : e.date = t))]

\* usage_weekly and usage_monthly: a row for every period that the days from the first on
\* touch; of months 31 days each are walked, from a start 30 days each ago.
UsageBy(h, today, days, walked, Period(_)) ==
    [p \in {Period(from_julian_day(julian_day(today) - days + n)) : n \in 0 .. walked} |->
        Row(SelectSeq(Since(h.saved, today, days), LAMBDA e : Period(e.date) = p),
            SelectSeq(Since(h.read, today, days), LAMBDA e : Period(e.date) = p))]
usage_weekly(h, today, weeks) == UsageBy(h, today, 7 * weeks, 7 * weeks, WeekOf)
usage_monthly(h, today, months) == UsageBy(h, today, 30 * months, 31 * months, MonthOf)

-----------------------------------------------------------------------------
(* What the reports must agree on. *)

\* A reference: the lengths of the runs of days that lie in dates.
Runs(dates) ==
    {n \in 0 .. Cardinality(dates) :
        \E s \in Days(dates) \cup {0} : \A k \in 0 .. n - 1 : s + k \in Days(dates)}
Ending(dates, t) ==
    Max({n \in 0 .. Cardinality(dates) : \A k \in 0 .. n - 1 : julian_day(t) - k \in Days(dates)})

CalendarRight(t) ==
    /\ from_julian_day(julian_day(t)) = t
    /\ julian_day(DayAfter(t)) = julian_day(t) + 1

\* A run that ends today or yesterday is the present one.
StreaksRight(dates, today) ==
    LET current == Max({Ending(dates, today), Ending(dates, Back(today, 1))})
    IN  /\ compute_streaks(dates, today) = <<current, Max(Runs(dates))>>
        /\ compute_reading_streaks(dates, today) = <<current, Max(Runs(dates))>>

SumOf(f, field) == FoldFunction(LAMBDA r, n : r[field] + n, 0, f)

\* No save, no read and no review within the window is lost between two periods.
TotalsRight(h, today, days, weeks, months) ==
    /\ SumOf(usage_daily(h, today, days), "items_saved") = Len(Since(h.saved, today, days - 1))
    /\ SumOf(usage_weekly(h, today, weeks), "items_read") = Len(Since(h.read, today, 7 * weeks))
    /\ SumOf(usage_monthly(h, today, months), "items_saved") = Len(Since(h.saved, today, 30 * months))
    /\ \A Rows \in {review_daily_history(h, today, days), review_weekly_history(h, today, days),
                    review_monthly_history(h, today, days)} :
          SumOf(Rows, "reviews") = Len(Since(h.reviews, today, days))
=============================================================================
