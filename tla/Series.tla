------------------------------- MODULE Series -------------------------------
(***************************************************************************)
(* The points of the charts (web/series.py).  A day is its number in the   *)
(* proleptic Gregorian calendar, as date.toordinal gives it; a month is    *)
(* its number counted from January of year 0.  Labels are left out.        *)
(***************************************************************************)
EXTENDS Integers, Sequences, FiniteSetsExt

BUCKETS == 12
GRAINS == {"Daily", "Weekly", "Monthly"}

Leap(y) == y % 4 = 0 /\ (y % 100 # 0 \/ y % 400 = 0)

DaysBefore == <<0, 31, 59, 90, 120, 151, 181, 212, 243, 273, 304, 334>>

\* The first day of a month: date(y, m, 1).
MonthStart(month) ==
    LET y == month \div 12
        m == (month % 12) + 1
        past == y - 1
    IN  365 * past + past \div 4 - past \div 100 + past \div 400
        + DaysBefore[m] + (IF m > 2 /\ Leap(y) THEN 1 ELSE 0) + 1

\* Reference: the days of a month, by the rule of the calendar.
DaysOf(month) == LET m == (month % 12) + 1
                     y == month \div 12
                 IN  IF m \in {4, 6, 9, 11} THEN 30 ELSE IF m # 2 THEN 31
                     ELSE IF y % 400 = 0 \/ (y % 4 = 0 /\ y % 100 # 0) THEN 29 ELSE 28

\* A date is its month and its day of the month.
Ordinal(date) == MonthStart(date.month) + date.day - 1
Weekday(ordinal) == (ordinal + 6) % 7      \* Monday is 0

\* Mutant: a month ends on its thirtieth day.
MonthBoundsOfThirty(date, count) ==
    [i \in 1..count |-> LET first == MonthStart(date.month - count + i)
                        IN  [start |-> first, end |-> first + 29]]
MonthBounds(date, count) ==
    [i \in 1..count |-> LET month == date.month - count + i
                        IN  [start |-> MonthStart(month), end |-> MonthStart(month + 1) - 1]]

WeekBounds(today, count) ==
    [i \in 1..count |-> LET monday == today - Weekday(today) - 7 * (count - i)
                        IN  [start |-> monday, end |-> monday + 6]]

DayBounds(today, count) ==
    [i \in 1..count |-> [start |-> today - (count - i), end |-> today - (count - i)]]

\* The window of a chart; with offset 1, the one it is compared with.
Bounds(grain, date, offset) ==
    IF grain = "Monthly"
    THEN MonthBounds([date EXCEPT !.month = @ - BUCKETS * offset], BUCKETS)
    ELSE IF grain = "Weekly"
    THEN WeekBounds(Ordinal(date) - 7 * BUCKETS * offset, BUCKETS)
    ELSE DayBounds(Ordinal(date) - BUCKETS * offset, BUCKETS)

\* What fell into each bucket, by verdict.
Build(byDay, verdicts, grain, date, offset) ==
    LET bounds == Bounds(grain, date, offset)
        inside(b) == {day \in DOMAIN byDay : b.start <= day /\ day <= b.end}
    IN  [i \in 1..BUCKETS |->
            [start |-> bounds[i].start, end |-> bounds[i].end,
             totals |-> [v \in verdicts |-> MapThenSumSet(LAMBDA day : byDay[day][v],
                                                          inside(bounds[i]))]]]

Volume(bucket) == MapThenSumSet(LAMBDA v : bucket.totals[v], DOMAIN bucket.totals)

(***************************************************************************)
(* The deliverable share of each bucket as a fraction, its rounding left   *)
(* out: an empty bucket repeats the last one known.                        *)
(***************************************************************************)
DeliverableRate(buckets) ==
    [i \in DOMAIN buckets |->
        LET known == {j \in 1..i : Volume(buckets[j]) > 0}
            last == buckets[Max(known)]
        IN  IF known = {} THEN [part |-> 0, of |-> 1]
            ELSE [part |-> last.totals["deliverable"], of |-> Volume(last)]]

WeekdayVolume(byDay) ==
    [w \in 0..6 |->
        MapThenSumSet(LAMBDA day : MapThenSumSet(LAMBDA v : byDay[day][v],
                                                 DOMAIN byDay[day]),
                      {day \in DOMAIN byDay : Weekday(day) = w})]

\* delta over fractions: nothing to compare with, or which way it went.
Delta(current, previous) ==
    IF previous.part = 0 THEN "none"
    ELSE IF current.part * previous.of >= previous.part * current.of THEN "up" ELSE "down"
=============================================================================
