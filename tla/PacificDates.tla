----------------------------- MODULE PacificDates -----------------------------
(***************************************************************************)
(* The dates that every report and every query tool asks for               *)
(* (src/core/date-time.ts): the date in Los Angeles at an instant, the     *)
(* range of dates a period names, and the instants between which a date    *)
(* lies. Instants are whole hours UTC since the beginning of 2024, a date  *)
(* is the number of its day, 0 for January 1, 2024, a Monday.              *)
(***************************************************************************)
EXTENDS Integers, FiniteSets

CONSTANTS
    Instants,    \* when somebody asks
    Years        \* the years the calendar knows

VARIABLES
    now,
    answers      \* the range of dates each period was last asked for gave

dateVars == <<now, answers>>

-----------------------------------------------------------------------------
(* The calendar, and the clock of Los Angeles, which the runtime knows.     *)

Leap(y) == y % 4 = 0 /\ (y % 100 = 0 => y % 400 = 0)

MonthLength(y, m) ==
    CASE m = 2              -> IF Leap(y) THEN 29 ELSE 28
      [] m \in {4, 6, 9, 11} -> 30
      [] OTHER              -> 31

\* The leap years since 2021, the first year after one.
YearStart(y) == 365 * (y - 2024) + (y - 2021) \div 4

\* Date.UTC and the literal of a date: months and days out of range carry over.
DateOf(y, m, d) ==
    LET year  == y + (m - 1) \div 12
        month == ((m - 1) % 12) + 1
        before[k \in 0 .. 12] == IF k = 0 THEN 0 ELSE before[k - 1] + MonthLength(year, k)
    IN  YearStart(year) + before[month - 1] + d - 1

YearOf(n)  == CHOOSE y \in Years : YearStart(y) <= n /\ n < YearStart(y + 1)
MonthOf(n) == CHOOSE m \in 1 .. 12 : DateOf(YearOf(n), m, 1) <= n /\ n < DateOf(YearOf(n), m + 1, 1)
DayOf(n)   == n - DateOf(YearOf(n), MonthOf(n), 1) + 1

\* Days since Monday.
Weekday(n) == n % 7

FirstSunday(y, m) == CHOOSE n \in DateOf(y, m, 1) .. DateOf(y, m, 7) : Weekday(n) = 6

\* The clock goes forward on the second Sunday of March and back on the first
\* of November, both at two in the morning.
SpringDay(y) == FirstSunday(y, 3) + 7
AutumnDay(y) == FirstSunday(y, 11)

Summer(t) == \E y \in Years : SpringDay(y) * 24 + 10 <= t /\ t < AutumnDay(y) * 24 + 9

PstOffset(t) == IF Summer(t) THEN -7 ELSE -8

TodayPst(t)   == (t + PstOffset(t)) \div 24
WeekdayPst(t) == Weekday(TodayPst(t))

\* YearStart and the rule for the clock hold in this century; the calendar
\* knows the year of every instant and the year before.
ASSUME DatesAssumption ==
    /\ Instants \subseteq Int /\ Years \subseteq 2021 .. 2099
    /\ \A t \in Instants : \E y \in Years :
         y - 1 \in Years /\ YearStart(y) <= TodayPst(t) /\ TodayPst(t) < YearStart(y + 1)

-----------------------------------------------------------------------------
(* Dates to instants. *)

\* Seeded fault: the offset is read at midnight UTC.
ProbeAtMidnight(date) == date * 24

\* The instant whose offset is taken for the whole day.
Probe(date) == date * 24 + 12

\* The first and the last hour of a date.
ToPstIso(date)    == date * 24 - PstOffset(Probe(date))
ToPstIsoEnd(date) == date * 24 + 23 - PstOffset(Probe(date))

-----------------------------------------------------------------------------
(* The ranges of dates. *)

AddDays(t, n) == t + 24 * n

\* Noon UTC of the date in Los Angeles.
PtAnchor(t) == TodayPst(t) * 24 + 12

StartOfWeekPt(anchor) == AddDays(anchor, -WeekdayPst(anchor))

DateRange(start, end) == [startDate |-> start, endDate |-> end]

LastMonth(y, m) ==
    LET prevYear  == IF m = 1 THEN y - 1 ELSE y
        prevMonth == IF m = 1 THEN 12 ELSE m - 1
        lastDay   == DayOf(DateOf(prevYear, prevMonth + 1, 0))
    IN  DateRange(DateOf(prevYear, prevMonth, 1), DateOf(prevYear, prevMonth, lastDay))

GetPstDateRange(period, ref) ==
    LET today  == TodayPst(ref)
        anchor == PtAnchor(ref)
        monday == StartOfWeekPt(anchor)
        ago(n) == TodayPst(AddDays(anchor, -n))
    IN  CASE period = "today"      -> DateRange(today, today)
          [] period = "yesterday"  -> DateRange(ago(1), ago(1))
          [] period = "wtd"        -> DateRange(TodayPst(monday), today)
          [] period = "mtd"        -> DateRange(DateOf(YearOf(today), MonthOf(today), 1), today)
          [] period = "ytd"        -> DateRange(DateOf(YearOf(today), 1, 1), today)
          [] period = "last_week"  -> DateRange(TodayPst(AddDays(monday, -7)), TodayPst(AddDays(monday, -1)))
          [] period = "last_month" -> LastMonth(YearOf(today), MonthOf(today))
          [] period = "last_7d"    -> DateRange(ago(6), today)
          [] period = "last_30d"   -> DateRange(ago(29), today)
          [] period = "last_90d"   -> DateRange(ago(89), today)

-----------------------------------------------------------------------------
DatesInit ==
    /\ now \in Instants /\ now - 1 \notin Instants
    /\ answers = [p \in {} |-> DateRange(0, 0)]

Periods == {"today", "yesterday", "wtd", "mtd", "ytd", "last_week", "last_month",
            "last_7d", "last_30d", "last_90d"}

\* An hour passes, and then the periods are asked for.
AskRanges ==
    /\ now + 1 \in Instants /\ now' = now + 1
    /\ answers' = [p \in Periods |-> GetPstDateRange(p, now')]

DatesNext == AskRanges

DatesSpec == DatesInit /\ [][DatesNext]_dateVars

-----------------------------------------------------------------------------
(* What the periods mean, without the code's arithmetic: the dates of each *)
(* around today.                                                           *)

SameMonth(n, k) == YearOf(n) = YearOf(k) /\ MonthOf(n) = MonthOf(k)

InPeriod(n, period, today) ==
    CASE period = "today"      -> n = today
      [] period = "yesterday"  -> n = today - 1
      [] period = "wtd"        -> n <= today /\ \A k \in n + 1 .. today : Weekday(k) # 0
      [] period = "mtd"        -> n <= today /\ SameMonth(n, today)
      [] period = "ytd"        -> n <= today /\ YearOf(n) = YearOf(today)
      [] period = "last_week"  -> n < today /\ Cardinality({k \in n + 1 .. today : Weekday(k) = 0}) = 1
      [] period = "last_month" -> n < today /\ SameMonth(n, today - DayOf(today))
      [] period = "last_7d"    -> n <= today /\ n > today - 7
      [] period = "last_30d"   -> n <= today /\ n > today - 30
      [] period = "last_90d"   -> n <= today /\ n > today - 90

\* A change of the clock happens during this date.
Changes(date) == \E y \in Years : date \in {SpringDay(y), AutumnDay(y)}

\* Whenever it is asked for, a period's range holds its dates and no other:
\* across the ends of weeks, months and years, in leap years, and while it is
\* already tomorrow in UTC. Its instants begin and end where these dates do in
\* Los Angeles, but for a range that begins on a day the clock changes, which
\* begins an hour off (date-time.ts:133-143 says such days are safe).
PeriodsHoldTheirDates ==
    \A p \in DOMAIN answers :
      LET r     == answers[p]
          today == TodayPst(now)
          from  == ToPstIso(r.startDate)
          to    == ToPstIsoEnd(r.endDate)
      IN  /\ \A n \in {r.startDate - 1, r.startDate, r.endDate, r.endDate + 1} :
               InPeriod(n, p, today) <=> n \in r.startDate .. r.endDate
          /\ TodayPst(to) = r.endDate /\ TodayPst(to + 1) = r.endDate + 1
          /\ ~Changes(r.startDate) => TodayPst(from) = r.startDate /\ TodayPst(from - 1) = r.startDate - 1
=============================================================================
