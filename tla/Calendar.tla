------------------------------- MODULE Calendar -------------------------------
(***************************************************************************)
(* Calendar arithmetic on local dates (src/utils/date-key.ts), and the     *)
(* windows reports resolve with it: the last periods, the activity grid,   *)
(* and the windows a comparison sets against each other.  A date key is a  *)
(* record; keys are ordered as their text is.                              *)
(***************************************************************************)
EXTENDS Integers, Sequences, FiniteSets, SequencesExt

Date(y, m, d) == [year |-> y, month |-> m, day |-> d]

----------------------------------------------------------------------------
(* Days since 1970-01-01 and back (external: JavaScript's Date.UTC).       *)

LeapYear(y) == y % 4 = 0 /\ (y % 100 # 0 \/ y % 400 = 0)
\* getDaysInMonth
DaysInMonth(y, m) == CASE m = 2 -> IF LeapYear(y) THEN 29 ELSE 28
                       [] m \in {4, 6, 9, 11} -> 30
                       [] OTHER -> 31
LeapDaysBefore(y) == (y - 1) \div 4 - (y - 1) \div 100 + (y - 1) \div 400
YearStart(y) == 365 * (y - 1970) + LeapDaysBefore(y) - LeapDaysBefore(1970)
DaysBeforeMonth(y, m) == <<0, 31, 59, 90, 120, 151, 181, 212, 243, 273, 304, 334>>[m]
                         + (IF m > 2 /\ LeapYear(y) THEN 1 ELSE 0)
DayNumber(date) == YearStart(date.year) + DaysBeforeMonth(date.year, date.month) + date.day - 1
FromDayNumber(n) ==
    LET near == 1970 + n \div 366
        y == CHOOSE u \in near - 1 .. near + 2 : YearStart(u) <= n /\ n < YearStart(u + 1)
        m == CHOOSE i \in 1 .. 12 : LET first == YearStart(y) + DaysBeforeMonth(y, i)
                                    IN first <= n /\ n < first + DaysInMonth(y, i)
    IN Date(y, m, n - YearStart(y) - DaysBeforeMonth(y, m) + 1)

Earlier(a, b) ==
    \/ a.year < b.year
    \/ a.year = b.year /\ a.month < b.month
    \/ a.year = b.year /\ a.month = b.month /\ a.day < b.day
NotAfter(a, b) == ~Earlier(b, a)

----------------------------------------------------------------------------
(* Keys of days, weeks and months.                                         *)

\* getIsoDayOfWeek: 1970-01-01 was a Thursday.
IsoDayOfWeek(date) == ((DayNumber(date) + 3) % 7) + 1
\* getIsoWeekKey: the year of the week's Thursday, and the week's number in it.
IsoWeekKey(date) ==
    LET thursday == DayNumber(date) + 4 - IsoDayOfWeek(date)
        y == FromDayNumber(thursday).year
    IN <<y, ((thursday - YearStart(y)) \div 7) + 1>>
\* getIsoWeekMonday
WeekMonday(key) ==
    LET jan4 == Date(key[1], 1, 4)
    IN FromDayNumber(DayNumber(jan4) - (IsoDayOfWeek(jan4) - 1) + (key[2] - 1) * 7)
\* getMonthKey, shiftMonthKey
MonthKey(date) == <<date.year, date.month>>
MonthAfter(key) == LET index == key[1] * 12 + key[2] - 1 + 1 IN <<index \div 12, (index % 12) + 1>>
\* getDateKeyPeriod
PeriodKey(date, granularity) ==
    CASE granularity = "day" -> MonthKey(date) \o <<date.day>>
      [] granularity = "week" -> IsoWeekKey(date)
      [] granularity = "month" -> MonthKey(date)

\* shiftDateKey, countDateKeyDays
Shift(date, days) == FromDayNumber(DayNumber(date) + days)
CountDays(since, until) == DayNumber(until) - DayNumber(since) + 1

KeyNotAfter(a, b) == a[1] < b[1] \/ (a[1] = b[1] /\ a[2] <= b[2])
\* getPeriodKeyRange: steps of a month, or from Monday to Monday, until past the last key.
MonthRange(first, last) ==
    LET range[k \in (first[1] .. last[1] + 1) \X (1 .. 12)] ==
            IF KeyNotAfter(k, last) THEN <<k>> \o range[MonthAfter(k)] ELSE <<>>
    IN range[first]
WeekRange(first, last) ==
    LET range[n \in Int] == LET key == IsoWeekKey(FromDayNumber(n)) IN
                            IF KeyNotAfter(key, last) THEN <<key>> \o range[n + 7] ELSE <<>>
    IN IF KeyNotAfter(first, last) THEN <<first>> \o range[DayNumber(WeekMonday(first)) + 7] ELSE <<>>
DateRange(from, to) == [i \in 1 .. DayNumber(to) - DayNumber(from) + 1 |-> Shift(from, i - 1)]

----------------------------------------------------------------------------
(* Windows of whole days, both ends included.                              *)

Window(since, until) == [since |-> since, until |-> until]
MonthStart(date) == Date(date.year, date.month, 1)
MonthEnd(date) == Date(date.year, date.month, DaysInMonth(date.year, date.month))

\* resolvePeriodsSince: the first day of the last periods, today's among them.
PeriodsSince(granularity, today, periods) ==
    CASE granularity = "day" -> Shift(today, -(periods - 1))
      [] granularity = "week" -> Shift(Shift(today, -(IsoDayOfWeek(today) - 1)), -7 * (periods - 1))
      [] granularity = "month" ->
           LET index == today.year * 12 + today.month - 1 - (periods - 1)
           IN Date(index \div 12, (index % 12) + 1, 1)

ActivityWeeks == 53
\* resolveActivityStart
ActivityStart(today) == Shift(today, -(IsoDayOfWeek(today) - 1 + (ActivityWeeks - 1) * 7))

\* createPreviousMonthToDateWindow: the same days of the month before, or all it has.
PreviousMonthToDate(current) ==
    LET end == Shift(MonthStart(current.since), -1)
        same == [end EXCEPT !.day = current.until.day]
    IN Window(MonthStart(end), IF Earlier(same, end) THEN same ELSE end)

\* createPreviousSameLengthWindow
PreviousSameLength(current) ==
    Window(Shift(current.since, -CountDays(current.since, current.until)), Shift(current.since, -1))

\* The default windows of resolveCompareWindows and of resolvePreviousWindow in the summary.
MonthToDate(today) == Window(MonthStart(today), today)
Baseline(current, given) == IF given THEN PreviousSameLength(current) ELSE PreviousMonthToDate(current)

----------------------------------------------------------------------------
(* What these must come to.                                                *)

Granularities == {"day", "week", "month"}

\* A day lies in the week that starts on its Monday, and a week's key leads back to it.
WeeksAreWhole(date) ==
    LET monday == Shift(date, -(IsoDayOfWeek(date) - 1)) IN
    /\ IsoDayOfWeek(monday) = 1
    /\ WeekMonday(IsoWeekKey(date)) = monday
    /\ \A i \in 0 .. 6 : IsoWeekKey(Shift(monday, i)) = IsoWeekKey(date)
    /\ FromDayNumber(DayNumber(date)) = date

\* The range of two days' keys lists the keys of every day between them, once and in order.
RangesAreWhole(from, to) ==
    LET days == DateRange(from, to)
        Of(g) == FoldLeft(LAMBDA keys, d : IF keys # <<>> /\ Last(keys) = PeriodKey(d, g) THEN keys
                                           ELSE Append(keys, PeriodKey(d, g)), <<>>, days)
    IN /\ WeekRange(IsoWeekKey(from), IsoWeekKey(to)) = Of("week")
       /\ MonthRange(MonthKey(from), MonthKey(to)) = Of("month")

\* The last periods are that many, and all of them whole but today's.
PeriodsAreAsked(today, periods) ==
    \A g \in Granularities :
        LET since == PeriodsSince(g, today, periods) IN
        /\ Cardinality({PeriodKey(d, g) : d \in ToSet(DateRange(since, today))}) = periods
        /\ PeriodKey(Shift(since, -1), g) # PeriodKey(since, g)

\* A baseline ends before its window starts, is as long or the whole of a shorter month, and is
\* never longer; and the activity grid holds what the summary compares.
BaselinesApart(today, days) ==
    LET months == MonthToDate(today)
        week == Window(Shift(today, -(days - 1)), today)
        Long(w) == CountDays(w.since, w.until)
    IN /\ \A w \in {months, week} : \A given \in BOOLEAN :
            LET base == Baseline(w, given) IN
            w = months \/ given =>
                /\ Earlier(base.until, w.since) /\ NotAfter(base.since, base.until)
                /\ \/ Long(base) = Long(w)
                   \/ ~given /\ Long(base) < Long(w) /\ base = Window(MonthStart(base.since), MonthEnd(base.since))
                /\ NotAfter(ActivityStart(today), base.since)
       /\ IsoDayOfWeek(ActivityStart(today)) = 1

(***************************************************************************)
(* Days fall into weeks and months as the calendar has them, across year   *)
(* ends and leap days, and the windows reports resolve are made of them.   *)
(***************************************************************************)
CalendarHolds(date, ahead) ==
    /\ WeeksAreWhole(date)
    /\ RangesAreWhole(date, Shift(date, ahead))
    /\ PeriodsAreAsked(date, (ahead % 5) + 1)
    /\ BaselinesApart(date, (ahead % 9) + 1)
=============================================================================
