----------------------------- MODULE DailyActivity -----------------------------
(***************************************************************************)
(* Reports by the day: active time (packages/core/src/domain/              *)
(* active-time.ts, src/cli/build-trends-data.ts), streaks and the busiest  *)
(* day (src/aggregate/daily-activity.ts), and the days whose cost stands   *)
(* out (src/aggregate/spend-spikes.ts).  Times and days are numbers.       *)
(***************************************************************************)
EXTENDS Integers, Sequences, FiniteSets, SequencesExt

CONSTANTS IdleGapCap, SpikeBaselineDays, SpikeMinActiveDays, SpikeMinMultiple, SpikeMinCost
ASSUME DailyAssumption ==
    /\ {IdleGapCap, SpikeBaselineDays, SpikeMinActiveDays, SpikeMinMultiple} \subseteq Nat \ {0}
    /\ SpikeMinCost \in Nat

Lesser(a, b) == IF a < b THEN a ELSE b
Greater(a, b) == IF a > b THEN a ELSE b
SumOfAll(f) == FoldFunction(+, 0, f)

----------------------------------------------------------------------------
(* Active time: gaps between events that follow one another, capped.       *)

\* computeActiveMs
ActiveTime(times) ==
    LET sorted == SortSeq(times, <)
    IN SumOfAll([i \in 2 .. Len(sorted) |-> Lesser(sorted[i] - sorted[i - 1], IdleGapCap)])

Intervals(times) ==
    LET sorted == SortSeq(times, <)
    IN [i \in 1 .. Greater(Len(sorted), 1) - 1 |-> <<sorted[i], Lesser(sorted[i + 1], sorted[i] + IdleGapCap)>>]
CoverFrom(covered, interval) ==
    IF interval[2] > covered.until
    THEN [time |-> covered.time + interval[2] - Greater(interval[1], covered.until), until |-> interval[2]]
    ELSE covered

\* The sweep of computeUnionActiveMs over intervals in the order of their starts.
Sweep(intervals) == FoldLeft(CoverFrom, [time |-> 0, until |-> -1], intervals).time
\* computeUnionActiveMs
UnionActiveTime(lists) ==
    LET all == FlattenSeq([i \in DOMAIN lists |-> SelectSeq(Intervals(lists[i]), LAMBDA v : v[2] > v[1])])
    IN Sweep(SortSeq(all, LAMBDA v, w : v[1] < w[1]))

\* sumActiveMsByDay, the runs of a session: events that follow one another in one group.
Runs(session) ==
    LET sorted == SortSeq(session, LAMBDA e, f : e.at < f.at)
        Step(runs, e) == IF runs # <<>> /\ Last(runs)[1].group = e.group
                         THEN [runs EXCEPT ![Len(runs)] = Append(@, e)] ELSE Append(runs, <<e>>)
    IN FoldLeft(Step, <<>>, sorted)
TimesOf(events) == [i \in DOMAIN events |-> events[i].at]
GroupTime(sessions, group) ==
    LET runs == FlattenSeq([i \in DOMAIN sessions |->
                    SelectSeq(Runs(sessions[i]), LAMBDA r : r[1].group = group)])
    IN UnionActiveTime([i \in DOMAIN runs |-> TimesOf(runs[i])])
CombinedTime(sessions) == UnionActiveTime([i \in DOMAIN sessions |-> TimesOf(sessions[i])])

----------------------------------------------------------------------------
(* Streaks and the busiest day, of tokens by day.                          *)

\* calculateLongestStreak
LongestStreak(days) ==
    LET sorted == SetToSortSeq(days, <)
        Step(run, i) == LET length == IF i > 1 /\ sorted[i - 1] + 1 = sorted[i] THEN run.length + 1 ELSE 1
                        IN [length |-> length, longest |-> Greater(run.longest, length)]
    IN FoldLeft(Step, [length |-> 0, longest |-> 0], [i \in DOMAIN sorted |-> i]).longest
\* calculateCurrentStreak: an idle today does not break it.
CurrentStreak(days, today) ==
    LET streak[d \in Int] == IF d \in days THEN 1 + streak[d - 1] ELSE 0
    IN streak[IF today \in days THEN today ELSE today - 1]

----------------------------------------------------------------------------
(* Spend spikes.                                                           *)

\* median, twice it, so that it stays whole.
TwiceMedian(values) ==
    LET sorted == SortSeq(values, <)
        middle == Len(sorted) \div 2
    IN IF Len(sorted) % 2 = 1 THEN 2 * sorted[middle + 1] ELSE sorted[middle] + sorted[middle + 1]
SpikeBaselineStart(from) == from - SpikeBaselineDays
CostOn(costs, day) == IF day \in DOMAIN costs THEN costs[day] ELSE 0

\* findSpendSpikes, of the costs that were read.
Spikes(costs, from, to) ==
    {d \in from .. to :
        LET before == SelectSeq([i \in 1 .. SpikeBaselineDays |-> CostOn(costs, d - SpikeBaselineDays + i - 1)],
                                LAMBDA c : c > 0)
        IN /\ CostOn(costs, d) >= SpikeMinCost
           /\ Len(before) >= SpikeMinActiveDays
           /\ 2 * CostOn(costs, d) >= SpikeMinMultiple * TwiceMedian(before)}

\* buildTrendsData reads from before the chart, markSpendSpikes fills what lacks a day.
ChartSpikes(costs, from, to) ==
    Spikes([d \in DOMAIN costs \cap (SpikeBaselineStart(from) .. to) |-> costs[d]], from, to)

----------------------------------------------------------------------------
(* What these must come to.                                                *)

\* The moments of a list of times that count as active: those within the cap of the time before.
ActiveMoments(times) ==
    LET at == ToSet(times)
    IN {m \in Nat \cap (0 .. 20) : /\ \E t \in at : t <= m /\ m < t + IdleGapCap
                                   /\ \E t \in at : t > m}
\* Time that sessions share is counted once, and no group of a day is active for longer than it.
ActiveTimeOnce(sessions) ==
    LET groups == {e.group : e \in UNION {ToSet(sessions[i]) : i \in DOMAIN sessions}} IN
    /\ CombinedTime(sessions) =
         Cardinality(UNION {ActiveMoments(TimesOf(sessions[i])) : i \in DOMAIN sessions})
    /\ \A g \in groups : GroupTime(sessions, g) <= CombinedTime(sessions)
    /\ Len(sessions) = 1 => /\ CombinedTime(sessions) = ActiveTime(TimesOf(sessions[1]))
                            /\ SumOfAll([g \in groups |-> GroupTime(sessions, g)]) <= CombinedTime(sessions)

\* The streaks are the longest runs of days, of all and of those that end now.
StreaksAreRuns(days, today) ==
    LET Run(d, n) == (d - n + 1) .. d \subseteq days IN
    /\ \A n \in 1 .. LongestStreak(days) + 1 : (\E d \in days : Run(d, n)) <=> n <= LongestStreak(days)
    /\ LET end == IF today \in days THEN today ELSE today - 1
       IN \A n \in 1 .. CurrentStreak(days, today) + 1 : Run(end, n) <=> n <= CurrentStreak(days, today)

\* A day stands out or does not, whichever days a chart shows it among.
SpikesStay(costs, days) ==
    \A from, to \in days : \A d \in from .. to :
        d \in ChartSpikes(costs, from, to) <=> d \in ChartSpikes(costs, d, d)

(***************************************************************************)
(* A day's figures are the day's own: active time counts shared moments    *)
(* once, streaks are runs of days, and a spike does not depend on the      *)
(* chart it is shown in.                                                   *)
(***************************************************************************)
DaysStandAlone(sessions, costs, today) ==
    /\ ActiveTimeOnce(sessions)
    /\ StreaksAreRuns(DOMAIN costs, today)
    /\ SpikesStay(costs, today - 2 .. today)
=============================================================================
