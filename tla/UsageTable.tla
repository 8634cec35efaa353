------------------------------ MODULE UsageTable ------------------------------
(***************************************************************************)
(* The usage tables (src/aggregate/aggregate-usage.ts): events grouped by  *)
(* period and by source, machine or project; the projects past a limit     *)
(* folded into one row per source and machine; and the totals of a row, a  *)
(* period and the table.  A token count stands for the six of an event.    *)
(***************************************************************************)
EXTENDS Integers, Sequences, FiniteSets, SequencesExt

NoUsd == -1         \* an undefined cost
NoLimit == -1
AnyPart == 0        \* what a row is not split by
ThisMachine == 1    \* LOCAL_MACHINE_NAME

----------------------------------------------------------------------------
(* Totals.                                                                 *)

Usd(cost) == IF cost = NoUsd THEN 0 ELSE cost
\* createEmptyTotals
EmptyTotals == [tokens |-> 0, cost |-> NoUsd, incomplete |-> FALSE]
\* addTotals
AddTotals(t, s) ==
    [tokens |-> t.tokens + s.tokens,
     cost |-> IF s.cost = NoUsd THEN t.cost ELSE Usd(t.cost) + s.cost,
     incomplete |-> t.incomplete \/ s.incomplete]
\* addEventToTotals: an event without a cost leaves the cost incomplete.
AddEvent(t, e) == AddTotals(t, [tokens |-> e.tokens, cost |-> e.cost, incomplete |-> e.cost = NoUsd])

\* A row: its totals, and those of each model its events name.  addEventToAccumulator
EmptyRow == [totals |-> EmptyTotals, models |-> <<>>]
ModelAt(models, m) == IF m \in DOMAIN models THEN models[m] ELSE EmptyTotals
WithModel(models, m, t) == [n \in DOMAIN models \cup {m} |-> IF n = m THEN t ELSE models[n]]
AddToRow(row, e) ==
    [totals |-> AddEvent(row.totals, e),
     models |-> IF e.model = AnyPart THEN row.models
                ELSE WithModel(row.models, e.model, AddEvent(ModelAt(row.models, e.model), e))]
\* addTotals and mergeModelTotals
AddRows(row, other) ==
    [totals |-> AddTotals(row.totals, other.totals),
     models |-> [m \in DOMAIN row.models \cup DOMAIN other.models |->
                   AddTotals(ModelAt(row.models, m), ModelAt(other.models, m))]]

SumOfEvents(events) == FoldLeft(AddToRow, EmptyRow, events)
SumOfRows(rows) == FoldLeft(AddRows, EmptyRow, rows)
SumOfTotals(totals) == FoldLeft(AddTotals, EmptyTotals, totals)

----------------------------------------------------------------------------
(* Rows of one period, in the order their first events come.               *)

\* toSplitRowKey: the machine of an event that names none is this one.
MachineOfEvent(e) == IF e.machine = AnyPart THEN ThisMachine ELSE e.machine
KeyOf(e, split) ==
    IF split.primaryRepo THEN [source |-> AnyPart, machine |-> AnyPart, project |-> e.project]
    ELSE [source |-> e.source, machine |-> IF split.machine THEN MachineOfEvent(e) ELSE AnyPart,
          project |-> IF split.repo THEN e.project ELSE AnyPart]

KeysInOrder(events, split) ==
    FoldLeft(LAMBDA keys, e : IF KeyOf(e, split) \in ToSet(keys) THEN keys ELSE Append(keys, KeyOf(e, split)),
             <<>>, events)
KeyedRow(key, others, row) == [key |-> key, others |-> others, totals |-> row.totals, models |-> row.models]
GroupRows(events, split) ==
    LET keys == KeysInOrder(events, split) IN
    [i \in DOMAIN keys |->
       KeyedRow(keys[i], {}, SumOfEvents(SelectSeq(events, LAMBDA e : KeyOf(e, split) = keys[i])))]

\* compareRankedTotals, ties by label: a project's number stands for its label.
Precedes(left, right, byCost, l, r) ==
    LET a == IF byCost THEN Usd(left.cost) ELSE 0
        b == IF byCost THEN Usd(right.cost) ELSE 0
    IN \/ a > b
       \/ a = b /\ left.tokens > right.tokens
       \/ a = b /\ left.tokens = right.tokens /\ l < r

ProjectTotals(rows) ==
    [p \in {rows[i].key.project : i \in DOMAIN rows} |->
        SumOfTotals([i \in DOMAIN rows |-> IF rows[i].key.project = p THEN rows[i].totals ELSE EmptyTotals])]
Largest(totalOf, count, byCost) ==
    {p \in DOMAIN totalOf :
        Cardinality({q \in DOMAIN totalOf : Precedes(totalOf[q], totalOf[p], byCost, q, p)}) < count}

(* The projects that keep their rows: all when only one would be folded;   *)
(* ranked by tokens when a project's cost is incomplete.                   *)
KeptProjects(rows, limit) ==
    LET totalOf == ProjectTotals(rows) IN
    IF Cardinality(DOMAIN totalOf) <= limit.count + 1 THEN DOMAIN totalOf
    ELSE Largest(totalOf, limit.count, limit.byCost /\ \A p \in DOMAIN totalOf : ~totalOf[p].incomplete)

\* foldOtherProjects
PairOf(row) == [row.key EXCEPT !.project = AnyPart]
PairsInOrder(rows) ==
    FoldLeft(LAMBDA ks, r : IF PairOf(r) \in ToSet(ks) THEN ks ELSE Append(ks, PairOf(r)), <<>>, rows)
OtherRow(pair, rows) == KeyedRow(pair, {rows[i].key.project : i \in DOMAIN rows}, SumOfRows(rows))
OtherRows(folded, pairs) ==
    [i \in DOMAIN pairs |-> OtherRow(pairs[i], SelectSeq(folded, LAMBDA r : PairOf(r) = pairs[i]))]
FoldAllBut(kept, rows, folded) ==
    SelectSeq(rows, LAMBDA r : r.key.project \in kept) \o OtherRows(folded, PairsInOrder(folded))
FoldOthers(rows, kept) == FoldAllBut(kept, rows, SelectSeq(rows, LAMBDA r : r.key.project \notin kept))

\* The rows of one period of aggregateUsage.
Limited(rows, split, limit) ==
    IF split.repo /\ ~split.primaryRepo /\ limit.count # NoLimit
    THEN FoldOthers(rows, KeptProjects(rows, limit)) ELSE rows
PeriodRows(events, split, limit) == Limited(GroupRows(events, split), split, limit)

PeriodsOf(events) == {events[i].period : i \in DOMAIN events}
In(events, period) == SelectSeq(events, LAMBDA e : e.period = period)
\* aggregateUsage: the rows of each period, its combined row, and the grand total of all rows.
TableRows(events, split, limit) == [p \in PeriodsOf(events) |-> PeriodRows(In(events, p), split, limit)]
CombinedRow(rows) == SumOfRows(rows)
ByNumber(f, numbers) == [i \in DOMAIN numbers |-> f[numbers[i]]]
AllRows(table) == FlattenSeq(ByNumber(table, SetToSortSeq(DOMAIN table, <)))
GrandTotal(table) ==
    IF DOMAIN table = {} THEN [EmptyRow EXCEPT !.totals.cost = 0] ELSE SumOfRows(AllRows(table))

----------------------------------------------------------------------------
(* A window's summary (src/cli/usage-window-summary.ts) out of daily rows. *)

BySource == [machine |-> FALSE, repo |-> FALSE, primaryRepo |-> FALSE]
\* summarizeUsageWindow: events and active days, per source and of all.
DaysOf(table, s) == {d \in DOMAIN table : \E i \in DOMAIN table[d] : s \in {AnyPart, table[d][i].key.source}}
SummaryOf(events, table) ==
    [totals |-> GrandTotal(table).totals, events |-> Len(events),
     activeDays |-> Cardinality(DaysOf(table, AnyPart)),
     sources |-> [s \in {events[i].source : i \in DOMAIN events} |->
        [totals |-> SumOfRows(SelectSeq(AllRows(table), LAMBDA r : r.key.source = s)).totals,
         events |-> Len(SelectSeq(events, LAMBDA e : e.source = s)),
         activeDays |-> Cardinality(DaysOf(table, s))]]]
WindowSummary(events) ==
    SummaryOf(events, TableRows(events, BySource, [count |-> NoLimit, byCost |-> TRUE]))

----------------------------------------------------------------------------
(* What these must come to.                                                *)

SplitKinds == {[BySource EXCEPT !.machine = m, !.repo = r] : m, r \in BOOLEAN}
              \cup {[machine |-> FALSE, repo |-> TRUE, primaryRepo |-> TRUE]}

\* The totals of a period and of the table are those of its events, however rows are split.
RowsSumToEvents(events, table) ==
    /\ events # <<>> => GrandTotal(table) = SumOfEvents(events)
    /\ \A p \in DOMAIN table : CombinedRow(table[p]) = SumOfEvents(In(events, p))

\* A row that is not folded has its own events, and what is folded of a source and machine has
\* the rest of them.
EventsKeepRows(events, split, table) ==
    \A p \in DOMAIN table : \A i \in DOMAIN table[p] :
        LET row == table[p][i]
            Mine(e) == /\ e.period = p
                       /\ row.others = {} => KeyOf(e, split) = row.key
                       /\ row.others # {} => /\ [KeyOf(e, split) EXCEPT !.project = AnyPart] = row.key
                                             /\ e.project \in row.others
            sum == SumOfEvents(SelectSeq(events, Mine))
        IN row.totals = sum.totals /\ row.models = sum.models

\* A project that is folded is not larger than one that is shown, by what is known of both; and
\* no row folds the only one.
FoldsTheSmall(events, table, limit) ==
    \A p \in DOMAIN table :
        LET folded == UNION {table[p][i].others : i \in DOMAIN table[p]}
            shown == {table[p][i].key.project : i \in {j \in DOMAIN table[p] : table[p][j].others = {}}}
            Of(q) == SumOfEvents(SelectSeq(events, LAMBDA e : e.period = p /\ e.project = q)).totals
            known == \A q \in folded \cup shown : ~Of(q).incomplete
        IN /\ folded = {} \/ Cardinality(folded) >= 2
           /\ folded \cap shown = {}
           /\ \A f \in folded, s \in shown :
                IF limit.byCost /\ known THEN Usd(Of(s).cost) >= Usd(Of(f).cost) ELSE Of(s).tokens >= Of(f).tokens

\* The sources of a window add up to it, and none has more active days than it.
WindowAddsUp(events, w) ==
    /\ events # <<>> =>
         w.totals = SumOfTotals(ByNumber([s \in DOMAIN w.sources |-> w.sources[s].totals],
                                         SetToSortSeq(DOMAIN w.sources, <)))
    /\ w.activeDays = Cardinality(PeriodsOf(events))
    /\ \A s \in DOMAIN w.sources :
         w.sources[s].activeDays = Cardinality(PeriodsOf(SelectSeq(events, LAMBDA e : e.source = s)))

(***************************************************************************)
(* Every view of the same events adds up to the same: no split, limit or   *)
(* period gains or loses an event, or forgets that a cost is missing.      *)
(***************************************************************************)
AddsUp(events, split, limit, table) ==
    /\ RowsSumToEvents(events, table)
    /\ EventsKeepRows(events, split, table)
    /\ split.repo /\ ~split.primaryRepo /\ limit.count # NoLimit => FoldsTheSmall(events, table, limit)
TablesAddUp(events, limits) ==
    /\ WindowAddsUp(events, WindowSummary(events))
    /\ \A split \in SplitKinds, limit \in limits : AddsUp(events, split, limit, TableRows(events, split, limit))
=============================================================================
