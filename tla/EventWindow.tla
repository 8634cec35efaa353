------------------------------ MODULE EventWindow ------------------------------
(***************************************************************************)
(* Which events a report shows (src/cli/parse/usage-event-filters.ts): the *)
(* window of local dates, with the prefilter that converts only instants   *)
(* near its edges, the model rules, and the days before the window that    *)
(* are read for context; and which of a repository's commits count with    *)
(* them (src/efficiency/git-outcome-collector.ts).  An instant is a tick   *)
(* with the offset of local time at it, which is less than a day.          *)
(***************************************************************************)
EXTENDS Integers, Sequences, FiniteSets, SequencesExt

CONSTANT TicksADay
NoDate == -100       \* an open end of a window
ASSUME TicksADayAssumption == TicksADay \in Nat \ {0}

LocalDate(x) == (x.at + x.offset) \div TicksADay
Midnight(date) == date * TicksADay        \* getUtcMidnightIso
\* isEventWithinDateRange
InRange(date, w) == (w.since # NoDate => date >= w.since) /\ (w.until # NoDate => date <= w.until)

----------------------------------------------------------------------------
(* createDateWindowPrefilter: a day and more from an edge needs no zone.   *)

Prefilter(at, w) ==
    IF \/ w.since # NoDate /\ at < Midnight(w.since - 1)
       \/ w.until # NoDate /\ at >= Midnight(w.until + 2) THEN "outside"
    ELSE IF /\ w.since # NoDate => at >= Midnight(w.since + 1)
            /\ w.until # NoDate => at < Midnight(w.until) THEN "inside"
    ELSE "near-edge"

\* createTimestampWindowFilter
InWindow(x, w) ==
    LET position == Prefilter(x.at, w) IN
    IF position = "near-edge" THEN InRange(LocalDate(x), w) ELSE position = "inside"

----------------------------------------------------------------------------
(* The filters of a report.  A model is a sequence of name parts.          *)

\* The elements of s that are in S.
Those(s, S) ==
    LET upTo[i \in 0 .. Len(s)] ==
            IF i = 0 THEN <<>> ELSE IF s[i] \in S THEN Append(upTo[i - 1], s[i]) ELSE upTo[i - 1]
    IN upTo[Len(s)]

NameContains(name, part) == \E i, j \in 1 .. Len(name) + 1 : SubSeq(name, i, j) = part
NoModel == <<>>
NoModels == {}       \* no --model
\* resolveModelFilterRules: a name that some event of the window has is meant exactly.
ModelRules(events, models) ==
    [m \in models |-> IF \E i \in DOMAIN events : events[i].model = m THEN "exact" ELSE "substring"]
\* matchesModel
MatchesModel(name, rules) ==
    \/ DOMAIN rules = {}
    \/ /\ name # NoModel
       /\ \E m \in DOMAIN rules : IF rules[m] = "exact" THEN name = m ELSE NameContains(name, m)
\* collectProviderAndDateFilteredEvents
OfProvidersIn(events, providers, w) ==
    Those(events, {e \in ToSet(events) : e.provider \in providers /\ InWindow(e, w)})
\* filterParsedAdapterEventsWithLookback: the rules are those of the window.
Filtered(events, f) ==
    LET shown == OfProvidersIn(events, f.providers, f.window)
        rules == ModelRules(shown, f.models)
        before == IF f.lookback # NoDate /\ f.window.since # NoDate /\ f.lookback < f.window.since
                  THEN OfProvidersIn(events, f.providers, [since |-> f.lookback, until |-> f.window.since - 1])
                  ELSE <<>>
        matching == {e \in ToSet(events) : MatchesModel(e.model, rules)}
    IN [events |-> Those(shown, matching), lookback |-> Those(before, matching)]

----------------------------------------------------------------------------
(* The commits that count: `git log` bounds them by UTC days, wider by one *)
(* at each end; then local dates and the days with usage choose.           *)

\* resolveGitLogDateWindow
LogWindow(w, days) ==
    IF days = {} THEN w
    ELSE [since |-> IF w.since # NoDate THEN w.since ELSE CHOOSE d \in days : \A c \in days : d <= c,
          until |-> IF w.until # NoDate THEN w.until ELSE CHOOSE d \in days : \A c \in days : d >= c]
\* What git lists with the arguments of buildGitLogArgs (external: git).
Listed(commits, w) ==
    Those(commits, {c \in ToSet(commits) : /\ w.since # NoDate => c.at >= Midnight(w.since - 1)
                                           /\ w.until # NoDate => c.at < Midnight(w.until + 2)})
\* finalizeCurrentEvent, filterEventsByDateRange, filterEventsByActiveUsageDays
Outcomes(commits, author, w, days) ==
    IF days = {} THEN <<>>
    ELSE Those(Listed(commits, LogWindow(w, days)),
               {c \in ToSet(commits) : c.author = author /\ InRange(LocalDate(c), w) /\ LocalDate(c) \in days})

----------------------------------------------------------------------------
(* What these must come to.                                                *)

\* An instant is in a window when its local date is, converted or not.
WindowIsLocal(events, w) ==
    \A i \in DOMAIN events : InWindow(events[i], w) <=> InRange(LocalDate(events[i]), w)

\* Days read for context join on to the window: no event is in both, none between is left out,
\* and none but an event the window's own rules match is shown or kept.
LookbackJoins(events, f) ==
    LET read == Filtered(events, f)
        whole == OfProvidersIn(events, f.providers, [f.window EXCEPT !.since = f.lookback])
        rules == ModelRules(OfProvidersIn(events, f.providers, f.window), f.models)
        kept == {e \in ToSet(whole) : MatchesModel(e.model, rules)}
    IN /\ f.lookback # NoDate /\ f.window.since # NoDate /\ f.lookback <= f.window.since =>
            /\ ToSet(read.events) \cap ToSet(read.lookback) = {}
            /\ ToSet(read.events) \cup ToSet(read.lookback) = kept
       /\ read.events = Filtered(events, [f EXCEPT !.lookback = NoDate]).events

\* The commits counted are the author's on the local days with usage in the window, all of them.
OutcomesAreLocal(commits, author, w, days) ==
    Outcomes(commits, author, w, days) =
        Those(commits, {c \in ToSet(commits) : c.author = author /\ LocalDate(c) \in days /\ InRange(LocalDate(c), w)})

(***************************************************************************)
(* What a report reads is what its local dates name, however it was        *)
(* bounded before: by UTC text, by git, or for the days before.            *)
(***************************************************************************)
WindowsAreLocal(events, f, days) ==
    /\ WindowIsLocal(events, f.window)
    /\ LookbackJoins(events, f)
    /\ \A author \in {events[i].author : i \in DOMAIN events} :
            OutcomesAreLocal(events, author, f.window, days)
=============================================================================
