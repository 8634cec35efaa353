------------------------------ MODULE CostEngine ------------------------------
(***************************************************************************)
(* What an event costs (packages/core/src/pricing): the rates a LiteLLM    *)
(* entry normalizes to, the long-context tier one request falls in, the    *)
(* estimate from tokens, and what each cost mode makes of a logged cost.   *)
(* Amounts are tokens times rates; the factor of a million is left out.    *)
(***************************************************************************)
EXTENDS Integers, Sequences, SequencesExt, FiniteSets

NoRate == -1        \* an undefined rate
NoCost == -1        \* an event with no cost
Defined(rate) == rate # NoRate
Or(rate, other) == IF Defined(rate) THEN rate ELSE other

Buckets == {"input", "output", "cacheRead", "cacheWrite"}
TierFields == Buckets \cup {"cacheWrite1h"}
Unpriceable == [known |-> FALSE]

----------------------------------------------------------------------------
(* Normalization of an entry: per bucket its standard and its priority     *)
(* rate, the one-hour write rate, the reasoning rate, and the tiers by     *)
(* their thresholds.                                                       *)

\* readStandardOrPriorityRate
ListedRate(entry, b) == Or(entry.standard[b], entry.priority[b])
OnlyPriority(entry, b) == ~Defined(entry.standard[b]) /\ Defined(entry.priority[b])

\* normalizeModelPricing, normalizeModelTiers: no two tiers have one threshold.
Normalize(entry) ==
    IF \E b \in {"input", "output"} : ~Defined(ListedRate(entry, b)) THEN Unpriceable
    ELSE [known    |-> TRUE,
          rate     |-> [b \in TierFields |-> IF b = "cacheWrite1h" THEN entry.cacheWrite1h
                                             ELSE ListedRate(entry, b)],
          reasoning |-> entry.reasoning,
          separate |-> Defined(entry.reasoning),
          fallback |-> {b \in Buckets : OnlyPriority(entry, b)},
          tiers    |-> entry.tiers]

----------------------------------------------------------------------------
(* The estimate of one event.                                              *)

Prompt(e) == e.input + e.cacheRead + e.cacheWrite

\* splitOutputForBilling: output already includes reasoning.
BilledOutput(e, p) ==
    IF ~p.separate THEN e.output
    ELSE IF e.output > e.reasoning THEN e.output - e.reasoning ELSE 0
BilledReasoning(e, p) == IF p.separate THEN e.reasoning ELSE 0

\* estimateTokenGroupCost
GroupCost(tokens, rate) == IF Defined(rate) /\ tokens > 0 THEN tokens * rate ELSE 0

\* calculateEstimatedCostUsd
Estimate(e, p) ==
    GroupCost(e.input, p.rate.input)
    + GroupCost(BilledOutput(e, p), p.rate.output)
    + GroupCost(e.cacheRead, p.rate.cacheRead)
    + GroupCost(e.cacheWrite - e.cacheWrite1h, p.rate.cacheWrite)
    + GroupCost(e.cacheWrite1h, Or(p.rate.cacheWrite1h, p.rate.cacheWrite))
    + GroupCost(BilledReasoning(e, p), p.reasoning)

\* toFlatTierRates: a rate the tier does not list stays the base rate.
FlatTier(p, tier) == [p EXCEPT !.rate = [b \in TierFields |-> Or(tier.rate[b], @[b])],
                               !.tiers = {}]

Crossed(e, p) == {t \in p.tiers : Prompt(e) > t.above}
\* A mutant: the lowest threshold below the prompt, not the highest.
LowestTier(e, p, perRequest) ==
    IF perRequest /\ Crossed(e, p) # {}
    THEN FlatTier(p, CHOOSE t \in Crossed(e, p) : \A u \in Crossed(e, p) : u.above >= t.above) ELSE p

\* resolveRatesForEvent: only one request can cross a threshold.
RatesFor(e, p, perRequest) ==
    IF perRequest /\ Crossed(e, p) # {}
    THEN FlatTier(p, CHOOSE t \in Crossed(e, p) : \A u \in Crossed(e, p) : u.above <= t.above) ELSE p

\* canEstimateUsageCost, hasUsedBucketWithUndefinedRate
CanEstimate(e, p) ==
    /\ e.cacheRead > 0 => Defined(p.rate.cacheRead)
    /\ e.cacheWrite > 0 => Defined(p.rate.cacheWrite)
    /\ BilledReasoning(e, p) > 0 => Defined(p.reasoning)
    /\ \/ e.reasoning > 0 /\ p.separate
       \/ /\ e.reasoning > 0 => e.output > 0
          /\ e.input + e.output + e.cacheRead + e.cacheWrite > 0

\* usesPriorityFallbackRate: tokens that a bucket's base rate bills.
AtBaseRate(e, p, rates, b) ==
    IF rates.rate[b] # p.rate[b] THEN 0
    ELSE CASE b = "input"      -> e.input
           [] b = "output"     -> BilledOutput(e, rates)
           [] b = "cacheRead"  -> e.cacheRead
           [] b = "cacheWrite" -> e.cacheWrite - (IF Defined(rates.rate.cacheWrite1h)
                                                  THEN e.cacheWrite1h ELSE 0)
PriorityPriced(e, p, rates) == \E b \in p.fallback : AtBaseRate(e, p, rates, b) > 0

----------------------------------------------------------------------------
(* What a cost mode makes of an event.                                     *)

Priceable(e) == Prompt(e) + e.output + e.reasoning > 0
\* resolveCostMode
ModeOf(e) == IF e.logged = NoCost THEN "estimated" ELSE "explicit"

\* resolvePricingOutcome, costUnderPolicy.  `p` may be Unpriceable: no rates were found.
CostUnder(e, p, mode, perRequest) ==
    LET repriceZero == mode = "both" /\ e.logged = 0 /\ e.model /\ Priceable(e)
        rates == RatesFor(e, p, perRequest /\ e.single)
        notPriced == IF mode = "both" THEN e.logged ELSE NoCost
    IN CASE mode = "explicit" -> IF ModeOf(e) = "explicit" THEN e.logged ELSE NoCost
         [] mode = "both" /\ ModeOf(e) = "explicit" /\ ~repriceZero -> e.logged
         [] OTHER -> IF e.model /\ Priceable(e) /\ p.known
                     THEN IF CanEstimate(e, rates) THEN Estimate(e, rates) ELSE notPriced
                     ELSE notPriced

\* estimateLongContextExtraUsd
LongContextExtra(e, p) ==
    IF RatesFor(e, p, TRUE) = p THEN 0 ELSE Estimate(e, RatesFor(e, p, TRUE)) - Estimate(e, p)

----------------------------------------------------------------------------
(* What these must come to.                                                *)

Together(e, f) ==
    [e EXCEPT !.input = @ + f.input, !.output = @ + f.output, !.reasoning = @ + f.reasoning,
              !.cacheRead = @ + f.cacheRead, !.cacheWrite = @ + f.cacheWrite,
              !.cacheWrite1h = @ + f.cacheWrite1h, !.single = FALSE]
Modes == {"both", "explicit", "estimated"}

\* Requests that a log sums up cost together what they cost apart, at the base rates.
SumsUp(e, p, others) ==
    \A f \in others : e.reasoning <= e.output /\ f.reasoning <= f.output =>
        Estimate(Together(e, f), p) = Estimate(e, p) + Estimate(f, p)

\* A prompt above a threshold is billed at that tier or a higher one, one that is not above it
\* at a lower one or the base rates; and no tier leaves an event unpriced that those price.
TiersApart(e, p) ==
    LET rates == RatesFor(e, p, TRUE) IN
       /\ CanEstimate(e, p) => CanEstimate(e, rates)
       /\ \A t \in p.tiers :
            IF Prompt(e) > t.above
            THEN \E u \in p.tiers : u.above >= t.above /\ rates = FlatTier(p, u)
            ELSE rates = p \/ \E u \in p.tiers : u.above < t.above /\ rates = FlatTier(p, u)
       /\ CanEstimate(e, p) => LongContextExtra(e, p) = Estimate(e, rates) - Estimate(e, p)

\* An event is marked as billed at priority rates just when a change of those rates would
\* change its estimate, in a tier that lists the same rate again too: rates are told by value.
Dearer(p, rate) ==
    [b \in TierFields |-> IF b \in p.fallback /\ rate[b] = p.rate[b] THEN rate[b] + 1 ELSE rate[b]]
DearerPriority(p) == [p EXCEPT !.rate = Dearer(p, p.rate),
                               !.tiers = {[t EXCEPT !.rate = Dearer(p, t.rate)] : t \in p.tiers}]
PriorityMatters(e, p, perRequest) ==
    LET rates == RatesFor(e, p, perRequest)
        dearer == RatesFor(e, DearerPriority(p), perRequest)
    IN PriorityPriced(e, p, rates) <=> Estimate(e, rates) # Estimate(e, dearer)

\* The modes agree: what `explicit` reports `both` reports, unless it logged zero; `estimated`
\* ignores what was logged; and a cost is reported by `both` if any mode reports one.
ModesAgree(e, p) ==
    LET cost(mode) == CostUnder(e, p, mode, TRUE) IN
    /\ cost("explicit") > 0 => cost("both") = cost("explicit")
    /\ cost("estimated") = CostUnder([e EXCEPT !.logged = NoCost], p, "both", TRUE)
    /\ cost("both") = NoCost => \A mode \in Modes : cost(mode) = NoCost
    /\ e.logged = 0 => cost("both") \in {0, cost("estimated")}

(***************************************************************************)
(* The cost of an event, however its requests were logged: sums cost what  *)
(* their parts do, tiers and priority rates are told by what they change,  *)
(* and no cost mode invents or drops a cost.                               *)
(***************************************************************************)
CostsAgree(e, entry, others) ==
    LET p == Normalize(entry) IN
    /\ ModesAgree(e, p)
    /\ p.known =>
        /\ SumsUp(e, p, others) /\ TiersApart(e, p)
        /\ \A perRequest \in BOOLEAN : PriorityMatters(e, p, perRequest)

----------------------------------------------------------------------------
(* What the same usage would have cost on other models                     *)
(* (src/optimize/aggregate-counterfactual.ts): the totals of each period   *)
(* and of all, priced at a candidate's base rates, against what the events *)
(* cost.  An event is here a period, the usage of an event, and whether    *)
(* its log declares a total of tokens and tells no bucket of it; a         *)
(* candidate is a model's normalized rates, or Unpriceable.                *)

All == 0             \* the period of all events
NoTop == -1          \* every candidate is shown

----------------------------------------------------------------------------
(* The baseline: events at base rates, since totals cross no tier.         *)

NoUsage == [input |-> 0, output |-> 0, reasoning |-> 0, cacheRead |-> 0, cacheWrite |-> 0,
            cacheWrite1h |-> 0, single |-> FALSE, model |-> TRUE, logged |-> NoCost]
BaselineCost(e, p, mode) == CostUnder(e, p, mode, FALSE)

\* aggregateUsage's totals of a period, with the one-hour writes that buildOptimizeData adds.
BaselinePeriod(events, p, mode) ==
    LET costs == [i \in DOMAIN events |-> BaselineCost(events[i].usage, p, mode)]
        known == {i \in DOMAIN costs : costs[i] # NoCost}
    IN [usage |-> FoldLeft(LAMBDA u, x : Together(u, x.usage), NoUsage, events),
        cost |-> IF known = {} /\ events # <<>> THEN NoCost
                 ELSE FoldFunctionOnSet(+, 0, costs, known),
        incomplete |-> known # DOMAIN costs,
        bare |-> \E i \in DOMAIN events : events[i].bare]
PeriodsIn(events) == {events[i].period : i \in DOMAIN events}
\* resolveBaselinePeriods
BaselinePeriods(events, p, mode) ==
    [t \in PeriodsIn(events) \cup {All} |->
        BaselinePeriod(SelectSeq(events, LAMBDA x : t \in {All, x.period}), p, mode)]

----------------------------------------------------------------------------
(* A candidate's cost for one period.                                      *)

\* withCacheWriteInputFallback
WithWriteRate(c, usage) ==
    IF c.known /\ ~Defined(c.rate.cacheWrite) /\ usage.cacheWrite > 0
    THEN [c EXCEPT !.rate.cacheWrite = c.rate.input] ELSE c

\* hasAnyUsageSignal, of a period without tokens in any bucket
UsageSignal(period) == period.bare \/ period.incomplete \/ period.cost > 0

\* evaluateCandidateForPeriod, the hypothetical cost
Hypothetical(period, c) ==
    LET usage == period.usage
        rates == WithWriteRate(c, usage)
    IN CASE ~Priceable(usage) -> IF UsageSignal(period) THEN NoCost ELSE 0
         [] ~c.known \/ ~CanEstimate(usage, rates) -> NoCost
         [] OTHER -> Estimate(usage, rates)

Told(usd) == [told |-> TRUE, usd |-> usd]
NotTold == [told |-> FALSE, usd |-> 0]
TokensMissing(period) ==
    ~period.incomplete /\ period.cost # NoCost /\ ~Priceable(period.usage) /\ period.cost > 0
\* evaluateCandidateForPeriod, the savings
Savings(period, c) ==
    IF period.incomplete \/ period.cost = NoCost \/ TokensMissing(period) \/ Hypothetical(period, c) = NoCost
    THEN NotTold ELSE Told(period.cost - Hypothetical(period, c))

\* compareCandidateRank: the unpriced last, ties by name, which is the candidate's number.
RanksBefore(a, b, costOf) ==
    \/ costOf[a] # NoCost /\ (costOf[b] = NoCost \/ costOf[a] < costOf[b])
    \/ costOf[a] = costOf[b] /\ a < b

\* buildCounterfactualRows: the candidates shown, in order, and what is told of each.
Counterfactual(periods, candidates, top) ==
    LET costOf == [i \in DOMAIN candidates |-> Hypothetical(periods[All], candidates[i])]
        ranked == SetToSortSeq(DOMAIN candidates, LAMBDA a, b : RanksBefore(a, b, costOf))
        shown == IF top = NoTop \/ Len(ranked) < top THEN ranked ELSE SubSeq(ranked, 1, top)
    IN [shown |-> shown,
        saves |-> [t \in DOMAIN periods |->
                    [i \in DOMAIN shown |-> Savings(periods[t], candidates[shown[i]])]],
        warned |-> {t \in DOMAIN periods : TokensMissing(periods[t]) /\ shown # <<>>}]

----------------------------------------------------------------------------
(* What these must come to.                                                *)

\* Estimates stand against estimates: the model itself as the candidate saves nothing, in any
\* period whose cost is known, and says so.
SameModelSavesNothing(events, p) ==
    LET periods == BaselinePeriods(events, p, "estimated") IN
    \A t \in DOMAIN periods : Savings(periods[t], p) = IF periods[t].incomplete THEN NotTold ELSE Told(0)

\* What a candidate saves of all is the sum of what it saves of the periods, when each event
\* has tokens; and it is told of all only if of each.
SavingsAddUp(events, p, mode, c) ==
    LET periods == BaselinePeriods(events, p, mode)
        of == [t \in PeriodsIn(events) |-> Savings(periods[t], c)]
    IN (\A i \in DOMAIN events : Priceable(events[i].usage)) /\ Savings(periods[All], c).told =>
         /\ \A t \in DOMAIN of : of[t].told
         /\ Savings(periods[All], c).usd = FoldFunction(LAMBDA s, sum : s.usd + sum, 0, of)

\* Of the candidates, those shown are the cheapest for all, so none of them is the dearest way
\* to the most savings; and a period whose cost is logged without tokens is told about.
ShownAreCheapest(periods, candidates, top) ==
    LET rows == Counterfactual(periods, candidates, top)
        told == [i \in DOMAIN candidates |-> Savings(periods[All], candidates[i])]
    IN /\ \A i \in DOMAIN candidates \ ToSet(rows.shown), j \in ToSet(rows.shown) :
            told[i].told => told[j].told /\ told[j].usd >= told[i].usd
       /\ \A t \in DOMAIN periods : t \notin rows.warned /\ rows.shown # <<>> /\ periods[t].cost > 0
                                     /\ ~periods[t].incomplete => Priceable(periods[t].usage)

(***************************************************************************)
(* Savings are a difference of prices alone: never of tiers, of how cache  *)
(* writes are billed, or of which period is looked at.                     *)
(***************************************************************************)
SavingsAreOfPrices(events, p, candidates) ==
    /\ SameModelSavesNothing(events, p)
    /\ \A mode \in {"both", "estimated"} :
        /\ \A i \in DOMAIN candidates : SavingsAddUp(events, p, mode, candidates[i])
        /\ \A top \in {NoTop, 1, 2} : ShownAreCheapest(BaselinePeriods(events, p, mode), candidates, top)
=============================================================================
