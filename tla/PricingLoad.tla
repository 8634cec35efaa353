----------------------------- MODULE PricingLoad -----------------------------
(***************************************************************************)
(* How concurrent runs load prices (LiteLLMPricingFetcher.load): a fresh   *)
(* cache, else the network, else a stale cache, else the snapshot the      *)
(* package bundles.  All runs share one cache file, which any of them may  *)
(* replace between the two times a load reads it, and whose time is the    *)
(* wall clock's, which may be ahead when it is written and set back later. *)
(***************************************************************************)
EXTENDS Integers

CONSTANTS
    Loaders,      \* the runs that load prices
    DefaultUrl, CustomUrl,
    PriceTtl,     \* cacheTtlMs
    FetchTries,   \* fetchRetryCount + 1
    MaxDay,       \* bound: the true time
    MaxAhead      \* bound: how far the wall clock may be ahead

ASSUME PricingLoadAssumption ==
    /\ DefaultUrl # CustomUrl
    /\ {PriceTtl, FetchTries, MaxDay} \subseteq Nat \ {0} /\ MaxAhead \in Nat

VARIABLES
    day,        \* the true time
    ahead,      \* how far the wall clock is ahead of it
    priceFile,  \* the cache file
    load        \* each run's load

priceVars == <<day, ahead, priceFile, load>>

Urls == {DefaultUrl, CustomUrl}
Now == day + ahead

\* What a cache file holds: whose prices, in this format or an older one, whether any model
\* of it has a price, the time it says it was fetched at, and the true one.
PriceFiles == [url : Urls, current : BOOLEAN, priced : BOOLEAN,
               fetchedAt : 0 .. MaxDay + MaxAhead, truly : 0 .. MaxDay]
Unreadable == [url |-> DefaultUrl, current |-> TRUE, priced |-> FALSE, fetchedAt |-> 0, truly |-> 0]

IdleLoad(url, offline) ==
    [url |-> url, offline |-> offline, at |-> "cache", tries |-> 0,
     origin |-> "none", warned |-> FALSE, told |-> FALSE, of |-> DefaultUrl, age |-> 0]

\* A mutant: a custom URL is not told from another one.
UsableOfAny(url) == priceFile.priced /\ (priceFile.current \/ url # DefaultUrl)

\* loadFromCache: what it may serve at all.
Usable(url) ==
    /\ priceFile.url = url
    /\ priceFile.current \/ url # DefaultUrl
    /\ priceFile.priced

\* A mutant: the cache is fresh for one more tick than its interval.
IsStalePriceLate == ~priceFile.current \/ priceFile.fetchedAt > Now \/ Now - priceFile.fetchedAt > PriceTtl + 1

\* loadFromCache: what it serves with a warning only.
IsStalePrice == \/ ~priceFile.current
                \/ priceFile.fetchedAt > Now
                \/ Now - priceFile.fetchedAt > PriceTtl

FromCache(l, warned) ==
    [load[l] EXCEPT !.at = "loaded", !.origin = "cache", !.warned = warned,
                    !.of = priceFile.url, !.age = day - priceFile.truly]

\* load: the first look at the cache.
TryFresh(l) ==
    /\ load[l].at = "cache"
    /\ load' = [load EXCEPT ![l] =
                 IF Usable(@.url) /\ ~IsStalePrice THEN FromCache(l, FALSE)
                 ELSE [@ EXCEPT !.at = IF load[l].offline THEN "stale" ELSE "network"]]
    /\ UNCHANGED <<day, ahead, priceFile>>

\* loadFromRemote: a request that fails is repeated when that may help.
FetchFails(l, retryable) ==
    /\ load[l].at = "network"
    /\ load' = [load EXCEPT ![l] =
                 IF retryable /\ @.tries + 1 < FetchTries
                 THEN [@ EXCEPT !.tries = load[l].tries + 1] ELSE [@ EXCEPT !.at = "stale"]]
    /\ UNCHANGED <<day, ahead, priceFile>>

\* The prices are there; they are cached as well as that can be done, and served.
FetchPrices(l, written) ==
    /\ load[l].at = "network"
    /\ priceFile' = IF written
                    THEN [url |-> load[l].url, current |-> TRUE, priced |-> TRUE,
                          fetchedAt |-> Now, truly |-> day]
                    ELSE priceFile
    /\ load' = [load EXCEPT ![l] = [@ EXCEPT !.at = "loaded", !.origin = "network",
                                             !.warned = FALSE, !.of = load[l].url, !.age = 0]]
    /\ UNCHANGED <<day, ahead>>

\* The second look at the cache, by which another run may have replaced it.
TryStale(l) ==
    /\ load[l].at = "stale"
    /\ load' = [load EXCEPT ![l] =
                 IF Usable(@.url) THEN FromCache(l, IsStalePrice) ELSE [@ EXCEPT !.at = "bundled"]]
    /\ UNCHANGED <<day, ahead, priceFile>>

\* loadFromBundledSnapshot: a custom URL has none.
TryBundled(l) ==
    /\ load[l].at = "bundled"
    /\ load' = [load EXCEPT ![l] =
                 IF @.url = DefaultUrl
                 THEN [@ EXCEPT !.at = "loaded", !.origin = "bundled", !.warned = TRUE,
                                !.of = DefaultUrl]
                 ELSE [@ EXCEPT !.at = "failed"]]
    /\ UNCHANGED <<day, ahead, priceFile>>

\* resolvePricingSource hands the report the prices, and the warning of bundled ones.
HandOver(l) ==
    /\ load[l].at = "loaded"
    /\ load' = [load EXCEPT ![l] = [@ EXCEPT !.at = "told", !.told = (load[l].origin = "bundled")]]
    /\ UNCHANGED <<day, ahead, priceFile>>

DayPasses ==
    /\ day < MaxDay
    /\ day' = day + 1
    /\ UNCHANGED <<ahead, priceFile, load>>

ClockCorrected ==
    /\ ahead > 0
    /\ ahead' = 0
    /\ UNCHANGED <<day, priceFile, load>>

\* The cache file is deleted or damaged.
CacheLost ==
    /\ priceFile # Unreadable
    /\ priceFile' = Unreadable
    /\ UNCHANGED <<day, ahead, load>>

\* A file that an earlier run left, of this build or an older one.
LeftFiles == [url : Urls, current : BOOLEAN, priced : {TRUE}, fetchedAt : {0, ahead}, truly : {0}]
PriceInit ==
    /\ day = 0 /\ ahead \in 0 .. MaxAhead
    /\ priceFile \in {Unreadable} \cup LeftFiles
    /\ load \in [Loaders -> {IdleLoad(u, o) : u \in Urls, o \in BOOLEAN}]

PriceNext ==
    \/ DayPasses \/ ClockCorrected \/ CacheLost
    \/ \E l \in Loaders :
        \/ TryFresh(l) \/ TryStale(l) \/ TryBundled(l) \/ HandOver(l)
        \/ \E yes \in BOOLEAN : FetchFails(l, yes) \/ FetchPrices(l, yes)

PriceSpec == PriceInit /\ [][PriceNext]_priceVars

PriceTypeOK ==
    /\ day \in 0 .. MaxDay /\ ahead \in 0 .. MaxAhead /\ priceFile \in PriceFiles
    /\ load \in [Loaders -> [url : Urls, offline : BOOLEAN, tries : 0 .. FetchTries - 1,
                             at : {"cache", "network", "stale", "bundled", "loaded", "told", "failed"},
                             origin : {"none", "cache", "network", "bundled"},
                             warned : BOOLEAN, told : BOOLEAN, of : Urls, age : 0 .. MaxDay]]

(***************************************************************************)
(* What load() promises whoever replaces the cache meanwhile: prices are   *)
(* those of the run's own URL; a cache served without a warning was        *)
(* fetched within its interval, lengthened at most by what the clock was   *)
(* ahead; a load of the default URL never fails, and one that is offline   *)
(* never asks the network.                                                 *)
(***************************************************************************)
PricesAsTold ==
    \A l \in Loaders :
        /\ load[l].origin # "none" => load[l].of = load[l].url
        /\ load[l].origin # "none" /\ ~load[l].warned => load[l].age <= PriceTtl + MaxAhead
        /\ load[l].at = "failed" => load[l].url = CustomUrl
        /\ load[l].offline => load[l].origin # "network" /\ load[l].at # "network"

=============================================================================
