----------------------------- MODULE ReportsProofs -----------------------------
(* What a report says of the events it counts: the prices it names, the local   *)
(* days they fall on, the blocks they make up, the projects they are credited   *)
(* to, and the days that stand out; and the push of an export of them to an     *)
(* OTLP receiver.                                                               *)
EXTENDS PricingLoad, LocalDays, Projects, OtlpPush, Dedup, EventWindow, CostEngine,
        ModelMatch, Blocks, DailyActivity, ListLemmas, SequenceTheorems, FiniteSetTheorems, TLAPS

----------------------------------------------------------------------------
(* PricingLoad, for any number of runs that share one cache file, any interval
   and any number of retries.                                                 *)

Loads == [url : Urls, offline : BOOLEAN, tries : Int,
          at : {"cache", "network", "stale", "bundled", "loaded", "told", "failed"},
          origin : {"none", "cache", "network", "bundled"},
          warned : BOOLEAN, told : BOOLEAN, of : Urls, age : Int]

(* A file was fetched when it says, but for what the clock was ahead: it never
   says a time by more than that later than the true one.                     *)
Files == [url : Urls, current : BOOLEAN, priced : BOOLEAN, fetchedAt : Int, truly : Int]
FileTells(f) == f \in Files /\ f.fetchedAt <= f.truly + MaxAhead

(* What PricesAsTold promises of one load.                                    *)
LoadTells(r) ==
    /\ r.origin # "none" => r.of = r.url
    /\ r.origin # "none" /\ ~r.warned => r.age <= PriceTtl + MaxAhead
    /\ r.at = "failed" => r.url = CustomUrl
    /\ r.offline => r.origin # "network" /\ r.at # "network"

PriceInv ==
    /\ day \in Nat /\ ahead \in 0 .. MaxAhead
    /\ FileTells(priceFile)
    /\ load \in [Loaders -> Loads]
    /\ \A l \in Loaders : LoadTells(load[l])

LEMMA UnreadableTells == FileTells(Unreadable)
  <1>1. 0 <= MaxAhead /\ MaxAhead \in Int /\ DefaultUrl \in Urls
    BY PricingLoadAssumption DEF Urls
  <1>2. Unreadable \in Files /\ Unreadable.fetchedAt = 0 /\ Unreadable.truly = 0
    BY <1>1 DEF Unreadable, Files
  <1>3. QED
    BY <1>1, <1>2 DEF FileTells

LEMMA PriceInitHolds == PriceInit => PriceInv
  <1> SUFFICES ASSUME PriceInit PROVE PriceInv
    OBVIOUS
  <1> DEFINE Starts == {IdleLoad(u, o) : u \in Urls, o \in BOOLEAN}
  <1>1. day = 0 /\ ahead \in 0 .. MaxAhead /\ priceFile \in {Unreadable} \cup LeftFiles
        /\ load \in [Loaders -> Starts]
    BY DEF PriceInit
  <1>2. MaxAhead \in Nat /\ DefaultUrl \in Urls
    BY PricingLoadAssumption DEF Urls
  <1>3. FileTells(priceFile)
    <2>1. CASE priceFile = Unreadable
      BY <2>1, UnreadableTells
    <2>2. CASE priceFile \in LeftFiles
      <3>1. ahead \in Int /\ 0 <= MaxAhead /\ ahead <= MaxAhead /\ MaxAhead \in Int
        BY <1>1, <1>2
      <3>2. LeftFiles \subseteq Files
        <4>1. {0, ahead} \subseteq Int /\ {0} \subseteq Int /\ {TRUE} \subseteq BOOLEAN
          BY <3>1
        <4>2. QED
          BY <4>1, Zenon DEF LeftFiles, Files
      <3>4. priceFile.truly = 0 /\ priceFile.fetchedAt \in {0, ahead}
        BY <2>2 DEF LeftFiles
      <3>3. QED
        BY <2>2, <3>1, <3>2, <3>4 DEF FileTells
    <2>3. QED
      BY <1>1, <2>1, <2>2
  <1>4. ASSUME NEW s \in Starts PROVE s \in Loads /\ LoadTells(s)
    <2>1. PICK u \in Urls, o \in BOOLEAN : s = IdleLoad(u, o)
      BY <1>4
    <2>2. QED
      BY <1>2, <2>1 DEF Loads, LoadTells, IdleLoad
  <1> HIDE DEF Starts
  <1>5. load \in [Loaders -> Loads] /\ \A l \in Loaders : LoadTells(load[l])
    BY <1>1, <1>4
  <1>6. QED
    BY <1>1, <1>2, <1>3, <1>5 DEF PriceInv

(* A load that changes leaves the rest as it was.                             *)
LEMMA OneLoadMoves ==
  ASSUME PriceInv, NEW l \in Loaders, NEW r \in Loads, LoadTells(r),
         load' = [load EXCEPT ![l] = r], FileTells(priceFile'), UNCHANGED <<day, ahead>>
  PROVE  PriceInv'
  <1>1. load' \in [Loaders -> Loads] /\ \A k \in Loaders : load'[k] = IF k = l THEN r ELSE load[k]
    BY DEF PriceInv
  <1>2. \A k \in Loaders : LoadTells(load'[k])
    BY <1>1 DEF PriceInv
  <1>3. day' \in Nat /\ ahead' \in 0 .. MaxAhead
    BY DEF PriceInv
  <1>4. (\A k \in Loaders : LoadTells(load[k]))'
    BY <1>2 DEF LoadTells
  <1>5. QED
    BY <1>1, <1>3, <1>4 DEF PriceInv

(* A cache that may be served is the run's own; served without a warning, it
   is of the interval by its own time, and so by the true one but for what the
   clock was ahead (loadFromCache).                                           *)
LEMMA CacheTells ==
  ASSUME PriceInv, NEW l \in Loaders, NEW warned \in BOOLEAN, Usable(load[l].url),
         ~warned => ~IsStalePrice
  PROVE  FromCache(l, warned) \in Loads /\ LoadTells(FromCache(l, warned))
  <1> DEFINE r == FromCache(l, warned)
  <1>1. /\ load[l] \in Loads /\ LoadTells(load[l]) /\ FileTells(priceFile) /\ day \in Int /\ ahead \in Int
        /\ ahead <= MaxAhead /\ 0 <= ahead /\ MaxAhead \in Int /\ PriceTtl \in Int
    BY PricingLoadAssumption DEF PriceInv
  <1>2. priceFile.truly \in Int /\ priceFile.fetchedAt \in Int /\ priceFile.url \in Urls
    BY <1>1 DEF FileTells, Files
  <1>3. /\ r \in Loads /\ r.url = load[l].url /\ r.of = priceFile.url /\ r.origin = "cache"
        /\ r.at = "loaded" /\ r.warned = warned /\ r.age = day - priceFile.truly
        /\ r.offline = load[l].offline
    <2>1. r = [load[l] EXCEPT !.at = "loaded", !.origin = "cache", !.warned = warned,
                              !.of = priceFile.url, !.age = day - priceFile.truly]
      BY DEF FromCache
    <2>2. day - priceFile.truly \in Int
      BY <1>1, <1>2
    <2>3. QED
      BY <1>1, <1>2, <2>1, <2>2 DEF Loads
  <1>4. ~warned => r.age <= PriceTtl + MaxAhead
    <2> SUFFICES ASSUME ~warned PROVE r.age <= PriceTtl + MaxAhead
      OBVIOUS
    <2>1. day + ahead - priceFile.fetchedAt <= PriceTtl
      BY <1>1, <1>2 DEF IsStalePrice, Now
    <2>2. priceFile.fetchedAt <= priceFile.truly + MaxAhead
      BY <1>1 DEF FileTells
    <2>3. QED
      BY <1>1, <1>2, <1>3, <2>1, <2>2
  <1>5. QED
    BY <1>3, <1>4 DEF LoadTells, Usable

LEMMA LoadStepKeepsInv ==
  ASSUME PriceInv, NEW l \in Loaders,
         \/ TryFresh(l) \/ TryStale(l) \/ TryBundled(l) \/ HandOver(l)
         \/ \E yes \in BOOLEAN : FetchFails(l, yes) \/ FetchPrices(l, yes)
  PROVE  PriceInv'
  <1>1. /\ load[l] \in Loads /\ LoadTells(load[l]) /\ load \in [Loaders -> Loads]
        /\ FileTells(priceFile) /\ day \in Nat /\ ahead \in 0 .. MaxAhead /\ MaxAhead \in Nat /\ PriceTtl \in Nat
    BY PricingLoadAssumption DEF PriceInv
  <1>2. UNCHANGED priceFile => FileTells(priceFile')
    BY <1>1 DEF FileTells
  <1>3. CASE TryFresh(l)
    <2>1. CASE Usable(load[l].url) /\ ~IsStalePrice
      <3>1. FromCache(l, FALSE) \in Loads /\ LoadTells(FromCache(l, FALSE))
        BY <1>3, <2>1, CacheTells DEF TryFresh
      <3>2. load' = [load EXCEPT ![l] = FromCache(l, FALSE)]
        BY <1>1, <1>3, <2>1 DEF TryFresh
      <3>3. QED
        BY <1>2, <1>3, <3>1, <3>2, OneLoadMoves DEF TryFresh
    <2>2. CASE ~(Usable(load[l].url) /\ ~IsStalePrice)
      <3> DEFINE r == [load[l] EXCEPT !.at = IF load[l].offline THEN "stale" ELSE "network"]
      <3>1. load' = [load EXCEPT ![l] = r]
        BY <1>1, <1>3, <2>2 DEF TryFresh
      <3>2. r \in Loads /\ LoadTells(r)
        BY <1>1 DEF Loads, LoadTells
      <3>3. QED
        BY <1>2, <1>3, <3>1, <3>2, OneLoadMoves DEF TryFresh
    <2>3. QED
      BY <2>1, <2>2
  <1>4. CASE TryStale(l)
    <2>1. CASE Usable(load[l].url)
      <3>1. IsStalePrice \in BOOLEAN
        BY DEF IsStalePrice
      <3>2. FromCache(l, IsStalePrice) \in Loads /\ LoadTells(FromCache(l, IsStalePrice))
        BY <1>4, <2>1, <3>1, CacheTells DEF TryStale
      <3>3. load' = [load EXCEPT ![l] = FromCache(l, IsStalePrice)]
        BY <1>1, <1>4, <2>1 DEF TryStale
      <3>4. QED
        BY <1>2, <1>4, <3>2, <3>3, OneLoadMoves DEF TryStale
    <2>2. CASE ~Usable(load[l].url)
      <3> DEFINE r == [load[l] EXCEPT !.at = "bundled"]
      <3>1. load' = [load EXCEPT ![l] = r]
        BY <1>1, <1>4, <2>2 DEF TryStale
      <3>2. r \in Loads /\ LoadTells(r)
        BY <1>1 DEF Loads, LoadTells
      <3>3. QED
        BY <1>2, <1>4, <3>1, <3>2, OneLoadMoves DEF TryStale
    <2>3. QED
      BY <2>1, <2>2
  <1>5. CASE TryBundled(l)
    <2>1. CASE load[l].url = DefaultUrl
      <3> DEFINE r == [load[l] EXCEPT !.at = "loaded", !.origin = "bundled", !.warned = TRUE,
                                      !.of = DefaultUrl]
      <3>1. load' = [load EXCEPT ![l] = r]
        BY <1>1, <1>5, <2>1 DEF TryBundled
      <3>2. r \in Loads /\ LoadTells(r)
        BY <1>1, <2>1 DEF Loads, LoadTells, Urls
      <3>3. QED
        BY <1>2, <1>5, <3>1, <3>2, OneLoadMoves DEF TryBundled
    <2>2. CASE load[l].url # DefaultUrl
      <3> DEFINE r == [load[l] EXCEPT !.at = "failed"]
      <3>1. load' = [load EXCEPT ![l] = r]
        BY <1>1, <1>5, <2>2 DEF TryBundled
      <3>2. r \in Loads /\ LoadTells(r)
        BY <1>1, <2>2 DEF Loads, LoadTells, Urls
      <3>3. QED
        BY <1>2, <1>5, <3>1, <3>2, OneLoadMoves DEF TryBundled
    <2>3. QED
      BY <2>1, <2>2
  <1>6. CASE HandOver(l)
    <2> DEFINE r == [load[l] EXCEPT !.at = "told", !.told = (load[l].origin = "bundled")]
    <2>1. load' = [load EXCEPT ![l] = r]
      BY <1>6 DEF HandOver
    <2>2. r \in Loads /\ LoadTells(r)
      BY <1>1 DEF Loads, LoadTells
    <2>3. QED
      BY <1>2, <1>6, <2>1, <2>2, OneLoadMoves DEF HandOver
  <1>7. ASSUME NEW yes \in BOOLEAN, FetchFails(l, yes) PROVE PriceInv'
    <2> DEFINE s == [load[l] EXCEPT !.tries = load[l].tries + 1]
               t == [load[l] EXCEPT !.at = "stale"]
               again == yes /\ load[l].tries + 1 < FetchTries
    <2>1. load' = [load EXCEPT ![l] = s] \/ load' = [load EXCEPT ![l] = t]
      <3>1. load' = [load EXCEPT ![l] = IF yes /\ @.tries + 1 < FetchTries
                                        THEN [@ EXCEPT !.tries = load[l].tries + 1] ELSE [@ EXCEPT !.at = "stale"]]
        BY <1>7 DEF FetchFails
      <3>2. load' = [load EXCEPT ![l] = IF again THEN s ELSE t]
        BY <1>1, <3>1
      <3>3. QED
        BY <3>2
    <2>2. s \in Loads /\ LoadTells(s) /\ t \in Loads /\ LoadTells(t)
      BY <1>1 DEF Loads, LoadTells
    <2>3. QED
      BY <1>2, <1>7, <2>1, <2>2, OneLoadMoves DEF FetchFails
  <1>8. ASSUME NEW yes \in BOOLEAN, FetchPrices(l, yes) PROVE PriceInv'
    <2> DEFINE r == [load[l] EXCEPT !.at = "loaded", !.origin = "network", !.warned = FALSE,
                                    !.of = load[l].url, !.age = 0]
    <2>1. load' = [load EXCEPT ![l] = r] /\ UNCHANGED <<day, ahead>>
      BY <1>8 DEF FetchPrices
    <2>2. r \in Loads /\ LoadTells(r)
      <3>1. load[l].at = "network"
        BY <1>8 DEF FetchPrices
      <3>2. load[l].url \in Urls
        BY <1>1 DEF Loads
      <3>4. PICK now \in Int : now = 0
        OBVIOUS
      <3> DEFINE q == [load[l] EXCEPT !.at = "loaded", !.origin = "network", !.warned = FALSE,
                                      !.of = load[l].url, !.age = now]
      <3>5. /\ q \in Loads /\ q.of = load[l].url /\ q.url = load[l].url /\ q.age = now
            /\ q.at = "loaded" /\ q.offline = load[l].offline
        BY <1>1, <3>2 DEF Loads
      <3>6. r = q
        BY <3>4
      <3> HIDE DEF r, q
      <3>3. 0 <= PriceTtl + MaxAhead /\ ~load[l].offline
        BY <1>1, <3>1 DEF LoadTells
      <3>7. QED
        BY <3>3, <3>4, <3>5, <3>6 DEF LoadTells
    <2>3. load[l].url \in Urls /\ day + ahead \in Int /\ day + ahead <= day + MaxAhead
      BY <1>1 DEF Loads
    <2>4. FileTells(priceFile')
      <3>1. CASE yes
        <4>1. priceFile' = [url |-> load[l].url, current |-> TRUE, priced |-> TRUE,
                            fetchedAt |-> day + ahead, truly |-> day]
          BY <1>8, <3>1 DEF FetchPrices, Now
        <4>2. /\ priceFile' \in Files /\ priceFile'.fetchedAt = day + ahead
              /\ priceFile'.truly = day
          BY <1>1, <2>3, <4>1 DEF Files
        <4>3. QED
          BY <2>3, <4>2 DEF FileTells
      <3>2. CASE ~yes
        BY <1>1, <1>8, <3>2 DEF FetchPrices
      <3>3. QED
        BY <3>1, <3>2
    <2>5. QED
      BY <2>1, <2>2, <2>4, OneLoadMoves
  <1>9. QED
    BY <1>3, <1>4, <1>5, <1>6, <1>7, <1>8

(* The inductive invariant of the loads.                                      *)
THEOREM PriceInvariant == PriceSpec => []PriceInv
  <1>1. ASSUME PriceInv, [PriceNext]_priceVars PROVE PriceInv'
    <2>1. CASE DayPasses \/ ClockCorrected \/ CacheLost
      <3>1. load' = load /\ day' \in Nat /\ ahead' \in 0 .. MaxAhead
        BY <1>1, <2>1, PricingLoadAssumption DEF PriceInv, DayPasses, ClockCorrected, CacheLost
      <3>2. priceFile' = priceFile \/ priceFile' = Unreadable
        BY <2>1 DEF DayPasses, ClockCorrected, CacheLost
      <3>3. FileTells(priceFile')
        BY <1>1, <3>2, UnreadableTells DEF PriceInv
      <3>4. (\A k \in Loaders : LoadTells(load[k]))'
        BY <1>1, <3>1 DEF PriceInv, LoadTells
      <3>5. QED
        BY <1>1, <3>1, <3>3, <3>4 DEF PriceInv
    <2>2. CASE UNCHANGED priceVars
      BY <1>1, <2>2 DEF PriceInv, FileTells, LoadTells, priceVars
    <2>3. QED
      BY <1>1, <2>1, <2>2, LoadStepKeepsInv DEF PriceNext
  <1>2. QED
    BY PriceInitHolds, <1>1, PTL DEF PriceSpec

(* Whoever replaces the cache meanwhile, a load serves prices of its own URL;
   without a warning only those fetched within the interval, lengthened at most
   by what the clock was ahead; it never fails for the default URL, and offline
   it never asks the network.                                                 *)
THEOREM PricesAreAsTold == PriceSpec => []PricesAsTold
  <1>1. PriceInv => PricesAsTold
    BY DEF PriceInv, PricesAsTold, LoadTells
  <1>2. QED
    BY PriceInvariant, <1>1, PTL

----------------------------------------------------------------------------
(* LocalDays, for days and hours of any length, and any offsets of up to a day. *)

LEMMA TimesNat == ASSUME NEW k \in Nat, NEW n \in Nat PROVE k * n \in Nat
  OBVIOUS

LEMMA Spread ==
  ASSUME NEW x \in Int, NEW k \in Int, NEW n \in Int
  PROVE  (x + 1 + k) * n = x * n + n + k * n
  OBVIOUS

LEMMA Apart ==
  ASSUME NEW n \in Nat, NEW x \in Int, NEW y \in Int, x < y
  PROVE  x * n + n <= y * n
  <1>1. PICK k \in Nat : k = y - x - 1
    OBVIOUS
  <1>2. y * n = x * n + n + k * n
    <2>1. y = x + 1 + k
      BY <1>1
    <2>2. QED
      BY <2>1, Spread
  <1>3. k * n \in Nat /\ x * n \in Int /\ y * n \in Int
    BY TimesNat
  <1>4. QED
    BY <1>2, <1>3

LEMMA DivSplits ==
  ASSUME NEW n \in Nat \ {0}, NEW a \in Int
  PROVE  /\ a \div n \in Int /\ (a \div n) * n <= a /\ a < (a \div n) * n + n
         /\ (a \div n) * n \in Int
  <1>1. a \div n \in Int /\ a % n \in 0 .. n - 1
    OBVIOUS
  <1>2. a = (a \div n) * n + (a % n)
    OBVIOUS
  <1>3. QED
    BY <1>1, <1>2

LEMMA DivIs ==
  ASSUME NEW n \in Nat \ {0}, NEW a \in Int, NEW d \in Int, d * n <= a, a < d * n + n
  PROVE  a \div n = d
  <1>1. PICK q \in Int : q = a \div n /\ q * n <= a /\ a < q * n + n
    BY DivSplits
  <1>2. q * n \in Int /\ d * n \in Int
    OBVIOUS
  <1>3. CASE q < d
    BY <1>1, <1>2, <1>3, Apart
  <1>4. CASE d < q
    BY <1>1, <1>2, <1>4, Apart
  <1>5. QED
    BY <1>1, <1>3, <1>4

LEMMA DivMonotone ==
  ASSUME NEW n \in Nat \ {0}, NEW a \in Nat, NEW b \in Nat, a <= b
  PROVE  a \div n \in 0 .. b \div n
  <1>1. PICK q \in Int : q = a \div n /\ q * n <= a /\ a < q * n + n
    BY DivSplits
  <1>2. PICK p \in Int : p = b \div n /\ p * n <= b /\ b < p * n + n
    BY DivSplits
  <1>3. q * n \in Int /\ p * n \in Int /\ 0 * n = 0
    OBVIOUS
  <1>4. ~(p < q)
    BY <1>1, <1>2, <1>3, Apart
  <1>5. ~(q < 0)
    BY <1>1, <1>3, Apart
  <1>6. QED
    BY <1>1, <1>2, <1>4, <1>5

(* A window is what its times have: one offset, and the day that it gives.    *)
Windows == [first : Int, end : Int, offset : Offsets, day : Int]
WindowHolds(w) ==
    w \in Windows /\ \A t \in Ticks : Covers(w, t) => OffsetAt(t) = w.offset /\ DayOf(t, w.offset) = w.day

DaysInv ==
    /\ zone \in [before : Offsets, after : Offsets, change : Ticks]
    /\ lastWindow # NoWindow => WindowHolds(lastWindow)
    /\ byDay \in [DayIndexes -> Windows \cup {NoWindow}]
    /\ \A d \in DayIndexes : byDay[d] # NoWindow => WindowHolds(byDay[d])
    /\ DayIsLocal

LEMMA ZoneIs ==
  ASSUME DaysInv, NEW t \in Int
  PROVE  /\ zone.before \in Offsets /\ zone.after \in Offsets /\ zone.change \in Int
         /\ OffsetAt(t) \in Offsets /\ OffsetAt(t) \in 0 .. DayTicks
         /\ DayTicks \in Nat \ {0} /\ MaxTick \in Nat
  <1>1. /\ DayTicks \in Nat \ {0} /\ MaxTick \in Nat /\ Offsets \subseteq 0 .. DayTicks
        /\ Ticks \subseteq Int
    BY DaysAssumption DEF Ticks
  <1>2. zone.before \in Offsets /\ zone.after \in Offsets /\ zone.change \in Int
    BY <1>1 DEF DaysInv
  <1>3. OffsetAt(t) \in Offsets
    BY <1>2 DEF OffsetAt
  <1>4. QED
    BY <1>1, <1>2, <1>3

(* An offset at both ends of a window is the offset of all its times: a zone
   changes it once at most.                                                   *)
LEMMA StableHolds ==
  ASSUME DaysInv, NEW first \in Int, NEW end \in Int, NEW t \in Int, first <= t, t < end,
         NEW offset, Stable(first, end, offset)
  PROVE  OffsetAt(t) = offset
  <1>1. zone.change \in Int
    BY ZoneIs
  <1>2. QED
    BY <1>1 DEF Stable, OffsetAt

LEMMA WindowIs ==
  ASSUME NEW first \in Int, NEW end \in Int, NEW offset \in Offsets, NEW d \in Int
  PROVE  \E w \in Windows : w = [first |-> first, end |-> end, offset |-> offset, day |-> d]
  BY DEF Windows

LEMMA NewWindowHolds ==
  ASSUME DaysInv, NEW t \in Ticks
  PROVE  /\ WindowHolds(NewWindow(t)) /\ NewWindow(t).offset = OffsetAt(t)
         /\ NewWindow(t).day = DayOf(t, OffsetAt(t))
  <1> DEFINE offset == OffsetAt(t)
             d == DayOf(t, offset)
             first == d * DayTicks - offset
  <1>1. /\ t \in Int /\ offset \in Int /\ offset \in Offsets /\ DayTicks \in Nat \ {0}
        /\ d \in Int /\ first \in Int
    <2>1. t \in Int /\ offset \in Offsets /\ offset \in 0 .. DayTicks /\ DayTicks \in Nat \ {0}
      BY ZoneIs, DaysAssumption DEF Ticks
    <2>2. d \in Int
      BY <2>1, DivSplits DEF DayOf
    <2> HIDE DEF offset, d
    <2>3. QED
      BY <2>1, <2>2
  <1>2. CASE Stable(first, first + DayTicks, offset)
    <2>1. PICK w \in Windows :
              w = [first |-> first, end |-> first + DayTicks, offset |-> offset, day |-> d]
      <3>1. first + DayTicks \in Int
        BY <1>1
      <3> HIDE DEF first, offset, d
      <3>2. QED
        BY <1>1, <3>1, WindowIs
    <2>2. NewWindow(t) = w
      BY <1>2, <2>1 DEF NewWindow
    <2>3. ASSUME NEW u \in Ticks, Covers(w, u) PROVE OffsetAt(u) = offset /\ DayOf(u, offset) = d
      <3>1. u \in Int /\ first <= u /\ u < first + DayTicks
        BY <2>1, <2>3, DaysAssumption DEF Covers, Ticks
      <3>2. OffsetAt(u) = offset
        BY <1>1, <1>2, <3>1, StableHolds
      <3> HIDE DEF offset, d
      <3>3. d * DayTicks \in Int
        BY <1>1
      <3>4. d * DayTicks <= u + offset /\ u + offset < d * DayTicks + DayTicks /\ u + offset \in Int
        BY <1>1, <3>1, <3>3
      <3>5. DayOf(u, offset) = d
        BY <1>1, <3>4, DivIs DEF DayOf
      <3>6. QED
        BY <3>2, <3>5
    <2>4. w.offset = offset /\ w.day = d
      BY <2>1
    <2>5. QED
      BY <2>2, <2>3, <2>4 DEF WindowHolds
  <1>3. CASE ~Stable(first, first + DayTicks, offset)
    <2>1. PICK w \in Windows : w = [first |-> t, end |-> t + 1, offset |-> offset, day |-> d]
      <3>1. t + 1 \in Int
        BY <1>1
      <3> HIDE DEF offset, d
      <3>2. QED
        BY <1>1, <3>1, WindowIs
    <2>2. NewWindow(t) = w
      BY <1>3, <2>1 DEF NewWindow
    <2>3. ASSUME NEW u \in Ticks, Covers(w, u) PROVE u = t
      BY <1>1, <2>1, <2>3, DaysAssumption DEF Covers, Ticks
    <2>4. w.offset = offset /\ w.day = d
      BY <2>1
    <2>5. QED
      BY <2>2, <2>3, <2>4 DEF WindowHolds
  <1>4. QED
    BY <1>2, <1>3

(* What is answered from a window that holds is what the zone says.           *)
LEMMA AnswerIsLocal ==
  ASSUME NEW t \in Ticks, NEW w, w.offset = OffsetAt(t), w.day = DayOf(t, OffsetAt(t)),
         Answer(t, w), UNCHANGED zone
  PROVE  DayIsLocal'
  <1>1. looked' = [at |-> t, day |-> DayOf(t, OffsetAt(t)), hour |-> HourOf(t, OffsetAt(t)),
                   offset |-> OffsetAt(t)]
    BY DEF Answer
  <1>2. zone' = zone
    OBVIOUS
  <1>3. \A u : (OffsetAt(u))' = IF u < zone.change THEN zone.before ELSE zone.after
    BY <1>2 DEF OffsetAt
  <1>4. QED
    BY <1>1, <1>2 DEF DayIsLocal, OffsetAt

LEMMA DayStepKeepsInv ==
  ASSUME DaysInv, NEW t \in Ticks, LookUpLast(t) \/ LookUpDay(t) \/ LookUpNew(t)
  PROVE  DaysInv'
  <1>1. zone' = zone /\ zone \in [before : Offsets, after : Offsets, change : Ticks]
    BY DEF DaysInv, LookUpLast, LookUpDay, LookUpNew
  <1>2. \A w : WindowHolds(w) => WindowHolds(w)'
    BY <1>1 DEF WindowHolds, OffsetAt
  <1>3. DayOf(t, OffsetAt(t)) \in DayIndexes
    <2>1. t \in 0 .. MaxTick /\ OffsetAt(t) \in 0 .. DayTicks /\ DayTicks \in Nat \ {0} /\ MaxTick \in Nat
      BY ZoneIs, DaysAssumption DEF Ticks
    <2>2. PICK s \in Nat : s = t + OffsetAt(t)
      BY <2>1
    <2>3. s <= MaxTick + DayTicks /\ MaxTick + DayTicks \in Nat
      BY <2>1, <2>2
    <2>4. QED
      BY <2>1, <2>2, <2>3, DivMonotone DEF DayOf, DayIndexes
  <1>4. CASE LookUpLast(t)
    <2>1. lastWindow # NoWindow /\ WindowHolds(lastWindow) /\ Covers(lastWindow, t)
      BY <1>4 DEF DaysInv, LookUpLast, Covers
    <2>2. lastWindow.offset = OffsetAt(t) /\ lastWindow.day = DayOf(t, OffsetAt(t))
      BY <2>1 DEF WindowHolds
    <2>3. DayIsLocal'
      BY <1>1, <1>4, <2>2, AnswerIsLocal DEF LookUpLast
    <2>4. QED
      BY <1>1, <1>2, <1>4, <2>3 DEF DaysInv, LookUpLast
  <1>5. CASE LookUpDay(t)
    <2> DEFINE w == byDay[DayOf(t, OffsetAt(t))]
    <2>1. WindowHolds(w) /\ Covers(w, t) /\ w # NoWindow
      BY <1>3, <1>5 DEF DaysInv, LookUpDay, Covers
    <2>2. w.offset = OffsetAt(t) /\ w.day = DayOf(t, OffsetAt(t))
      BY <2>1 DEF WindowHolds
    <2>3. DayIsLocal'
      BY <1>1, <1>5, <2>2, AnswerIsLocal DEF LookUpDay
    <2>4. lastWindow' = w /\ byDay' = byDay
      BY <1>5 DEF LookUpDay
    <2> HIDE DEF w
    <2>5. QED
      BY <1>1, <1>2, <2>1, <2>3, <2>4 DEF DaysInv
  <1>6. CASE LookUpNew(t)
    <2> DEFINE w == NewWindow(t)
               n == DayOf(t, OffsetAt(t))
    <2>1. WindowHolds(w) /\ w.offset = OffsetAt(t) /\ w.day = DayOf(t, OffsetAt(t))
      BY NewWindowHolds
    <2>2. DayIsLocal'
      BY <1>1, <1>6, <2>1, AnswerIsLocal DEF LookUpNew
    <2>3. lastWindow' = w /\ byDay' = [byDay EXCEPT ![n] = w]
      BY <1>6 DEF LookUpNew
    <2> HIDE DEF w, n
    <2>4. w \in Windows
      BY <2>1 DEF WindowHolds
    <2>5. /\ byDay' \in [DayIndexes -> Windows \cup {NoWindow}]
          /\ \A d \in DayIndexes : byDay'[d] = w \/ byDay'[d] = byDay[d]
      BY <2>3, <2>4 DEF DaysInv
    <2>6. QED
      BY <1>1, <1>2, <2>1, <2>2, <2>3, <2>5 DEF DaysInv
  <1>7. QED
    BY <1>4, <1>5, <1>6

(* The inductive invariant of the lookups.                                    *)
THEOREM DaysInvariant == DaysSpec => []DaysInv
  <1>1. DaysInit => DaysInv
    BY DEF DaysInit, DaysInv, DayIsLocal
  <1>2. DaysInv /\ [DaysNext]_daysVars => DaysInv'
    <2> SUFFICES ASSUME DaysInv, [DaysNext]_daysVars PROVE DaysInv'
      OBVIOUS
    <2>1. CASE UNCHANGED daysVars
      BY <2>1 DEF daysVars, DaysInv, WindowHolds, DayIsLocal, OffsetAt
    <2>2. QED
      BY <2>1, DayStepKeepsInv DEF DaysNext
  <1>3. QED
    BY <1>1, <1>2, PTL DEF DaysSpec

(* Whatever was looked up before, an event falls on the local day and hour that
   the zone's offset at its time gives: so two reports never count it on two
   days (getCachedLocalDateWindow).                                           *)
THEOREM DaysAreLocal == DaysSpec => []DayIsLocal
  <1>1. DaysInv => DayIsLocal
    BY DEF DaysInv
  <1>2. QED
    BY DaysInvariant, <1>1, PTL

----------------------------------------------------------------------------
(* Projects, for any directories, worktrees, runs and sessions.               *)

(* The directories at or above a key have lengths up to its own.              *)
LEMMA AboveAre ==
  ASSUME NEW key \in Seq(Nat), NEW d \in AtOrAbove(key)
  PROVE  Len(d) \in 0 .. Len(key)
  <1>1. PICK n \in 1 .. Len(key) : d = SubSeq(key, 1, n)
    BY DEF AtOrAbove
  <1>2. n \in Nat /\ n <= Len(key) /\ Len(d) = n
    BY <1>1
  <1>3. QED
    BY <1>2

LEMMA AboveTyped ==
  ASSUME NEW key \in Seq(Nat), NEW d \in AtOrAbove(key)
  PROVE  d \in Seq(Nat)
  BY DEF AtOrAbove

(* Of directories at or above a key there is a nearest one.                   *)
LEMMA NearestIs ==
  ASSUME NEW key \in Seq(Nat), NEW S, S \subseteq AtOrAbove(key), S # {}
  PROVE  Nearest(S) \in S /\ \A d \in S : Len(d) <= Len(Nearest(S))
  <1> DEFINE Short(d) == Len(key) - Len(d)
             T == {Short(d) : d \in S}
  <1>1. \A d \in S : Len(d) \in 0 .. Len(key) /\ Len(key) \in Nat
    BY AboveAre
  <1>2. \A d \in S : Short(d) \in Nat
    BY <1>1
  <1>3. T \subseteq Nat /\ T # {}
    BY <1>2
  <1>4. PICK x \in T : \A y \in T : x <= y
    BY <1>3, LeastNatural
  <1>5. PICK k \in S : x = Short(k)
    BY <1>4
  <1>6. \A d \in S : Len(d) <= Len(k)
    <2> TAKE d \in S
    <2>1. Short(k) <= Short(d)
      BY <1>4, <1>5
    <2>2. QED
      BY <1>1, <2>1
  <1>7. QED
    BY <1>5, <1>6 DEF Nearest

(* Roots that are read, recorded or found: each is a git directory, with the
   repository it was of.                                                      *)
Roots == UNION {[D -> RepoDirs] : D \in SUBSET GitDirs}
Credits == [root : GitDirs, repo : RepoDirs]

(* A key that was credited still has the root it was credited through, of the
   same repository, among the recorded ones.                                  *)
CreditHolds(k) ==
    credited[k] # NoPath =>
        /\ credited[k].root \in DOMAIN recorded \cap AtOrAbove(k)
        /\ recorded[credited[k].root] = credited[k].repo

(* What is logged is of the directories that sessions run in.                 *)
LogTyped == logged \in Seq([session : Nat, at : Nat, root : WorkDirs])

ProjectInv ==
    /\ disk \in [GitDirs -> RepoDirs \cup {NoPath}]
    /\ LogTyped
    /\ recorded \in Roots
    /\ rootsRead \in [ProjectRuns -> Roots \cup {NoPath}]
    /\ credited \in [WorkDirs -> Credits \cup {NoPath}]
    /\ \A k \in WorkDirs : CreditHolds(k)

LEMMA RootsAre ==
  ASSUME NEW roots
  PROVE  roots \in Roots <=>
            /\ roots = [d \in DOMAIN roots |-> roots[d]]
            /\ DOMAIN roots \subseteq GitDirs /\ \A d \in DOMAIN roots : roots[d] \in RepoDirs
  <1>1. ASSUME roots \in Roots
        PROVE  /\ roots = [d \in DOMAIN roots |-> roots[d]]
               /\ DOMAIN roots \subseteq GitDirs /\ \A d \in DOMAIN roots : roots[d] \in RepoDirs
    <2>1. PICK D \in SUBSET GitDirs : roots \in [D -> RepoDirs]
      BY <1>1 DEF Roots
    <2>2. QED
      BY <2>1
  <1>2. ASSUME roots = [d \in DOMAIN roots |-> roots[d]],
               DOMAIN roots \subseteq GitDirs, \A d \in DOMAIN roots : roots[d] \in RepoDirs
        PROVE  roots \in Roots
    <2>1. roots \in [DOMAIN roots -> RepoDirs] /\ DOMAIN roots \in SUBSET GitDirs
      BY <1>2
    <2>2. QED
      BY <2>1 DEF Roots
  <1>3. QED
    BY <1>1, <1>2

LEMMA FilledIs ==
  ASSUME NEW first \in Roots, NEW second \in Roots
  PROVE  /\ FilledFrom(first, second) \in Roots
         /\ DOMAIN FilledFrom(first, second) = DOMAIN first \cup DOMAIN second
         /\ \A d \in DOMAIN first : FilledFrom(first, second)[d] = first[d]
         /\ \A d \in DOMAIN second : d \notin DOMAIN first => FilledFrom(first, second)[d] = second[d]
  <1> DEFINE both == FilledFrom(first, second)
  <1>1. /\ DOMAIN both = DOMAIN first \cup DOMAIN second
        /\ both = [d \in DOMAIN both |-> both[d]]
        /\ \A d \in DOMAIN both : both[d] = IF d \in DOMAIN first THEN first[d] ELSE second[d]
    BY DEF FilledFrom
  <1>2. /\ DOMAIN first \subseteq GitDirs /\ \A d \in DOMAIN first : first[d] \in RepoDirs
        /\ DOMAIN second \subseteq GitDirs /\ \A d \in DOMAIN second : second[d] \in RepoDirs
    BY RootsAre
  <1> HIDE DEF both
  <1>3. both \in Roots
    BY <1>1, <1>2, RootsAre
  <1>4. QED
    BY <1>1, <1>3 DEF both

LEMMA OnDiskIs ==
  ASSUME ProjectInv
  PROVE  OnDisk \subseteq GitDirs /\ \A d \in OnDisk : disk[d] \in RepoDirs
  BY DEF ProjectInv, OnDisk, Readable

LEMMA LocatedIs ==
  ASSUME ProjectInv, NEW key \in Seq(Nat), Located(key) # NoPath
  PROVE  Located(key) \in OnDisk
  <1> DEFINE found == OnDisk \cap AtOrAbove(key)
  <1>1. found # {} /\ Located(key) = Nearest(found)
    BY DEF Located
  <1>2. Nearest(found) \in found
    BY <1>1, NearestIs
  <1>3. QED
    BY <1>1, <1>2

LEMMA NewRootsAre ==
  ASSUME ProjectInv, NEW keys, keys \subseteq Seq(Nat), NEW roots
  PROVE  NewRoots(keys, roots) \in Roots
  <1> DEFINE found == {Located(k) : k \in keys} \ ({NoPath} \cup DOMAIN roots)
             new == NewRoots(keys, roots)
  <1>1. found \subseteq OnDisk
    BY LocatedIs
  <1>2. new = [d \in found |-> disk[d]]
    BY DEF NewRoots
  <1>3. new \in [found -> RepoDirs] /\ found \in SUBSET GitDirs
    BY <1>1, <1>2, OnDiskIs
  <1> HIDE DEF found, new
  <1>4. new \in Roots
    BY <1>3 DEF Roots
  <1>5. QED
    BY <1>4 DEF new

(* The root of a key is a git directory at or above it, the nearest of the
   roots and of the disk, and of its own repository (resolve).                *)
LEMMA RootOfIs ==
  ASSUME ProjectInv, NEW key \in Seq(Nat), NEW roots \in Roots
  PROVE  /\ RootOf(key, roots) = NoPath \/ RootOf(key, roots) \in Credits
         /\ RootOf(key, roots) # NoPath => RootOf(key, roots).root \in AtOrAbove(key)
         /\ \A d \in DOMAIN roots \cap AtOrAbove(key) :
              /\ RootOf(key, roots) # NoPath
              /\ Len(RootOf(key, roots).root) >= Len(d)
              /\ RootOf(key, roots).root = d => RootOf(key, roots).repo = roots[d]
  <1> DEFINE above == (DOMAIN roots \cup OnDisk) \cap AtOrAbove(key)
             root == Nearest(above)
             repo == IF root \in DOMAIN roots THEN roots[root] ELSE disk[root]
             found == RootOf(key, roots)
  <1>1. /\ DOMAIN roots \subseteq GitDirs /\ \A d \in DOMAIN roots : roots[d] \in RepoDirs
        /\ OnDisk \subseteq GitDirs /\ \A d \in OnDisk : disk[d] \in RepoDirs
    BY RootsAre, OnDiskIs
  <1>2. CASE above = {}
    <2>1. found = NoPath
      BY <1>2 DEF RootOf
    <2>2. QED
      BY <1>2, <2>1
  <1>3. CASE above # {}
    <2>1. root \in above /\ \A d \in above : Len(d) <= Len(root)
      BY <1>3, NearestIs
    <2>2. found = [root |-> root, repo |-> repo]
      BY <1>3 DEF RootOf
    <2>3. root \in GitDirs /\ repo \in RepoDirs /\ root \in AtOrAbove(key)
      BY <1>1, <2>1
    <2>4. \A d \in DOMAIN roots \cap AtOrAbove(key) : Len(d) <= Len(root) /\ (root = d => repo = roots[d])
      BY <2>1
    <2>5. \A d \in AtOrAbove(key) : Len(d) \in Nat
      BY AboveAre
    <2> HIDE DEF root, repo, found
    <2>6. found \in Credits /\ found.root = root /\ found.repo = repo /\ found # NoPath
      BY <2>2, <2>3, ProjectsAssumption DEF Credits
    <2>7. QED
      BY <2>3, <2>4, <2>5, <2>6 DEF found
  <1>4. QED
    BY <1>2, <1>3

(* An element of a sequence, and the rest of it from there on.                *)
LEMMA SeqParts ==
  ASSUME NEW S, NEW s \in Seq(S), NEW a \in 1 .. Len(s)
  PROVE  s[a] \in S /\ SubSeq(s, a, Len(s)) \in Seq(S)
  BY SMTT(30)

(* What events are attributed to is at or above a directory that sessions ran in. *)
LEMMA KeysAre ==
  ASSUME LogTyped, NEW first \in DOMAIN logged, NEW events, NEW e \in ToSet(Attributed(events)),
         events = SubSeq(logged, first, Len(logged))
  PROVE  e.root \in Seq(Nat)
  <1> DEFINE Logged == [session : Nat, at : Nat, root : WorkDirs]
  <1>1. events \in Seq(Logged)
    <2>1. logged \in Seq(Logged) /\ first \in 1 .. Len(logged)
      BY DEF LogTyped
    <2> HIDE DEF Logged
    <2>2. QED
      BY <2>1, SeqParts
  <1>2. PICK i \in DOMAIN events : e = [events[i] EXCEPT !.root = SessionKey(events, events[i])]
    BY <1>1 DEF ToSet, Attributed
  <1>3. PICK d \in Logged : d = events[i] /\ d \in ToSet(events) /\ d.root \in Seq(Nat)
    <2>1. events[i] \in Logged
      <3> HIDE DEF Logged
      <3>1. i \in 1 .. Len(events)
        BY <1>1, <1>2
      <3>2. QED
        BY <1>1, <3>1, SeqParts
    <2>2. events[i] \in ToSet(events)
      BY <1>2 DEF ToSet
    <2>3. events[i].root \in Seq(Nat)
      BY <2>1, ProjectsAssumption
    <2>4. QED
      BY <2>1, <2>2, <2>3
  <1>4. e.root = SessionKey(events, d)
    BY <1>2, <1>3
  <1> DEFINE root == SessionRoot(events, d.session)
             starts == {SessionRoot(events, f.session) : f \in ToSet(events)}
             between == {k \in AtOrAbove(d.root) : Len(k) >= Len(root)}
  <1>5. CASE SessionKey(events, d) = d.root
    BY <1>3, <1>4, <1>5
  <1>6. CASE root \in AtOrAbove(d.root) /\ SessionKey(events, d) = Nearest(between \cap starts)
    <2>1. Len(root) \in Nat
      BY <1>3, <1>6, AboveAre
    <2>2. root \in starts
      BY <1>3
    <2>3. root \in between
      BY <1>6, <2>1
    <2>4. Nearest(between \cap starts) \in AtOrAbove(d.root)
      <3>1. between \cap starts \subseteq AtOrAbove(d.root) /\ between \cap starts # {}
        BY <2>2, <2>3
      <3> HIDE DEF between, starts
      <3>2. QED
        BY <1>3, <3>1, NearestIs
    <2>5. QED
      BY <1>3, <1>4, <1>6, <2>4, AboveTyped
  <1>7. SessionKey(events, d) = d.root
          \/ (root \in AtOrAbove(d.root) /\ SessionKey(events, d) = Nearest(between \cap starts))
    BY DEF SessionKey
  <1>8. QED
    BY <1>5, <1>6, <1>7

(* A root that is recorded keeps its record, whatever is recorded after it.   *)
LEMMA AttributeKeepsInv ==
  ASSUME ProjectInv, NEW r \in ProjectRuns, NEW first \in DOMAIN logged, Attribute(r, first)
  PROVE  ProjectInv'
  <1> DEFINE events == Attributed(SubSeq(logged, first, Len(logged)))
             keys == {e.root : e \in ToSet(events)}
             new == NewRoots(keys, rootsRead[r])
             roots == FilledFrom(rootsRead[r], new)
             store == RecordRoots(new)
             Found(k) == RootOf(k, roots)
             Credited(k) == /\ k \in keys /\ credited[k] = NoPath /\ Found(k) # NoPath
                            /\ Found(k).root \in DOMAIN store /\ store[Found(k).root] = Found(k).repo
  <1>1. /\ rootsRead[r] \in Roots /\ recorded \in Roots /\ WorkDirs \subseteq Seq(Nat)
        /\ rootsRead \in [ProjectRuns -> Roots \cup {NoPath}]
    BY ProjectsAssumption DEF Attribute, ProjectInv
  <1>2. new \in Roots
    <2>1. keys \subseteq Seq(Nat)
      BY KeysAre DEF ProjectInv
    <2> HIDE DEF keys
    <2>2. QED
      BY <2>1, NewRootsAre
  <1>3. /\ recorded' = store
        /\ credited' = [k \in WorkDirs |-> IF Credited(k) THEN Found(k) ELSE credited[k]]
        /\ rootsRead' = [rootsRead EXCEPT ![r] = NoPath]
        /\ UNCHANGED <<disk, gitSteps, logged>>
    BY DEF Attribute
  <1> HIDE DEF new
  <1>4. roots \in Roots
    BY <1>1, <1>2, FilledIs
  <1>5. /\ store \in Roots /\ DOMAIN recorded \subseteq DOMAIN store
        /\ \A d \in DOMAIN recorded : store[d] = recorded[d]
    BY <1>1, <1>2, FilledIs DEF RecordRoots
  <1> HIDE DEF roots, store, keys
  <1>6. ASSUME NEW k \in WorkDirs
        PROVE  credited'[k] \in Credits \cup {NoPath} /\ CreditHolds(k)'
    <2>1. k \in Seq(Nat) /\ credited[k] \in Credits \cup {NoPath} /\ CreditHolds(k)
      BY <1>1, <1>6 DEF ProjectInv
    <2>2. CASE Credited(k)
      <3>1. credited'[k] = Found(k)
        BY <1>3, <2>2
      <3>2. Found(k) \in Credits /\ Found(k).root \in AtOrAbove(k)
        BY <1>4, <2>1, <2>2, RootOfIs
      <3>3. Found(k).root \in DOMAIN store /\ store[Found(k).root] = Found(k).repo
        BY <2>2
      <3>4. QED
        BY <1>3, <3>1, <3>2, <3>3 DEF CreditHolds
    <2>3. CASE ~Credited(k)
      <3>1. credited'[k] = credited[k] /\ recorded' = store
        BY <1>3, <2>3
      <3>2. QED
        BY <1>5, <2>1, <3>1 DEF CreditHolds
    <2>4. QED
      BY <2>2, <2>3
  <1>7. credited' \in [WorkDirs -> Credits \cup {NoPath}]
    <2>1. credited' = [k \in WorkDirs |-> credited'[k]]
      BY <1>3
    <2>2. QED
      BY <1>6, <2>1
  <1>8. /\ disk' \in [GitDirs -> RepoDirs \cup {NoPath}] /\ recorded' \in Roots
        /\ rootsRead' \in [ProjectRuns -> Roots \cup {NoPath}] /\ LogTyped'
    BY <1>1, <1>3, <1>5 DEF ProjectInv, LogTyped
  <1>9. QED
    BY <1>6, <1>7, <1>8 DEF ProjectInv

LEMMA WorkKeepsLog ==
  ASSUME LogTyped, NEW dir \in WorkDirs, NEW newSession \in BOOLEAN, Work(dir, newSession)
  PROVE  LogTyped'
  <1> DEFINE Logged == [session : Nat, at : Nat, root : WorkDirs]
             last == IF logged = <<>> THEN 0 ELSE Last(logged).session
             e == [session |-> IF newSession THEN last + 1 ELSE last, at |-> Len(logged), root |-> dir]
  <1>1. logged \in Seq(Logged) /\ Len(logged) \in Nat
    BY DEF LogTyped
  <1>2. last \in Nat
    <2>1. CASE logged = <<>>
      BY <2>1
    <2>2. CASE logged # <<>>
      <3>1. Len(logged) \in 1 .. Len(logged)
        BY <1>1, <2>2
      <3>2. logged[Len(logged)] \in Logged
        <4>1. logged \in Seq(Logged)
          BY <1>1
        <4> HIDE DEF Logged
        <4>2. QED
          BY <3>1, <4>1, SeqParts
      <3>3. QED
        BY <2>2, <3>2 DEF Last
    <2>3. QED
      BY <2>1, <2>2
  <1>3. logged' = Append(logged, e)
    BY DEF Work
  <1> HIDE DEF last
  <1>4. e \in Logged
    BY <1>1, <1>2
  <1>5. QED
    BY <1>1, <1>3, <1>4 DEF LogTyped

(* The inductive invariant of the projects.                                   *)
THEOREM ProjectInvariant == ProjectsSpec => []ProjectInv
  <1>1. ProjectsInit => ProjectInv
    <2> SUFFICES ASSUME ProjectsInit PROVE ProjectInv
      OBVIOUS
    <2>1. disk \in [GitDirs -> RepoDirs \cup {NoPath}] /\ LogTyped
      BY DEF ProjectsInit, LogTyped
    <2>2. recorded \in Roots
      <3>1. recorded = <<>> /\ DOMAIN recorded = {} /\ recorded = [d \in DOMAIN recorded |-> recorded[d]]
        BY DEF ProjectsInit, NoRoots
      <3>2. QED
        BY <3>1, RootsAre
    <2>3. /\ rootsRead \in [ProjectRuns -> Roots \cup {NoPath}]
          /\ credited \in [WorkDirs -> Credits \cup {NoPath}]
          /\ \A k \in WorkDirs : CreditHolds(k)
      BY DEF ProjectsInit, CreditHolds
    <2>4. QED
      BY <2>1, <2>2, <2>3 DEF ProjectInv
  <1>2. ProjectInv /\ [ProjectsNext]_projectVars => ProjectInv'
    <2> SUFFICES ASSUME ProjectInv, [ProjectsNext]_projectVars PROVE ProjectInv'
      OBVIOUS
    <2>1. ASSUME NEW d \in GitDirs, NEW repo \in RepoDirs \cup {NoPath}, GitStep(d, repo)
          PROVE  ProjectInv'
      BY <2>1 DEF GitStep, ProjectInv, LogTyped, CreditHolds
    <2>2. ASSUME NEW dir \in WorkDirs, NEW newSession \in BOOLEAN, Work(dir, newSession)
          PROVE  ProjectInv'
      <3>1. LogTyped'
        BY <2>2, WorkKeepsLog DEF ProjectInv
      <3>2. UNCHANGED <<disk, recorded, rootsRead, credited>>
        BY <2>2 DEF Work
      <3>3. QED
        BY <3>1, <3>2 DEF ProjectInv, CreditHolds
    <2>3. ASSUME NEW r \in ProjectRuns, ReadGitRoots(r) PROVE ProjectInv'
      BY <2>3 DEF ReadGitRoots, ProjectInv, LogTyped, CreditHolds
    <2>4. CASE UNCHANGED projectVars
      BY <2>4 DEF projectVars, ProjectInv, LogTyped, CreditHolds
    <2>5. QED
      BY <2>1, <2>2, <2>3, <2>4, AttributeKeepsInv DEF ProjectsNext
  <1>3. QED
    BY <1>1, <1>2, PTL DEF ProjectsSpec

(* Usage that a report once counted under the repository of its worktree stays
   there, whatever becomes of the worktree and its path, and whichever runs
   record what they find: only a nearer git root can move it (recordGitRoots). *)
THEOREM CreditsStay == ProjectsSpec => []CreditStays
  <1>1. ProjectInv => CreditStays
    <2> SUFFICES ASSUME ProjectInv, NEW k \in WorkDirs, credited[k] # NoPath
                 PROVE  LET now == RootOf(k, recorded) IN
                        /\ now # NoPath /\ Len(now.root) >= Len(credited[k].root)
                        /\ now.root = credited[k].root => now.repo = credited[k].repo
      BY DEF CreditStays
    <2>1. /\ k \in Seq(Nat) /\ recorded \in Roots
          /\ credited[k].root \in DOMAIN recorded \cap AtOrAbove(k)
          /\ recorded[credited[k].root] = credited[k].repo
      BY ProjectsAssumption DEF ProjectInv, CreditHolds
    <2>2. QED
      BY <2>1, RootOfIs
  <1>2. QED
    BY ProjectInvariant, <1>1, PTL

----------------------------------------------------------------------------
(* Where a directory counts: in its repository, wherever it was used.         *)

(* A directory below another: the other is above it, and the path from there
   on moves along with it (moveProjectKeyBelow).                              *)
LEMMA BelowIs ==
  ASSUME NEW d \in Seq(Nat), d # <<>>, NEW below \in Seq(Nat), NEW target
  PROVE  /\ d \o below \in Seq(Nat) /\ d \in AtOrAbove(d \o below)
         /\ MoveBelow(d \o below, d, target) = target \o below
  <1> DEFINE key == d \o below
  <1>1. d \in Lists(Nat) /\ below \in Lists(Nat) /\ key = Then(d, below)
    BY DEF Lists, Then
  <1>2. PICK n \in Nat, m \in Nat : n = Len(d) /\ m = Len(below)
    BY <1>1, EmptyIs
  <1>3. key \in Seq(Nat) /\ Len(key) = n + m /\ n # 0
    BY <1>1, <1>2, ThenType, EmptyIs DEF Lists
  <1>4. SubSeq(key, 1, n) = d
    <2>1. SubSeq(Then(d, below), 1, n) = SubSeq(d, 1, n)
      <3>1. n \in 0 .. Len(d)
        BY <1>2
      <3>2. QED
        BY <1>1, <3>1, PartsOfThen
    <2>2. SubSeq(d, 1, Len(d)) = d
      BY <1>1, PrefixIs
    <2>3. QED
      BY <1>1, <1>2, <2>1, <2>2
  <1>5. SubSeq(key, n + 1, n + m) = below
    <2>1. SubSeq(Then(d, below), n + 1, n + m) = Then(SubSeq(d, n + 1, n), below)
      <3>1. n \in 0 .. Len(d)
        BY <1>2
      <3>2. SubSeq(Then(d, below), n + 1, Len(d) + Len(below)) = Then(SubSeq(d, n + 1, Len(d)), below)
        BY <1>1, <3>1, PartsOfThen
      <3>3. QED
        BY <1>2, <3>2
    <2>2. SubSeq(d, n + 1, n) = <<>>
      BY <1>1, <1>2, SubSeqEmpty DEF Lists
    <2>3. QED
      BY <1>1, <2>1, <2>2, ThenEmpty
  <1> HIDE DEF key
  <1>6. d \in AtOrAbove(key)
    <2>1. n \in 1 .. Len(key)
      BY <1>3
    <2>2. QED
      BY <1>4, <2>1 DEF AtOrAbove
  <1>7. MoveBelow(key, d, target) = target \o below
    BY <1>2, <1>3, <1>5 DEF MoveBelow
  <1>8. QED
    BY <1>3, <1>6, <1>7 DEF key

(* A key under a git root is found (resolve).                                 *)
LEMMA RootIsFound ==
  ASSUME disk \in [GitDirs -> RepoDirs \cup {NoPath}], NEW roots \in Roots, NEW key \in Seq(Nat),
         NEW d \in (DOMAIN roots \cup OnDisk) \cap AtOrAbove(key)
  PROVE  RootOf(key, roots) # NoPath
  <1> DEFINE above == (DOMAIN roots \cup OnDisk) \cap AtOrAbove(key)
             root == Nearest(above)
             repo == IF root \in DOMAIN roots THEN roots[root] ELSE disk[root]
  <1>1. root \in above
    BY NearestIs
  <1>2. root \in GitDirs /\ repo \in RepoDirs
    <2>1. DOMAIN roots \subseteq GitDirs /\ \A e \in DOMAIN roots : roots[e] \in RepoDirs
      BY RootsAre
    <2>2. OnDisk \subseteq GitDirs /\ \A e \in OnDisk : disk[e] \in RepoDirs
      BY DEF OnDisk, Readable
    <2>3. QED
      BY <1>1, <2>1, <2>2
  <1>3. RootOf(key, roots) = [root |-> root, repo |-> repo]
    BY DEF RootOf
  <1> HIDE DEF root, repo
  <1>4. [root |-> root, repo |-> repo] \in Credits
    BY <1>2 DEF Credits
  <1>5. QED
    BY <1>3, <1>4, ProjectsAssumption DEF Credits

(* Projects, for any roots, remotes, aliases and paths, as long as each        *)
(* repository is still found, on disk or in the record: a directory of a       *)
(* repository, of its worktrees and of its only clone elsewhere is one project *)
(* (resolveWorktreeRoots, moveMachineEventsToLocalRepositories, aliases).      *)
THEOREM ProjectsAreOne ==
  ASSUME disk \in [GitDirs -> RepoDirs \cup {NoPath}], <<>> \notin GitDirs,
         NEW D \in SUBSET GitDirs, NEW roots \in [D -> RepoDirs],
         NEW local, NEW remotes, DOMAIN remotes \subseteq Seq(Nat) \ {<<>>},
         \A repo \in DOMAIN local \cup {roots[d] : d \in D} : repo \in D \cup OnDisk,
         NEW aliases, NEW below \in Seq(Nat)
  PROVE  OneProjectEverywhere(roots, local, remotes, aliases, below)
  <1> DEFINE Plain(repo) == RootOf(repo \o below, roots) \in {NoPath, [root |-> repo, repo |-> repo]}
             Project(repo) == LocalProject(repo \o below, roots, aliases)
  <1>1. roots \in Roots /\ DOMAIN roots = D
    BY DEF Roots
  <1>2. GitDirs \subseteq Seq(Nat) \ {<<>>} /\ OnDisk \subseteq GitDirs
    BY ProjectsAssumption DEF OnDisk
  <1>3. ASSUME NEW repo \in D \cup OnDisk, Plain(repo)
        PROVE  RepositoryKey(repo \o below, roots) = repo \o below
    <2>1. repo \in Seq(Nat) /\ repo # <<>>
      BY <1>2
    <2>2. repo \o below \in Seq(Nat) /\ repo \in AtOrAbove(repo \o below)
      BY <2>1, BelowIs
    <2>3. RootOf(repo \o below, roots) # NoPath
      BY <1>1, <2>2, RootIsFound
    <2>4. RootOf(repo \o below, roots) = [root |-> repo, repo |-> repo]
      BY <1>3, <2>3
    <2>5. QED
      BY <2>3, <2>4 DEF RepositoryKey
  <1>4. ASSUME NEW d \in D, RootOf(d \o below, roots).root = d, Plain(roots[d])
        PROVE  LocalProject(d \o below, roots, aliases) = Project(roots[d])
    <2> DEFINE found == RootOf(d \o below, roots)
    <2>1. d \in Seq(Nat) /\ d # <<>>
      BY <1>2
    <2>2. /\ d \o below \in Seq(Nat) /\ d \in AtOrAbove(d \o below)
          /\ MoveBelow(d \o below, d, roots[d]) = roots[d] \o below
      BY <2>1, BelowIs
    <2>3. found # NoPath
      BY <1>1, <2>2, RootIsFound
    <2>4. found.root = d /\ found.repo = roots[d]
      <3> DEFINE above == (DOMAIN roots \cup OnDisk) \cap AtOrAbove(d \o below)
                 root == Nearest(above)
      <3>1. found = [root |-> root, repo |-> IF root \in DOMAIN roots THEN roots[root] ELSE disk[root]]
        BY <2>3 DEF RootOf
      <3> HIDE DEF root
      <3>2. found.root = root
        BY <3>1
      <3>3. root = d
        BY <1>4, <3>2
      <3>4. QED
        BY <1>1, <3>1, <3>3
    <2>5. RepositoryKey(roots[d] \o below, roots) = roots[d] \o below
      BY <1>3, <1>4
    <2> HIDE DEF found
    <2>6. RepositoryKey(d \o below, roots) = roots[d] \o below
      <3>1. RepositoryKey(d \o below, roots) =
              IF d = roots[d] THEN d \o below ELSE MoveBelow(d \o below, d, roots[d])
        BY <2>3, <2>4 DEF RepositoryKey, found
      <3>2. QED
        BY <2>2, <3>1
    <2>7. QED
      BY <2>5, <2>6 DEF LocalProject
  <1>5. ASSUME NEW d \in DOMAIN remotes, NEW repo, repo = LocalRepository(remotes[d], local), repo # NoPath,
               Plain(repo), Nearest(DOMAIN remotes \cap AtOrAbove(d \o below)) = d
        PROVE  MachineProject(d \o below, remotes, local, aliases) = Project(repo)
    <2>1. repo \in DOMAIN local
      <3> DEFINE same == {r \in DOMAIN local : local[r] = remotes[d]}
      <3>1. Cardinality(same) = 1 /\ repo = CHOOSE r \in same : TRUE
        BY <1>5 DEF LocalRepository
      <3>2. same # {}
        <4>1. PICK none : none = {} /\ Cardinality(none) = 0
          BY FS_EmptySet
        <4>2. Cardinality(same) # Cardinality(none)
          BY <3>1, <4>1
        <4> HIDE DEF same
        <4>3. QED
          BY <4>1, <4>2
      <3>3. QED
        BY <3>1, <3>2
    <2>2. repo \in D \cup OnDisk
      BY <2>1
    <2>3. RepositoryKey(repo \o below, roots) = repo \o below
      BY <1>3, <1>5, <2>2
    <2>4. /\ d \in AtOrAbove(d \o below)
          /\ MoveBelow(d \o below, d, repo) = repo \o below
      BY <1>5, BelowIs
    <2>5. MachineKey(d \o below, remotes, local) = repo \o below
      <3>1. DOMAIN remotes \cap AtOrAbove(d \o below) # {}
        BY <1>5, <2>4
      <3>2. MachineKey(d \o below, remotes, local) = MoveBelow(d \o below, d, repo)
        BY <1>5, <3>1 DEF MachineKey
      <3>3. QED
        BY <2>4, <3>2
    <2>6. QED
      BY <2>3, <2>5 DEF MachineProject, LocalProject
  <1>6. QED
    BY <1>1, <1>4, <1>5 DEF OneProjectEverywhere

----------------------------------------------------------------------------
(* Paths by name: each is followed by an end that is before every segment.     *)

Places == Nat \ {0}
Rows == [Places -> Int]
RowBefore(f, g) == \E i \in Places : f[i] < g[i] /\ \A j \in 1 .. i - 1 : f[j] = g[j]

LEMMA RowsApart ==
  ASSUME NEW f \in Rows, NEW g \in Rows, RowBefore(f, g)
  PROVE  ~RowBefore(g, f) /\ f # g
  <1>1. PICK i \in Places : f[i] < g[i] /\ \A j \in 1 .. i - 1 : f[j] = g[j]
    BY DEF RowBefore
  <1>2. \A x \in Places : f[x] \in Int /\ g[x] \in Int
    BY DEF Rows
  <1>3. ASSUME NEW j \in Places, g[j] < f[j], \A x \in 1 .. j - 1 : g[x] = f[x]
        PROVE  FALSE
    <2>1. i \in Int /\ j \in Int /\ 1 <= i /\ 1 <= j
      BY DEF Places
    <2>2. CASE i < j
      <3>1. i \in 1 .. j - 1
        BY <2>1, <2>2
      <3>2. QED
        BY <1>1, <1>2, <1>3, <3>1
    <2>3. CASE j < i
      <3>1. j \in 1 .. i - 1
        BY <2>1, <2>3
      <3>2. QED
        BY <1>1, <1>2, <1>3, <3>1
    <2>4. CASE i = j
      BY <1>1, <1>2, <1>3, <2>4
    <2>5. QED
      BY <2>1, <2>2, <2>3, <2>4
  <1>4. f # g
    BY <1>1, <1>2
  <1>5. QED
    BY <1>3, <1>4 DEF RowBefore

LEMMA RowsFollow ==
  ASSUME NEW f \in Rows, NEW g \in Rows, NEW h \in Rows, RowBefore(f, g), RowBefore(g, h)
  PROVE  RowBefore(f, h)
  <1>1. PICK i \in Places : f[i] < g[i] /\ \A x \in 1 .. i - 1 : f[x] = g[x]
    BY DEF RowBefore
  <1>2. PICK j \in Places : g[j] < h[j] /\ \A x \in 1 .. j - 1 : g[x] = h[x]
    BY DEF RowBefore
  <1>3. \A x \in Places : f[x] \in Int /\ g[x] \in Int /\ h[x] \in Int
    BY DEF Rows
  <1>4. i \in Int /\ j \in Int /\ 1 <= i /\ 1 <= j
    BY DEF Places
  <1>5. PICK k \in Places : k = IF i <= j THEN i ELSE j
    OBVIOUS
  <1>6. f[k] < h[k]
    <2>1. CASE i < j
      <3>1. i \in 1 .. j - 1 /\ k = i
        BY <1>4, <1>5, <2>1
      <3>2. QED
        BY <1>1, <1>2, <3>1
    <2>2. CASE j < i
      <3>1. j \in 1 .. i - 1 /\ k = j
        BY <1>4, <1>5, <2>2
      <3>2. QED
        BY <1>1, <1>2, <3>1
    <2>3. CASE i = j
      <3>1. k = i
        BY <1>5, <2>3
      <3>2. QED
        BY <1>1, <1>2, <1>3, <2>3, <3>1
    <2>4. QED
      BY <1>4, <2>1, <2>2, <2>3
  <1>7. ASSUME NEW x \in 1 .. k - 1 PROVE f[x] = h[x]
    <2>1. x \in 1 .. i - 1 /\ x \in 1 .. j - 1
      BY <1>4, <1>5
    <2>2. QED
      BY <1>1, <1>2, <2>1
  <1>8. QED
    BY <1>6, <1>7 DEF RowBefore

LEMMA RowsDiffer ==
  ASSUME NEW f \in Rows, NEW g \in Rows, f # g
  PROVE  RowBefore(f, g) \/ RowBefore(g, f)
  <1> DEFINE T == {i \in Places : f[i] # g[i]}
  <1>1. T \subseteq Nat /\ T # {}
    BY DEF Places, Rows
  <1>2. PICK i \in T : \A j \in T : i <= j
    BY <1>1, LeastNatural
  <1>3. i \in Places /\ f[i] # g[i] /\ f[i] \in Int /\ g[i] \in Int
    BY DEF Rows
  <1>4. ASSUME NEW j \in 1 .. i - 1 PROVE f[j] = g[j]
    <2>1. j \in Places /\ ~(i <= j)
      BY <1>3 DEF Places
    <2>2. QED
      BY <1>2, <2>1
  <1>5. CASE f[i] < g[i]
    BY <1>3, <1>4, <1>5 DEF RowBefore
  <1>6. CASE g[i] < f[i]
    BY <1>3, <1>4, <1>6 DEF RowBefore
  <1>7. QED
    BY <1>3, <1>5, <1>6

RowOf(k) == [i \in Places |-> IF i <= Len(k) THEN k[i] ELSE -1]

LEMMA RowOfIs ==
  ASSUME NEW k \in Seq(Nat)
  PROVE  /\ RowOf(k) \in Rows /\ Len(k) \in Nat
         /\ \A i \in Places : IF i <= Len(k) THEN RowOf(k)[i] = k[i] /\ RowOf(k)[i] \in Nat ELSE RowOf(k)[i] = -1
  <1>1. \A i \in Places : i <= Len(k) => k[i] \in Nat
    BY DEF Places
  <1>2. QED
    BY <1>1 DEF RowOf, Rows, Places

LEMMA RowsTell ==
  ASSUME NEW k \in Seq(Nat), NEW l \in Seq(Nat), RowOf(k) = RowOf(l)
  PROVE  k = l
  <1>1. PICK n \in Nat, m \in Nat : n = Len(k) /\ m = Len(l)
    OBVIOUS
  <1>2. n = m
    <2>1. CASE n < m
      <3>1. m \in Places /\ RowOf(k)[m] = -1 /\ RowOf(l)[m] \in Nat
        BY <1>1, <2>1, RowOfIs DEF Places
      <3>2. QED
        BY <3>1
    <2>2. CASE m < n
      <3>1. n \in Places /\ RowOf(l)[n] = -1 /\ RowOf(k)[n] \in Nat
        BY <1>1, <2>2, RowOfIs DEF Places
      <3>2. QED
        BY <3>1
    <2>3. QED
      BY <2>1, <2>2
  <1>3. ASSUME NEW i \in 1 .. n PROVE k[i] = l[i]
    <2>1. i \in Places /\ i <= n
      BY DEF Places
    <2>2. RowOf(k)[i] = k[i] /\ RowOf(l)[i] = l[i]
      BY <1>1, <1>2, <2>1, RowOfIs
    <2>3. QED
      BY <2>2
  <1>4. QED
    BY <1>1, <1>2, <1>3, SeqEqual

LEMMA PathStartIs ==
  ASSUME NEW k \in Seq(Nat), NEW p \in 0 .. Len(k)
  PROVE  /\ SubSeq(k, 1, p) \in Seq(Nat) /\ Len(SubSeq(k, 1, p)) = p
         /\ \A j \in 1 .. p : SubSeq(k, 1, p)[j] = k[j]
  OBVIOUS

(* compareByCodePoint is the order of the rows.                               *)
LEMMA BeforeIs ==
  ASSUME NEW k \in Seq(Nat), NEW l \in Seq(Nat)
  PROVE  Before(k, l) <=> RowBefore(RowOf(k), RowOf(l))
  <1>1. PICK n \in Nat, m \in Nat : n = Len(k) /\ m = Len(l)
    OBVIOUS
  <1>2. DOMAIN k = 1 .. n /\ DOMAIN l = 1 .. m
    BY <1>1
  <1>3. IsPrefix(k, l) <=> n <= m /\ \A i \in 1 .. n : k[i] = l[i]
    <2>1. IsPrefix(k, l) <=> Len(k) <= Len(l) /\ \A i \in 1 .. Len(k) : k[i] = l[i]
      BY PrefixMeans
    <2>2. QED
      BY <1>1, <2>1
  <1>4. ASSUME NEW i \in (1 .. n) \cap (1 .. m)
        PROVE  SubSeq(k, 1, i - 1) = SubSeq(l, 1, i - 1) <=> \A j \in 1 .. i - 1 : k[j] = l[j]
    <2>1. i - 1 \in 0 .. n /\ i - 1 \in 0 .. m
      OBVIOUS
    <2>2. /\ SubSeq(k, 1, i - 1) \in Seq(Nat) /\ Len(SubSeq(k, 1, i - 1)) = i - 1
          /\ \A j \in 1 .. i - 1 : SubSeq(k, 1, i - 1)[j] = k[j]
      BY <1>1, <2>1, PathStartIs
    <2>3. /\ SubSeq(l, 1, i - 1) \in Seq(Nat) /\ Len(SubSeq(l, 1, i - 1)) = i - 1
          /\ \A j \in 1 .. i - 1 : SubSeq(l, 1, i - 1)[j] = l[j]
      BY <1>1, <2>1, PathStartIs
    <2>4. QED
      BY <2>2, <2>3, SeqEqual
  <1>5. ASSUME Before(k, l) PROVE RowBefore(RowOf(k), RowOf(l))
    <2>1. CASE IsStrictPrefix(k, l)
      <3>1. n <= m /\ (\A i \in 1 .. n : k[i] = l[i]) /\ k # l
        BY <1>3, <2>1 DEF IsStrictPrefix
      <3>2. n # m
        BY <1>1, <3>1, SeqEqual
      <3>3. n + 1 \in Places /\ n + 1 <= m
        BY <3>1, <3>2 DEF Places
      <3>4. RowOf(k)[n + 1] = -1 /\ RowOf(l)[n + 1] \in Nat
        BY <1>1, <3>3, RowOfIs
      <3>5. ASSUME NEW j \in 1 .. n PROVE RowOf(k)[j] = RowOf(l)[j]
        <4>1. j \in Places /\ j <= n /\ j <= m
          BY <3>1 DEF Places
        <4>2. QED
          BY <1>1, <3>1, <4>1, RowOfIs
      <3>6. RowOf(k)[n + 1] < RowOf(l)[n + 1] /\ 1 .. n = 1 .. (n + 1) - 1
        BY <3>4
      <3>7. QED
        BY <3>3, <3>5, <3>6 DEF RowBefore
    <2>2. ASSUME NEW i \in (1 .. n) \cap (1 .. m), k[i] < l[i], SubSeq(k, 1, i - 1) = SubSeq(l, 1, i - 1)
          PROVE  RowBefore(RowOf(k), RowOf(l))
      <3>1. ASSUME NEW j \in 1 .. i PROVE RowOf(k)[j] = k[j] /\ RowOf(l)[j] = l[j]
        <4>1. j \in Places /\ j <= n /\ j <= m
          BY DEF Places
        <4>2. QED
          BY <1>1, <4>1, RowOfIs
      <3>2. \A j \in 1 .. i - 1 : k[j] = l[j] /\ j \in 1 .. i
        BY <1>4, <2>2
      <3>3. i \in Places /\ i \in 1 .. i
        BY DEF Places
      <3>4. QED
        BY <2>2, <3>1, <3>2, <3>3 DEF RowBefore
    <2>3. QED
      BY <1>2, <1>5, <2>1, <2>2 DEF Before
  <1>6. ASSUME RowBefore(RowOf(k), RowOf(l)) PROVE Before(k, l)
    <2>1. PICK i \in Places : RowOf(k)[i] < RowOf(l)[i] /\ \A j \in 1 .. i - 1 : RowOf(k)[j] = RowOf(l)[j]
      BY <1>6 DEF RowBefore
    <2>2. i \in Nat /\ 1 <= i
      BY DEF Places
    <2>3. i <= m
      <3>1. CASE ~(i <= m) /\ i <= n
        BY <1>1, <2>1, <3>1, RowOfIs
      <3>2. CASE ~(i <= m) /\ ~(i <= n)
        BY <1>1, <2>1, <3>2, RowOfIs
      <3>3. QED
        BY <3>1, <3>2
    <2>4. ASSUME NEW j \in 1 .. i - 1 PROVE j <= n /\ k[j] = l[j]
      <3>1. j \in Places /\ j <= m /\ RowOf(k)[j] = RowOf(l)[j]
        BY <2>1, <2>2, <2>3 DEF Places
      <3>2. RowOf(l)[j] = l[j] /\ RowOf(l)[j] \in Nat
        BY <1>1, <3>1, RowOfIs
      <3>3. j <= n
        <4>1. CASE ~(j <= n)
          <5>1. RowOf(k)[j] = -1
            BY <1>1, <3>1, <4>1, RowOfIs
          <5>2. QED
            BY <3>1, <3>2, <5>1
        <4>2. QED
          BY <4>1
      <3>4. RowOf(k)[j] = k[j]
        BY <1>1, <3>1, <3>3, RowOfIs
      <3>5. QED
        BY <3>1, <3>2, <3>3, <3>4
    <2>5. CASE i <= n
      <3>1. k[i] < l[i]
        BY <1>1, <2>1, <2>3, <2>5, RowOfIs
      <3>2. i \in (1 .. n) \cap (1 .. m)
        BY <2>2, <2>3, <2>5
      <3>3. SubSeq(k, 1, i - 1) = SubSeq(l, 1, i - 1)
        BY <1>4, <2>4, <3>2
      <3>4. QED
        BY <1>2, <3>1, <3>2, <3>3 DEF Before
    <2>6. CASE ~(i <= n)
      <3>1. i = n + 1
        <4>1. CASE i > n + 1
          <5>1. n + 1 \in 1 .. i - 1
            BY <2>2, <4>1
          <5>2. QED
            BY <2>4, <5>1
        <4>2. QED
          BY <2>2, <2>6, <4>1
      <3>2. n <= m /\ n # m /\ \A j \in 1 .. n : k[j] = l[j]
        BY <2>3, <2>4, <3>1
      <3>3. IsStrictPrefix(k, l)
        BY <1>1, <1>3, <3>2 DEF IsStrictPrefix
      <3>4. QED
        BY <3>3 DEF Before
    <2>7. QED
      BY <2>5, <2>6
  <1>7. QED
    BY <1>5, <1>6

LEMMA PathsAreOrdered ==
  ASSUME NEW k \in Seq(Nat), NEW l \in Seq(Nat)
  PROVE  /\ Before(k, l) \/ k = l \/ Before(l, k)
         /\ Before(k, l) => ~Before(l, k) /\ k # l
         /\ \A p \in Seq(Nat) : Before(k, l) /\ Before(l, p) => Before(k, p)
  <1>1. RowOf(k) \in Rows /\ RowOf(l) \in Rows /\ (RowOf(k) = RowOf(l) => k = l)
    BY RowOfIs, RowsTell
  <1>2. Before(k, l) \/ k = l \/ Before(l, k)
    BY <1>1, RowsDiffer, BeforeIs
  <1>3. Before(k, l) => ~Before(l, k) /\ k # l
    BY <1>1, RowsApart, BeforeIs
  <1>4. ASSUME NEW p \in Seq(Nat), Before(k, l), Before(l, p) PROVE Before(k, p)
    <2>1. RowOf(p) \in Rows
      BY RowOfIs
    <2>2. RowBefore(RowOf(k), RowOf(l)) /\ RowBefore(RowOf(l), RowOf(p))
      BY <1>4, BeforeIs
    <2>3. RowBefore(RowOf(k), RowOf(p))
      BY <1>1, <2>1, <2>2, RowsFollow
    <2>4. QED
      BY <2>3, BeforeIs
  <1>5. QED
    BY <1>2, <1>3, <1>4

(* Of the paths at some places of a list there is a first one by name.        *)
IsFirst(k, keys) == k \in keys /\ \A l \in keys : k = l \/ Before(k, l)

LEMMA FirstExists ==
  ASSUME NEW n \in Nat, NEW path, NEW I \in SUBSET (1 .. n), I # {}, \A i \in I : path[i] \in Seq(Nat)
  PROVE  \E i \in I : \A j \in I : path[i] = path[j] \/ Before(path[i], path[j])
  <1> DEFINE Least(i, m) == i \in I /\ \A j \in I : j <= m => path[i] = path[j] \/ Before(path[i], path[j])
             K == {m \in 0 .. n : (\A j \in I : ~(j <= m)) \/ \E i \in I : Least(i, m)}
  <1>1. 0 \in K
    OBVIOUS
  <1>2. ASSUME NEW m \in 1 .. n, m - 1 \in K PROVE m \in K
    <2>1. \A j \in I : j <= m => j = m \/ j <= m - 1
      OBVIOUS
    <2>2. CASE m \notin I
      <3>1. \A j \in I : j <= m => j <= m - 1
        BY <2>1, <2>2
      <3>2. QED
        BY <1>2, <3>1
    <2>3. CASE m \in I /\ \A j \in I : ~(j <= m - 1)
      <3>1. Least(m, m)
        BY <2>1, <2>3
      <3>2. QED
        BY <2>3, <3>1
    <2>4. CASE m \in I /\ \E i \in I : Least(i, m - 1)
      <3>1. PICK i \in I : Least(i, m - 1)
        BY <2>4
      <3>2. path[i] \in Seq(Nat) /\ path[m] \in Seq(Nat)
        BY <2>4
      <3>3. CASE path[i] = path[m] \/ Before(path[i], path[m])
        <4>1. Least(i, m)
          BY <2>1, <3>1, <3>3
        <4>2. QED
          BY <4>1
      <3>4. CASE Before(path[m], path[i])
        <4>1. ASSUME NEW j \in I, j <= m PROVE path[m] = path[j] \/ Before(path[m], path[j])
          <5>1. CASE j = m
            BY <5>1
          <5>2. CASE j <= m - 1
            <6>1. path[i] = path[j] \/ Before(path[i], path[j])
              BY <3>1, <5>2
            <6>2. CASE path[i] = path[j]
              BY <3>4, <6>2
            <6>3. CASE Before(path[i], path[j])
              BY <3>2, <3>4, <6>3, PathsAreOrdered
            <6>4. QED
              BY <6>1, <6>2, <6>3
          <5>3. QED
            BY <2>1, <4>1, <5>1, <5>2
        <4>2. Least(m, m)
          BY <2>4, <4>1
        <4>3. QED
          BY <2>4, <4>2
      <3>5. QED
        BY <3>2, <3>3, <3>4, PathsAreOrdered
    <2>5. QED
      BY <1>2, <2>2, <2>3, <2>4
  <1> HIDE DEF K
  <1>3. n \in K
    BY <1>1, <1>2, CountUp
  <1>4. \E i \in I : Least(i, n)
    BY <1>3 DEF K
  <1>5. QED
    BY <1>4

LEMMA FirstPathIs ==
  ASSUME NEW keys, keys \subseteq Seq(Nat), NEW k, IsFirst(k, keys)
  PROVE  FirstPath(keys) = k
  <1>1. IsFirst(FirstPath(keys), keys)
    BY DEF FirstPath, IsFirst
  <1>2. k \in Seq(Nat) /\ FirstPath(keys) \in Seq(Nat)
    BY <1>1 DEF IsFirst
  <1>3. QED
    BY <1>1, <1>2, PathsAreOrdered DEF IsFirst

----------------------------------------------------------------------------
(* The roots of sessions, for any events.                                     *)

Rooted(T) == [session : T, at : Nat, root : Seq(Nat) \cup {NoPath}]
OwnOf(E, s) == {e \in E : e.session = s /\ e.root # NoPath}
\* The session's root, from the set of its events.
StartsIn(E, s, r) ==
    \E e \in OwnOf(E, s) : /\ r = e.root
                           /\ \A f \in OwnOf(E, s) : /\ e.at <= f.at
                                                     /\ f.at = e.at => r = f.root \/ Before(r, f.root)

LEMMA SetOf ==
  ASSUME NEW T, NEW events \in Seq(T)
  PROVE  /\ ToSet(events) \subseteq T /\ DOMAIN events = 1 .. Len(events) /\ Len(events) \in Nat
         /\ \A e : e \in ToSet(events) <=> \E i \in 1 .. Len(events) : e = events[i]
         /\ \A i \in 1 .. Len(events) : events[i] \in T
  <1>1. DOMAIN events = 1 .. Len(events) /\ Len(events) \in Nat /\ \A i \in 1 .. Len(events) : events[i] \in T
    OBVIOUS
  <1>2. QED
    BY <1>1 DEF ToSet

LEMMA SessionRootIs ==
  ASSUME NoPath \notin Seq(Nat), NEW T, NEW events \in Seq(Rooted(T)), NEW s
  PROVE  /\ OwnOf(ToSet(events), s) = {} => SessionRoot(events, s) = NoPath
         /\ OwnOf(ToSet(events), s) # {} => StartsIn(ToSet(events), s, SessionRoot(events, s))
         /\ \A r : StartsIn(ToSet(events), s, r) => SessionRoot(events, s) = r
  <1> DEFINE E == ToSet(events)
             own == OwnOf(E, s)
             times == {e.at : e \in own}
             first == Min(times)
             roots == {e.root : e \in {d \in own : d.at = first}}
  <1>1. E \subseteq Rooted(T)
    BY SetOf
  <1>2. \A e \in own : e.at \in Nat /\ e.root \in Seq(Nat)
    BY <1>1 DEF OwnOf, Rooted
  <1>3. SessionRoot(events, s) = IF own = {} THEN NoPath ELSE FirstPath(roots)
    BY DEF SessionRoot, OwnOf
  <1>4. ASSUME own # {} PROVE first \in times /\ \A t \in times : first <= t
    <2>1. times \subseteq Nat /\ times # {}
      BY <1>2, <1>4
    <2>2. PICK x \in times : \A y \in times : x <= y
      BY <2>1, LeastNatural
    <2> HIDE DEF times
    <2>3. QED
      BY <2>2 DEF Min
  <1>5. roots \subseteq Seq(Nat)
    BY <1>2
  <1>6. ASSUME own # {} PROVE StartsIn(E, s, SessionRoot(events, s))
    <2> DEFINE I == {i \in 1 .. Len(events) : events[i] \in own /\ events[i].at = first}
               path == [i \in 1 .. Len(events) |-> events[i].root]
    <2>1. PICK e \in own : e.at = first
      BY <1>4, <1>6
    <2>2. e \in E
      BY DEF OwnOf
    <2>3. PICK i \in 1 .. Len(events) : e = events[i]
      BY <2>2, SetOf
    <2>4. i \in I
      BY <2>1, <2>3
    <2>5. \A j \in I : path[j] = events[j].root /\ path[j] \in Seq(Nat)
      BY <1>2
    <2>6. Len(events) \in Nat /\ I \in SUBSET (1 .. Len(events)) /\ I # {}
      <3>1. Len(events) \in Nat
        BY SetOf
      <3>2. QED
        BY <2>4, <3>1
    <2> HIDE DEF I, path
    <2>7. PICK k \in I : \A j \in I : path[k] = path[j] \/ Before(path[k], path[j])
      BY <2>5, <2>6, FirstExists
    <2>8. events[k] \in own /\ events[k].at = first /\ path[k] = events[k].root
      BY <2>5 DEF I
    <2>9. ASSUME NEW f \in own, f.at = first PROVE path[k] = f.root \/ Before(path[k], f.root)
      <3>1. f \in E
        BY DEF OwnOf
      <3>2. PICK j \in 1 .. Len(events) : f = events[j]
        BY <3>1, SetOf
      <3>3. j \in I
        BY <2>9, <3>2 DEF I
      <3>4. QED
        BY <2>5, <2>7, <3>2, <3>3
    <2>10. IsFirst(path[k], roots)
      BY <2>8, <2>9 DEF IsFirst
    <2>11. SessionRoot(events, s) = path[k]
      BY <1>3, <1>5, <1>6, <2>10, FirstPathIs
    <2>12. \A f \in own : first <= f.at
      BY <1>4, <1>6
    <2> HIDE DEF own, first
    <2>13. QED
      BY <2>8, <2>9, <2>11, <2>12 DEF StartsIn, own
  <1>7. ASSUME NEW r, StartsIn(E, s, r) PROVE SessionRoot(events, s) = r
    <2>1. PICK e \in own : /\ r = e.root
                           /\ \A f \in own : e.at <= f.at /\ (f.at = e.at => r = f.root \/ Before(r, f.root))
      BY <1>7 DEF StartsIn
    <2>2. own # {} /\ e.at \in times
      BY <2>1
    <2>3. first = e.at
      <3>1. first \in times /\ first <= e.at
        BY <1>4, <2>2
      <3>2. PICK f \in own : first = f.at
        BY <3>1
      <3>3. e.at <= first /\ first \in Nat /\ e.at \in Nat
        BY <1>2, <2>1, <3>2
      <3> HIDE DEF first
      <3>4. QED
        BY <3>1, <3>3
    <2> HIDE DEF first
    <2>4. IsFirst(r, roots)
      BY <2>1, <2>3 DEF IsFirst
    <2>5. QED
      BY <1>3, <1>5, <2>2, <2>4, FirstPathIs
  <1>8. QED
    BY <1>3, <1>6, <1>7

(* What is at or above a path, and no shorter than it, is the path.            *)
LEMMA AboveEnds ==
  ASSUME NEW key \in Seq(Nat), NEW d \in AtOrAbove(key)
  PROVE  /\ d \in Seq(Nat) /\ d \in AtOrAbove(d) /\ AtOrAbove(d) \subseteq AtOrAbove(key)
         /\ d = key \/ Before(d, key)
         /\ \A e \in AtOrAbove(key) : Len(e) >= Len(d) => d \in AtOrAbove(e)
         /\ Len(d) >= Len(key) => d = key
  <1>1. PICK n \in Nat : n = Len(key)
    OBVIOUS
  <1>2. ASSUME NEW x \in AtOrAbove(key)
        PROVE  \E p \in 1 .. n : x = SubSeq(key, 1, p) /\ x \in Seq(Nat) /\ Len(x) = p
    <2>1. PICK p \in 1 .. n : x = SubSeq(key, 1, p)
      BY <1>1, <1>2 DEF AtOrAbove
    <2>2. p \in 0 .. Len(key)
      BY <1>1
    <2>3. QED
      BY <2>1, <2>2, PathStartIs
  <1>3. PICK k \in 1 .. n : d = SubSeq(key, 1, k) /\ d \in Seq(Nat) /\ Len(d) = k
    BY <1>2
  <1>4. ASSUME NEW p \in 1 .. n, NEW q \in 1 .. p
        PROVE  SubSeq(SubSeq(key, 1, p), 1, q) = SubSeq(key, 1, q)
    <2>1. p \in 0 .. Len(key) /\ q \in 0 .. Len(key)
      BY <1>1
    <2>2. /\ SubSeq(key, 1, p) \in Seq(Nat) /\ Len(SubSeq(key, 1, p)) = p
          /\ \A j \in 1 .. p : SubSeq(key, 1, p)[j] = key[j]
      BY <2>1, PathStartIs
    <2>3. /\ SubSeq(key, 1, q) \in Seq(Nat) /\ Len(SubSeq(key, 1, q)) = q
          /\ \A j \in 1 .. q : SubSeq(key, 1, q)[j] = key[j]
      BY <2>1, PathStartIs
    <2> DEFINE s == SubSeq(key, 1, p)
    <2>4. s \in Seq(Nat) /\ q \in 0 .. Len(s)
      BY <2>2
    <2> HIDE DEF s
    <2>5. /\ SubSeq(s, 1, q) \in Seq(Nat) /\ Len(SubSeq(s, 1, q)) = q
          /\ \A j \in 1 .. q : SubSeq(s, 1, q)[j] = s[j]
      BY <2>4, PathStartIs
    <2>6. \A j \in 1 .. q : SubSeq(s, 1, q)[j] = SubSeq(key, 1, q)[j]
      BY <2>2, <2>3, <2>5 DEF s
    <2>7. SubSeq(s, 1, q) = SubSeq(key, 1, q)
      BY <2>3, <2>5, <2>6, SeqEqual
    <2>8. QED
      BY <2>7 DEF s
  <1>5. ASSUME NEW p \in 1 .. n, NEW q \in 1 .. p
        PROVE  SubSeq(key, 1, q) \in AtOrAbove(SubSeq(key, 1, p))
    <2>1. p \in 0 .. Len(key)
      BY <1>1
    <2>2. Len(SubSeq(key, 1, p)) = p
      BY <2>1, PathStartIs
    <2>3. QED
      BY <1>4, <2>2 DEF AtOrAbove
  <1>6. d \in AtOrAbove(d)
    <2>1. k \in 1 .. k
      OBVIOUS
    <2>2. QED
      BY <1>3, <1>5, <2>1
  <1>7. ASSUME NEW x \in AtOrAbove(d) PROVE x \in AtOrAbove(key)
    <2>1. PICK q \in 1 .. k : x = SubSeq(d, 1, q)
      BY <1>3, <1>7 DEF AtOrAbove
    <2>2. x = SubSeq(key, 1, q) /\ q \in 1 .. Len(key)
      BY <1>1, <1>3, <1>4, <2>1
    <2>3. QED
      BY <2>2 DEF AtOrAbove
  <1>8. ASSUME NEW e \in AtOrAbove(key), Len(e) >= Len(d) PROVE d \in AtOrAbove(e)
    <2>1. PICK p \in 1 .. n : e = SubSeq(key, 1, p) /\ Len(e) = p
      BY <1>2
    <2>2. k \in 1 .. p
      BY <1>3, <1>8, <2>1
    <2>3. QED
      BY <1>3, <1>5, <2>1, <2>2
  <1>9. SubSeq(key, 1, n) = key
    BY <1>1, PrefixIs DEF Lists
  <1>10. Len(d) >= Len(key) => d = key
    <2>1. k >= n => k = n
      OBVIOUS
    <2>2. QED
      BY <1>1, <1>3, <1>9, <2>1
  <1>11. d = key \/ Before(d, key)
    <2>1. IsPrefix(d, key)
      <3>1. k \in 0 .. Len(key) /\ Len(d) <= Len(key)
        BY <1>1, <1>3
      <3>2. \A j \in 1 .. k : d[j] = key[j]
        BY <1>3, <3>1, PathStartIs
      <3>3. QED
        BY <1>3, <3>1, <3>2, PrefixMeans
    <2>2. QED
      BY <2>1 DEF Before, IsStrictPrefix
  <1>12. QED
    BY <1>3, <1>6, <1>7, <1>8, <1>10, <1>11

(* A key that sessions are attributed to (attributeEventsToSessionRoots).      *)
LEMMA SessionKeyIs ==
  ASSUME NoPath \notin Seq(Nat), NEW T, NEW events \in Seq(Rooted(T)), NEW e \in ToSet(events),
         NEW r, r = SessionRoot(events, e.session), NEW key, key = SessionKey(events, e)
  PROVE  \/ /\ key = e.root
            /\ e.root = NoPath \/ r = NoPath \/ r \notin AtOrAbove(e.root)
         \/ /\ e.root \in Seq(Nat) /\ r \in AtOrAbove(e.root)
            /\ key \in AtOrAbove(e.root) /\ Len(key) >= Len(r)
            /\ \E d \in ToSet(events) : key = SessionRoot(events, d.session)
            /\ e.root = r => key = r
  <1>1. e \in Rooted(T)
    BY SetOf
  <1>2. CASE e.root = NoPath \/ r = NoPath \/ r \notin AtOrAbove(e.root)
    BY <1>2 DEF SessionKey
  <1>3. CASE ~(e.root = NoPath \/ r = NoPath \/ r \notin AtOrAbove(e.root))
    <2> DEFINE starts == {SessionRoot(events, d.session) : d \in ToSet(events)}
               between == {k \in AtOrAbove(e.root) : Len(k) >= Len(r)}
               S == between \cap starts
    <2>1. e.root \in Seq(Nat) /\ r \in AtOrAbove(e.root)
      BY <1>1, <1>3 DEF Rooted
    <2>2. key = Nearest(S)
      BY <1>3 DEF SessionKey
    <2>3. Len(r) \in Nat
      BY <2>1, AboveAre
    <2>4. r \in starts
      OBVIOUS
    <2>5. r \in between
      BY <2>1, <2>3
    <2>6. S \subseteq AtOrAbove(e.root) /\ S # {}
      BY <2>4, <2>5
    <2> HIDE DEF S
    <2>7. key \in S
      BY <2>1, <2>2, <2>6, NearestIs
    <2>8. key \in AtOrAbove(e.root) /\ Len(key) >= Len(r) /\ key \in starts
      BY <2>7 DEF S
    <2>9. e.root = r => key = r
      BY <2>1, <2>8, AboveEnds
    <2>10. QED
      BY <2>1, <2>8, <2>9
  <1>4. QED
    BY <1>2, <1>3

(* The events once attributed: each is its event, under its key.               *)
MovedTo(e, key) == [e EXCEPT !.root = key]

LEMMA AttributedAre ==
  ASSUME NoPath \notin Seq(Nat), NEW T, NEW events \in Seq(Rooted(T))
  PROVE  /\ Attributed(events) \in Seq(Rooted(T)) /\ Len(Attributed(events)) = Len(events)
         /\ \A i \in 1 .. Len(events) :
               Attributed(events)[i] = MovedTo(events[i], SessionKey(events, events[i]))
         /\ \A f : f \in ToSet(Attributed(events)) <=>
               \E e \in ToSet(events) : f = MovedTo(e, SessionKey(events, e))
  <1> DEFINE once == Attributed(events)
  <1>1. PICK n \in Nat : n = Len(events) /\ DOMAIN events = 1 .. n
    BY SetOf
  <1>2. once = [i \in 1 .. n |-> MovedTo(events[i], SessionKey(events, events[i]))]
    BY <1>1 DEF Attributed, MovedTo
  <1>3. ASSUME NEW i \in 1 .. n PROVE MovedTo(events[i], SessionKey(events, events[i])) \in Rooted(T)
    <2>1. PICK e \in Rooted(T) : e = events[i] /\ e \in ToSet(events)
      BY <1>1, SetOf
    <2>2. PICK r : r = SessionRoot(events, e.session)
      OBVIOUS
    <2>3. PICK key : key = SessionKey(events, e)
      OBVIOUS
    <2>4. key = e.root \/ (e.root \in Seq(Nat) /\ key \in AtOrAbove(e.root))
      BY <2>1, <2>2, <2>3, SessionKeyIs
    <2>5. key \in Seq(Nat) \cup {NoPath}
      BY <2>1, <2>4, AboveEnds DEF Rooted
    <2>6. QED
      BY <2>1, <2>3, <2>5 DEF MovedTo, Rooted
  <1> HIDE DEF once
  <1>4. once \in Seq(Rooted(T)) /\ Len(once) = n
    BY <1>2, <1>3
  <1>5. ASSUME NEW f PROVE f \in ToSet(once) <=> \E e \in ToSet(events) : f = MovedTo(e, SessionKey(events, e))
    <2>1. f \in ToSet(once) <=> \E i \in 1 .. n : f = MovedTo(events[i], SessionKey(events, events[i]))
      <3>1. f \in ToSet(once) <=> \E i \in 1 .. n : f = once[i]
        BY <1>4, SetOf
      <3>2. \A i \in 1 .. n : once[i] = MovedTo(events[i], SessionKey(events, events[i]))
        BY <1>2
      <3>3. QED
        BY <3>1, <3>2
    <2>2. \A e : e \in ToSet(events) <=> \E i \in 1 .. n : e = events[i]
      BY <1>1, SetOf
    <2>3. QED
      BY <2>1, <2>2
  <1>6. QED
    BY <1>1, <1>2, <1>4, <1>5 DEF once

(* A session's root stays: of its earliest events, the root's own keeps it, and
   the others come to be at or below it, or stay where they are.               *)
LEMMA RootsStay ==
  ASSUME NoPath \notin Seq(Nat), NEW T, NEW events \in Seq(Rooted(T)), NEW s
  PROVE  SessionRoot(Attributed(events), s) = SessionRoot(events, s)
  <1> DEFINE once == Attributed(events)
             E == ToSet(events)
             M == ToSet(once)
             Key(e) == SessionKey(events, e)
  <1>1. /\ once \in Seq(Rooted(T)) /\ E \subseteq Rooted(T)
        /\ \A f : f \in M <=> \E e \in E : f = MovedTo(e, Key(e))
    BY AttributedAre, SetOf
  <1>2. PICK r : r = SessionRoot(events, s)
    OBVIOUS
  <1>3. ASSUME NEW e \in E
        PROVE  /\ MovedTo(e, Key(e)).session = e.session /\ MovedTo(e, Key(e)).at = e.at
               /\ MovedTo(e, Key(e)).root = Key(e)
               /\ e.root = NoPath <=> Key(e) = NoPath
    <2>1. e \in Rooted(T)
      BY <1>1
    <2>2. \/ Key(e) = e.root
          \/ e.root \in Seq(Nat) /\ Key(e) \in AtOrAbove(e.root)
      BY SessionKeyIs
    <2>3. e.root = NoPath <=> Key(e) = NoPath
      BY <2>2, AboveEnds
    <2> HIDE DEF Key
    <2>4. QED
      BY <2>1, <2>3 DEF MovedTo, Rooted
  <1> HIDE DEF Key, once, E, M
  <1>4. \A f : f \in OwnOf(M, s) <=> \E e \in OwnOf(E, s) : f = MovedTo(e, Key(e))
    BY <1>1, <1>3 DEF OwnOf
  <1>5. CASE OwnOf(E, s) = {}
    <2>1. OwnOf(M, s) = {}
      BY <1>4, <1>5
    <2>2. SessionRoot(events, s) = NoPath
      BY <1>5, SessionRootIs DEF E
    <2>3. SessionRoot(once, s) = NoPath
      BY <1>1, <2>1, SessionRootIs DEF M
    <2>4. QED
      BY <2>2, <2>3 DEF once
  <1>6. CASE OwnOf(E, s) # {}
    <2>1. StartsIn(E, s, r)
      BY <1>2, <1>6, SessionRootIs DEF E
    <2>2. PICK e \in OwnOf(E, s) :
             /\ r = e.root
             /\ \A f \in OwnOf(E, s) : e.at <= f.at /\ (f.at = e.at => r = f.root \/ Before(r, f.root))
      BY <2>1 DEF StartsIn
    <2>3. \A f \in OwnOf(E, s) : /\ f \in E /\ f.session = s /\ f.root \in Seq(Nat)
      BY <1>1 DEF OwnOf, Rooted
    <2>4. Key(e) = r
      <3>1. e \in ToSet(events) /\ r = SessionRoot(events, e.session)
        BY <1>2, <2>3 DEF E
      <3>2. Key(e) = e.root \/ (e.root = r => Key(e) = r)
        BY <3>1, SessionKeyIs DEF Key
      <3>3. QED
        BY <2>2, <3>2
    <2>5. ASSUME NEW f \in OwnOf(E, s), f.at = e.at
          PROVE  r = Key(f) \/ Before(r, Key(f))
      <3>1. f \in ToSet(events) /\ r = SessionRoot(events, f.session)
        BY <1>2, <2>3 DEF E
      <3>2. \/ Key(f) = f.root
            \/ /\ f.root \in Seq(Nat) /\ r \in AtOrAbove(f.root)
               /\ Key(f) \in AtOrAbove(f.root) /\ Len(Key(f)) >= Len(r)
        BY <3>1, SessionKeyIs DEF Key
      <3>3. CASE Key(f) = f.root
        BY <2>2, <2>5, <3>3
      <3>4. CASE /\ f.root \in Seq(Nat) /\ r \in AtOrAbove(f.root)
                 /\ Key(f) \in AtOrAbove(f.root) /\ Len(Key(f)) >= Len(r)
        <4>1. r \in AtOrAbove(Key(f)) /\ Key(f) \in Seq(Nat)
          BY <3>4, AboveEnds
        <4>2. QED
          BY <4>1, AboveEnds
      <3>5. QED
        BY <3>2, <3>3, <3>4
    <2>6. StartsIn(M, s, r)
      <3> DEFINE first == MovedTo(e, Key(e))
      <3>1. first \in OwnOf(M, s) /\ r = first.root /\ first.at = e.at
        BY <1>3, <1>4, <2>3, <2>4
      <3>2. ASSUME NEW g \in OwnOf(M, s)
            PROVE  first.at <= g.at /\ (g.at = first.at => r = g.root \/ Before(r, g.root))
        <4>1. PICK f \in OwnOf(E, s) : g = MovedTo(f, Key(f))
          BY <1>4
        <4>2. g.at = f.at /\ g.root = Key(f)
          BY <1>3, <2>3, <4>1
        <4>3. QED
          BY <2>2, <2>5, <3>1, <4>2
      <3> HIDE DEF first
      <3>3. QED
        BY <3>1, <3>2 DEF StartsIn
    <2>7. SessionRoot(once, s) = r
      BY <1>1, <2>6, SessionRootIs DEF M
    <2>8. QED
      BY <1>2, <2>7 DEF once
  <1>7. QED
    BY <1>5, <1>6

(* An event that was attributed stays where it is.                             *)
LEMMA KeysStay ==
  ASSUME NoPath \notin Seq(Nat), NEW T, NEW events \in Seq(Rooted(T)), NEW e \in ToSet(Attributed(events))
  PROVE  SessionKey(Attributed(events), e) = e.root
  <1> DEFINE once == Attributed(events)
  <1>1. once \in Seq(Rooted(T)) /\ e \in Rooted(T)
    BY AttributedAre, SetOf
  <1>2. PICK r, key : r = SessionRoot(once, e.session) /\ key = SessionKey(once, e)
    OBVIOUS
  <1>3. \/ key = e.root
        \/ /\ e.root \in Seq(Nat) /\ r \in AtOrAbove(e.root) /\ key = Nearest(
                 {k \in AtOrAbove(e.root) : Len(k) >= Len(r)} \cap {SessionRoot(once, d.session) : d \in ToSet(once)})
    BY <1>1, <1>2 DEF SessionKey, Rooted
  <1>4. PICK f \in ToSet(events) : e = MovedTo(f, SessionKey(events, f))
    BY AttributedAre
  <1>5. f \in Rooted(T)
    BY SetOf
  <1>6. e.session = f.session /\ e.root = SessionKey(events, f)
    BY <1>4, <1>5 DEF MovedTo, Rooted
  <1>7. r = SessionRoot(events, f.session)
    BY <1>2, <1>6, RootsStay
  <1>8. CASE e.root \in Seq(Nat) /\ r \in AtOrAbove(e.root)
    <2> DEFINE starts == {SessionRoot(once, d.session) : d \in ToSet(once)}
               S == {k \in AtOrAbove(e.root) : Len(k) >= Len(r)} \cap starts
    <2>1. \/ e.root = f.root /\ (f.root = NoPath \/ r = NoPath \/ r \notin AtOrAbove(f.root))
          \/ /\ e.root \in AtOrAbove(f.root) /\ f.root \in Seq(Nat) /\ Len(e.root) >= Len(r)
             /\ \E d \in ToSet(events) : e.root = SessionRoot(events, d.session)
      BY <1>6, <1>7, SessionKeyIs
    <2>2. r \in Seq(Nat) /\ r # NoPath /\ e.root # NoPath
      BY <1>8, AboveEnds
    <2>3. PICK d \in ToSet(events) : e.root = SessionRoot(events, d.session)
      BY <1>8, <2>1, <2>2
    <2>4. e.root \in AtOrAbove(f.root) /\ f.root \in Seq(Nat) /\ Len(e.root) >= Len(r)
      BY <1>8, <2>1, <2>2
    <2>5. e.root \in AtOrAbove(e.root)
      BY <2>4, AboveEnds
    <2>6. e.root \in starts
      <3>1. PICK g : g = MovedTo(d, SessionKey(events, d))
        OBVIOUS
      <3>2. g \in ToSet(once)
        BY <3>1, AttributedAre
      <3>3. d \in Rooted(T)
        BY SetOf
      <3>4. g.session = d.session
        BY <3>1, <3>3 DEF MovedTo, Rooted
      <3>5. SessionRoot(once, g.session) = e.root
        BY <2>3, <3>4, RootsStay
      <3>6. QED
        BY <3>2, <3>5
    <2>7. e.root \in S /\ S \subseteq AtOrAbove(e.root) /\ S # {}
      BY <2>4, <2>5, <2>6
    <2> HIDE DEF S
    <2>8. Nearest(S) \in S /\ Len(e.root) <= Len(Nearest(S))
      BY <1>8, <2>7, NearestIs
    <2>9. Len(Nearest(S)) \in Nat /\ Len(e.root) \in Nat
      BY <1>8, <2>7, <2>8, AboveAre
    <2>10. Nearest(S) = e.root
      BY <1>8, <2>7, <2>8, <2>9, AboveEnds
    <2>11. QED
      BY <1>2, <1>3, <2>10 DEF S
  <1>9. QED
    BY <1>2, <1>3, <1>8

LEMMA ReverseIs ==
  ASSUME NEW T, NEW s \in Seq(T)
  PROVE  Reverse(s) \in Seq(T) /\ ToSet(Reverse(s)) = ToSet(s)
  <1>1. PICK n \in Nat : n = Len(s)
    OBVIOUS
  <1>2. Reverse(s) = [i \in 1 .. n |-> s[(n - i) + 1]]
    BY <1>1 DEF Reverse
  <1>3. \A i \in 1 .. n : (n - i) + 1 \in 1 .. n /\ (n - ((n - i) + 1)) + 1 = i
    OBVIOUS
  <1>4. \A i \in 1 .. n : s[i] \in T
    BY <1>1
  <1>5. Reverse(s) \in Seq(T) /\ Len(Reverse(s)) = n
    BY <1>2, <1>3, <1>4
  <1>6. \A i \in 1 .. n : Reverse(s)[i] = s[(n - i) + 1]
    BY <1>2
  <1>7. ASSUME NEW e PROVE e \in ToSet(Reverse(s)) <=> e \in ToSet(s)
    <2>1. e \in ToSet(s) <=> \E i \in 1 .. n : e = s[i]
      BY <1>1, SetOf
    <2>2. e \in ToSet(Reverse(s)) <=> \E i \in 1 .. n : e = Reverse(s)[i]
      BY <1>5, SetOf
    <2>3. QED
      BY <1>3, <1>6, <2>1, <2>2
  <1>8. QED
    BY <1>5, <1>7

(* Roots of sessions, for any events: attributing them again changes nothing,  *)
(* and neither does the order in which they were read (mapSessionRepoRoots,    *)
(* attributeEventsToSessionRoots).                                             *)
THEOREM RootsAreKept ==
  ASSUME NoPath \notin Seq(Nat), NEW T,
         NEW events \in Seq([session : T, at : Nat, root : Seq(Nat) \cup {NoPath}])
  PROVE  SessionsKeepRoots(events)
  <1> DEFINE once == Attributed(events)
             back == Reverse(events)
  <1>1. events \in Seq(Rooted(T))
    BY DEF Rooted
  <1>2. once \in Seq(Rooted(T)) /\ Attributed(once) \in Seq(Rooted(T)) /\ Len(Attributed(once)) = Len(once)
    BY <1>1, AttributedAre
  <1>3. Attributed(once) = once
    <2>1. ASSUME NEW i \in 1 .. Len(once) PROVE Attributed(once)[i] = once[i]
      <3>1. Attributed(once)[i] = MovedTo(once[i], SessionKey(once, once[i]))
        BY <1>2, AttributedAre
      <3>2. once[i] \in ToSet(once) /\ once[i] \in Rooted(T)
        BY <1>2, SetOf
      <3>3. SessionKey(once, once[i]) = once[i].root
        BY <1>1, <3>2, KeysStay
      <3> HIDE DEF once
      <3>4. QED
        BY <3>1, <3>2, <3>3 DEF MovedTo, Rooted
    <2> HIDE DEF once
    <2>2. QED
      BY <1>2, <2>1, SeqEqual
  <1>4. ToSet(Attributed(back)) = ToSet(once)
    <2>1. back \in Seq(Rooted(T)) /\ ToSet(back) = ToSet(events)
      BY <1>1, ReverseIs
    <2>2. \A s : SessionRoot(back, s) = SessionRoot(events, s)
      BY <2>1 DEF SessionRoot
    <2>3. ASSUME NEW e PROVE SessionKey(back, e) = SessionKey(events, e)
      <3>1. SessionRoot(back, e.session) = SessionRoot(events, e.session)
        BY <2>2
      <3>2. {SessionRoot(back, d.session) : d \in ToSet(back)} = {SessionRoot(events, d.session) : d \in ToSet(events)}
        BY <2>1, <2>2
      <3> HIDE DEF back
      <3>3. QED
        BY <3>1, <3>2, Zenon DEF SessionKey
    <2> HIDE DEF back, once
    <2>4. \A f : f \in ToSet(Attributed(back)) <=> f \in ToSet(once)
      BY <1>1, <2>1, <2>3, AttributedAre DEF once
    <2>5. QED
      BY <2>4
  <1>5. QED
    BY <1>3, <1>4 DEF SessionsKeepRoots

----------------------------------------------------------------------------
(* OtlpPush, for any exports, limits, receivers and failures of a push.       *)

LEMMA ExtendLastIs ==
  ASSUME NEW T, NEW ss \in Lists(Lists(T)), ss # <<>>, NEW x \in T
  PROVE  /\ ExtendLast(ss, x) \in Lists(Lists(T)) /\ Len(ExtendLast(ss, x)) = Len(ss)
         /\ \A i \in 1 .. Len(ss) : i # Len(ss) => ExtendLast(ss, x)[i] = ss[i]
         /\ ExtendLast(ss, x)[Len(ss)] = Append(Last(ss), x)
         /\ FlattenSeq(ExtendLast(ss, x)) = Append(FlattenSeq(ss), x)
  <1>1. /\ Front(ss) \in Lists(Lists(T)) /\ Last(ss) \in Lists(T) /\ ss = Append(Front(ss), Last(ss))
        /\ Len(Front(ss)) = Len(ss) - 1 /\ Len(ss) \in Nat \ {0}
        /\ \A i \in 1 .. Len(ss) - 1 : Front(ss)[i] = ss[i]
    BY LastIs
  <1> DEFINE front == Front(ss)
             last == Last(ss)
             new == Append(last, x)
  <1>2. new \in Lists(T)
    BY <1>1 DEF Lists
  <1>3. ExtendLast(ss, x) = Append(front, new)
    BY Zenon DEF ExtendLast
  <1>4. FlattenSeq(ss) = Then(FlattenSeq(front), last)
    BY <1>1, FlattenAppend
  <1>5. FlattenSeq(front) \in Lists(T)
    BY <1>1, FlattenType
  <1>6. Then(FlattenSeq(front), new) = Append(Then(FlattenSeq(front), last), x)
    BY <1>1, <1>5, ThenAppends
  <1> HIDE DEF front, last, new
  <1>7. front \in Lists(Lists(T))
    BY <1>1 DEF front
  <1>8. FlattenSeq(Append(front, new)) = Then(FlattenSeq(front), new)
    BY <1>2, <1>7, FlattenAppend
  <1>9. /\ Append(front, new) \in Lists(Lists(T)) /\ Len(Append(front, new)) = Len(front) + 1
        /\ Append(front, new)[Len(front) + 1] = new
        /\ \A i \in 1 .. Len(front) : Append(front, new)[i] = front[i]
    BY <1>2, <1>7, AppendProperties DEF Lists
  <1>10. Len(front) = Len(ss) - 1 /\ \A i \in 1 .. Len(ss) - 1 : front[i] = ss[i]
    BY <1>1 DEF front
  <1>11. FlattenSeq(ExtendLast(ss, x)) = Append(FlattenSeq(ss), x)
    BY <1>3, <1>4, <1>6, <1>8
  <1>12. QED
    BY <1>1, <1>3, <1>9, <1>10, <1>11 DEF new, last

----------------------------------------------------------------------------
(* OtlpPush, for any exports and any limits: the batches.                     *)

Whole(unit) == FitsBody(<<unit>>) \/ Len(unit) <= 1
FitBatch(batch, kind) ==
    FitsBody(batch) \/ (Len(batch) = 1 /\ (kind = "traces" => Len(batch[1]) <= 1))

PiecesFit(pieces) ==
    /\ pieces \in Lists(Lists(Nat)) /\ pieces # <<>>
    /\ \A i \in 1 .. Len(pieces) : Whole(pieces[i])

LEMMA AddSpanFits ==
  ASSUME NEW pieces, PiecesFit(pieces), NEW span \in Nat
  PROVE  /\ PiecesFit(AddSpan(pieces, span))
         /\ FlattenSeq(AddSpan(pieces, span)) = Append(FlattenSeq(pieces), span)
  <1> DEFINE n == Len(pieces)
             last == Last(pieces)
             new == Append(last, span)
  <1>1. pieces \in Lists(Lists(Nat)) /\ pieces # <<>> /\ \A i \in 1 .. n : Whole(pieces[i])
    BY DEF PiecesFit
  <1>2. n \in Nat \ {0} /\ last \in Lists(Nat)
    BY <1>1, LastIs
  <1>3. CASE last = <<>> \/ FitsBody(<<new>>)
    <2>1. AddSpan(pieces, span) = ExtendLast(pieces, span)
      BY <1>3 DEF AddSpan
    <2> DEFINE x == ExtendLast(pieces, span)
    <2>2. /\ x \in Lists(Lists(Nat)) /\ Len(x) = n /\ x[n] = new
          /\ \A i \in 1 .. n : i # n => x[i] = pieces[i]
          /\ FlattenSeq(x) = Append(FlattenSeq(pieces), span)
      BY <1>1, ExtendLastIs
    <2>3. Whole(new)
      <3>1. CASE last = <<>>
        <4>1. Len(new) = 1
          BY <3>1
        <4>2. QED
          BY <4>1 DEF Whole
      <3>2. CASE FitsBody(<<new>>)
        BY <3>2 DEF Whole
      <3>3. QED
        BY <1>3, <3>1, <3>2
    <2> HIDE DEF x, new
    <2>4. \A i \in 1 .. n : Whole(x[i])
      BY <1>1, <2>2, <2>3
    <2>5. x # <<>>
      BY <1>2, <2>2, EmptyIs
    <2>6. QED
      BY <2>1, <2>2, <2>4, <2>5 DEF PiecesFit, x
  <1>4. CASE ~(last = <<>> \/ FitsBody(<<new>>))
    <2> DEFINE one == <<span>>
               x == Append(pieces, one)
    <2>1. AddSpan(pieces, span) = x
      BY <1>4 DEF AddSpan
    <2>2. one \in Lists(Nat) /\ Len(one) = 1
      BY DEF Lists
    <2>3. Whole(one)
      BY <2>2 DEF Whole
    <2>4. \A r \in Lists(Nat) : Append(r, span) = Then(r, one)
      BY AppendIsThen
    <2> HIDE DEF one
    <2>5. /\ x \in Lists(Lists(Nat)) /\ Len(x) = n + 1 /\ x[n + 1] = one
          /\ \A i \in 1 .. n : x[i] = pieces[i]
      BY <1>1, <2>2, AppendProperties DEF Lists
    <2>6. FlattenSeq(x) = Then(FlattenSeq(pieces), one) /\ FlattenSeq(pieces) \in Lists(Nat)
      BY <1>1, <2>2, FlattenAppend, FlattenType
    <2> HIDE DEF x
    <2>7. \A i \in 1 .. Len(x) : Whole(x[i])
      BY <1>1, <1>2, <2>3, <2>5
    <2>8. x # <<>>
      BY <1>2, <2>5, EmptyIs
    <2>9. PiecesFit(x) /\ FlattenSeq(x) = Append(FlattenSeq(pieces), span)
      BY <2>4, <2>5, <2>6, <2>7, <2>8 DEF PiecesFit
    <2>10. QED
      BY <2>1, <2>9
  <1>5. QED
    BY <1>3, <1>4

LEMMA SplitLineFits ==
  ASSUME NEW line \in Lists(Nat)
  PROVE  PiecesFit(SplitLine(line)) /\ FlattenSeq(SplitLine(line)) = line
  <1> DEFINE S == {p \in Lists(Lists(Nat)) : PiecesFit(p)}
             base == <<<<>>>>
             F(g) == [i \in 0 .. Len(line) |-> IF i = 0 THEN base ELSE AddSpan(g[i - 1], line[i])]
             f == CHOOSE g : g = F(g)
  <1>1. PICK n \in Nat : n = Len(line) /\ \A i \in 1 .. n : line[i] \in Nat
    BY EmptyIs
  <1>2. base \in S /\ FlattenSeq(base) = <<>>
    <2>1. <<>> \in Lists(Nat) /\ Len(<<>>) = 0
      BY EmptySeq DEF Lists
    <2> DEFINE none == <<>>
    <2>2. none \in Lists(Nat) /\ Len(none) = 0 /\ Len(<<none>>) = 1 /\ <<none>>[1] = none
      BY <2>1
    <2> HIDE DEF none
    <2>3. <<none>> \in Lists(Lists(Nat)) /\ <<none>> = Append(<<>>, none) /\ <<none>> # <<>>
      BY <2>2 DEF Lists
    <2>4. PiecesFit(<<none>>)
      <3>1. Whole(none)
        BY <2>2 DEF Whole
      <3>2. \A i \in 1 .. Len(<<none>>) : Whole(<<none>>[i])
        BY <2>2, <3>1
      <3>3. QED
        BY <2>3, <3>2 DEF PiecesFit
    <2>5. <<>> \in Lists(Lists(Nat))
      BY EmptySeq DEF Lists
    <2>6. FlattenSeq(<<none>>) = Then(FlattenSeq(<<>>), none)
      BY <2>2, <2>3, <2>5, FlattenAppend
    <2>7. FlattenSeq(<<none>>) = none
      BY <2>2, <2>6, FlattenEmpty, ThenEmpty
    <2>8. QED
      BY <2>3, <2>4, <2>7, Zenon DEF none
  <1> HIDE DEF base
  <1>3. \A p \in S : \A x \in Nat :
           AddSpan(p, x) \in S /\ FlattenSeq(AddSpan(p, x)) = Append(FlattenSeq(p), x)
    BY AddSpanFits DEF PiecesFit
  <1> HIDE DEF S
  <1>4. \E g : g = F(g)
    <2> DEFINE step == [p \in S \X (1 .. n) |-> AddSpan(p[1], line[p[2]])]
    <2>1. step \in [S \X (1 .. n) -> S]
      BY <1>1, <1>3
    <2> HIDE DEF step
    <2>2. PICK g \in [0 .. n -> S] : StepsTo(g, n, base, step)
      BY <1>1, <1>2, <2>1, StepsExist
    <2>3. ASSUME NEW i \in 1 .. n PROVE g[i] = AddSpan(g[i - 1], line[i])
      <3>1. g[i] = step[<<g[i - 1], i>>] /\ i - 1 \in 0 .. n
        BY <2>2 DEF StepsTo
      <3>2. <<g[i - 1], i>> \in S \X (1 .. n)
        BY <3>1
      <3>3. QED
        BY <3>1, <3>2 DEF step
    <2>4. g[0] = base
      BY <2>2 DEF StepsTo
    <2>5. g = F(g)
      BY <1>1, <2>3, <2>4
    <2>6. QED
      BY <2>5
  <1>5. f = F(f)
    BY <1>4
  <1>6. SplitLine(line) = f[Len(line)]
    BY Zenon DEF SplitLine, base
  <1> HIDE DEF f
  <1>7. f[0] = base /\ \A i \in 1 .. n : f[i] = AddSpan(f[i - 1], line[i])
    <2>1. PICK g : g = f /\ g = F(f)
      BY <1>5
    <2>2. g[0] = base /\ \A i \in 1 .. n : g[i] = AddSpan(f[i - 1], line[i])
      BY <1>1, <2>1
    <2>3. QED
      BY <2>1, <2>2
  <1> HIDE DEF F
  <1> DEFINE K == {i \in 0 .. n : f[i] \in S /\ FlattenSeq(f[i]) = SubSeq(line, 1, i)}
  <1>8. 0 \in K
    <2>1. f[0] \in S /\ FlattenSeq(f[0]) = <<>>
      BY <1>2, <1>7, Zenon
    <2>2. SubSeq(line, 1, 0) = <<>>
      BY PrefixIs
    <2>3. 0 \in 0 .. n
      OBVIOUS
    <2>4. f[0] \in S /\ FlattenSeq(f[0]) = SubSeq(line, 1, 0)
      BY <2>1, <2>2, Zenon
    <2>5. QED
      BY <2>3, <2>4, Zenon
  <1>9. ASSUME NEW i \in 1 .. n, i - 1 \in K PROVE i \in K
    <2>1. f[i - 1] \in S /\ FlattenSeq(f[i - 1]) = SubSeq(line, 1, i - 1)
      BY <1>9
    <2>2. f[i] = AddSpan(f[i - 1], line[i]) /\ line[i] \in Nat
      BY <1>1, <1>7
    <2>3. f[i] \in S /\ FlattenSeq(f[i]) = Append(FlattenSeq(f[i - 1]), line[i])
      BY <1>3, <2>1, <2>2
    <2>4. SubSeq(line, 1, i) = Append(SubSeq(line, 1, i - 1), line[i])
      BY <1>1, PrefixGrows
    <2>5. FlattenSeq(f[i]) = SubSeq(line, 1, i)
      BY <2>1, <2>3, <2>4
    <2>6. QED
      BY <2>3, <2>5
  <1> HIDE DEF K
  <1>10. \A i \in 0 .. n : i \in K
    BY <1>8, <1>9, CountUp
  <1>11. f[n] \in S /\ FlattenSeq(f[n]) = SubSeq(line, 1, n)
    BY <1>10 DEF K
  <1>12. QED
    BY <1>1, <1>6, <1>11, PrefixIs DEF S

(* The units of a line lay out as the line, and each is whole.                *)
Units(kind) == {u \in Lists(Nat) : kind = "metrics" \/ Whole(u)}

LEMMA UnitsOfLine ==
  ASSUME NEW line \in Lists(Nat), NEW kind
  PROVE  UnitsOf(line, kind) \in Lists(Units(kind)) /\ FlattenSeq(UnitsOf(line, kind)) = line
  <1>1. CASE kind = "metrics" \/ FitsBody(<<line>>)
    <2> DEFINE one == <<line>>
    <2>1. UnitsOf(line, kind) = one
      BY <1>1 DEF UnitsOf
    <2>2. one \in Lists(Lists(Nat)) /\ one = Append(<<>>, line) /\ <<>> \in Lists(Lists(Nat))
      BY DEF Lists
    <2>3. FlattenSeq(one) = Then(FlattenSeq(<<>>), line)
      BY <2>2, FlattenAppend
    <2>4. FlattenSeq(one) = line
      BY <2>3, FlattenEmpty, ThenEmpty
    <2>5. line \in Units(kind)
      BY <1>1 DEF Whole, Units
    <2>6. one \in Lists(Units(kind))
      BY <2>5 DEF Lists
    <2>7. QED
      BY <2>1, <2>4, <2>6
  <1>2. CASE ~(kind = "metrics" \/ FitsBody(<<line>>))
    <2>1. UnitsOf(line, kind) = SplitLine(line)
      BY <1>2 DEF UnitsOf
    <2>2. PiecesFit(SplitLine(line)) /\ FlattenSeq(SplitLine(line)) = line
      BY SplitLineFits
    <2>3. ASSUME NEW p, PiecesFit(p) PROVE p \in Lists(Units(kind))
      <3>1. p \in Lists(Lists(Nat)) /\ \A i \in 1 .. Len(p) : Whole(p[i])
        BY <2>3 DEF PiecesFit
      <3>2. \A i \in 1 .. Len(p) : p[i] \in Units(kind)
        BY <3>1, EmptyIs DEF Units
      <3>3. QED
        BY <3>1, <3>2, ListsOf
    <2>4. QED
      BY <2>1, <2>2, <2>3
  <1>3. QED
    BY <1>1, <1>2

LEMMA UnitsWhole ==
  ASSUME NEW e \in Exports
  PROVE  /\ BatchUnits(e) \in Lists(Units(e.kind))
         /\ FlattenSeq(BatchUnits(e)) = FlattenSeq(e.lines)
         /\ e.lines \in Lists(Lists(Nat))
  <1>1. e.lines \in Lists(Lists(Nat))
    BY OtlpPushAssumption DEF Lists
  <1>2. PICK ls \in Lists(Lists(Nat)), kind \in {e.kind} : ls = e.lines /\ kind = e.kind
    BY <1>1
  <1> DEFINE us == [i \in DOMAIN ls |-> UnitsOf(ls[i], kind)]
  <1>3. PICK n \in Nat : n = Len(ls) /\ DOMAIN ls = 1 .. n /\ \A i \in 1 .. n : ls[i] \in Lists(Nat)
    <2>1. ls \in Seq(Lists(Nat))
      BY DEF Lists
    <2>2. QED
      BY <2>1
  <1>4. \A i \in 1 .. n : UnitsOf(ls[i], kind) \in Lists(Units(kind)) /\ FlattenSeq(UnitsOf(ls[i], kind)) = ls[i]
    BY <1>3, UnitsOfLine
  <1>5. Len(us) = n /\ us \in Lists(Lists(Units(kind))) /\ \A i \in 1 .. n : FlattenSeq(us[i]) = ls[i]
    <2>1. us = [i \in 1 .. n |-> UnitsOf(ls[i], kind)]
      BY <1>3
    <2> DEFINE vs == [i \in 1 .. n |-> UnitsOf(ls[i], kind)]
    <2>2. vs \in Seq(Lists(Units(kind))) /\ Len(vs) = n /\ \A i \in 1 .. n : vs[i] = UnitsOf(ls[i], kind)
      BY <1>4
    <2> HIDE DEF vs
    <2>3. QED
      BY <1>4, <2>1, <2>2 DEF Lists, vs
  <1>6. BatchUnits(e) = FlattenSeq(us)
    BY <1>2, Zenon DEF BatchUnits
  <1> HIDE DEF us
  <1>7. FlattenSeq(us) \in Lists(Units(kind))
    BY <1>5, FlattenType
  <1>8. us \in Lists(Lists(Lists(Nat)))
    <2>1. Units(kind) \subseteq Lists(Nat)
      BY DEF Units
    <2>2. QED
      BY <1>5, <2>1, ListsWithin
  <1>9. FlattenSeq(FlattenSeq(us)) = FlattenSeq(ls)
    BY <1>3, <1>5, <1>8, FlattenNested
  <1>10. QED
    BY <1>1, <1>2, <1>6, <1>7, <1>9

(* Batches that may be posted; none is of no unit.                            *)
FitBatches(kind) == {b \in Lists(Units(kind)) : FitBatch(b, kind)}

LEMMA MergeUnitFits ==
  ASSUME NEW kind \in {"traces", "metrics"}, NEW done \in Lists(FitBatches(kind)), NEW unit \in Units(kind)
  PROVE  /\ MergeUnit(done, unit) \in Lists(FitBatches(kind))
         /\ FlattenSeq(MergeUnit(done, unit)) = Append(FlattenSeq(done), unit)
  <1> DEFINE T == Units(kind)
             new == Append(Last(done), unit)
             one == <<unit>>
  <1>1. FitBatches(kind) \subseteq Lists(T)
    BY DEF FitBatches
  <1>2. done \in Lists(Lists(T))
    BY <1>1, ListsWithin
  <1>3. CASE done # <<>> /\ FitsBody(new)
    <2>1. MergeUnit(done, unit) = ExtendLast(done, unit)
      BY <1>3 DEF MergeUnit
    <2>2. FlattenSeq(ExtendLast(done, unit)) = Append(FlattenSeq(done), unit)
      BY <1>2, <1>3, ExtendLastIs
    <2>3. Front(done) \in Lists(FitBatches(kind)) /\ Last(done) \in FitBatches(kind)
      BY <1>3, LastIs
    <2>4. new \in Lists(T)
      <3>1. Last(done) \in Lists(T)
        BY <1>1, <2>3
      <3>2. QED
        BY <3>1 DEF Lists
    <2>5. new \in FitBatches(kind)
      BY <1>3, <2>4 DEF FitBatches, FitBatch
    <2>6. ExtendLast(done, unit) = Append(Front(done), new)
      BY Zenon DEF ExtendLast
    <2> HIDE DEF new
    <2>7. Append(Front(done), new) \in Lists(FitBatches(kind))
      BY <2>3, <2>5 DEF Lists
    <2>8. QED
      BY <2>1, <2>2, <2>6, <2>7
  <1>4. CASE ~(done # <<>> /\ FitsBody(new))
    <2>1. MergeUnit(done, unit) = Append(done, one)
      BY <1>4 DEF MergeUnit
    <2>2. one \in Lists(T) /\ Len(one) = 1 /\ one[1] = unit
      BY DEF Lists
    <2>3. \A r \in Lists(T) : Append(r, unit) = Then(r, one)
      BY AppendIsThen
    <2> HIDE DEF one
    <2>4. FitBatch(one, kind)
      <3>1. kind = "metrics" \/ FitsBody(<<unit>>) \/ Len(unit) <= 1
        BY DEF Units, Whole
      <3>2. CASE FitsBody(<<unit>>)
        BY <3>2 DEF FitBatch, one
      <3>3. CASE kind = "metrics" \/ Len(unit) <= 1
        BY <2>2, <3>3 DEF FitBatch
      <3>4. QED
        BY <3>1, <3>2, <3>3
    <2>5. one \in FitBatches(kind)
      BY <2>2, <2>4 DEF FitBatches
    <2>6. Append(done, one) \in Lists(FitBatches(kind))
      BY <2>5 DEF Lists
    <2>7. FlattenSeq(Append(done, one)) = Then(FlattenSeq(done), one) /\ FlattenSeq(done) \in Lists(T)
      BY <1>2, <2>2, FlattenAppend, FlattenType
    <2>8. QED
      BY <2>1, <2>3, <2>6, <2>7
  <1>5. QED
    BY <1>3, <1>4

LEMMA MergedFits ==
  ASSUME NEW kind \in {"traces", "metrics"}, NEW units \in Lists(Units(kind))
  PROVE  Merged(units) \in Lists(FitBatches(kind)) /\ FlattenSeq(Merged(units)) = units
  <1> DEFINE S == Lists(FitBatches(kind))
             F(g) == [i \in 0 .. Len(units) |-> IF i = 0 THEN <<>> ELSE MergeUnit(g[i - 1], units[i])]
             f == CHOOSE g : g = F(g)
  <1>1. PICK n \in Nat : n = Len(units) /\ \A i \in 1 .. n : units[i] \in Units(kind)
    BY EmptyIs
  <1>2. <<>> \in S
    BY EmptySeq DEF Lists
  <1>3. \A p \in S : \A x \in Units(kind) :
           MergeUnit(p, x) \in S /\ FlattenSeq(MergeUnit(p, x)) = Append(FlattenSeq(p), x)
    BY MergeUnitFits
  <1> HIDE DEF S
  <1>4. \E g : g = F(g)
    <2> DEFINE step == [p \in S \X (1 .. n) |-> MergeUnit(p[1], units[p[2]])]
    <2>1. step \in [S \X (1 .. n) -> S]
      BY <1>1, <1>3
    <2> HIDE DEF step
    <2>2. PICK g \in [0 .. n -> S] : StepsTo(g, n, <<>>, step)
      BY <1>1, <1>2, <2>1, StepsExist
    <2>3. ASSUME NEW i \in 1 .. n PROVE g[i] = MergeUnit(g[i - 1], units[i])
      <3>1. g[i] = step[<<g[i - 1], i>>] /\ i - 1 \in 0 .. n
        BY <2>2 DEF StepsTo
      <3>2. <<g[i - 1], i>> \in S \X (1 .. n)
        BY <3>1
      <3>3. QED
        BY <3>1, <3>2 DEF step
    <2>4. g[0] = <<>>
      BY <2>2 DEF StepsTo
    <2>5. g = F(g)
      BY <1>1, <2>3, <2>4
    <2>6. QED
      BY <2>5
  <1>5. f = F(f)
    BY <1>4
  <1>6. Merged(units) = f[Len(units)]
    BY Zenon DEF Merged
  <1> HIDE DEF f
  <1>7. f[0] = <<>> /\ \A i \in 1 .. n : f[i] = MergeUnit(f[i - 1], units[i])
    <2>1. PICK g : g = f /\ g = F(f)
      BY <1>5
    <2>2. g[0] = <<>> /\ \A i \in 1 .. n : g[i] = MergeUnit(f[i - 1], units[i])
      BY <1>1, <2>1
    <2>3. QED
      BY <2>1, <2>2
  <1> HIDE DEF F
  <1> DEFINE K == {i \in 0 .. n : f[i] \in S /\ FlattenSeq(f[i]) = SubSeq(units, 1, i)}
  <1>8. 0 \in K
    <2>1. f[0] \in S /\ FlattenSeq(f[0]) = <<>>
      BY <1>2, <1>7, FlattenEmpty, Zenon
    <2>2. SubSeq(units, 1, 0) = <<>>
      BY PrefixIs
    <2>3. 0 \in 0 .. n
      OBVIOUS
    <2>4. f[0] \in S /\ FlattenSeq(f[0]) = SubSeq(units, 1, 0)
      BY <2>1, <2>2, Zenon
    <2>5. QED
      BY <2>3, <2>4, Zenon
  <1>9. ASSUME NEW i \in 1 .. n, i - 1 \in K PROVE i \in K
    <2>1. f[i - 1] \in S /\ FlattenSeq(f[i - 1]) = SubSeq(units, 1, i - 1)
      BY <1>9
    <2>2. f[i] = MergeUnit(f[i - 1], units[i]) /\ units[i] \in Units(kind)
      BY <1>1, <1>7
    <2>3. f[i] \in S /\ FlattenSeq(f[i]) = Append(FlattenSeq(f[i - 1]), units[i])
      BY <1>3, <2>1, <2>2
    <2>4. SubSeq(units, 1, i) = Append(SubSeq(units, 1, i - 1), units[i])
      BY <1>1, PrefixGrows
    <2>5. FlattenSeq(f[i]) = SubSeq(units, 1, i)
      BY <2>1, <2>3, <2>4
    <2>6. QED
      BY <2>3, <2>5
  <1> HIDE DEF K
  <1>10. \A i \in 0 .. n : i \in K
    BY <1>8, <1>9, CountUp
  <1>11. f[n] \in S /\ FlattenSeq(f[n]) = SubSeq(units, 1, n)
    BY <1>10 DEF K
  <1>12. QED
    BY <1>1, <1>6, <1>11, PrefixIs DEF S

LEMMA BatchesFit ==
  ASSUME NEW e \in Exports
  PROVE  /\ BuildBatches(e) \in Lists(FitBatches(e.kind))
         /\ FlattenSeq(FlattenSeq(BuildBatches(e))) = FlattenSeq(e.lines)
  <1>1. e.kind \in {"traces", "metrics"}
    BY OtlpPushAssumption
  <1>2. BatchUnits(e) \in Lists(Units(e.kind)) /\ FlattenSeq(BatchUnits(e)) = FlattenSeq(e.lines)
    BY UnitsWhole
  <1>3. Merged(BatchUnits(e)) \in Lists(FitBatches(e.kind)) /\ FlattenSeq(Merged(BatchUnits(e))) = BatchUnits(e)
    BY <1>1, <1>2, MergedFits
  <1>4. QED
    BY <1>2, <1>3 DEF BuildBatches

----------------------------------------------------------------------------
(* The push of them.                                                          *)

Holds(rec, b) == {i \in DOMAIN rec : rec[i] = b}
(* What a receiver holds while batch n is posted, for the k-th time: batches in
   order up to n, each of those before it, and none more often than posted.   *)
AttemptsTold(rec, n, k) ==
    /\ rec \in Seq(Nat)
    /\ \A i, j \in DOMAIN rec : i <= j => rec[i] <= rec[j]
    /\ \A i \in DOMAIN rec : rec[i] <= n
    /\ \A b \in 1 .. n - 1 : Holds(rec, b) # {}
    /\ \A b \in Nat : Cardinality(Holds(rec, b)) <= IF b = n THEN k ELSE MaxAttempts

LEMMA HeldFinite ==
  ASSUME NEW rec \in Seq(Nat), NEW b
  PROVE  IsFiniteSet(Holds(rec, b)) /\ Cardinality(Holds(rec, b)) \in Nat
  <1>1. DOMAIN rec = 1 .. Len(rec) /\ Len(rec) \in Int /\ 1 \in Int
    OBVIOUS
  <1>2. IsFiniteSet(1 .. Len(rec))
    BY <1>1, FS_Interval
  <1>3. Holds(rec, b) \subseteq 1 .. Len(rec)
    BY <1>1 DEF Holds
  <1>4. IsFiniteSet(Holds(rec, b))
    BY <1>2, <1>3, FS_Subset
  <1>5. QED
    BY <1>4, FS_CardinalityType

LEMMA PostedAgain ==
  ASSUME NEW rec, NEW n \in Nat \ {0}, NEW k \in Nat, AttemptsTold(rec, n, k)
  PROVE  AttemptsTold(rec, n, k + 1)
  <1>1. \A b \in Nat : Cardinality(Holds(rec, b)) \in Nat
    BY HeldFinite DEF AttemptsTold
  <1>2. MaxAttempts \in Nat
    BY OtlpPushAssumption
  <1>3. ASSUME NEW b \in Nat PROVE Cardinality(Holds(rec, b)) <= IF b = n THEN k + 1 ELSE MaxAttempts
    <2>1. PICK c \in Nat : c = Cardinality(Holds(rec, b))
      BY <1>1
    <2>2. c <= IF b = n THEN k ELSE MaxAttempts
      BY <2>1 DEF AttemptsTold
    <2>3. c <= IF b = n THEN k + 1 ELSE MaxAttempts
      BY <1>2, <2>2
    <2>4. QED
      BY <2>1, <2>3
  <1>4. QED
    BY <1>3 DEF AttemptsTold

LEMMA StoredAgain ==
  ASSUME NEW rec, NEW n \in Nat \ {0}, NEW k \in Nat, AttemptsTold(rec, n, k)
  PROVE  AttemptsTold(Append(rec, n), n, k + 1) /\ Holds(Append(rec, n), n) # {}
  <1> DEFINE new == Append(rec, n)
  <1>1. PICK m \in Nat : m = Len(rec) /\ DOMAIN rec = 1 .. m /\ rec \in Seq(Nat) /\ \A i \in 1 .. m : rec[i] \in Nat
    BY DEF AttemptsTold
  <1>2. /\ new \in Seq(Nat) /\ DOMAIN new = 1 .. m + 1 /\ new[m + 1] = n
        /\ \A i \in 1 .. m : new[i] = rec[i]
    BY <1>1
  <1> HIDE DEF new
  <1>3. \A i, j \in 1 .. m + 1 : i <= j => new[i] <= new[j]
    <2>1. \A i \in 1 .. m + 1 : new[i] <= n /\ new[i] \in Nat
      <3>1. \A i \in 1 .. m : rec[i] <= n /\ rec[i] \in Nat
        BY <1>1 DEF AttemptsTold
      <3>2. QED
        BY <1>2, <3>1
    <2>2. SUFFICES ASSUME NEW i \in 1 .. m + 1, NEW j \in 1 .. m + 1, i <= j PROVE new[i] <= new[j]
      OBVIOUS
    <2>3. CASE j = m + 1
      BY <2>1, <2>3, <1>2
    <2>4. CASE j # m + 1
      <3>1. i \in 1 .. m /\ j \in 1 .. m
        BY <2>2, <2>4
      <3>2. QED
        BY <2>2, <3>1, <1>1, <1>2 DEF AttemptsTold
    <2>5. QED
      BY <2>3, <2>4
  <1>4. \A i \in 1 .. m + 1 : new[i] <= n
    <2>1. \A i \in 1 .. m : rec[i] <= n
      BY <1>1 DEF AttemptsTold
    <2>2. QED
      BY <1>2, <2>1
  <1>5. Holds(new, n) = Holds(rec, n) \cup {m + 1} /\ m + 1 \notin Holds(rec, n)
        /\ \A b : b # n => Holds(new, b) = Holds(rec, b)
    BY <1>1, <1>2 DEF Holds
  <1>6. \A b \in 1 .. n - 1 : Holds(new, b) # {}
    BY <1>5 DEF AttemptsTold
  <1>7. IsFiniteSet(Holds(rec, n)) /\ Cardinality(Holds(rec, n)) \in Nat
    BY <1>1, HeldFinite
  <1>8. Cardinality(Holds(new, n)) = Cardinality(Holds(rec, n)) + 1
    BY <1>5, <1>7, FS_AddElement
  <1>9. Cardinality(Holds(rec, n)) <= k
    BY DEF AttemptsTold
  <1>10. \A b \in Nat : Cardinality(Holds(new, b)) <= IF b = n THEN k + 1 ELSE MaxAttempts
    <2>1. Cardinality(Holds(new, n)) <= k + 1
      BY <1>7, <1>8, <1>9
    <2>2. \A b \in Nat : b # n => Cardinality(Holds(new, b)) <= MaxAttempts
      BY <1>5 DEF AttemptsTold
    <2>3. QED
      BY <2>1, <2>2
  <1>11. AttemptsTold(new, n, k + 1)
    <2>1. new \in Seq(Nat) /\ DOMAIN new = 1 .. m + 1
      BY <1>2
    <2>2. \A i, j \in DOMAIN new : i <= j => new[i] <= new[j]
      BY <2>1, <1>3, Zenon
    <2>3. \A i \in DOMAIN new : new[i] <= n
      BY <2>1, <1>4, Zenon
    <2>4. QED
      BY <2>1, <2>2, <2>3, <1>6, <1>10, Zenon DEF AttemptsTold
  <1>12. QED
    BY <1>5, <1>11 DEF new

LEMMA NextIsTold ==
  ASSUME NEW rec, NEW n \in Nat \ {0}, NEW k \in Nat, k <= MaxAttempts, AttemptsTold(rec, n, k), Holds(rec, n) # {}
  PROVE  AttemptsTold(rec, n + 1, 0)
  <1>1. rec \in Seq(Nat) /\ MaxAttempts \in Nat /\ \A b \in Nat : Cardinality(Holds(rec, b)) \in Nat
    BY OtlpPushAssumption, HeldFinite DEF AttemptsTold
  <1>2. \A i \in DOMAIN rec : rec[i] \in Nat /\ rec[i] <= n
    <2>1. \A i \in DOMAIN rec : rec[i] <= n
      BY DEF AttemptsTold
    <2>2. rec \in Seq(Nat)
      BY DEF AttemptsTold
    <2>3. \A i \in DOMAIN rec : rec[i] \in Nat
      BY <2>2
    <2>4. QED
      BY <2>1, <2>3
  <1>3. \A i \in DOMAIN rec : rec[i] <= n + 1 /\ rec[i] # n + 1
    BY <1>2
  <1>4. Holds(rec, n + 1) = {}
    BY <1>3 DEF Holds
  <1>5. Cardinality(Holds(rec, n + 1)) = 0
    BY <1>4, FS_EmptySet
  <1>6. \A b \in Nat : Cardinality(Holds(rec, b)) <= MaxAttempts
    BY <1>1 DEF AttemptsTold
  <1>7. \A b \in Nat : Cardinality(Holds(rec, b)) <= IF b = n + 1 THEN 0 ELSE MaxAttempts
    BY <1>5, <1>6
  <1>8. \A b \in 1 .. (n + 1) - 1 : Holds(rec, b) # {}
    <2>1. \A b \in 1 .. (n + 1) - 1 : b \in 1 .. n - 1 \/ b = n
      OBVIOUS
    <2>2. QED
      BY <2>1 DEF AttemptsTold
  <1>9. QED
    BY <1>3, <1>7, <1>8 DEF AttemptsTold

LEMMA SentGrows ==
  ASSUME NEW e \in Exports, batches = BuildBatches(e), NEW n \in 1 .. Len(batches)
  PROVE  /\ SentItems(n) = SentItems(n - 1) + Items(batches[n])
         /\ SentItems(n - 1) \in Nat /\ Items(batches[n]) \in Nat
  <1>1. batches \in Lists(Lists(Lists(Nat)))
    <2>1. FitBatches(e.kind) \subseteq Lists(Lists(Nat))
      <3>1. Units(e.kind) \subseteq Lists(Nat)
        BY DEF Units
      <3>2. Lists(Units(e.kind)) \subseteq Lists(Lists(Nat))
        BY <3>1, ListsWithin
      <3>3. QED
        BY <3>2 DEF FitBatches
    <2>2. QED
      BY <2>1, BatchesFit, ListsWithin
  <1> DEFINE p == SubSeq(batches, 1, n - 1)
             b == batches[n]
  <1>2. p \in Lists(Lists(Lists(Nat))) /\ b \in Lists(Lists(Nat)) /\ SubSeq(batches, 1, n) = Append(p, b)
    BY <1>1, PrefixGrows
  <1> HIDE DEF p, b
  <1>3. FlattenSeq(Append(p, b)) = Then(FlattenSeq(p), b) /\ FlattenSeq(p) \in Lists(Lists(Nat))
    BY <1>2, FlattenAppend, FlattenType
  <1>4. FlattenSeq(Then(FlattenSeq(p), b)) = Then(FlattenSeq(FlattenSeq(p)), FlattenSeq(b))
    BY <1>2, <1>3, FlattenThen
  <1>5. FlattenSeq(FlattenSeq(p)) \in Lists(Nat) /\ FlattenSeq(b) \in Lists(Nat)
    BY <1>2, <1>3, FlattenType
  <1>6. Len(Then(FlattenSeq(FlattenSeq(p)), FlattenSeq(b)))
        = Len(FlattenSeq(FlattenSeq(p))) + Len(FlattenSeq(b))
        /\ Len(FlattenSeq(FlattenSeq(p))) \in Nat /\ Len(FlattenSeq(b)) \in Nat
    BY <1>5, ThenType
  <1>7. SentItems(n) = Len(FlattenSeq(FlattenSeq(Append(p, b))))
    BY <1>2, Zenon DEF SentItems, Items
  <1>8. SentItems(n - 1) = Len(FlattenSeq(FlattenSeq(p))) /\ Items(batches[n]) = Len(FlattenSeq(b))
    BY Zenon DEF SentItems, Items, p, b
  <1>9. QED
    BY <1>3, <1>4, <1>6, <1>7, <1>8

PushInv ==
    /\ export \in Exports /\ batches = BuildBatches(export)
    /\ pushed \in [batches : 0 .. Len(batches), items : Nat, rejected : Nat]
    /\ pushed.items = SentItems(pushed.batches)
    /\ posts \in 0 .. MaxAttempts
    /\ outcome \in {"pushing", "failed", "pushed"}
    /\ outcome = "pushing" => posts < MaxAttempts
    /\ outcome = "pushed" => pushed.batches = Len(batches)
    /\ AttemptsTold(received, NextBatch, posts)

LEMMA PushInitHolds == PushInit => PushInv
  <1> SUFFICES ASSUME PushInit PROVE PushInv
    OBVIOUS
  <1>1. /\ export \in Exports /\ batches = BuildBatches(export) /\ received = <<>>
        /\ pushed = [batches |-> 0, items |-> 0, rejected |-> 0] /\ posts = 0 /\ outcome = "pushing"
    BY DEF PushInit
  <1>2. batches \in Lists(FitBatches(export.kind))
    BY <1>1, BatchesFit
  <1>3. Len(batches) \in Nat /\ SubSeq(batches, 1, 0) = <<>>
    BY <1>2, EmptyIs, PrefixIs
  <1>4. SentItems(0) = 0
    <2>1. Len(<<>>) = 0
      OBVIOUS
    <2>2. QED
      BY <1>3, <2>1, FlattenEmpty, Zenon DEF SentItems, Items
  <1>5. MaxAttempts \in Nat \ {0}
    BY OtlpPushAssumption
  <1>6. AttemptsTold(received, 1, 0)
    <2>1. received \in Seq(Nat) /\ DOMAIN received = {}
      BY <1>1
    <2>2. \A b : Holds(received, b) = {}
      BY <2>1 DEF Holds
    <2>3. \A b : Cardinality(Holds(received, b)) = 0
      BY <2>2, FS_EmptySet
    <2>4. \A b \in 1 .. 1 - 1 : FALSE
      OBVIOUS
    <2>5. QED
      BY <1>5, <2>1, <2>3, <2>4 DEF AttemptsTold
  <1>7. NextBatch = 1
    BY <1>1 DEF NextBatch
  <1>8. pushed \in [batches : 0 .. Len(batches), items : Nat, rejected : Nat] /\ pushed.batches = 0
        /\ pushed.items = 0
    BY <1>1, <1>3
  <1>9. QED
    BY <1>1, <1>4, <1>5, <1>6, <1>7, <1>8 DEF PushInv

(* One more post of the batch, which is stored or not.                        *)
LEMMA PostKeepsTold ==
  ASSUME PushInv, NEW stored \in BOOLEAN, Stores(stored)
  PROVE  AttemptsTold(received', NextBatch, posts + 1)
  <1>1. NextBatch \in Nat \ {0} /\ posts \in Nat /\ AttemptsTold(received, NextBatch, posts)
    <2>1. pushed.batches \in 0 .. Len(batches) /\ MaxAttempts \in Nat
      BY OtlpPushAssumption DEF PushInv
    <2>2. Len(batches) \in Nat
      BY BatchesFit, EmptyIs DEF PushInv
    <2>3. QED
      BY <2>1, <2>2 DEF PushInv, NextBatch
  <1>2. received' = Append(received, NextBatch) \/ received' = received
    BY DEF Stores
  <1>3. QED
    BY <1>1, <1>2, PostedAgain, StoredAgain

LEMMA PushStepKeepsInv == PushInv /\ [PushNext]_pushVars => PushInv'
  <1> SUFFICES ASSUME PushInv, [PushNext]_pushVars PROVE PushInv'
    OBVIOUS
  <1>1. /\ export \in Exports /\ batches = BuildBatches(export)
        /\ pushed \in [batches : 0 .. Len(batches), items : Nat, rejected : Nat]
        /\ pushed.items = SentItems(pushed.batches)
        /\ posts \in 0 .. MaxAttempts /\ outcome \in {"pushing", "failed", "pushed"}
        /\ outcome = "pushing" => posts < MaxAttempts
        /\ outcome = "pushed" => pushed.batches = Len(batches)
        /\ AttemptsTold(received, NextBatch, posts)
    BY DEF PushInv
  <1>2. Len(batches) \in Nat /\ MaxAttempts \in Nat \ {0}
    BY <1>1, BatchesFit, EmptyIs, OtlpPushAssumption
  <1>3. ASSUME NEW rejected \in {0, 1}, Accepted(rejected) PROVE PushInv'
    <2>1. /\ pushed.batches < Len(batches) /\ outcome = "pushing"
          /\ received' = Append(received, NextBatch)
          /\ pushed' = [batches |-> NextBatch, items |-> pushed.items + Items(batches[NextBatch]),
                        rejected |-> pushed.rejected + rejected]
          /\ posts' = 0 /\ export' = export /\ batches' = batches /\ outcome' = outcome
      BY <1>3 DEF Accepted, Pending
    <2>2. PICK n \in Nat : n = pushed.batches /\ NextBatch = n + 1 /\ n + 1 \in 1 .. Len(batches)
      BY <1>1, <1>2, <2>1 DEF NextBatch
    <2>3. SentItems(n + 1) = SentItems(n) + Items(batches[n + 1]) /\ SentItems(n) \in Nat
          /\ Items(batches[n + 1]) \in Nat
      <3>1. (n + 1) - 1 = n
        OBVIOUS
      <3>2. QED
        BY <1>1, <2>2, <3>1, SentGrows
    <2>4. /\ pushed'.batches = n + 1 /\ pushed'.items = SentItems(n + 1)
          /\ pushed' \in [batches : 0 .. Len(batches), items : Nat, rejected : Nat]
      <3>1. pushed.items + Items(batches[n + 1]) = SentItems(n + 1)
            /\ SentItems(n + 1) \in Nat /\ pushed.rejected + rejected \in Nat /\ n + 1 \in 0 .. Len(batches)
        BY <1>1, <2>2, <2>3
      <3>2. pushed' = [batches |-> n + 1, items |-> SentItems(n + 1), rejected |-> pushed.rejected + rejected]
        BY <2>1, <2>2, <3>1
      <3>3. QED
        BY <3>1, <3>2
    <2>5. AttemptsTold(received', n + 1, posts + 1) /\ Holds(received', n + 1) # {}
      BY <1>1, <1>2, <2>1, <2>2, StoredAgain
    <2>6. AttemptsTold(received', (n + 1) + 1, 0)
      <3>1. posts + 1 \in Nat /\ posts + 1 <= MaxAttempts /\ n + 1 \in Nat \ {0}
        BY <1>1, <1>2, <2>1
      <3>2. QED
        BY <2>5, <3>1, NextIsTold
    <2>7. NextBatch' = (n + 1) + 1
      BY <2>4 DEF NextBatch
    <2>8. (SentItems(pushed.batches))' = SentItems(n + 1)
      BY <2>1, <2>4 DEF SentItems
    <2>9. QED
      BY <1>1, <1>2, <2>1, <2>4, <2>6, <2>7, <2>8 DEF PushInv
  <1>4. ASSUME NEW stored \in BOOLEAN, Stores(stored), Pending, posts' = posts + 1,
               \/ outcome' = outcome /\ posts + 1 < MaxAttempts
               \/ outcome' = "failed",
               UNCHANGED <<export, batches, pushed>>
        PROVE  PushInv'
    <2>1. AttemptsTold(received', NextBatch, posts + 1)
      BY <1>4, PostKeepsTold
    <2>2. NextBatch' = NextBatch
      BY <1>4 DEF NextBatch
    <2>3. posts' \in 0 .. MaxAttempts /\ outcome' \in {"pushing", "failed", "pushed"}
          /\ (outcome' = "pushing" => posts' < MaxAttempts)
          /\ outcome' # "pushed"
      BY <1>1, <1>2, <1>4 DEF Pending
    <2>4. (SentItems(pushed.batches))' = SentItems(pushed.batches)
      BY <1>4 DEF SentItems
    <2>5. AttemptsTold(received', NextBatch', posts')
      BY <1>4, <2>1, <2>2
    <2>6. QED
      BY <1>1, <1>4, <2>3, <2>4, <2>5 DEF PushInv
  <1>5. ASSUME NEW stored \in BOOLEAN, NEW tooLong \in BOOLEAN, AnswersLater(stored, tooLong) PROVE PushInv'
    <2>1. Pending /\ Stores(stored) /\ posts' = posts + 1 /\ UNCHANGED <<export, batches, pushed>>
          /\ ((outcome' = outcome /\ posts + 1 < MaxAttempts) \/ outcome' = "failed")
      BY <1>5 DEF AnswersLater
    <2>2. QED
      BY <1>4, <2>1
  <1>6. ASSUME NEW stored \in BOOLEAN, PushFails(stored) PROVE PushInv'
    BY <1>4, <1>6 DEF PushFails
  <1>7. CASE PushEnds
    <2>1. outcome' = "pushed" /\ pushed.batches = Len(batches)
          /\ UNCHANGED <<export, batches, pushed, posts, received>>
      BY <1>7 DEF PushEnds
    <2>2. NextBatch' = NextBatch /\ (SentItems(pushed.batches))' = SentItems(pushed.batches)
      BY <2>1 DEF NextBatch, SentItems
    <2>3. QED
      BY <1>1, <2>1, <2>2 DEF PushInv
  <1>8. CASE UNCHANGED pushVars
    <2>1. UNCHANGED <<export, batches, pushed, posts, outcome, received>>
      BY <1>8 DEF pushVars
    <2>2. NextBatch' = NextBatch /\ (SentItems(pushed.batches))' = SentItems(pushed.batches)
      BY <2>1 DEF NextBatch, SentItems
    <2>3. QED
      BY <1>1, <2>1, <2>2 DEF PushInv
  <1>9. QED
    BY <1>3, <1>5, <1>6, <1>7, <1>8 DEF PushNext

(* A push posts the export's batches in order, each until it is stored, never
   one more often than MaxAttempts, and counts what it was told was stored
   (pushOtlp, postBatch).                                                     *)
THEOREM PushInvariant == PushSpec => []PushInv
  <1>1. PushInit => PushInv
    BY PushInitHolds
  <1>2. PushInv /\ [PushNext]_pushVars => PushInv'
    BY PushStepKeepsInv
  <1>3. QED
    BY <1>1, <1>2, PTL DEF PushSpec

(* What the push says was sent is what the receiver took: every span and point
   of the export is in one batch, in order; a body is too large only when one
   span, or one line of metrics, is; and nothing that was counted is missing.  *)
THEOREM PushesAreTold == PushSpec => []PushIsTold
  <1>1. PushInv => PushIsTold
    <2> SUFFICES ASSUME PushInv PROVE PushIsTold
      OBVIOUS
    <2>1. /\ export \in Exports /\ batches = BuildBatches(export)
          /\ pushed.batches \in 0 .. Len(batches) /\ pushed.items = SentItems(pushed.batches)
          /\ outcome = "pushed" => pushed.batches = Len(batches)
          /\ AttemptsTold(received, NextBatch, posts) /\ posts \in 0 .. MaxAttempts
      BY DEF PushInv
    <2>2. /\ batches \in Lists(FitBatches(export.kind))
          /\ FlattenSeq(FlattenSeq(batches)) = FlattenSeq(export.lines)
      BY <2>1, BatchesFit
    <2>3. PICK n \in Nat : n = Len(batches) /\ DOMAIN batches = 1 .. n
          /\ \A b \in 1 .. n : batches[b] \in FitBatches(export.kind)
      <3>1. batches \in Seq(FitBatches(export.kind))
        BY <2>2 DEF Lists
      <3>2. QED
        BY <3>1
    <2>4. BatchedInOrder
      BY <2>2, <2>3 DEF BatchedInOrder, FitBatches, FitBatch
    <2>5. MaxAttempts \in Nat /\ NextBatch = pushed.batches + 1 /\ pushed.batches \in Nat
      BY <2>1, <2>3, OtlpPushAssumption DEF NextBatch
    <2>6. \A b : Stored(b) = Holds(received, b)
      BY DEF Stored, Holds
    <2>7. /\ \A i, j \in DOMAIN received : i <= j => received[i] <= received[j]
          /\ \A i \in DOMAIN received : received[i] <= NextBatch
      BY <2>1 DEF AttemptsTold
    <2>8. \A b \in 1 .. pushed.batches : Stored(b) # {}
      <3>1. \A b \in 1 .. NextBatch - 1 : Holds(received, b) # {}
        BY <2>1 DEF AttemptsTold
      <3>2. NextBatch - 1 = pushed.batches
        BY <2>5
      <3>3. QED
        BY <2>6, <3>1, <3>2
    <2>9. ASSUME NEW b \in DOMAIN batches PROVE Cardinality(Stored(b)) <= MaxAttempts
      <3>1. b \in Nat /\ received \in Seq(Nat)
        BY <2>1, <2>3 DEF AttemptsTold
      <3>2. PICK c \in Nat : c = Cardinality(Holds(received, b))
        BY <3>1, HeldFinite
      <3>3. c <= IF b = NextBatch THEN posts ELSE MaxAttempts
        BY <2>1, <3>1, <3>2 DEF AttemptsTold
      <3>4. c <= MaxAttempts
        BY <2>1, <2>5, <3>3
      <3>5. QED
        BY <2>6, <3>2, <3>4
    <2>10. outcome = "pushed" => pushed.items = Len(FlattenSeq(export.lines))
      <3>1. SubSeq(batches, 1, Len(batches)) = batches
        BY <2>2, PrefixIs
      <3>2. SentItems(Len(batches)) = Len(FlattenSeq(export.lines))
        BY <2>2, <3>1, Zenon DEF SentItems, Items
      <3>3. QED
        BY <2>1, <3>2
    <2>11. QED
      BY <2>1, <2>4, <2>7, <2>8, <2>9, <2>10 DEF PushIsTold
  <1>2. QED
    BY <1>1, PushInvariant, PTL

----------------------------------------------------------------------------
(* Dedup, for any files of any events: the repeats of an event.               *)

Where(s, h) == {j \in DOMAIN s : Hash(s[j]) = h}

LEMMA RepeatsAre ==
  ASSUME NEW E, NEW s \in Lists(E), NEW h
  PROVE  /\ Repeats(s, h) \in Nat /\ IsFiniteSet(Where(s, h)) /\ Repeats(s, h) = Cardinality(Where(s, h))
         /\ Repeats(s, h) = 0 <=> \A j \in 1 .. Len(s) : Hash(s[j]) # h
  <1>1. s \in Seq(E) /\ Len(s) \in Nat /\ DOMAIN s = 1 .. Len(s)
    BY DEF Lists
  <1>2. Where(s, h) \subseteq 1 .. Len(s) /\ IsFiniteSet(1 .. Len(s))
    BY <1>1, FS_Interval DEF Where
  <1>3. IsFiniteSet(Where(s, h))
    BY <1>2, FS_Subset
  <1>4. Cardinality(Where(s, h)) \in Nat /\ (Cardinality(Where(s, h)) = 0 <=> Where(s, h) = {})
    BY <1>3, FS_CardinalityType, FS_EmptySet
  <1>5. Repeats(s, h) = Cardinality(Where(s, h))
    BY DEF Repeats, Where
  <1>6. Where(s, h) = {} <=> \A j \in 1 .. Len(s) : Hash(s[j]) # h
    BY <1>1 DEF Where
  <1>7. QED
    BY <1>3, <1>4, <1>5, <1>6

LEMMA RepeatsGrow ==
  ASSUME NEW E, NEW s \in Lists(E), NEW x \in E, NEW h
  PROVE  Repeats(Append(s, x), h) = IF Hash(x) = h THEN Repeats(s, h) + 1 ELSE Repeats(s, h)
  <1> DEFINE t == Append(s, x)
  <1>1. PICK n \in Nat : n = Len(s) /\ DOMAIN s = 1 .. n
    BY DEF Lists
  <1>2. t \in Lists(E) /\ DOMAIN t = 1 .. (n + 1) /\ t[n + 1] = x /\ \A i \in 1 .. n : t[i] = s[i]
    BY <1>1, AppendProperties DEF Lists
  <1>3. 1 .. (n + 1) = (1 .. n) \cup {n + 1} /\ n + 1 \notin 1 .. n
    BY <1>1
  <1> HIDE DEF t
  <1>4. Where(t, h) = IF Hash(x) = h THEN Where(s, h) \cup {n + 1} ELSE Where(s, h)
    BY <1>1, <1>2, <1>3 DEF Where
  <1>5. n + 1 \notin Where(s, h)
    BY <1>1, <1>3 DEF Where
  <1>6. IsFiniteSet(Where(s, h)) /\ Repeats(s, h) = Cardinality(Where(s, h))
        /\ Repeats(t, h) = Cardinality(Where(t, h))
    BY <1>2, RepeatsAre
  <1>7. Cardinality(Where(s, h) \cup {n + 1}) = Cardinality(Where(s, h)) + 1
    BY <1>5, <1>6, FS_AddElement
  <1>8. QED
    BY <1>4, <1>6, <1>7 DEF t

LEMMA RepeatsAdd ==
  ASSUME NEW E, NEW s \in Lists(E), NEW t \in Lists(E), NEW h
  PROVE  Repeats(Then(s, t), h) = Repeats(s, h) + Repeats(t, h)
  <1> DEFINE P == {r \in Lists(E) : Repeats(Then(s, r), h) = Repeats(s, h) + Repeats(r, h)}
  <1>1. <<>> \in P
    <2>1. <<>> \in Lists(E) /\ Then(s, <<>>) = s
      BY ThenEmpty
    <2>2. Len(<<>>) = 0
      OBVIOUS
    <2>3. Repeats(<<>>, h) = 0 /\ Repeats(s, h) \in Nat
      BY <2>1, <2>2, RepeatsAre
    <2>4. QED
      BY <2>1, <2>3
  <1>2. ASSUME NEW r \in Lists(E), NEW x \in E, r \in P PROVE Append(r, x) \in P
    <2>1. Then(s, Append(r, x)) = Append(Then(s, r), x) /\ Then(s, r) \in Lists(E)
      BY ThenAppends, ThenType
    <2>2. Append(r, x) \in Lists(E)
      BY AppendProperties DEF Lists
    <2>3. Repeats(Append(Then(s, r), x), h)
            = IF Hash(x) = h THEN Repeats(Then(s, r), h) + 1 ELSE Repeats(Then(s, r), h)
      BY <2>1, RepeatsGrow
    <2>4. Repeats(Append(r, x), h) = IF Hash(x) = h THEN Repeats(r, h) + 1 ELSE Repeats(r, h)
      BY RepeatsGrow
    <2>5. Repeats(Then(s, r), h) = Repeats(s, h) + Repeats(r, h) /\ Repeats(s, h) \in Nat /\ Repeats(r, h) \in Nat
      BY <1>2, RepeatsAre
    <2>6. Repeats(Append(Then(s, r), x), h) = Repeats(s, h) + Repeats(Append(r, x), h)
      BY <2>3, <2>4, <2>5
    <2>7. QED
      BY <2>1, <2>2, <2>6
  <1> HIDE DEF P
  <1>3. t \in P
    BY <1>1, <1>2, GrowUp
  <1>4. QED
    BY <1>3 DEF P

----------------------------------------------------------------------------
(* What is taken of one file.                                                 *)

TakenTo(g, n, file, counted) ==
    /\ g[0] = <<>>
    /\ \A i \in 1 .. n : g[i] = IF Seen(file, i) > counted[Hash(file[i])] THEN Append(g[i - 1], file[i])
                                ELSE g[i - 1]

LEMMA UncountedSteps ==
  ASSUME NEW E, NEW file \in Lists(E), NEW counted, NEW n \in Nat, n = Len(file)
  PROVE  \E g \in [0 .. n -> Lists(E)] : TakenTo(g, n, file, counted) /\ Uncounted(file, counted) = g[n]
  <1>1. \A i \in 1 .. n : file[i] \in E
    BY EmptyIs
  <1> DEFINE Take(r, i) == IF Seen(file, i) > counted[Hash(file[i])] THEN Append(r, file[i]) ELSE r
             step == [p \in Lists(E) \X (1 .. n) |-> Take(p[1], p[2])]
  <1>2. \A r \in Lists(E), i \in 1 .. n : Take(r, i) \in Lists(E)
    <2>1. \A r \in Lists(E), x \in E : Append(r, x) \in Lists(E)
      BY AppendProperties DEF Lists
    <2>2. QED
      BY <1>1, <2>1
  <1> HIDE DEF Take
  <1>3. step \in [Lists(E) \X (1 .. n) -> Lists(E)]
    BY <1>2
  <1>4. \A r \in Lists(E), i \in 1 .. n : step[<<r, i>>] = Take(r, i)
    OBVIOUS
  <1> HIDE DEF step
  <1>5. <<>> \in Lists(E)
    BY EmptySeq DEF Lists
  <1>6. PICK g \in [0 .. n -> Lists(E)] : StepsTo(g, n, <<>>, step)
    BY <1>3, <1>5, StepsExist
  <1>7. g[0] = <<>> /\ \A i \in 1 .. n : g[i] = Take(g[i - 1], i)
    <2>1. \A i \in 1 .. n : i - 1 \in 0 .. n /\ g[i - 1] \in Lists(E)
      OBVIOUS
    <2>2. QED
      BY <1>4, <1>6, <2>1 DEF StepsTo
  <1> DEFINE F(h) == [i \in 0 .. n |-> IF i = 0 THEN <<>>
                                       ELSE IF Seen(file, i) > counted[Hash(file[i])] THEN Append(h[i - 1], file[i])
                                       ELSE h[i - 1]]
             f == CHOOSE h : h = F(h)
  <1>8. g = F(g)
    <2>1. \A i \in 0 .. n : g[i] = IF i = 0 THEN <<>> ELSE Take(g[i - 1], i)
      BY <1>7
    <2>2. QED
      BY <2>1 DEF Take
  <1>9. f = F(f)
    BY <1>8
  <1>10. Uncounted(file, counted) = f[n]
    BY DEF Uncounted
  <1> HIDE DEF f
  <1>11. f[0] = <<>> /\ \A i \in 1 .. n : f[i] = Take(f[i - 1], i)
    <2>1. PICK k : k = f /\ k = F(k)
      BY <1>9
    <2>2. \A i \in 0 .. n : F(k)[i] = IF i = 0 THEN <<>> ELSE Take(k[i - 1], i)
      BY DEF Take
    <2>3. 0 \in 0 .. n /\ \A i \in 1 .. n : i \in 0 .. n /\ i # 0
      OBVIOUS
    <2> HIDE DEF F
    <2>4. k[0] = <<>> /\ \A i \in 1 .. n : k[i] = Take(k[i - 1], i)
      BY <2>1, <2>2, <2>3
    <2>5. QED
      BY <2>1, <2>4
  <1> HIDE DEF F
  <1>12. \A i \in 0 .. n : f[i] = g[i]
    <2> DEFINE K == {i \in 0 .. n : f[i] = g[i]}
    <2>1. 0 \in K
      BY <1>7, <1>11
    <2>2. ASSUME NEW i \in 1 .. n, i - 1 \in K PROVE i \in K
      BY <1>7, <1>11, <2>2
    <2> HIDE DEF K
    <2>3. \A i \in 0 .. n : i \in K
      BY <2>1, <2>2, CountUp
    <2>4. QED
      BY <2>3 DEF K
  <1>13. TakenTo(g, n, file, counted)
    BY <1>7 DEF TakenTo, Take
  <1>14. QED
    BY <1>10, <1>12, <1>13

LEMMA SeenIs ==
  ASSUME NEW E, NEW file \in Lists(E), NEW i \in 1 .. Len(file), NEW h
  PROVE  /\ Repeats(SubSeq(file, 1, i), h)
              = IF Hash(file[i]) = h THEN Repeats(SubSeq(file, 1, i - 1), h) + 1
                ELSE Repeats(SubSeq(file, 1, i - 1), h)
         /\ Hash(file[i]) = h => Seen(file, i) = Repeats(SubSeq(file, 1, i), h)
  <1>1. /\ SubSeq(file, 1, i - 1) \in Lists(E) /\ SubSeq(file, 1, i) \in Lists(E) /\ file[i] \in E
        /\ SubSeq(file, 1, i) = Append(SubSeq(file, 1, i - 1), file[i])
    BY PrefixGrows
  <1>2. file \in Seq(E) /\ Len(file) \in Nat
    BY DEF Lists
  <1>3. DOMAIN SubSeq(file, 1, i) = 1 .. i /\ \A j \in 1 .. i : SubSeq(file, 1, i)[j] = file[j]
    BY <1>2
  <1> DEFINE p == SubSeq(file, 1, i)
  <1> HIDE DEF p
  <1>4. Where(p, h) = {j \in 1 .. i : Hash(file[j]) = h}
    BY <1>3 DEF Where, p
  <1>5. Repeats(p, h) = Cardinality(Where(p, h))
    BY <1>1, RepeatsAre DEF p
  <1>6. Hash(file[i]) = h => Seen(file, i) = Repeats(p, h)
    BY <1>4, <1>5 DEF Seen
  <1>7. Repeats(Append(SubSeq(file, 1, i - 1), file[i]), h)
          = IF Hash(file[i]) = h THEN Repeats(SubSeq(file, 1, i - 1), h) + 1
            ELSE Repeats(SubSeq(file, 1, i - 1), h)
    BY <1>1, RepeatsGrow
  <1>8. QED
    BY <1>1, <1>6, <1>7 DEF p

(* A file's events are taken beyond the counted ones: of each hash, what the
   file has more.                                                             *)
LEMMA UncountedIs ==
  ASSUME NEW E, NEW file \in Lists(E), NEW counted
  PROVE  /\ Uncounted(file, counted) \in Lists(E)
         /\ \A h : counted[h] \in Nat =>
              Repeats(Uncounted(file, counted), h)
                = IF Repeats(file, h) > counted[h] THEN Repeats(file, h) - counted[h] ELSE 0
  <1>1. PICK n \in Nat : n = Len(file) /\ \A i \in 1 .. n : file[i] \in E
    BY EmptyIs
  <1>2. PICK g \in [0 .. n -> Lists(E)] : TakenTo(g, n, file, counted) /\ Uncounted(file, counted) = g[n]
    <2>1. n = Len(file)
      BY <1>1
    <2>2. QED
      BY <2>1, UncountedSteps
  <1>3. n \in 0 .. n
    OBVIOUS
  <1>4. ASSUME NEW h, counted[h] \in Nat
        PROVE  Repeats(g[n], h) = IF Repeats(file, h) > counted[h] THEN Repeats(file, h) - counted[h] ELSE 0
    <2> DEFINE R(i) == Repeats(SubSeq(file, 1, i), h)
               K == {i \in 0 .. n : Repeats(g[i], h) = IF R(i) > counted[h] THEN R(i) - counted[h] ELSE 0}
    <2>1. 0 \in K
      <3>1. SubSeq(file, 1, 0) = <<>> /\ g[0] = <<>> /\ <<>> \in Lists(E) /\ Len(<<>>) = 0
        BY <1>2, PrefixIs, ThenEmpty DEF TakenTo
      <3>2. Repeats(<<>>, h) = 0
        BY <3>1, RepeatsAre
      <3>3. R(0) = 0 /\ Repeats(g[0], h) = 0
        BY <3>1, <3>2
      <3> HIDE DEF R
      <3>4. QED
        BY <3>3, <1>4
    <2>2. ASSUME NEW i \in 1 .. n, i - 1 \in K PROVE i \in K
      <3>1. i \in 1 .. Len(file) /\ file[i] \in E /\ i - 1 \in 0 .. n /\ g[i - 1] \in Lists(E)
        BY <1>1
      <3>2. R(i) = (IF Hash(file[i]) = h THEN R(i - 1) + 1 ELSE R(i - 1))
            /\ (Hash(file[i]) = h => Seen(file, i) = R(i))
        BY <3>1, SeenIs
      <3>3. R(i - 1) \in Nat /\ R(i) \in Nat
        <4>1. SubSeq(file, 1, i - 1) \in Lists(E) /\ SubSeq(file, 1, i) \in Lists(E)
          BY <3>1, PrefixGrows
        <4>2. QED
          BY <4>1, RepeatsAre
      <3>4. Repeats(g[i - 1], h) = IF R(i - 1) > counted[h] THEN R(i - 1) - counted[h] ELSE 0
        BY <2>2
      <3>5. g[i] = IF Seen(file, i) > counted[Hash(file[i])] THEN Append(g[i - 1], file[i]) ELSE g[i - 1]
        BY <1>2 DEF TakenTo
      <3>6. Repeats(Append(g[i - 1], file[i]), h)
              = IF Hash(file[i]) = h THEN Repeats(g[i - 1], h) + 1 ELSE Repeats(g[i - 1], h)
        BY <3>1, RepeatsGrow
      <3> HIDE DEF R
      <3>7. CASE Hash(file[i]) = h
        <4>1. R(i) = R(i - 1) + 1 /\ Seen(file, i) = R(i)
          BY <3>2, <3>7
        <4>2. CASE R(i) > counted[h]
          <5>1. Repeats(g[i], h) = Repeats(g[i - 1], h) + 1
            BY <3>5, <3>6, <3>7, <4>1, <4>2
          <5>2. Repeats(g[i], h) = R(i) - counted[h]
            BY <1>4, <3>3, <3>4, <4>1, <4>2, <5>1
          <5>3. QED
            BY <4>2, <5>2
        <4>3. CASE ~(R(i) > counted[h])
          <5>1. Repeats(g[i], h) = Repeats(g[i - 1], h)
            BY <3>5, <3>7, <4>1, <4>3
          <5>2. ~(R(i - 1) > counted[h])
            BY <1>4, <3>3, <4>1, <4>3
          <5>3. QED
            BY <3>4, <4>3, <5>1, <5>2
        <4>4. QED
          BY <4>2, <4>3
      <3>8. CASE Hash(file[i]) # h
        <4>1. Repeats(g[i], h) = Repeats(g[i - 1], h) /\ R(i) = R(i - 1)
          BY <3>2, <3>5, <3>6, <3>8
        <4>2. QED
          BY <3>4, <4>1
      <3>9. QED
        BY <3>7, <3>8
    <2> HIDE DEF K
    <2>3. \A i \in 0 .. n : i \in K
      BY <2>1, <2>2, CountUp
    <2>4. SubSeq(file, 1, n) = file
      BY <1>1, PrefixIs
    <2>5. QED
      BY <1>3, <2>3, <2>4 DEF K
  <1>5. QED
    BY <1>2, <1>3, <1>4

LEMMA UncountedAgree ==
  ASSUME NEW E, NEW file \in Lists(E), NEW c, NEW d,
         \A i \in 1 .. Len(file) : c[Hash(file[i])] = d[Hash(file[i])]
  PROVE  Uncounted(file, c) = Uncounted(file, d)
  <1>1. PICK n \in Nat : n = Len(file)
    BY EmptyIs
  <1>2. PICK g \in [0 .. n -> Lists(E)] : TakenTo(g, n, file, c) /\ Uncounted(file, c) = g[n]
    BY <1>1, UncountedSteps
  <1>3. PICK k \in [0 .. n -> Lists(E)] : TakenTo(k, n, file, d) /\ Uncounted(file, d) = k[n]
    BY <1>1, UncountedSteps
  <1> DEFINE K == {i \in 0 .. n : g[i] = k[i]}
  <1>4. 0 \in K
    BY <1>2, <1>3 DEF TakenTo
  <1>5. ASSUME NEW i \in 1 .. n, i - 1 \in K PROVE i \in K
    <2>1. c[Hash(file[i])] = d[Hash(file[i])] /\ g[i - 1] = k[i - 1]
      BY <1>1, <1>5
    <2>2. g[i] = IF Seen(file, i) > c[Hash(file[i])] THEN Append(g[i - 1], file[i]) ELSE g[i - 1]
      BY <1>2 DEF TakenTo
    <2>3. k[i] = IF Seen(file, i) > d[Hash(file[i])] THEN Append(k[i - 1], file[i]) ELSE k[i - 1]
      BY <1>3 DEF TakenTo
    <2>4. QED
      BY <2>1, <2>2, <2>3
  <1> HIDE DEF K
  <1>6. \A i \in 0 .. n : i \in K
    BY <1>4, <1>5, CountUp
  <1>7. n \in 0 .. n
    OBVIOUS
  <1>8. QED
    BY <1>2, <1>3, <1>6, <1>7 DEF K

LEMMA UncountedWhole ==
  ASSUME NEW E, NEW file \in Lists(E), NEW c, \A i \in 1 .. Len(file) : c[Hash(file[i])] = 0
  PROVE  Uncounted(file, c) = file
  <1>1. PICK n \in Nat : n = Len(file)
    BY EmptyIs
  <1>2. PICK g \in [0 .. n -> Lists(E)] : TakenTo(g, n, file, c) /\ Uncounted(file, c) = g[n]
    BY <1>1, UncountedSteps
  <1> DEFINE K == {i \in 0 .. n : g[i] = SubSeq(file, 1, i)}
  <1>3. 0 \in K
    BY <1>2, PrefixIs DEF TakenTo
  <1>4. ASSUME NEW i \in 1 .. n, i - 1 \in K PROVE i \in K
    <2>1. i \in 1 .. Len(file)
      BY <1>1
    <2>2. SubSeq(file, 1, i - 1) \in Lists(E) /\ SubSeq(file, 1, i) = Append(SubSeq(file, 1, i - 1), file[i])
      BY <2>1, PrefixGrows
    <2> DEFINE h == Hash(file[i])
    <2> HIDE DEF h
    <2>3. Repeats(SubSeq(file, 1, i), h) = Repeats(SubSeq(file, 1, i - 1), h) + 1
          /\ Seen(file, i) = Repeats(SubSeq(file, 1, i), h)
      BY <2>1, SeenIs DEF h
    <2>4. Repeats(SubSeq(file, 1, i - 1), h) \in Nat
      BY <2>2, RepeatsAre
    <2>5. Seen(file, i) > c[Hash(file[i])]
      <3>1. c[Hash(file[i])] = 0
        BY <2>1
      <3>2. Seen(file, i) > 0
        BY <2>3, <2>4
      <3>3. QED
        BY <3>1, <3>2
    <2>6. g[i] = IF Seen(file, i) > c[Hash(file[i])] THEN Append(g[i - 1], file[i]) ELSE g[i - 1]
      BY <1>2 DEF TakenTo
    <2>7. g[i] = SubSeq(file, 1, i)
      BY <1>4, <2>2, <2>5, <2>6
    <2>8. QED
      BY <2>7
  <1> HIDE DEF K
  <1>5. \A i \in 0 .. n : i \in K
    BY <1>3, <1>4, CountUp
  <1>6. g[n] = SubSeq(file, 1, n)
    BY <1>5 DEF K
  <1>7. SubSeq(file, 1, n) = file
    BY <1>1, PrefixIs
  <1>8. QED
    BY <1>2, <1>6, <1>7

----------------------------------------------------------------------------
(* File by file.                                                              *)

Tallies(E, H) == [kept : Lists(E), counted : [H -> Nat]]
AddFile(files, acc, f) ==
    IF Shared(files, f) THEN TakeUncounted(acc, files[f]) ELSE [acc EXCEPT !.kept = @ \o files[f]]
StageTo(g, n, files) ==
    g[0] = NothingCounted(files) /\ \A f \in 1 .. n : g[f] = TakeUncounted(g[f - 1], files[f])
ArrayTo(g, n, files) ==
    g[0] = NothingCounted(files) /\ \A f \in 1 .. n : g[f] = AddFile(files, g[f - 1], f)

LEMMA HashesAre ==
  ASSUME NEW E, NEW files \in Lists(Lists(E)), NEW h
  PROVE  h \in HashesOf(files) <=> \E f \in 1 .. Len(files) : \E i \in 1 .. Len(files[f]) : h = Hash(files[f][i])
  <1>1. files \in Seq(Lists(E)) /\ DOMAIN files = 1 .. Len(files)
    BY DEF Lists
  <1>2. \A f \in 1 .. Len(files) : files[f] \in Lists(E) /\ DOMAIN files[f] = 1 .. Len(files[f])
    <2>1. ASSUME NEW f \in 1 .. Len(files) PROVE files[f] \in Lists(E) /\ DOMAIN files[f] = 1 .. Len(files[f])
      <3>1. files[f] \in Lists(E)
        BY <1>1
      <3>2. files[f] \in Seq(E)
        BY <3>1 DEF Lists
      <3>3. QED
        BY <3>1, <3>2
    <2>2. QED
      BY <2>1
  <1>3. HashesOf(files) = {Hash(e) : e \in UNION {ToSet(files[f]) : f \in 1 .. Len(files)}}
    BY <1>1 DEF HashesOf, ToSet
  <1>4. \A e : e \in UNION {ToSet(files[f]) : f \in 1 .. Len(files)}
                 <=> \E f \in 1 .. Len(files) : \E i \in 1 .. Len(files[f]) : e = files[f][i]
    BY <1>2 DEF ToSet
  <1> DEFINE U == UNION {ToSet(files[f]) : f \in 1 .. Len(files)}
  <1> HIDE DEF U
  <1>5. h \in HashesOf(files) <=> \E e \in U : h = Hash(e)
    BY <1>3 DEF U
  <1>6. \A e : e \in U <=> \E f \in 1 .. Len(files) : \E i \in 1 .. Len(files[f]) : e = files[f][i]
    BY <1>4 DEF U
  <1>7. QED
    BY <1>5, <1>6

LEMMA TakeTyped ==
  ASSUME NEW E, NEW H, NEW acc \in Tallies(E, H), NEW file \in Lists(E)
  PROVE  /\ TakeUncounted(acc, file) \in Tallies(E, H)
         /\ TakeUncounted(acc, file).kept = Then(acc.kept, Uncounted(file, acc.counted))
         /\ \A h \in H : TakeUncounted(acc, file).counted[h]
                           = acc.counted[h] + Repeats(Uncounted(file, acc.counted), h)
  <1> DEFINE kept == Uncounted(file, acc.counted)
  <1>1. kept \in Lists(E)
    BY UncountedIs
  <1>2. TakeUncounted(acc, file)
          = [kept |-> acc.kept \o kept, counted |-> [h \in DOMAIN acc.counted |-> acc.counted[h] + Repeats(kept, h)]]
    BY DEF TakeUncounted
  <1> HIDE DEF kept
  <1>3. acc.kept \in Lists(E) /\ acc.counted \in [H -> Nat] /\ DOMAIN acc.counted = H
    BY DEF Tallies
  <1>4. \A h \in H : Repeats(kept, h) \in Nat /\ acc.counted[h] + Repeats(kept, h) \in Nat
    <2>1. ASSUME NEW h \in H PROVE Repeats(kept, h) \in Nat /\ acc.counted[h] \in Nat
      BY <1>1, <1>3, RepeatsAre
    <2>2. QED
      BY <2>1
  <1>5. acc.kept \o kept = Then(acc.kept, kept) /\ Then(acc.kept, kept) \in Lists(E)
    BY <1>1, <1>3, ThenType DEF Then
  <1>6. [h \in DOMAIN acc.counted |-> acc.counted[h] + Repeats(kept, h)] \in [H -> Nat]
    BY <1>3, <1>4
  <1>7. QED
    BY <1>2, <1>3, <1>5, <1>6 DEF Tallies, kept

LEMMA AddTyped ==
  ASSUME NEW E, NEW H, NEW acc \in Tallies(E, H), NEW files \in Lists(Lists(E)), NEW f \in 1 .. Len(files)
  PROVE  /\ AddFile(files, acc, f) \in Tallies(E, H)
         /\ ~Shared(files, f) => /\ AddFile(files, acc, f).kept = Then(acc.kept, files[f])
                                 /\ AddFile(files, acc, f).counted = acc.counted
  <1>1. files[f] \in Lists(E)
    BY EmptyIs
  <1>2. acc.kept \in Lists(E) /\ acc \in [kept : Lists(E), counted : [H -> Nat]]
    BY DEF Tallies
  <1>3. Then(acc.kept, files[f]) \in Lists(E)
    BY <1>1, <1>2, ThenType
  <1>4. CASE Shared(files, f)
    BY <1>1, <1>4, TakeTyped DEF AddFile
  <1>5. CASE ~Shared(files, f)
    <2>1. AddFile(files, acc, f) = [acc EXCEPT !.kept = Then(acc.kept, files[f])]
      BY <1>5 DEF AddFile, Then
    <2>2. QED
      BY <1>2, <1>3, <1>5, <2>1 DEF Tallies
  <1>6. QED
    BY <1>4, <1>5

LEMMA NothingTyped ==
  ASSUME NEW E, NEW files
  PROVE  /\ NothingCounted(files) \in Tallies(E, HashesOf(files))
         /\ NothingCounted(files).kept = <<>> /\ \A h \in HashesOf(files) : NothingCounted(files).counted[h] = 0
  BY EmptySeq DEF NothingCounted, Tallies, Lists

LEMMA StageSteps ==
  ASSUME NEW E, NEW files \in Lists(Lists(E)), NEW n \in Nat, n = Len(files)
  PROVE  \E g \in [0 .. n -> Tallies(E, HashesOf(files))] : StageTo(g, n, files) /\ RepeatedStage(files) = g[n].kept
  <1> DEFINE S == Tallies(E, HashesOf(files))
             base == NothingCounted(files)
             Add(acc, f) == TakeUncounted(acc, files[f])
             step == [p \in S \X (1 .. n) |-> Add(p[1], p[2])]
  <1>1. \A f \in 1 .. n : files[f] \in Lists(E) /\ f \in 1 .. Len(files)
    BY EmptyIs
  <1>2. base \in S
    BY NothingTyped
  <1>3. \A acc \in S, f \in 1 .. n : Add(acc, f) \in S
    BY <1>1, TakeTyped
  <1> HIDE DEF S, base, Add
  <1>4. step \in [S \X (1 .. n) -> S]
    BY <1>3
  <1>5. \A acc \in S, f \in 1 .. n : step[<<acc, f>>] = Add(acc, f)
    OBVIOUS
  <1> HIDE DEF step
  <1>6. PICK g \in [0 .. n -> S] : StepsTo(g, n, base, step)
    BY <1>2, <1>4, StepsExist
  <1>7. g[0] = base /\ \A f \in 1 .. n : g[f] = Add(g[f - 1], f)
    <2>1. \A f \in 1 .. n : f - 1 \in 0 .. n /\ g[f - 1] \in S
      OBVIOUS
    <2>2. QED
      BY <1>5, <1>6, <2>1 DEF StepsTo
  <1> DEFINE F(h) == [f \in 0 .. n |-> IF f = 0 THEN NothingCounted(files) ELSE TakeUncounted(h[f - 1], files[f])]
             u == CHOOSE h : h = F(h)
  <1>8. \A h : \A f \in 0 .. n : F(h)[f] = IF f = 0 THEN base ELSE Add(h[f - 1], f)
    BY DEF base, Add
  <1>9. \A h : F(h) = [f \in 0 .. n |-> IF f = 0 THEN base ELSE Add(h[f - 1], f)]
    BY DEF base, Add
  <1>10. RepeatedStage(files) = u[n].kept
    BY DEF RepeatedStage
  <1> HIDE DEF F
  <1>11. g = F(g)
    <2>1. \A f \in 0 .. n : g[f] = IF f = 0 THEN base ELSE Add(g[f - 1], f)
      BY <1>7
    <2>2. g = [f \in 0 .. n |-> IF f = 0 THEN base ELSE Add(g[f - 1], f)]
      BY <2>1
    <2>3. QED
      BY <1>9, <2>2
  <1>12. u = F(u)
    BY <1>11
  <1> HIDE DEF u
  <1>13. u[0] = base /\ \A f \in 1 .. n : u[f] = Add(u[f - 1], f)
    <2>1. 0 \in 0 .. n /\ \A f \in 1 .. n : f \in 0 .. n /\ f # 0
      OBVIOUS
    <2>2. QED
      BY <1>8, <1>12, <2>1
  <1> DEFINE K == {f \in 0 .. n : u[f] = g[f]}
  <1>14. 0 \in K
    BY <1>7, <1>13
  <1>15. ASSUME NEW f \in 1 .. n, f - 1 \in K PROVE f \in K
    BY <1>7, <1>13, <1>15
  <1> HIDE DEF K
  <1>16. \A f \in 0 .. n : f \in K
    BY <1>14, <1>15, CountUp
  <1>17. u[n] = g[n]
    BY <1>16 DEF K
  <1>18. StageTo(g, n, files)
    BY <1>7 DEF StageTo, base, Add
  <1>19. QED
    BY <1>10, <1>17, <1>18 DEF S

LEMMA ArraySteps ==
  ASSUME NEW E, NEW files \in Lists(Lists(E)), NEW n \in Nat, n = Len(files)
  PROVE  \E g \in [0 .. n -> Tallies(E, HashesOf(files))] : ArrayTo(g, n, files) /\ RepeatedAcrossFiles(files) = g[n].kept
  <1> DEFINE S == Tallies(E, HashesOf(files))
             base == NothingCounted(files)
             Add(acc, f) == AddFile(files, acc, f)
             step == [p \in S \X (1 .. n) |-> Add(p[1], p[2])]
  <1>1. \A f \in 1 .. n : files[f] \in Lists(E) /\ f \in 1 .. Len(files)
    BY EmptyIs
  <1>2. base \in S
    BY NothingTyped
  <1>3. \A acc \in S, f \in 1 .. n : Add(acc, f) \in S
    BY <1>1, AddTyped
  <1> HIDE DEF S, base, Add
  <1>4. step \in [S \X (1 .. n) -> S]
    BY <1>3
  <1>5. \A acc \in S, f \in 1 .. n : step[<<acc, f>>] = Add(acc, f)
    OBVIOUS
  <1> HIDE DEF step
  <1>6. PICK g \in [0 .. n -> S] : StepsTo(g, n, base, step)
    BY <1>2, <1>4, StepsExist
  <1>7. g[0] = base /\ \A f \in 1 .. n : g[f] = Add(g[f - 1], f)
    <2>1. \A f \in 1 .. n : f - 1 \in 0 .. n /\ g[f - 1] \in S
      OBVIOUS
    <2>2. QED
      BY <1>5, <1>6, <2>1 DEF StepsTo
  <1> DEFINE F(h) == [f \in 0 .. n |-> IF f = 0 THEN NothingCounted(files)
                                       ELSE IF Shared(files, f) THEN TakeUncounted(h[f - 1], files[f])
                                       ELSE [h[f - 1] EXCEPT !.kept = @ \o files[f]]]
             u == CHOOSE h : h = F(h)
  <1>8. \A h : \A f \in 0 .. n : F(h)[f] = IF f = 0 THEN base ELSE Add(h[f - 1], f)
    BY DEF base, Add, AddFile
  <1>9. \A h : F(h) = [f \in 0 .. n |-> IF f = 0 THEN base ELSE Add(h[f - 1], f)]
    BY DEF base, Add, AddFile
  <1>10. RepeatedAcrossFiles(files) = u[n].kept
    BY DEF RepeatedAcrossFiles
  <1> HIDE DEF F
  <1>11. g = F(g)
    <2>1. \A f \in 0 .. n : g[f] = IF f = 0 THEN base ELSE Add(g[f - 1], f)
      BY <1>7
    <2>2. g = [f \in 0 .. n |-> IF f = 0 THEN base ELSE Add(g[f - 1], f)]
      BY <2>1
    <2>3. QED
      BY <1>9, <2>2
  <1>12. u = F(u)
    BY <1>11
  <1> HIDE DEF u
  <1>13. u[0] = base /\ \A f \in 1 .. n : u[f] = Add(u[f - 1], f)
    <2>1. 0 \in 0 .. n /\ \A f \in 1 .. n : f \in 0 .. n /\ f # 0
      OBVIOUS
    <2>2. QED
      BY <1>8, <1>12, <2>1
  <1> DEFINE K == {f \in 0 .. n : u[f] = g[f]}
  <1>14. 0 \in K
    BY <1>7, <1>13
  <1>15. ASSUME NEW f \in 1 .. n, f - 1 \in K PROVE f \in K
    BY <1>7, <1>13, <1>15
  <1> HIDE DEF K
  <1>16. \A f \in 0 .. n : f \in K
    BY <1>14, <1>15, CountUp
  <1>17. u[n] = g[n]
    BY <1>16 DEF K
  <1>18. ArrayTo(g, n, files)
    BY <1>7 DEF ArrayTo, base, Add
  <1>19. QED
    BY <1>10, <1>17, <1>18 DEF S

(* What an event is counted as: as often as the file that has it most.        *)
MostOf(files, n, h, c) ==
    /\ \A f \in 1 .. n : Repeats(files[f], h) <= c
    /\ c = 0 \/ \E f \in 1 .. n : c = Repeats(files[f], h)

LEMMA StageCounts ==
  ASSUME NEW E, NEW files \in Lists(Lists(E)), NEW n \in Nat, n = Len(files),
         NEW g \in [0 .. n -> Tallies(E, HashesOf(files))], StageTo(g, n, files), NEW m \in 0 .. n,
         NEW h \in HashesOf(files)
  PROVE  /\ g[m].counted[h] \in Nat /\ g[m].kept \in Lists(E) /\ Repeats(g[m].kept, h) = g[m].counted[h]
         /\ MostOf(files, m, h, g[m].counted[h])
  <1>1. \A f \in 1 .. n : files[f] \in Lists(E)
    BY EmptyIs
  <1>2. \A f \in 0 .. n : g[f] \in Tallies(E, HashesOf(files)) /\ g[f].kept \in Lists(E) /\ g[f].counted[h] \in Nat
    <2>1. ASSUME NEW f \in 0 .. n
          PROVE  g[f] \in Tallies(E, HashesOf(files)) /\ g[f].kept \in Lists(E) /\ g[f].counted[h] \in Nat
      <3>1. g[f] \in Tallies(E, HashesOf(files))
        OBVIOUS
      <3>2. QED
        BY <3>1 DEF Tallies
    <2>2. QED
      BY <2>1
  <1> DEFINE K == {f \in 0 .. n : /\ Repeats(g[f].kept, h) = g[f].counted[h]
                                  /\ MostOf(files, f, h, g[f].counted[h])}
  <1>3. 0 \in K
    <2>1. g[0].kept = <<>> /\ g[0].counted[h] = 0
      BY NothingTyped DEF StageTo
    <2>2. <<>> \in Lists(E) /\ Len(<<>>) = 0
      BY EmptySeq DEF Lists
    <2>3. Repeats(<<>>, h) = 0
      BY <2>2, RepeatsAre
    <2>4. MostOf(files, 0, h, 0)
      BY DEF MostOf
    <2>5. QED
      BY <2>1, <2>3, <2>4
  <1>4. ASSUME NEW f \in 1 .. n, f - 1 \in K PROVE f \in K
    <2> DEFINE file == files[f]
               old == g[f - 1]
               new == g[f]
               kept == Uncounted(file, old.counted)
               R == Repeats(file, h)
               c == old.counted[h]
    <2>1. f - 1 \in 0 .. n /\ f \in 0 .. n
      OBVIOUS
    <2>2. file \in Lists(E) /\ old \in Tallies(E, HashesOf(files)) /\ new = TakeUncounted(old, file)
      BY <1>1, <1>2, <2>1 DEF StageTo
    <2>3. old.kept \in Lists(E) /\ c \in Nat /\ new.counted[h] \in Nat /\ new.kept \in Lists(E)
      BY <1>2, <2>1
    <2>4. R \in Nat
      BY <2>2, RepeatsAre
    <2>5. kept \in Lists(E) /\ Repeats(kept, h) = IF R > c THEN R - c ELSE 0
      BY <2>2, <2>3, UncountedIs
    <2>6. new.kept = Then(old.kept, kept) /\ new.counted[h] = c + Repeats(kept, h)
      BY <2>2, TakeTyped
    <2>7. Repeats(new.kept, h) = Repeats(old.kept, h) + Repeats(kept, h)
      BY <2>3, <2>5, <2>6, RepeatsAdd
    <2>8. Repeats(old.kept, h) = c /\ MostOf(files, f - 1, h, c)
      BY <1>4
    <2> DEFINE d == new.counted[h]
    <2>9. d = IF R > c THEN R ELSE c
      BY <2>3, <2>4, <2>5, <2>6
    <2>10. Repeats(new.kept, h) = d
      BY <2>6, <2>7, <2>8
    <2>11. \A k \in 1 .. f : Repeats(files[k], h) <= d
      <3>1. \A k \in 1 .. f - 1 : Repeats(files[k], h) \in Nat
        <4>1. ASSUME NEW k \in 1 .. f - 1 PROVE Repeats(files[k], h) \in Nat
          <5>1. files[k] \in Lists(E)
            BY <1>1
          <5>2. QED
            BY <5>1, RepeatsAre
        <4>2. QED
          BY <4>1
      <3>2. \A k \in 1 .. f - 1 : Repeats(files[k], h) <= c
        BY <2>8 DEF MostOf
      <3>3. c <= d /\ R <= d /\ d \in Nat
        BY <2>3, <2>4, <2>9
      <3>4. \A k \in 1 .. f : k = f \/ k \in 1 .. f - 1
        OBVIOUS
      <3> HIDE DEF c, d
      <3>5. \A k \in 1 .. f - 1 : Repeats(files[k], h) <= d
        BY <2>3, <3>1, <3>2, <3>3
      <3>6. QED
        BY <3>3, <3>4, <3>5
    <2>12. d = 0 \/ \E k \in 1 .. f : d = Repeats(files[k], h)
      <3>1. CASE d = R
        BY <3>1
      <3>2. CASE d = c
        <4>1. c = 0 \/ \E k \in 1 .. f - 1 : c = Repeats(files[k], h)
          BY <2>8 DEF MostOf
        <4>2. QED
          BY <3>2, <4>1
      <3>3. QED
        BY <2>9, <3>1, <3>2
    <2>13. MostOf(files, f, h, d)
      BY <2>11, <2>12 DEF MostOf
    <2>14. QED
      BY <2>1, <2>10, <2>13
  <1> HIDE DEF K
  <1>5. \A f \in 0 .. n : f \in K
    BY <1>3, <1>4, CountUp
  <1>6. QED
    BY <1>2, <1>5 DEF K

(* An event of a file that shares no session is in no other.                  *)
LEMMA AloneMeans ==
  ASSUME NEW E, NEW files \in Lists(Lists(E)), NEW f \in 1 .. Len(files), ~Shared(files, f),
         NEW i \in 1 .. Len(files[f]), NEW k \in 1 .. Len(files), k # f
  PROVE  Repeats(files[k], Hash(files[f][i])) = 0
  <1>1. files[f] \in Lists(E) /\ files[k] \in Lists(E) /\ files \in Seq(Lists(E)) /\ DOMAIN files = 1 .. Len(files)
    BY EmptyIs DEF Lists
  <1>2. DOMAIN files[f] = 1 .. Len(files[f]) /\ DOMAIN files[k] = 1 .. Len(files[k])
    BY <1>1 DEF Lists
  <1>3. ASSUME NEW j \in 1 .. Len(files[k]), Hash(files[k][j]) = Hash(files[f][i]) PROVE FALSE
    <2>1. files[k][j].session = files[f][i].session
      BY <1>3 DEF Hash
    <2>2. files[k][j] \in ToSet(files[k]) /\ files[f][i] \in ToSet(files[f])
      BY <1>2 DEF ToSet
    <2>3. k \in DOMAIN files \ {f}
      BY <1>1
    <2>4. Shared(files, f)
      BY <2>1, <2>2, <2>3 DEF Shared
    <2>5. QED
      BY <2>4
  <1>4. QED
    BY <1>1, <1>3, RepeatsAre

LEMMA FormsAgree ==
  ASSUME NEW E, NEW files \in Lists(Lists(E)), NEW n \in Nat, n = Len(files),
         NEW g \in [0 .. n -> Tallies(E, HashesOf(files))], StageTo(g, n, files),
         NEW a \in [0 .. n -> Tallies(E, HashesOf(files))], ArrayTo(a, n, files)
  PROVE  a[n].kept = g[n].kept
  <1> DEFINE H == HashesOf(files)
             Same(m) == /\ a[m].kept = g[m].kept
                        /\ \A f \in 1 .. n : Shared(files, f) =>
                             \A i \in 1 .. Len(files[f]) :
                                 a[m].counted[Hash(files[f][i])] = g[m].counted[Hash(files[f][i])]
             K == {m \in 0 .. n : Same(m)}
  <1>1. \A f \in 1 .. n : files[f] \in Lists(E) /\ f \in 1 .. Len(files)
    BY EmptyIs
  <1>2. \A f \in 1 .. n : \A i \in 1 .. Len(files[f]) : Hash(files[f][i]) \in H
    BY <1>1, HashesAre
  <1>3. 0 \in K
    <2>1. a[0] = g[0]
      BY DEF StageTo, ArrayTo
    <2>2. QED
      BY <2>1
  <1>4. ASSUME NEW m \in 1 .. n, m - 1 \in K PROVE m \in K
    <2> DEFINE file == files[m]
               b == a[m - 1]
               c == g[m - 1]
    <2>1. m - 1 \in 0 .. n /\ m \in 0 .. n /\ m \in 1 .. Len(files)
      OBVIOUS
    <2>2. file \in Lists(E) /\ b \in Tallies(E, H) /\ c \in Tallies(E, H)
      BY <1>1, <2>1
    <2>3. b.kept = c.kept /\ \A f \in 1 .. n : Shared(files, f) =>
                             \A i \in 1 .. Len(files[f]) :
                                 b.counted[Hash(files[f][i])] = c.counted[Hash(files[f][i])]
      BY <1>4
    <2>4. a[m] = AddFile(files, b, m) /\ g[m] = TakeUncounted(c, file)
      BY DEF StageTo, ArrayTo
    <2>5. /\ g[m].kept = Then(c.kept, Uncounted(file, c.counted))
          /\ \A h \in H : g[m].counted[h] = c.counted[h] + Repeats(Uncounted(file, c.counted), h)
      BY <2>2, <2>4, TakeTyped
    <2> HIDE DEF H
    <2>6. CASE Shared(files, m)
      <3>1. a[m] = TakeUncounted(b, file)
        BY <2>4, <2>6 DEF AddFile
      <3>2. /\ a[m].kept = Then(b.kept, Uncounted(file, b.counted))
            /\ \A h \in H : a[m].counted[h] = b.counted[h] + Repeats(Uncounted(file, b.counted), h)
        BY <2>2, <3>1, TakeTyped
      <3>3. \A i \in 1 .. Len(file) : b.counted[Hash(file[i])] = c.counted[Hash(file[i])]
        BY <2>3, <2>6
      <3>4. Uncounted(file, b.counted) = Uncounted(file, c.counted)
        BY <2>2, <3>3, UncountedAgree
      <3>5. a[m].kept = g[m].kept
        BY <2>3, <2>5, <3>2, <3>4
      <3>6. ASSUME NEW f \in 1 .. n, Shared(files, f), NEW i \in 1 .. Len(files[f])
            PROVE  a[m].counted[Hash(files[f][i])] = g[m].counted[Hash(files[f][i])]
        <4>1. PICK h \in H : h = Hash(files[f][i])
          BY <1>2
        <4>2. b.counted[h] = c.counted[h]
          BY <2>3, <3>6, <4>1
        <4>3. a[m].counted[h] = b.counted[h] + Repeats(Uncounted(file, b.counted), h)
          BY <3>2
        <4>4. g[m].counted[h] = c.counted[h] + Repeats(Uncounted(file, c.counted), h)
          BY <2>5
        <4>5. QED
          BY <3>4, <4>1, <4>2, <4>3, <4>4
      <3>7. QED
        BY <2>1, <3>5, <3>6
    <2>7. CASE ~Shared(files, m)
      <3>1. a[m].kept = Then(b.kept, file) /\ a[m].counted = b.counted
        BY <2>1, <2>2, <2>4, <2>7, AddTyped
      <3>2. \A i \in 1 .. Len(file) : c.counted[Hash(file[i])] = 0
        <4>1. ASSUME NEW i \in 1 .. Len(file) PROVE c.counted[Hash(file[i])] = 0
          <5>1. PICK h \in H : h = Hash(file[i])
            BY <1>2
          <5>2. MostOf(files, m - 1, h, c.counted[h])
            BY <2>1, StageCounts DEF H
          <5>3. \A k \in 1 .. m - 1 : Repeats(files[k], h) = 0
            <6>1. ASSUME NEW k \in 1 .. m - 1 PROVE Repeats(files[k], h) = 0
              <7>1. k \in 1 .. Len(files) /\ k # m
                OBVIOUS
              <7>2. QED
                BY <2>1, <2>7, <5>1, <7>1, AloneMeans
            <6>2. QED
              BY <6>1
          <5>4. c.counted[h] = 0
            BY <5>2, <5>3 DEF MostOf
          <5>5. QED
            BY <5>1, <5>4
        <4>2. QED
          BY <4>1
      <3>3. Uncounted(file, c.counted) = file
        BY <2>2, <3>2, UncountedWhole
      <3>4. a[m].kept = g[m].kept
        BY <2>3, <2>5, <3>1, <3>3
      <3>5. ASSUME NEW f \in 1 .. n, Shared(files, f), NEW i \in 1 .. Len(files[f])
            PROVE  a[m].counted[Hash(files[f][i])] = g[m].counted[Hash(files[f][i])]
        <4>1. PICK h \in H : h = Hash(files[f][i])
          BY <1>2
        <4>2. b.counted[h] = c.counted[h]
          BY <2>3, <3>5, <4>1
        <4>3. Repeats(file, h) = 0
          <5>1. f # m
            BY <2>7, <3>5
          <5>2. \A j \in 1 .. Len(file) : Hash(file[j]) # h
            <6>1. ASSUME NEW j \in 1 .. Len(file), Hash(file[j]) = h PROVE FALSE
              <7>1. Repeats(files[f], h) = 0
                BY <2>1, <2>7, <5>1, <6>1, AloneMeans
              <7>2. files[f] \in Lists(E)
                BY <1>1
              <7>3. QED
                BY <4>1, <7>1, <7>2, RepeatsAre
            <6>2. QED
              BY <6>1
          <5>3. QED
            BY <2>2, <5>2, RepeatsAre
        <4>4. g[m].counted[h] = c.counted[h] + 0
          BY <2>5, <3>3, <4>3
        <4>5. c.counted[h] \in Nat
          BY <2>2 DEF Tallies
        <4>6. QED
          BY <3>1, <4>1, <4>2, <4>4, <4>5
      <3>6. QED
        BY <2>1, <3>4, <3>5
    <2>8. QED
      BY <2>6, <2>7
  <1> HIDE DEF K
  <1>5. \A m \in 0 .. n : m \in K
    BY <1>3, <1>4, CountUp
  <1>6. n \in 0 .. n
    OBVIOUS
  <1>7. QED
    BY <1>5, <1>6 DEF K

LEMMA CountedOnce ==
  ASSUME NEW E, NEW files \in Lists(Lists(E))
  PROVE  RepeatsCountOnce(files)
  <1>1. PICK n \in Nat : n = Len(files)
    BY EmptyIs
  <1>2. PICK g \in [0 .. n -> Tallies(E, HashesOf(files))] :
             StageTo(g, n, files) /\ RepeatedStage(files) = g[n].kept
    BY <1>1, StageSteps
  <1>3. PICK a \in [0 .. n -> Tallies(E, HashesOf(files))] :
             ArrayTo(a, n, files) /\ RepeatedAcrossFiles(files) = a[n].kept
    BY <1>1, ArraySteps
  <1>4. RepeatedAcrossFiles(files) = RepeatedStage(files)
    <2>1. StageTo(g, n, files) /\ ArrayTo(a, n, files)
      BY <1>2, <1>3
    <2>2. a[n].kept = g[n].kept
      BY <1>1, <2>1, FormsAgree
    <2>3. QED
      BY <1>2, <1>3, <2>2
  <1>5. ASSUME NEW h \in HashesOf(files)
        PROVE  Repeats(RepeatedStage(files), h) = Greatest({Repeats(file, h) : file \in ToSet(files)})
    <2> DEFINE S == {Repeats(file, h) : file \in ToSet(files)}
               c == g[n].counted[h]
    <2>1. c \in Nat /\ Repeats(g[n].kept, h) = c /\ MostOf(files, n, h, c)
      <3>1. StageTo(g, n, files) /\ n \in 0 .. n
        BY <1>2
      <3>2. QED
        BY <1>1, <3>1, StageCounts
    <2>2. \A f \in 1 .. n : files[f] \in Lists(E) /\ Repeats(files[f], h) \in Nat
      <3>1. ASSUME NEW f \in 1 .. n PROVE files[f] \in Lists(E) /\ Repeats(files[f], h) \in Nat
        <4>1. files[f] \in Lists(E)
          BY <1>1, EmptyIs
        <4>2. QED
          BY <4>1, RepeatsAre
      <3>2. QED
        BY <3>1
    <2>3. S = {Repeats(files[f], h) : f \in 1 .. n}
      <3>1. DOMAIN files = 1 .. n
        BY <1>1 DEF Lists
      <3>2. QED
        BY <3>1 DEF ToSet
    <2>4. PICK f \in 1 .. n : \E i \in 1 .. Len(files[f]) : h = Hash(files[f][i])
      BY <1>1, HashesAre
    <2>5. Repeats(files[f], h) # 0
      BY <2>2, <2>4, RepeatsAre
    <2> HIDE DEF S, c
    <2>6. Repeats(files[f], h) <= c
      BY <2>1 DEF MostOf
    <2>7. c # 0
      BY <2>1, <2>2, <2>5, <2>6
    <2>8. c \in S /\ \A r \in S : r <= c /\ r \in Nat
      BY <2>1, <2>2, <2>3, <2>7 DEF MostOf
    <2>9. S # {} /\ Max(S) = CHOOSE x \in S : \A y \in S : x >= y
      BY <2>8 DEF Max
    <2>10. Max(S) \in S /\ \A y \in S : Max(S) >= y
      BY <2>1, <2>8, <2>9
    <2>11. Max(S) = c
      <3>1. PICK m \in S : m = Max(S)
        BY <2>10
      <3>2. m \in Nat /\ m <= c /\ m >= c
        BY <2>8, <2>10, <3>1
      <3>3. QED
        BY <2>1, <3>1, <3>2
    <2>12. QED
      BY <1>2, <2>1, <2>9, <2>11 DEF Greatest, S
  <1>6. QED
    BY <1>4, <1>5 DEF RepeatsCountOnce

(* Whatever files a source has, and however its sessions are spread over them
   or copied between them, each event is counted as often as the file that
   holds it most, and the two forms of the count, over a list of files and over
   a stream of them, keep the same events.                                    *)
THEOREM EventsAreCountedOnce ==
  ASSUME NEW Events, NEW files \in Seq(Seq(Events))
  PROVE  RepeatsCountOnce(files)
  BY CountedOnce DEF Lists

----------------------------------------------------------------------------
(* EventWindow, for any events, dates and offsets: the elements of a set.     *)

ThoseTo(g, n, s, S) ==
    /\ g[0] = <<>>
    /\ \A i \in 1 .. n : g[i] = IF s[i] \in S THEN Append(g[i - 1], s[i]) ELSE g[i - 1]

LEMMA ThoseSteps ==
  ASSUME NEW T, NEW s \in Lists(T), NEW S, NEW n \in Nat, n = Len(s)
  PROVE  \E g \in [0 .. n -> Lists(T)] : ThoseTo(g, n, s, S) /\ Those(s, S) = g[n]
  <1>1. \A i \in 1 .. n : s[i] \in T
    BY EmptyIs
  <1> DEFINE Take(r, i) == IF s[i] \in S THEN Append(r, s[i]) ELSE r
             step == [p \in Lists(T) \X (1 .. n) |-> Take(p[1], p[2])]
  <1>2. \A r \in Lists(T), i \in 1 .. n : Take(r, i) \in Lists(T)
    <2>1. \A r \in Lists(T), x \in T : Append(r, x) \in Lists(T)
      BY AppendProperties DEF Lists
    <2>2. QED
      BY <1>1, <2>1
  <1> HIDE DEF Take
  <1>3. step \in [Lists(T) \X (1 .. n) -> Lists(T)]
    BY <1>2
  <1>4. \A r \in Lists(T), i \in 1 .. n : step[<<r, i>>] = Take(r, i)
    OBVIOUS
  <1> HIDE DEF step
  <1>5. <<>> \in Lists(T)
    BY EmptySeq DEF Lists
  <1>6. PICK g \in [0 .. n -> Lists(T)] : StepsTo(g, n, <<>>, step)
    BY <1>3, <1>5, StepsExist
  <1>7. g[0] = <<>> /\ \A i \in 1 .. n : g[i] = Take(g[i - 1], i)
    <2>1. \A i \in 1 .. n : i - 1 \in 0 .. n /\ g[i - 1] \in Lists(T)
      OBVIOUS
    <2>2. QED
      BY <1>4, <1>6, <2>1 DEF StepsTo
  <1> DEFINE F(h) == [i \in 0 .. n |-> IF i = 0 THEN <<>>
                                       ELSE IF s[i] \in S THEN Append(h[i - 1], s[i]) ELSE h[i - 1]]
             f == CHOOSE h : h = F(h)
  <1>8. \A h : F(h) = [i \in 0 .. n |-> IF i = 0 THEN <<>> ELSE Take(h[i - 1], i)]
    BY DEF Take
  <1>9. Those(s, S) = f[n]
    BY DEF Those
  <1> HIDE DEF F
  <1>10. g = F(g)
    <2>1. \A i \in 0 .. n : g[i] = IF i = 0 THEN <<>> ELSE Take(g[i - 1], i)
      BY <1>7
    <2>2. g = [i \in 0 .. n |-> IF i = 0 THEN <<>> ELSE Take(g[i - 1], i)]
      BY <2>1
    <2>3. QED
      BY <1>8, <2>2
  <1>11. f = F(f)
    BY <1>10
  <1> HIDE DEF f
  <1>12. f[0] = <<>> /\ \A i \in 1 .. n : f[i] = Take(f[i - 1], i)
    <2>1. f = [i \in 0 .. n |-> IF i = 0 THEN <<>> ELSE Take(f[i - 1], i)]
      BY <1>8, <1>11
    <2>2. PICK k : k = f
      OBVIOUS
    <2>3. \A i \in 0 .. n : f[i] = IF i = 0 THEN <<>> ELSE Take(k[i - 1], i)
      BY <2>1, <2>2
    <2>4. QED
      BY <2>2, <2>3
  <1> DEFINE K == {i \in 0 .. n : f[i] = g[i]}
  <1>13. 0 \in K
    BY <1>7, <1>12
  <1>14. ASSUME NEW i \in 1 .. n, i - 1 \in K PROVE i \in K
    BY <1>7, <1>12, <1>14
  <1> HIDE DEF K
  <1>15. \A i \in 0 .. n : i \in K
    BY <1>13, <1>14, CountUp
  <1>16. f[n] = g[n]
    BY <1>15 DEF K
  <1>17. ThoseTo(g, n, s, S)
    BY <1>7 DEF ThoseTo, Take
  <1>18. QED
    BY <1>9, <1>16, <1>17

LEMMA ThoseEmpty ==
  ASSUME NEW T, NEW S
  PROVE  <<>> \in Lists(T) /\ Those(<<>>, S) = <<>>
  <1>1. PICK s \in Lists(T) : s = <<>> /\ Len(s) = 0
    BY EmptySeq DEF Lists
  <1>2. PICK n \in Nat : n = Len(s)
    BY EmptyIs
  <1>3. PICK g \in [0 .. n -> Lists(T)] : ThoseTo(g, n, s, S) /\ Those(s, S) = g[n]
    BY <1>2, ThoseSteps
  <1>4. QED
    BY <1>1, <1>2, <1>3 DEF ThoseTo

LEMMA ThoseGrow ==
  ASSUME NEW T, NEW s \in Lists(T), NEW x \in T, NEW S
  PROVE  /\ Those(s, S) \in Lists(T)
         /\ Those(Append(s, x), S) = IF x \in S THEN Append(Those(s, S), x) ELSE Those(s, S)
  <1> DEFINE t == Append(s, x)
  <1>1. PICK n \in Nat, m \in Nat : n = Len(s) /\ m = n + 1
    BY EmptyIs
  <1>2. t \in Lists(T) /\ Len(t) = m /\ t[m] = x /\ \A i \in 1 .. n : t[i] = s[i]
    BY <1>1, AppendProperties DEF Lists
  <1> HIDE DEF t
  <1>3. PICK g \in [0 .. n -> Lists(T)] : ThoseTo(g, n, s, S) /\ Those(s, S) = g[n]
    <2>1. n = Len(s)
      BY <1>1
    <2>2. QED
      BY <2>1, ThoseSteps
  <1>4. PICK k \in [0 .. m -> Lists(T)] : ThoseTo(k, m, t, S) /\ Those(t, S) = k[m]
    BY <1>1, <1>2, ThoseSteps, SMTT(20)
  <1> DEFINE K == {i \in 0 .. n : g[i] = k[i]}
  <1>5. 0 \in K
    BY <1>3, <1>4 DEF ThoseTo
  <1>6. ASSUME NEW i \in 1 .. n, i - 1 \in K PROVE i \in K
    <2>1. i \in 1 .. m /\ s[i] = t[i] /\ g[i - 1] = k[i - 1]
      BY <1>1, <1>2, <1>6
    <2>2. g[i] = IF s[i] \in S THEN Append(g[i - 1], s[i]) ELSE g[i - 1]
      BY <1>3 DEF ThoseTo
    <2>3. k[i] = IF t[i] \in S THEN Append(k[i - 1], t[i]) ELSE k[i - 1]
      BY <1>4, <2>1 DEF ThoseTo
    <2>4. QED
      BY <2>1, <2>2, <2>3
  <1> HIDE DEF K
  <1>7. \A i \in 0 .. n : i \in K
    BY <1>5, <1>6, CountUp
  <1>8. g[n] = k[n] /\ m \in 1 .. m /\ m - 1 = n
    BY <1>1, <1>7 DEF K
  <1>9. k[m] = IF t[m] \in S THEN Append(k[m - 1], t[m]) ELSE k[m - 1]
    BY <1>4, <1>8 DEF ThoseTo
  <1>10. g[n] \in Lists(T)
    OBVIOUS
  <1>11. QED
    BY <1>2, <1>3, <1>4, <1>8, <1>9, <1>10 DEF t

LEMMA ThoseType ==
  ASSUME NEW T, NEW s \in Lists(T), NEW S
  PROVE  Those(s, S) \in Lists(T)
  <1>1. PICK n \in Nat : n = Len(s)
    BY EmptyIs
  <1>2. PICK g \in [0 .. n -> Lists(T)] : ThoseTo(g, n, s, S) /\ Those(s, S) = g[n]
    BY <1>1, ThoseSteps
  <1>3. QED
    BY <1>2

LEMMA ToSetGrows ==
  ASSUME NEW T, NEW s \in Lists(T), NEW x \in T
  PROVE  ToSet(Append(s, x)) = ToSet(s) \cup {x}
  <1> DEFINE t == Append(s, x)
  <1>1. PICK n \in Nat : n = Len(s) /\ DOMAIN s = 1 .. n
    BY DEF Lists
  <1>2. DOMAIN t = 1 .. (n + 1) /\ t[n + 1] = x /\ \A i \in 1 .. n : t[i] = s[i]
    BY <1>1, AppendProperties DEF Lists
  <1>3. 1 .. (n + 1) = (1 .. n) \cup {n + 1}
    BY <1>1
  <1> HIDE DEF t
  <1>4. QED
    BY <1>1, <1>2, <1>3 DEF ToSet, t

LEMMA ToSetEmpty == ToSet(<<>>) = {}
  BY DEF ToSet

LEMMA ThoseAre ==
  ASSUME NEW T, NEW s \in Lists(T), NEW S
  PROVE  ToSet(Those(s, S)) = ToSet(s) \cap S
  <1> DEFINE P == {r \in Lists(T) : ToSet(Those(r, S)) = ToSet(r) \cap S}
  <1>1. <<>> \in P
    BY ThoseEmpty, ToSetEmpty
  <1>2. ASSUME NEW r \in Lists(T), NEW x \in T, r \in P PROVE Append(r, x) \in P
    <2>1. Append(r, x) \in Lists(T)
      BY AppendProperties DEF Lists
    <2>2. ToSet(Append(r, x)) = ToSet(r) \cup {x}
      BY ToSetGrows
    <2>3. /\ Those(r, S) \in Lists(T)
          /\ Those(Append(r, x), S) = IF x \in S THEN Append(Those(r, S), x) ELSE Those(r, S)
      BY ThoseGrow
    <2>4. ToSet(Append(Those(r, S), x)) = ToSet(Those(r, S)) \cup {x}
      BY <2>3, ToSetGrows
    <2>5. ToSet(Those(r, S)) = ToSet(r) \cap S
      BY <1>2
    <2>6. ToSet(Those(Append(r, x), S)) = ToSet(Append(r, x)) \cap S
      <3>1. CASE x \in S
        BY <2>2, <2>3, <2>4, <2>5, <3>1
      <3>2. CASE x \notin S
        BY <2>2, <2>3, <2>5, <3>2
      <3>3. QED
        BY <3>1, <3>2
    <2>7. QED
      BY <2>1, <2>6
  <1> HIDE DEF P
  <1>3. s \in P
    BY <1>1, <1>2, GrowUp
  <1>4. QED
    BY <1>3 DEF P

(* Two choices that agree on what a list holds choose the same of it.         *)
LEMMA ThoseSame ==
  ASSUME NEW T, NEW s \in Lists(T), NEW A, NEW B, ToSet(s) \cap A = ToSet(s) \cap B
  PROVE  Those(s, A) = Those(s, B)
  <1> DEFINE P == {r \in Lists(T) : ToSet(r) \cap A = ToSet(r) \cap B => Those(r, A) = Those(r, B)}
  <1>1. <<>> \in P
    BY ThoseEmpty
  <1>2. ASSUME NEW r \in Lists(T), NEW x \in T, r \in P PROVE Append(r, x) \in P
    <2>1. Append(r, x) \in Lists(T)
      BY AppendProperties DEF Lists
    <2>2. SUFFICES ASSUME ToSet(Append(r, x)) \cap A = ToSet(Append(r, x)) \cap B
                   PROVE  Those(Append(r, x), A) = Those(Append(r, x), B)
      BY <2>1
    <2>3. ToSet(Append(r, x)) = ToSet(r) \cup {x}
      BY ToSetGrows
    <2>4. (x \in A <=> x \in B) /\ ToSet(r) \cap A = ToSet(r) \cap B
      BY <2>2, <2>3
    <2>5. Those(r, A) = Those(r, B)
      BY <1>2, <2>4
    <2>6. Those(Append(r, x), A) = IF x \in A THEN Append(Those(r, A), x) ELSE Those(r, A)
      BY ThoseGrow
    <2>7. Those(Append(r, x), B) = IF x \in B THEN Append(Those(r, B), x) ELSE Those(r, B)
      BY ThoseGrow
    <2>8. QED
      BY <2>4, <2>5, <2>6, <2>7
  <1> HIDE DEF P
  <1>3. s \in P
    BY <1>1, <1>2, GrowUp
  <1>4. QED
    BY <1>3 DEF P

(* Choosing of what was chosen is choosing what both choose.                  *)
LEMMA ThoseOfThose ==
  ASSUME NEW T, NEW s \in Lists(T), NEW A, NEW B
  PROVE  Those(Those(s, A), B) = Those(s, A \cap B)
  <1>1. PICK C : C = A \cap B
    OBVIOUS
  <1> DEFINE P == {r \in Lists(T) : Those(Those(r, A), B) = Those(r, C)}
  <1>2. <<>> \in P
    BY ThoseEmpty
  <1>3. ASSUME NEW r \in Lists(T), NEW x \in T, r \in P PROVE Append(r, x) \in P
    <2>1. Append(r, x) \in Lists(T)
      BY AppendProperties DEF Lists
    <2>2. Those(Append(r, x), A) = IF x \in A THEN Append(Those(r, A), x) ELSE Those(r, A)
      BY ThoseGrow
    <2>3. Those(Append(r, x), C)
            = IF x \in C THEN Append(Those(r, C), x) ELSE Those(r, C)
      BY ThoseGrow
    <2>4. Those(r, A) \in Lists(T)
      BY ThoseType
    <2>5. Those(Append(Those(r, A), x), B)
            = IF x \in B THEN Append(Those(Those(r, A), B), x) ELSE Those(Those(r, A), B)
      BY <2>4, ThoseGrow
    <2>6. Those(Those(r, A), B) = Those(r, C)
      BY <1>3
    <2>7. Those(Those(Append(r, x), A), B) = Those(Append(r, x), C)
      <3>1. CASE x \in A /\ x \in B
        BY <1>1, <2>2, <2>3, <2>5, <2>6, <3>1
      <3>2. CASE x \in A /\ x \notin B
        BY <1>1, <2>2, <2>3, <2>5, <2>6, <3>2
      <3>3. CASE x \notin A
        BY <1>1, <2>2, <2>3, <2>6, <3>3
      <3>4. QED
        BY <3>1, <3>2, <3>3
    <2>8. QED
      BY <2>1, <2>7
  <1> HIDE DEF P
  <1>4. s \in P
    BY <1>2, <1>3, GrowUp
  <1>5. QED
    BY <1>1, <1>4 DEF P

----------------------------------------------------------------------------
(* Dates and instants.                                                        *)

IsInstant(x) == x.at \in Int /\ x.offset \in Int /\ -TicksADay < x.offset /\ x.offset < TicksADay
Dates == Nat \cup {NoDate}
(* A report refuses a window that ends before it starts (validateDateOptions). *)
DateWindows == {w \in [since : Dates, until : Dates] :
              w.since # NoDate /\ w.until # NoDate => w.since <= w.until}

LEMMA FromMidnight ==
  ASSUME NEW a \in Int, NEW d \in Int, NEW n \in Nat \ {0}
  PROVE  d * n \in Int /\ (a \div n >= d <=> a >= d * n)
  <1>1. PICK q \in Int : q = a \div n /\ q * n <= a /\ a < q * n + n /\ q * n \in Int
    BY DivSplits
  <1>2. d * n \in Int
    OBVIOUS
  <1>3. CASE q >= d
    <2>1. PICK k \in Nat : q = d + k
      BY <1>3
    <2>2. q * n = d * n + k * n /\ k * n \in Nat
      BY <2>1
    <2> DEFINE x == q * n
               y == d * n
               z == k * n
    <2>3. x = y + z /\ z \in Nat /\ y \in Int /\ x <= a
      BY <1>1, <1>2, <2>2
    <2> HIDE DEF x, y, z
    <2>4. a >= y
      BY <2>3
    <2>5. QED
      BY <1>1, <1>2, <1>3, <2>4 DEF y
  <1>4. CASE ~(q >= d)
    <2>1. PICK k \in Nat : d = q + 1 + k
      BY <1>4
    <2>2. d * n = q * n + n + k * n /\ k * n \in Nat
      BY <2>1
    <2> DEFINE x == q * n
               y == d * n
               z == k * n
    <2>3. y = x + n + z /\ z \in Nat /\ x \in Int /\ a < x + n
      BY <1>1, <1>2, <2>2
    <2> HIDE DEF x, y, z
    <2>4. ~(a >= y)
      BY <2>3
    <2>5. QED
      BY <1>1, <1>2, <1>4, <2>4 DEF y
  <1>5. QED
    BY <1>3, <1>4

(* A date is local from its midnight in UTC less the offset.                  *)
LEMMA DateFrom ==
  ASSUME NEW x, IsInstant(x), NEW d \in Int
  PROVE  /\ LocalDate(x) \in Int /\ Midnight(d) \in Int /\ x.at \in Int /\ x.offset \in Int
         /\ -TicksADay < x.offset /\ x.offset < TicksADay
         /\ LocalDate(x) >= d <=> x.at + x.offset >= Midnight(d)
         /\ Midnight(d - 1) = Midnight(d) - TicksADay /\ Midnight(d + 1) = Midnight(d) + TicksADay
         /\ Midnight(d + 2) = Midnight(d) + 2 * TicksADay
  <1>1. TicksADay \in Nat \ {0}
    BY TicksADayAssumption
  <1>2. x.at \in Int /\ x.offset \in Int /\ -TicksADay < x.offset /\ x.offset < TicksADay
    BY DEF IsInstant
  <1>3. PICK a \in Int : a = x.at + x.offset
    BY <1>2
  <1>4. a \div TicksADay \in Int
    BY <1>1, DivSplits
  <1>5. d * TicksADay \in Int /\ (a \div TicksADay >= d <=> a >= d * TicksADay)
    BY <1>1, FromMidnight
  <1>6. /\ (d - 1) * TicksADay = d * TicksADay - TicksADay
        /\ (d + 1) * TicksADay = d * TicksADay + TicksADay
        /\ (d + 2) * TicksADay = d * TicksADay + 2 * TicksADay
    BY <1>1
  <1>7. LocalDate(x) = a \div TicksADay
    BY <1>3 DEF LocalDate
  <1>8. QED
    BY <1>2, <1>3, <1>4, <1>5, <1>6, <1>7 DEF Midnight

LEMMA InWindowIs ==
  ASSUME NEW x, IsInstant(x), NEW w \in [since : Dates, until : Dates]
  PROVE  InWindow(x, w) <=> InRange(LocalDate(x), w)
  <1> DEFINE T == TicksADay
             D == LocalDate(x)
             s == w.since
             u == w.until
  <1>1. T \in Nat \ {0}
    BY TicksADayAssumption
  <1>2. D \in Int /\ x.at \in Int /\ x.offset \in Int /\ -T < x.offset /\ x.offset < T
    BY DateFrom
  <1>3. ASSUME s # NoDate
        PROVE  /\ s \in Int /\ Midnight(s) \in Int
               /\ D >= s <=> x.at + x.offset >= Midnight(s)
               /\ Midnight(s - 1) = Midnight(s) - T /\ Midnight(s + 1) = Midnight(s) + T
    <2>1. s \in Int
      BY <1>3 DEF Dates
    <2>2. QED
      BY <2>1, DateFrom
  <1>4. ASSUME u # NoDate
        PROVE  /\ u \in Int /\ Midnight(u) \in Int
               /\ D <= u <=> x.at + x.offset < Midnight(u) + T
               /\ Midnight(u + 2) = Midnight(u) + 2 * T
    <2>1. u \in Int /\ u + 1 \in Int
      BY <1>4 DEF Dates
    <2>2. /\ Midnight(u) \in Int /\ Midnight(u + 1) = Midnight(u) + T /\ Midnight(u + 2) = Midnight(u) + 2 * T
      BY <2>1, DateFrom
    <2>3. D >= u + 1 <=> x.at + x.offset >= Midnight(u + 1)
      BY <2>1, DateFrom
    <2> DEFINE m == Midnight(u)
    <2> HIDE DEF m, D
    <2>4. D <= u <=> ~(D >= u + 1)
      BY <1>2, <2>1
    <2>5. D <= u <=> ~(x.at + x.offset >= m + T)
      BY <2>2, <2>3, <2>4 DEF m
    <2>6. m \in Int /\ D <= u <=> x.at + x.offset < m + T
      BY <1>1, <1>2, <2>2, <2>5 DEF m
    <2>7. QED
      BY <2>1, <2>2, <2>6 DEF m, D
  <1> DEFINE p == Midnight(s)
             q == Midnight(u)
             early == s # NoDate /\ x.at < p - T
             late == u # NoDate /\ x.at >= q + 2 * T
             inside == (s # NoDate => x.at >= p + T) /\ (u # NoDate => x.at < q)
  <1>5. Prefilter(x.at, w) = IF early \/ late THEN "outside" ELSE IF inside THEN "inside" ELSE "near-edge"
    BY <1>3, <1>4 DEF Prefilter
  <1>6. InRange(D, w) <=> (s # NoDate => D >= s) /\ (u # NoDate => D <= u)
    BY DEF InRange
  <1>7. InWindow(x, w) <=> IF early \/ late THEN FALSE ELSE IF inside THEN TRUE ELSE InRange(D, w)
    BY <1>5 DEF InWindow
  <1>8. /\ s # NoDate => p \in Int /\ (D >= s <=> x.at + x.offset >= p)
        /\ u # NoDate => q \in Int /\ (D <= u <=> x.at + x.offset < q + T)
    BY <1>3, <1>4
  <1> HIDE DEF D, p, q, s, u, T
  <1>9. early => ~(D >= s)
    BY <1>1, <1>2, <1>8
  <1>10. late => ~(D <= u)
    BY <1>1, <1>2, <1>8
  <1>11. inside => (s # NoDate => D >= s) /\ (u # NoDate => D <= u)
    BY <1>1, <1>2, <1>8
  <1>12. QED
    BY <1>6, <1>7, <1>9, <1>10, <1>11 DEF D, s, u

LEMMA OfProvidersAre ==
  ASSUME NEW E, NEW events \in Lists(E), \A e \in E : IsInstant(e), NEW providers,
         NEW w \in [since : Dates, until : Dates]
  PROVE  /\ OfProvidersIn(events, providers, w) \in Lists(E)
         /\ ToSet(OfProvidersIn(events, providers, w))
              = {e \in ToSet(events) : e.provider \in providers /\ InRange(LocalDate(e), w)}
  <1>1. \A e \in ToSet(events) : e \in E
    BY EmptyIs DEF ToSet, Lists
  <1> DEFINE A == {e \in ToSet(events) : e.provider \in providers /\ InWindow(e, w)}
  <1>2. OfProvidersIn(events, providers, w) = Those(events, A)
    BY DEF OfProvidersIn
  <1>3. \A e \in ToSet(events) : InWindow(e, w) <=> InRange(LocalDate(e), w)
    BY <1>1, InWindowIs
  <1>4. A = {e \in ToSet(events) : e.provider \in providers /\ InRange(LocalDate(e), w)}
    BY <1>3
  <1> HIDE DEF A
  <1>5. Those(events, A) \in Lists(E) /\ ToSet(Those(events, A)) = ToSet(events) \cap A
    BY ThoseType, ThoseAre
  <1>6. QED
    BY <1>2, <1>4, <1>5

Filters(P, M) == [providers : P, models : M, window : DateWindows, lookback : Dates]

LEMMA LookbackJoinsOn ==
  ASSUME NEW E, NEW events \in Lists(E), \A e \in E : IsInstant(e), NEW P, NEW M, NEW f \in Filters(P, M)
  PROVE  LookbackJoins(events, f)
  <1> DEFINE w == f.window
             lb == f.lookback
             all == ToSet(events)
             shown == OfProvidersIn(events, f.providers, w)
             rules == ModelRules(shown, f.models)
             earlier == [since |-> lb, until |-> w.since - 1]
             before == IF lb # NoDate /\ w.since # NoDate /\ lb < w.since
                       THEN OfProvidersIn(events, f.providers, earlier) ELSE <<>>
             matching == {e \in all : MatchesModel(e.model, rules)}
             longer == [w EXCEPT !.since = lb]
             whole == OfProvidersIn(events, f.providers, longer)
             kept == {e \in ToSet(whole) : MatchesModel(e.model, rules)}
             read == Filtered(events, f)
  <1>1. w \in DateWindows /\ lb \in Dates /\ w \in [since : Dates, until : Dates]
    BY DEF Filters, DateWindows
  <1>2. read = [events |-> Those(shown, matching), lookback |-> Those(before, matching)]
    BY DEF Filtered
  <1>3. Filtered(events, [f EXCEPT !.lookback = NoDate]).events = Those(shown, matching)
    <2>1. [f EXCEPT !.lookback = NoDate].window = w /\ [f EXCEPT !.lookback = NoDate].providers = f.providers
          /\ [f EXCEPT !.lookback = NoDate].models = f.models
      BY DEF Filters
    <2>2. QED
      BY <2>1 DEF Filtered
  <1>4. longer \in [since : Dates, until : Dates] /\ longer.since = lb /\ longer.until = w.until
    BY <1>1
  <1>5. \A e \in all : LocalDate(e) \in Int
    <2>1. \A e \in all : e \in E
      BY EmptyIs DEF ToSet, Lists
    <2>2. 0 \in Int
      OBVIOUS
    <2>3. QED
      BY <2>1, <2>2, DateFrom
  <1>6. /\ shown \in Lists(E)
        /\ ToSet(shown) = {e \in all : e.provider \in f.providers /\ InRange(LocalDate(e), w)}
    BY <1>1, OfProvidersAre
  <1>7. ToSet(whole) = {e \in all : e.provider \in f.providers /\ InRange(LocalDate(e), longer)}
    BY <1>4, OfProvidersAre
  <1>8. ToSet(Those(shown, matching)) = ToSet(shown) \cap matching
    BY <1>6, ThoseAre
  <1>9. ASSUME lb # NoDate, w.since # NoDate, lb <= w.since
        PROVE  /\ ToSet(Those(shown, matching)) \cap ToSet(Those(before, matching)) = {}
               /\ ToSet(Those(shown, matching)) \cup ToSet(Those(before, matching)) = kept
    <2>1. lb \in Nat /\ w.since \in Nat /\ w.until \in Dates
          /\ (w.until # NoDate => w.until \in Nat /\ w.since <= w.until)
      BY <1>1, <1>9 DEF Dates, DateWindows
    <2>2. \A e \in all : InRange(LocalDate(e), w)
            <=> LocalDate(e) >= w.since /\ (w.until # NoDate => LocalDate(e) <= w.until)
      BY <1>9 DEF InRange
    <2>3. \A e \in all : InRange(LocalDate(e), longer)
            <=> LocalDate(e) >= lb /\ (w.until # NoDate => LocalDate(e) <= w.until)
      BY <1>4, <1>9 DEF InRange
    <2>4. CASE lb < w.since
      <3>1. before = OfProvidersIn(events, f.providers, earlier)
        BY <1>9, <2>4
      <3>2. w.since - 1 \in Nat /\ w.since - 1 # NoDate
        BY <2>1, <2>4 DEF NoDate
      <3>3. earlier \in [since : Dates, until : Dates] /\ earlier.since = lb /\ earlier.until = w.since - 1
        BY <1>1, <3>2 DEF Dates
      <3>4. /\ before \in Lists(E)
            /\ ToSet(before) = {e \in all : e.provider \in f.providers /\ InRange(LocalDate(e), earlier)}
        BY <3>1, <3>3, OfProvidersAre
      <3>5. \A e \in all : InRange(LocalDate(e), earlier) <=> LocalDate(e) >= lb /\ LocalDate(e) <= w.since - 1
        BY <1>9, <3>2, <3>3 DEF InRange
      <3>6. ToSet(Those(before, matching)) = ToSet(before) \cap matching
        BY <3>4, ThoseAre
      <3>7. \A e \in all : /\ ~(InRange(LocalDate(e), earlier) /\ InRange(LocalDate(e), w))
                           /\ InRange(LocalDate(e), longer)
                                <=> InRange(LocalDate(e), earlier) \/ InRange(LocalDate(e), w)
        <4>1. ASSUME NEW e \in all, NEW d \in Int, d = LocalDate(e)
              PROVE  /\ ~(InRange(LocalDate(e), earlier) /\ InRange(LocalDate(e), w))
                     /\ InRange(LocalDate(e), longer)
                          <=> InRange(LocalDate(e), earlier) \/ InRange(LocalDate(e), w)
          <5> DEFINE s == w.since
                     u == w.until
          <5>1. s \in Nat /\ lb \in Nat /\ lb < s /\ (u # NoDate => u \in Nat /\ s <= u)
            BY <2>1, <2>4
          <5>2. InRange(LocalDate(e), w) <=> d >= s /\ (u # NoDate => d <= u)
            BY <2>2, <4>1
          <5>3. InRange(LocalDate(e), longer) <=> d >= lb /\ (u # NoDate => d <= u)
            BY <2>3, <4>1
          <5>4. InRange(LocalDate(e), earlier) <=> d >= lb /\ d <= s - 1
            BY <3>5, <4>1
          <5> HIDE DEF s, u, lb, earlier, longer, w
          <5>5. QED
            BY <5>1, <5>2, <5>3, <5>4
        <4>2. QED
          BY <1>5, <4>1
      <3> HIDE DEF w, lb, all, shown, rules, earlier, before, longer, whole
      <3>8. QED
        BY <1>6, <1>7, <1>8, <3>4, <3>6, <3>7
    <2>5. CASE lb = w.since
      <3>1. before = <<>>
        BY <2>1, <2>5
      <3>2. ToSet(Those(before, matching)) = {}
        BY <3>1, ThoseEmpty, ToSetEmpty
      <3>3. \A e \in all : InRange(LocalDate(e), longer) <=> InRange(LocalDate(e), w)
        BY <2>2, <2>3, <2>5
      <3> HIDE DEF w, lb, all, shown, rules, earlier, before, longer, whole
      <3>4. QED
        BY <1>6, <1>7, <1>8, <3>2, <3>3
    <2>6. QED
      BY <1>9, <2>1, <2>4, <2>5
  <1>10. read.events = Those(shown, matching) /\ read.lookback = Those(before, matching)
    BY <1>2
  <1>11. QED
    BY <1>3, <1>9, <1>10 DEF LookbackJoins

LEMMA NothingChosen ==
  ASSUME NEW T, NEW s \in Lists(T)
  PROVE  Those(s, {}) = <<>>
  <1>1. Those(s, {}) \in Lists(T) /\ ToSet(Those(s, {})) = {}
    BY ThoseType, ThoseAre
  <1>2. PICK r \in Lists(T) : r = Those(s, {})
    BY <1>1
  <1>3. ToSet(r) = {} /\ r \in Seq(T) /\ DOMAIN r = 1 .. Len(r) /\ Len(r) \in Nat
    BY <1>1, <1>2 DEF Lists
  <1>4. Len(r) = 0
    <2>1. ASSUME Len(r) # 0 PROVE FALSE
      <3>1. 1 \in DOMAIN r
        BY <1>3, <2>1
      <3>2. r[1] \in ToSet(r)
        BY <3>1 DEF ToSet
      <3>3. QED
        BY <1>3, <3>2
    <2>2. QED
      BY <2>1
  <1>5. r = <<>>
    BY <1>4, EmptyIs
  <1>6. QED
    BY <1>2, <1>5

(* The edges of a finite set of days.                                         *)
LEMMA EdgesOfDays ==
  ASSUME NEW n \in Nat, NEW days \in SUBSET (0 .. n), days # {}
  PROVE  /\ \E d \in days : \A c \in days : d <= c
         /\ \E d \in days : \A c \in days : d >= c
  <1>1. days \subseteq Nat
    OBVIOUS
  <1>2. \E d \in days : \A c \in days : d <= c
    BY <1>1, LeastNatural
  <1> DEFINE left == {n - d : d \in days}
  <1>3. left \subseteq Nat /\ left # {}
    <2>1. \A d \in days : d \in 0 .. n /\ n - d \in Nat
      OBVIOUS
    <2>2. PICK d : d \in days
      OBVIOUS
    <2>3. QED
      BY <2>1, <2>2
  <1>4. PICK m \in left : \A k \in left : m <= k
    <2> HIDE DEF left
    <2>1. QED
      BY <1>3, LeastNatural
  <1>5. PICK d \in days : m = n - d
    BY <1>4
  <1>6. \A c \in days : m <= n - c
    BY <1>4
  <1>7. \A c \in days : d >= c
    <2>1. ASSUME NEW c \in days PROVE d >= c
      <3>1. n - d <= n - c /\ c \in Nat /\ d \in Nat
        BY <1>5, <1>6
      <3>2. QED
        BY <3>1
    <2>2. QED
      BY <2>1
  <1>8. QED
    BY <1>2, <1>7

LEMMA CommitsAreLocal ==
  ASSUME NEW E, NEW commits \in Lists(E), \A c \in E : IsInstant(c), NEW author, NEW w \in DateWindows,
         NEW n \in Nat, NEW days \in SUBSET (0 .. n)
  PROVE  OutcomesAreLocal(commits, author, w, days)
  <1> DEFINE all == ToSet(commits)
             lw == LogWindow(w, days)
             near == {c \in all : /\ lw.since # NoDate => c.at >= Midnight(lw.since - 1)
                                  /\ lw.until # NoDate => c.at < Midnight(lw.until + 2)}
             own == {c \in all : c.author = author /\ InRange(LocalDate(c), w) /\ LocalDate(c) \in days}
             ref == {c \in all : c.author = author /\ LocalDate(c) \in days /\ InRange(LocalDate(c), w)}
  <1>1. own = ref /\ own \subseteq all
    OBVIOUS
  <1>2. CASE days = {}
    <2>1. ref = {} /\ Outcomes(commits, author, w, days) = <<>>
      BY <1>2 DEF Outcomes
    <2>2. Those(commits, ref) = <<>>
      BY <2>1, NothingChosen
    <2>3. QED
      BY <2>1, <2>2 DEF OutcomesAreLocal
  <1>3. CASE days # {}
    <2>1. PICK lo \in days : lo = CHOOSE d \in days : \A c \in days : d <= c
      BY <1>3, EdgesOfDays
    <2>2. PICK hi \in days : hi = CHOOSE d \in days : \A c \in days : d >= c
      BY <1>3, EdgesOfDays
    <2>3. \A c \in days : lo <= c
      BY <1>3, <2>1, EdgesOfDays
    <2>4. \A c \in days : hi >= c
      BY <1>3, <2>2, EdgesOfDays
    <2>5. /\ lw.since = IF w.since # NoDate THEN w.since ELSE lo
          /\ lw.until = IF w.until # NoDate THEN w.until ELSE hi
      BY <1>3, <2>1, <2>2 DEF LogWindow
    <2>6. w.since \in Dates /\ w.until \in Dates
      BY DEF DateWindows
    <2>7. lw.since \in Nat /\ lw.until \in Nat
      BY <2>5, <2>6 DEF Dates
    <2> DEFINE a == lw.since
               b == lw.until
    <2>8. Outcomes(commits, author, w, days) = Those(Those(commits, near), own)
      BY <1>3 DEF Outcomes, Listed
    <2> HIDE DEF lw
    <2>9. ASSUME NEW c \in own PROVE c \in near
      <3>1. c \in all /\ InRange(LocalDate(c), w) /\ LocalDate(c) \in days
        OBVIOUS
      <3>2. IsInstant(c)
        BY <3>1, EmptyIs DEF ToSet, Lists
      <3>3. PICK d \in Nat : d = LocalDate(c)
        <4>1. LocalDate(c) \in 0 .. n
          BY <3>1
        <4>2. QED
          BY <4>1
      <3>4. /\ w.since # NoDate => d >= w.since
            /\ w.until # NoDate => d <= w.until
        BY <3>1, <3>3 DEF InRange
      <3>5. lo <= d /\ hi >= d
        BY <2>3, <2>4, <3>1, <3>3
      <3>6. d >= a /\ d <= b
        BY <2>5, <3>3, <3>4, <3>5
      <3>7. a \in Int /\ b \in Int /\ b + 1 \in Int
        BY <2>7
      <3>8. d >= a <=> c.at + c.offset >= Midnight(a)
        BY <3>2, <3>3, <3>7, DateFrom
      <3>9. d >= b + 1 <=> c.at + c.offset >= Midnight(b + 1)
        BY <3>2, <3>3, <3>7, DateFrom
      <3>10. /\ Midnight(a) \in Int /\ Midnight(b) \in Int /\ Midnight(a - 1) = Midnight(a) - TicksADay
             /\ Midnight(b + 1) = Midnight(b) + TicksADay /\ Midnight(b + 2) = Midnight(b) + 2 * TicksADay
             /\ c.at \in Int /\ c.offset \in Int /\ -TicksADay < c.offset /\ c.offset < TicksADay
        BY <3>2, <3>7, DateFrom
      <3> DEFINE p == Midnight(a)
                 q == Midnight(b)
      <3>11. TicksADay \in Nat
        BY TicksADayAssumption
      <3> HIDE DEF a, b, p, q
      <3>12. c.at + c.offset >= p /\ ~(c.at + c.offset >= q + TicksADay) /\ p \in Int /\ q \in Int
        BY <3>3, <3>6, <3>7, <3>8, <3>9, <3>10 DEF p, q
      <3>13. c.at >= p - TicksADay /\ c.at < q + 2 * TicksADay
        BY <3>10, <3>11, <3>12
      <3>14. c.at >= Midnight(a - 1) /\ c.at < Midnight(b + 2)
        BY <3>10, <3>13 DEF p, q
      <3>15. QED
        BY <3>1, <3>14 DEF a, b
    <2>10. near \cap own = ref
      BY <1>1, <2>9
    <2> HIDE DEF near, own, ref
    <2>11. Those(Those(commits, near), own) = Those(commits, ref)
      BY <2>10, ThoseOfThose
    <2>12. QED
      BY <2>8, <2>11 DEF OutcomesAreLocal, ref
  <1>4. QED
    BY <1>2, <1>3

(* Whatever the events, the offsets of their local times (less than a day) and
   the window of dates: what is read between the bounds that need no zone, for
   the days before a window, and from git's wider dates, is what the local
   dates name.                                                                *)
THEOREM WindowsNameLocalDates ==
  ASSUME NEW Events, \A e \in Events : IsInstant(e), NEW events \in Seq(Events),
         NEW P, NEW M, NEW f \in Filters(P, M), NEW n \in Nat, NEW days \in SUBSET (0 .. n)
  PROVE  WindowsAreLocal(events, f, days)
  <1>1. events \in Lists(Events) /\ f.window \in DateWindows /\ f.window \in [since : Dates, until : Dates]
    BY DEF Lists, Filters, DateWindows
  <1>2. WindowIsLocal(events, f.window)
    <2>1. \A i \in DOMAIN events : IsInstant(events[i])
      BY <1>1, EmptyIs DEF Lists
    <2>2. QED
      BY <1>1, <2>1, InWindowIs DEF WindowIsLocal
  <1>3. LookbackJoins(events, f)
    BY <1>1, LookbackJoinsOn
  <1>4. \A author : OutcomesAreLocal(events, author, f.window, days)
    BY <1>1, CommitsAreLocal
  <1>5. QED
    BY <1>2, <1>3, <1>4 DEF WindowsAreLocal

----------------------------------------------------------------------------
(* CostEngine, for any event and entry: rates and what they bill.             *)

Rates == Nat \cup {NoRate}
RateMaps == [TierFields -> Rates]
TierEntries == [above : Nat, rate : RateMaps]
(* The tiers of an entry are the values of a map from thresholds.             *)
ByThreshold(T) == \A t, u \in T : t.above = u.above => t = u
PriceEntries == {entry \in [standard : [Buckets -> Rates], priority : [Buckets -> Rates], cacheWrite1h : Rates,
                            reasoning : Rates, tiers : SUBSET TierEntries] : ByThreshold(entry.tiers)}
Models == {p \in [known : BOOLEAN, rate : RateMaps, reasoning : Rates, separate : BOOLEAN,
                  fallback : SUBSET Buckets, tiers : SUBSET TierEntries] :
             ByThreshold(p.tiers) /\ \A b \in p.fallback : p.rate[b] # NoRate}
(* createUsageEvent caps the one-hour writes at the writes.                   *)
Usages == {e \in [input : Nat, output : Nat, reasoning : Nat, cacheRead : Nat, cacheWrite : Nat,
                  cacheWrite1h : Nat, single : BOOLEAN, model : BOOLEAN, logged : Nat \cup {NoCost}] :
             e.cacheWrite1h <= e.cacheWrite}

LEMMA RatesAreApart == NoRate \notin Nat /\ NoCost \notin Nat /\ NoRate \in Int /\ NoCost \in Int
  BY DEF NoRate, NoCost

LEMMA FieldsAre ==
  /\ Buckets = {"input", "output", "cacheRead", "cacheWrite"}
  /\ TierFields = {"input", "output", "cacheRead", "cacheWrite", "cacheWrite1h"}
  /\ Buckets \subseteq TierFields /\ "cacheWrite1h" \notin Buckets
  BY DEF Buckets, TierFields

LEMMA NormalizeIs ==
  ASSUME NEW entry \in PriceEntries
  PROVE  \/ Normalize(entry) = Unpriceable
         \/ (Normalize(entry) \in Models /\ Normalize(entry).known)
  <1>1. CASE \E b \in {"input", "output"} : ~Defined(ListedRate(entry, b))
    <2>1. Normalize(entry) = Unpriceable
      BY <1>1 DEF Normalize
    <2>2. QED
      BY <2>1
  <1>2. CASE ~\E b \in {"input", "output"} : ~Defined(ListedRate(entry, b))
    <2>1. /\ entry.standard \in [Buckets -> Rates] /\ entry.priority \in [Buckets -> Rates]
          /\ entry.cacheWrite1h \in Rates /\ entry.reasoning \in Rates
          /\ entry.tiers \in SUBSET TierEntries /\ ByThreshold(entry.tiers)
      BY DEF PriceEntries
    <2>2. PICK rate : rate = [b \in TierFields |-> IF b = "cacheWrite1h" THEN entry.cacheWrite1h
                                                   ELSE ListedRate(entry, b)]
      OBVIOUS
    <2>3. PICK F : F = {b \in Buckets : OnlyPriority(entry, b)}
      OBVIOUS
    <2>4. \A b \in Buckets : ListedRate(entry, b) \in Rates
      BY <2>1 DEF ListedRate, Or
    <2>5. rate \in RateMaps
      BY <2>1, <2>2, <2>4, FieldsAre DEF RateMaps
    <2>6. \A b \in F : b \in Buckets /\ rate[b] # NoRate
      BY <2>2, <2>3, FieldsAre DEF OnlyPriority, ListedRate, Or, Defined
    <2>7. PICK separate \in BOOLEAN : separate = Defined(entry.reasoning)
      BY DEF Defined
    <2>8. PICK p : p = [known |-> TRUE, rate |-> rate, reasoning |-> entry.reasoning, separate |-> separate,
                        fallback |-> F, tiers |-> entry.tiers]
      OBVIOUS
    <2>9. p \in [known : BOOLEAN, rate : RateMaps, reasoning : Rates, separate : BOOLEAN,
                 fallback : SUBSET Buckets, tiers : SUBSET TierEntries]
      BY <2>1, <2>5, <2>6, <2>8
    <2>10. p \in Models /\ p.known
      BY <2>1, <2>6, <2>8, <2>9 DEF Models
    <2>11. Normalize(entry) = p
      BY <1>2, <2>2, <2>3, <2>7, <2>8 DEF Normalize
    <2>12. QED
      BY <2>10, <2>11
  <1>3. QED
    BY <1>1, <1>2

LEMMA GroupCostIs ==
  ASSUME NEW a \in Nat, NEW b \in Nat, NEW r \in Rates
  PROVE  /\ GroupCost(a, r) \in Nat
         /\ GroupCost(a + b, r) = GroupCost(a, r) + GroupCost(b, r)
         /\ r # NoRate => r + 1 \in Rates /\ GroupCost(a, r + 1) = GroupCost(a, r) + a
  <1>1. CASE r = NoRate
    BY <1>1 DEF GroupCost, Defined
  <1>2. CASE r # NoRate
    <2>1. r \in Nat /\ r + 1 \in Nat /\ r + 1 # NoRate
      BY <1>2 DEF Rates, NoRate
    <2>2. \A n \in Nat, q \in Nat : n * q \in Nat /\ (n = 0 => n * q = 0)
      OBVIOUS
    <2>3. \A n \in Nat : GroupCost(n, r) = n * r /\ GroupCost(n, r + 1) = n * (r + 1)
      BY <1>2, <2>1, <2>2 DEF GroupCost, Defined
    <2>4. (a + b) * r = a * r + b * r /\ a * (r + 1) = a * r + a
      BY <2>1
    <2>5. a + b \in Nat
      OBVIOUS
    <2>6. QED
      BY <2>1, <2>2, <2>3, <2>4, <2>5 DEF Rates
  <1>3. QED
    BY <1>1, <1>2

LEMMA BilledIs ==
  ASSUME NEW e \in Usages, NEW p \in Models
  PROVE  BilledOutput(e, p) \in Nat /\ BilledReasoning(e, p) \in Nat
  BY DEF Usages, BilledOutput, BilledReasoning

LEMMA GroupsAre ==
  ASSUME NEW e \in Usages, NEW p \in Models
  PROVE  /\ GroupCost(e.input, p.rate.input) \in Nat
         /\ GroupCost(BilledOutput(e, p), p.rate.output) \in Nat
         /\ GroupCost(e.cacheRead, p.rate.cacheRead) \in Nat
         /\ GroupCost(e.cacheWrite - e.cacheWrite1h, p.rate.cacheWrite) \in Nat
         /\ GroupCost(e.cacheWrite1h, Or(p.rate.cacheWrite1h, p.rate.cacheWrite)) \in Nat
         /\ GroupCost(BilledReasoning(e, p), p.reasoning) \in Nat
  <1>1. p.rate \in RateMaps /\ p.reasoning \in Rates
    BY DEF Models
  <1>2. /\ p.rate.input \in Rates /\ p.rate.output \in Rates /\ p.rate.cacheRead \in Rates
        /\ p.rate.cacheWrite \in Rates /\ p.rate.cacheWrite1h \in Rates
    BY <1>1, FieldsAre DEF RateMaps
  <1>3. Or(p.rate.cacheWrite1h, p.rate.cacheWrite) \in Rates
    BY <1>2 DEF Or
  <1>4. /\ e.input \in Nat /\ e.cacheRead \in Nat /\ e.cacheWrite1h \in Nat
        /\ e.cacheWrite - e.cacheWrite1h \in Nat
    BY DEF Usages
  <1>5. BilledOutput(e, p) \in Nat /\ BilledReasoning(e, p) \in Nat
    BY BilledIs
  <1>6. \A a \in Nat, r \in Rates : GroupCost(a, r) \in Nat
    BY GroupCostIs
  <1>7. QED
    BY <1>1, <1>2, <1>3, <1>4, <1>5, <1>6

LEMMA EstimateIs ==
  ASSUME NEW e \in Usages, NEW p \in Models
  PROVE  Estimate(e, p) \in Nat
  BY GroupsAre DEF Estimate

LEMMA FlatTierIs ==
  ASSUME NEW p \in Models, NEW t \in TierEntries
  PROVE  /\ FlatTier(p, t) \in Models
         /\ FlatTier(p, t) = [known |-> p.known, rate |-> [b \in TierFields |-> Or(t.rate[b], p.rate[b])],
                              reasoning |-> p.reasoning, separate |-> p.separate, fallback |-> p.fallback,
                              tiers |-> {}]
  <1>1. /\ p \in [known : BOOLEAN, rate : RateMaps, reasoning : Rates, separate : BOOLEAN,
                  fallback : SUBSET Buckets, tiers : SUBSET TierEntries]
        /\ \A b \in p.fallback : p.rate[b] # NoRate
    BY DEF Models
  <1>2. PICK rate : rate = [b \in TierFields |-> Or(t.rate[b], p.rate[b])]
    OBVIOUS
  <1>3. t.rate \in RateMaps
    BY DEF TierEntries
  <1>4. rate \in RateMaps
    BY <1>1, <1>2, <1>3 DEF RateMaps, Or
  <1>5. \A b \in p.fallback : rate[b] # NoRate
    BY <1>1, <1>2, FieldsAre DEF Or, Defined
  <1>6. FlatTier(p, t) = [p EXCEPT !.rate = rate, !.tiers = {}]
    BY <1>2 DEF FlatTier
  <1>7. FlatTier(p, t) = [known |-> p.known, rate |-> rate, reasoning |-> p.reasoning,
                          separate |-> p.separate, fallback |-> p.fallback, tiers |-> {}]
    BY <1>1, <1>6
  <1>8. ByThreshold({})
    BY DEF ByThreshold
  <1>9. FlatTier(p, t) \in Models
    BY <1>1, <1>4, <1>5, <1>7, <1>8 DEF Models
  <1>10. QED
    BY <1>2, <1>7, <1>9

(* The rates of a prompt are those of the highest threshold it is above.      *)
LEMMA HighestCrossed ==
  ASSUME NEW e \in Usages, NEW p \in Models, Crossed(e, p) # {}
  PROVE  LET t == CHOOSE s \in Crossed(e, p) : \A u \in Crossed(e, p) : u.above <= s.above IN
         t \in Crossed(e, p) /\ \A u \in Crossed(e, p) : u.above <= t.above
  <1>1. PICK n \in Nat : n = Prompt(e)
    BY DEF Prompt, Usages
  <1>2. p.tiers \subseteq TierEntries
    BY DEF Models
  <1>3. \A u \in Crossed(e, p) : u.above \in 0 .. n
    BY <1>1, <1>2 DEF Crossed, TierEntries
  <1>4. PICK T : T = {u.above : u \in Crossed(e, p)}
    OBVIOUS
  <1>5. T \in SUBSET (0 .. n) /\ T # {}
    BY <1>3, <1>4
  <1>6. PICK d \in T : \A c \in T : d >= c
    BY <1>5, EdgesOfDays
  <1>7. PICK t \in Crossed(e, p) : d = t.above
    BY <1>4, <1>6
  <1>8. \A u \in Crossed(e, p) : u.above <= t.above
    <2>1. \A u \in Crossed(e, p) : u.above \in T /\ u.above \in Nat /\ t.above \in Nat
      BY <1>3, <1>4
    <2>2. QED
      BY <2>1, <1>6, <1>7
  <1>9. QED
    BY <1>7, <1>8

LEMMA RatesForIs ==
  ASSUME NEW e \in Usages, NEW p \in Models, NEW perRequest \in BOOLEAN
  PROVE  \/ (~perRequest \/ Crossed(e, p) = {}) /\ RatesFor(e, p, perRequest) = p
         \/ /\ perRequest
            /\ \E t \in Crossed(e, p) : /\ \A u \in Crossed(e, p) : u.above <= t.above
                                        /\ RatesFor(e, p, perRequest) = FlatTier(p, t)
  <1>1. CASE ~perRequest \/ Crossed(e, p) = {}
    BY <1>1 DEF RatesFor
  <1>2. CASE perRequest /\ Crossed(e, p) # {}
    <2>1. PICK t : t = CHOOSE s \in Crossed(e, p) : \A u \in Crossed(e, p) : u.above <= s.above
      OBVIOUS
    <2>2. t \in Crossed(e, p) /\ \A u \in Crossed(e, p) : u.above <= t.above
      BY <1>2, <2>1, HighestCrossed
    <2>3. RatesFor(e, p, perRequest) = FlatTier(p, t)
      BY <1>2, <2>1 DEF RatesFor
    <2>4. QED
      BY <1>2, <2>2, <2>3
  <1>3. QED
    BY <1>1, <1>2

LEMMA RatesForModels ==
  ASSUME NEW e \in Usages, NEW p \in Models, NEW perRequest \in BOOLEAN
  PROVE  /\ RatesFor(e, p, perRequest) \in Models
         /\ RatesFor(e, p, perRequest).known = p.known
         /\ RatesFor(e, p, perRequest).separate = p.separate
         /\ RatesFor(e, p, perRequest).reasoning = p.reasoning
  <1>1. CASE RatesFor(e, p, perRequest) = p
    BY <1>1
  <1>2. CASE \E t \in Crossed(e, p) : RatesFor(e, p, perRequest) = FlatTier(p, t)
    <2>1. PICK t \in Crossed(e, p) : RatesFor(e, p, perRequest) = FlatTier(p, t)
      BY <1>2
    <2>2. t \in TierEntries
      BY DEF Crossed, Models
    <2>3. QED
      BY <2>1, <2>2, FlatTierIs
  <1>3. QED
    BY <1>1, <1>2, RatesForIs

----------------------------------------------------------------------------
(* The parts of CostsAgree.                                                   *)

LEMMA ModesDoAgree ==
  ASSUME NEW e \in Usages, NEW p, p = Unpriceable \/ p \in Models
  PROVE  ModesAgree(e, p)
  <1>1. PICK plain : plain = [e EXCEPT !.logged = NoCost]
    OBVIOUS
  <1>2. /\ plain \in Usages /\ plain.logged = NoCost /\ plain.model = e.model /\ plain.single = e.single
        /\ plain.input = e.input /\ plain.output = e.output /\ plain.reasoning = e.reasoning
        /\ plain.cacheRead = e.cacheRead /\ plain.cacheWrite = e.cacheWrite
        /\ plain.cacheWrite1h = e.cacheWrite1h
    BY <1>1 DEF Usages
  <1>3. Prompt(plain) = Prompt(e) /\ Priceable(plain) = Priceable(e)
    BY <1>2 DEF Prompt, Priceable
  <1>4. PICK per \in BOOLEAN : per = (TRUE /\ e.single)
    BY DEF Usages
  <1>5. PICK rates : rates = RatesFor(e, p, per)
    OBVIOUS
  <1>6. RatesFor(plain, p, per) = rates
    BY <1>3, <1>5 DEF RatesFor, Crossed
  <1>7. CanEstimate(plain, rates) = CanEstimate(e, rates) /\ Estimate(plain, rates) = Estimate(e, rates)
    BY <1>2 DEF CanEstimate, Estimate, BilledOutput, BilledReasoning
  <1>8. p.known => Estimate(e, rates) \in Nat
    <2>1. CASE p \in Models
      BY <2>1, <1>5, RatesForModels, EstimateIs
    <2>2. CASE p = Unpriceable
      BY <2>2 DEF Unpriceable
    <2>3. QED
      BY <2>1, <2>2
  <1>9. PICK priced \in BOOLEAN : priced = (e.model /\ Priceable(e) /\ p.known /\ CanEstimate(e, rates))
    BY DEF Usages
  <1>10. PICK estimate : estimate = Estimate(e, rates)
    OBVIOUS
  <1>11. priced => estimate \in Nat
    BY <1>8, <1>9, <1>10
  <1>12. PICK reprice \in BOOLEAN : reprice = (e.logged = 0 /\ e.model /\ Priceable(e))
    OBVIOUS
  <1>13. reprice => e.logged = 0
    BY <1>12
  <1>14. PICK none \in Int : none = NoCost /\ none < 0
    BY DEF NoCost
  <1>15. PICK cost : cost = IF priced THEN estimate ELSE none
    OBVIOUS
  <1>16. PICK told : told = CostUnder(e, p, "explicit", TRUE)
    OBVIOUS
  <1>17. PICK both : both = CostUnder(e, p, "both", TRUE)
    OBVIOUS
  <1>18. PICK apart : apart = CostUnder(e, p, "estimated", TRUE)
    OBVIOUS
  <1>19. told = e.logged
    BY <1>16 DEF CostUnder, ModeOf
  <1>20. both = IF e.logged # none /\ ~reprice THEN e.logged ELSE IF priced THEN estimate ELSE e.logged
    BY <1>4, <1>5, <1>9, <1>10, <1>12, <1>14, <1>17 DEF CostUnder, ModeOf
  <1>21. apart = cost
    BY <1>4, <1>5, <1>9, <1>10, <1>14, <1>15, <1>18 DEF CostUnder, ModeOf
  <1>22. CostUnder(plain, p, "both", TRUE) = cost
    BY <1>2, <1>3, <1>4, <1>6, <1>7, <1>9, <1>10, <1>14, <1>15 DEF CostUnder, ModeOf
  <1>23. PICK amount \in Nat \cup {none} : amount = e.logged
    BY <1>14 DEF Usages
  <1>24. told > 0 => both = told
    BY <1>13, <1>14, <1>19, <1>20, <1>23
  <1>25. both = none => told = none /\ apart = none
    BY <1>11, <1>13, <1>14, <1>15, <1>19, <1>20, <1>21, <1>23
  <1>26. e.logged = 0 => both \in {0, apart}
    BY <1>14, <1>15, <1>20, <1>21, <1>23
  <1>27. both = none => \A mode \in Modes : CostUnder(e, p, mode, TRUE) = none
    BY <1>16, <1>17, <1>18, <1>25 DEF Modes
  <1>28. QED
    BY <1>1, <1>14, <1>16, <1>17, <1>18, <1>21, <1>22, <1>24, <1>26, <1>27 DEF ModesAgree

LEMMA PartsSumUp ==
  ASSUME NEW e \in Usages, NEW p \in Models, NEW others \in SUBSET Usages
  PROVE  SumsUp(e, p, others)
  <1> SUFFICES ASSUME NEW f \in others, e.reasoning <= e.output, f.reasoning <= f.output
               PROVE  Estimate(Together(e, f), p) = Estimate(e, p) + Estimate(f, p)
    BY DEF SumsUp
  <1>1. f \in Usages
    OBVIOUS
  <1>2. PICK g : g = Together(e, f)
    OBVIOUS
  <1>3. /\ g.input = e.input + f.input /\ g.output = e.output + f.output
        /\ g.reasoning = e.reasoning + f.reasoning /\ g.cacheRead = e.cacheRead + f.cacheRead
        /\ g.cacheWrite = e.cacheWrite + f.cacheWrite /\ g.cacheWrite1h = e.cacheWrite1h + f.cacheWrite1h
    BY <1>1, <1>2 DEF Together, Usages
  <1> DEFINE Sums(a, b, r) == GroupCost(a, r) \in Nat /\ GroupCost(b, r) \in Nat
                              /\ GroupCost(a + b, r) = GroupCost(a, r) + GroupCost(b, r)
  <1>4. \A a \in Nat, b \in Nat, r \in Rates : Sums(a, b, r)
    BY GroupCostIs
  <1> HIDE DEF Sums
  <1>5. /\ BilledOutput(e, p) \in Nat /\ BilledOutput(f, p) \in Nat
        /\ BilledReasoning(e, p) \in Nat /\ BilledReasoning(f, p) \in Nat
    BY <1>1, BilledIs
  <1>6. /\ BilledOutput(g, p) = BilledOutput(e, p) + BilledOutput(f, p)
        /\ BilledReasoning(g, p) = BilledReasoning(e, p) + BilledReasoning(f, p)
    BY <1>1, <1>3 DEF BilledOutput, BilledReasoning, Usages
  <1>7. /\ e.cacheWrite - e.cacheWrite1h \in Nat /\ f.cacheWrite - f.cacheWrite1h \in Nat
        /\ g.cacheWrite - g.cacheWrite1h = (e.cacheWrite - e.cacheWrite1h) + (f.cacheWrite - f.cacheWrite1h)
        /\ e.input \in Nat /\ f.input \in Nat /\ e.cacheRead \in Nat /\ f.cacheRead \in Nat
        /\ e.cacheWrite1h \in Nat /\ f.cacheWrite1h \in Nat
    BY <1>1, <1>3 DEF Usages
  <1>8. p.rate \in RateMaps /\ p.reasoning \in Rates
    BY DEF Models
  <1>9. /\ p.rate.input \in Rates /\ p.rate.output \in Rates /\ p.rate.cacheRead \in Rates
        /\ p.rate.cacheWrite \in Rates /\ p.rate.cacheWrite1h \in Rates
    BY <1>8, FieldsAre DEF RateMaps
  <1>10. PICK w \in Rates : w = Or(p.rate.cacheWrite1h, p.rate.cacheWrite)
    BY <1>9 DEF Or
  <1>11. /\ Sums(e.input, f.input, p.rate.input) /\ Sums(e.cacheRead, f.cacheRead, p.rate.cacheRead)
         /\ Sums(e.cacheWrite1h, f.cacheWrite1h, w)
    BY <1>4, <1>7, <1>9, <1>10
  <1>12. /\ Sums(BilledOutput(e, p), BilledOutput(f, p), p.rate.output)
         /\ Sums(BilledReasoning(e, p), BilledReasoning(f, p), p.reasoning)
         /\ Sums(e.cacheWrite - e.cacheWrite1h, f.cacheWrite - f.cacheWrite1h, p.rate.cacheWrite)
    BY <1>4, <1>5, <1>7, <1>8, <1>9
  <1>13. QED
    BY <1>2, <1>3, <1>6, <1>7, <1>10, <1>11, <1>12 DEF Estimate, Sums

LEMMA TiersAreApart ==
  ASSUME NEW e \in Usages, NEW p \in Models
  PROVE  TiersApart(e, p)
  <1>1. PICK rates : rates = RatesFor(e, p, TRUE)
    OBVIOUS
  <1>2. rates \in Models /\ rates.separate = p.separate /\ rates.reasoning = p.reasoning
    BY <1>1, RatesForModels
  <1>3. \/ Crossed(e, p) = {} /\ rates = p
        \/ \E t \in Crossed(e, p) : (\A u \in Crossed(e, p) : u.above <= t.above) /\ rates = FlatTier(p, t)
    BY <1>1, RatesForIs
  <1>4. p.tiers \subseteq TierEntries /\ Crossed(e, p) = {t \in p.tiers : Prompt(e) > t.above}
    BY DEF Models, Crossed
  <1>5. \A b \in TierFields : p.rate[b] # NoRate => rates.rate[b] # NoRate
    <2>1. CASE rates = p
      BY <2>1
    <2>2. CASE \E t \in Crossed(e, p) : rates = FlatTier(p, t)
      <3>1. PICK t \in TierEntries : rates = FlatTier(p, t)
        BY <2>2, <1>4
      <3>2. rates.rate = [b \in TierFields |-> Or(t.rate[b], p.rate[b])]
        BY <3>1, FlatTierIs
      <3>3. QED
        BY <3>2 DEF Or, Defined
    <2>3. QED
      BY <1>3, <2>1, <2>2
  <1>6. CanEstimate(e, p) => CanEstimate(e, rates)
    <2>1. BilledReasoning(e, rates) = BilledReasoning(e, p)
      BY <1>2 DEF BilledReasoning
    <2>2. /\ Defined(p.rate.cacheRead) => Defined(rates.rate.cacheRead)
          /\ Defined(p.rate.cacheWrite) => Defined(rates.rate.cacheWrite)
      BY <1>5, FieldsAre DEF Defined
    <2>3. QED
      BY <1>2, <2>1, <2>2 DEF CanEstimate
  <1>7. \A t \in p.tiers : IF Prompt(e) > t.above
                           THEN \E u \in p.tiers : u.above >= t.above /\ rates = FlatTier(p, u)
                           ELSE rates = p \/ \E u \in p.tiers : u.above < t.above /\ rates = FlatTier(p, u)
    <2> SUFFICES ASSUME NEW t \in p.tiers
                 PROVE  IF Prompt(e) > t.above
                        THEN \E u \in p.tiers : u.above >= t.above /\ rates = FlatTier(p, u)
                        ELSE rates = p \/ \E u \in p.tiers : u.above < t.above /\ rates = FlatTier(p, u)
      OBVIOUS
    <2>1. t.above \in Nat /\ \A u \in p.tiers : u.above \in Nat
      BY <1>4 DEF TierEntries
    <2>2. Prompt(e) \in Nat
      BY DEF Prompt, Usages
    <2>3. CASE Crossed(e, p) = {} /\ rates = p
      BY <1>4, <2>3
    <2>4. CASE \E u \in Crossed(e, p) : (\A v \in Crossed(e, p) : v.above <= u.above) /\ rates = FlatTier(p, u)
      <3>1. PICK u \in Crossed(e, p) : (\A v \in Crossed(e, p) : v.above <= u.above) /\ rates = FlatTier(p, u)
        BY <2>4
      <3>2. u \in p.tiers /\ Prompt(e) > u.above
        BY <1>4
      <3>3. Prompt(e) > t.above => t.above <= u.above
        BY <1>4, <3>1
      <3>4. QED
        BY <2>1, <2>2, <3>1, <3>2, <3>3
    <2>5. QED
      BY <1>3, <2>3, <2>4
  <1>8. LongContextExtra(e, p) = Estimate(e, rates) - Estimate(e, p)
    <2>1. PICK n \in Nat : n = Estimate(e, p)
      BY EstimateIs
    <2>2. n - n = 0
      OBVIOUS
    <2>3. QED
      BY <1>1, <2>1, <2>2 DEF LongContextExtra
  <1>9. QED
    BY <1>1, <1>6, <1>7, <1>8 DEF TiersApart

LEMMA DearerIs ==
  ASSUME NEW p \in Models, NEW rate \in RateMaps
  PROVE  /\ Dearer(p, rate) \in RateMaps
         /\ \A b \in TierFields : Dearer(p, rate)[b] = IF b \in p.fallback /\ rate[b] = p.rate[b]
                                                       THEN rate[b] + 1 ELSE rate[b]
  <1>1. \A b \in TierFields : rate[b] \in Rates
    BY DEF RateMaps
  <1>2. \A b \in p.fallback : p.rate[b] # NoRate
    BY DEF Models
  <1>3. \A b \in TierFields : (IF b \in p.fallback /\ rate[b] = p.rate[b] THEN rate[b] + 1 ELSE rate[b]) \in Rates
    BY <1>1, <1>2 DEF Rates
  <1>4. QED
    BY <1>3 DEF Dearer, RateMaps

LEMMA DearerPriorityIs ==
  ASSUME NEW p \in Models
  PROVE  /\ DearerPriority(p) \in Models
         /\ DearerPriority(p).rate = Dearer(p, p.rate)
         /\ DearerPriority(p).separate = p.separate /\ DearerPriority(p).reasoning = p.reasoning
         /\ DearerPriority(p).tiers = {[above |-> t.above, rate |-> Dearer(p, t.rate)] : t \in p.tiers}
  <1>1. /\ p \in [known : BOOLEAN, rate : RateMaps, reasoning : Rates, separate : BOOLEAN,
                  fallback : SUBSET Buckets, tiers : SUBSET TierEntries]
        /\ ByThreshold(p.tiers) /\ \A b \in p.fallback : p.rate[b] # NoRate
    BY DEF Models
  <1>2. PICK rate : rate = Dearer(p, p.rate)
    OBVIOUS
  <1>3. PICK T : T = {[above |-> t.above, rate |-> Dearer(p, t.rate)] : t \in p.tiers}
    OBVIOUS
  <1>4. \A t \in p.tiers : [t EXCEPT !.rate = Dearer(p, t.rate)] = [above |-> t.above, rate |-> Dearer(p, t.rate)]
    BY <1>1 DEF TierEntries
  <1>5. T = {[t EXCEPT !.rate = Dearer(p, t.rate)] : t \in p.tiers}
    BY <1>3, <1>4
  <1>6. DearerPriority(p) = [p EXCEPT !.rate = rate, !.tiers = T]
    BY <1>2, <1>5 DEF DearerPriority
  <1>7. DearerPriority(p) = [known |-> p.known, rate |-> rate, reasoning |-> p.reasoning,
                             separate |-> p.separate, fallback |-> p.fallback, tiers |-> T]
    BY <1>1, <1>6
  <1>8. rate \in RateMaps
    BY <1>1, <1>2, DearerIs
  <1>9. \A b \in p.fallback : rate[b] # NoRate
    <2>1. \A b \in p.fallback : b \in TierFields /\ p.rate[b] \in Nat
      BY <1>1, FieldsAre DEF RateMaps, Rates
    <2>2. \A b \in p.fallback : rate[b] = p.rate[b] + 1
      BY <1>1, <1>2, <2>1, DearerIs
    <2>3. QED
      BY <2>1, <2>2 DEF NoRate
  <1>10. \A t \in p.tiers : t.above \in Nat /\ t.rate \in RateMaps
    BY <1>1 DEF TierEntries
  <1>11. T \in SUBSET TierEntries
    BY <1>3, <1>10, DearerIs DEF TierEntries
  <1>12. ByThreshold(T)
    BY <1>1, <1>3 DEF ByThreshold
  <1>13. DearerPriority(p) \in Models
    BY <1>1, <1>7, <1>8, <1>9, <1>11, <1>12 DEF Models
  <1>14. QED
    BY <1>2, <1>3, <1>7, <1>13

(* Dearer priority rates are those of the same tier, where they are base rates. *)
LEMMA DearerRates ==
  ASSUME NEW e \in Usages, NEW p \in Models, NEW perRequest \in BOOLEAN
  PROVE  RatesFor(e, DearerPriority(p), perRequest).rate = Dearer(p, RatesFor(e, p, perRequest).rate)
  <1>1. PICK q \in Models : q = DearerPriority(p)
    BY DearerPriorityIs
  <1>2. /\ q.rate = Dearer(p, p.rate)
        /\ q.tiers = {[above |-> t.above, rate |-> Dearer(p, t.rate)] : t \in p.tiers}
    BY <1>1, DearerPriorityIs
  <1>3. /\ p.tiers \subseteq TierEntries /\ q.tiers \subseteq TierEntries /\ p.rate \in RateMaps
        /\ ByThreshold(p.tiers) /\ \A b \in p.fallback : p.rate[b] # NoRate
    BY DEF Models
  <1>4. /\ Crossed(e, p) = {t \in p.tiers : Prompt(e) > t.above}
        /\ Crossed(e, q) = {t \in q.tiers : Prompt(e) > t.above}
    BY DEF Crossed
  <1>5. \A u \in Crossed(e, q) : \E t \in Crossed(e, p) : u.above = t.above /\ u.rate = Dearer(p, t.rate)
    BY <1>2, <1>4
  <1>6. \A t \in Crossed(e, p) : \E u \in Crossed(e, q) : u.above = t.above
    <2>1. TAKE t \in Crossed(e, p)
    <2>2. PICK u : u = [above |-> t.above, rate |-> Dearer(p, t.rate)]
      OBVIOUS
    <2>3. u \in Crossed(e, q) /\ u.above = t.above
      BY <1>2, <1>4, <2>2
    <2>4. QED
      BY <2>3
  <1>7. CASE ~perRequest \/ Crossed(e, p) = {}
    <2>1. ~perRequest \/ Crossed(e, q) = {}
      BY <1>5, <1>7
    <2>2. RatesFor(e, p, perRequest) = p /\ RatesFor(e, q, perRequest) = q
      BY <1>7, <2>1, RatesForIs
    <2>3. QED
      BY <1>1, <1>2, <2>2
  <1>8. CASE perRequest /\ Crossed(e, p) # {}
    <2>1. Crossed(e, q) # {}
      BY <1>6, <1>8
    <2>2. PICK t \in Crossed(e, p) : /\ \A s \in Crossed(e, p) : s.above <= t.above
                                     /\ RatesFor(e, p, perRequest) = FlatTier(p, t)
      BY <1>8, RatesForIs
    <2>3. PICK u \in Crossed(e, q) : /\ \A s \in Crossed(e, q) : s.above <= u.above
                                     /\ RatesFor(e, q, perRequest) = FlatTier(q, u)
      BY <1>8, <2>1, RatesForIs
    <2>4. PICK v \in Crossed(e, p) : u.above = v.above /\ u.rate = Dearer(p, v.rate)
      BY <1>5
    <2>5. t \in p.tiers /\ v \in p.tiers /\ u \in q.tiers
      BY <1>4
    <2>6. t \in TierEntries /\ u \in TierEntries
      BY <1>3, <2>5
    <2>7. t.above \in Nat /\ u.above \in Nat /\ t.rate \in RateMaps
      BY <2>6 DEF TierEntries
    <2>8. v.above <= t.above
      BY <2>2
    <2>9. t.above <= u.above
      BY <1>6, <2>3
    <2>10. v.above = t.above
      BY <2>4, <2>7, <2>8, <2>9
    <2>11. u.rate = Dearer(p, t.rate)
      BY <1>3, <2>4, <2>5, <2>10 DEF ByThreshold
    <2>12. PICK flat \in RateMaps : flat = [b \in TierFields |-> Or(t.rate[b], p.rate[b])]
      BY <1>3, <2>7 DEF RateMaps, Or
    <2>13. FlatTier(p, t).rate = flat
      BY <2>6, <2>12, FlatTierIs
    <2>14. FlatTier(q, u).rate = [b \in TierFields |-> Or(u.rate[b], q.rate[b])]
      BY <2>6, FlatTierIs
    <2>15. \A b \in TierFields : Or(u.rate[b], q.rate[b]) = Dearer(p, flat)[b]
      <3> SUFFICES ASSUME NEW b \in TierFields
                   PROVE  Or(u.rate[b], q.rate[b]) = Dearer(p, flat)[b]
        OBVIOUS
      <3>1. PICK x \in Rates : x = t.rate[b]
        BY <2>7 DEF RateMaps
      <3>2. PICK y \in Rates : y = p.rate[b]
        BY <1>3 DEF RateMaps
      <3>3. b \in p.fallback => y # NoRate
        BY <1>3, <3>2
      <3>4. u.rate[b] = IF b \in p.fallback /\ x = y THEN x + 1 ELSE x
        BY <2>7, <2>11, <3>1, <3>2, DearerIs
      <3>5. q.rate[b] = IF b \in p.fallback THEN y + 1 ELSE y
        BY <1>2, <1>3, <3>2, DearerIs
      <3>6. flat[b] = IF x # NoRate THEN x ELSE y
        BY <2>12, <3>1, <3>2 DEF Or, Defined
      <3>7. Dearer(p, flat)[b] = IF b \in p.fallback /\ flat[b] = y THEN flat[b] + 1 ELSE flat[b]
        BY <3>2, DearerIs
      <3>8. QED
        BY <3>1, <3>2, <3>3, <3>4, <3>5, <3>6, <3>7 DEF Or, Defined, Rates, NoRate
    <2>16. Dearer(p, flat) = [b \in TierFields |-> Dearer(p, flat)[b]]
      BY DearerIs DEF RateMaps
    <2>17. FlatTier(q, u).rate = Dearer(p, flat)
      BY <2>14, <2>15, <2>16
    <2>18. QED
      BY <1>1, <2>2, <2>3, <2>13, <2>17
  <1>9. QED
    BY <1>7, <1>8

LEMMA AtBaseRateIs ==
  ASSUME NEW e \in Usages, NEW p \in Models, NEW rates \in Models
  PROVE  /\ AtBaseRate(e, p, rates, "input") = IF rates.rate["input"] = p.rate["input"] THEN e.input ELSE 0
         /\ AtBaseRate(e, p, rates, "output") =
                IF rates.rate["output"] = p.rate["output"] THEN BilledOutput(e, rates) ELSE 0
         /\ AtBaseRate(e, p, rates, "cacheRead") =
                IF rates.rate["cacheRead"] = p.rate["cacheRead"] THEN e.cacheRead ELSE 0
         /\ AtBaseRate(e, p, rates, "cacheWrite") =
                IF rates.rate["cacheWrite"] = p.rate["cacheWrite"]
                THEN e.cacheWrite - (IF Defined(rates.rate.cacheWrite1h) THEN e.cacheWrite1h ELSE 0) ELSE 0
  BY DEF AtBaseRate

(* What dearer priority rates add to an estimate is the tokens they bill.     *)
LEMMA PriorityDoesMatter ==
  ASSUME NEW e \in Usages, NEW p \in Models, NEW perRequest \in BOOLEAN
  PROVE  PriorityMatters(e, p, perRequest)
  <1>1. PICK rates \in Models : rates = RatesFor(e, p, perRequest)
    BY RatesForModels
  <1>2. PICK dear \in Models : dear = RatesFor(e, DearerPriority(p), perRequest)
    BY RatesForModels, DearerPriorityIs
  <1>3. /\ dear.rate = Dearer(p, rates.rate) /\ rates.rate \in RateMaps
        /\ dear.separate = rates.separate /\ dear.reasoning = rates.reasoning
    BY <1>1, <1>2, RatesForModels, DearerPriorityIs, DearerRates DEF Models
  <1> DEFINE Billed(b) == IF b \in p.fallback THEN AtBaseRate(e, p, rates, b) ELSE 0
  <1>4. /\ e.input \in Nat /\ e.cacheRead \in Nat /\ e.cacheWrite \in Nat /\ e.cacheWrite1h \in Nat
        /\ e.cacheWrite - e.cacheWrite1h \in Nat
    BY DEF Usages
  <1>5. PICK out \in Nat : out = BilledOutput(e, rates)
    BY BilledIs
  <1>6. BilledOutput(e, dear) = out /\ BilledReasoning(e, dear) = BilledReasoning(e, rates)
    BY <1>3, <1>5 DEF BilledOutput, BilledReasoning
  <1>7. \A a \in Nat, r \in Rates :
          /\ GroupCost(a, r) \in Nat
          /\ r # NoRate => GroupCost(a, r + 1) = GroupCost(a, r) + a
    BY GroupCostIs
  <1>8. \A b \in p.fallback : p.rate[b] # NoRate
    BY DEF Models
  <1>9. \A b \in TierFields : /\ rates.rate[b] \in Rates
                              /\ dear.rate[b] = IF b \in p.fallback /\ rates.rate[b] = p.rate[b]
                                                THEN rates.rate[b] + 1 ELSE rates.rate[b]
    BY <1>3, DearerIs DEF RateMaps
  (* A bucket whose tokens are billed at one rate.                            *)
  <1>10. ASSUME NEW b \in Buckets, NEW a \in Nat,
                AtBaseRate(e, p, rates, b) = IF rates.rate[b] = p.rate[b] THEN a ELSE 0
         PROVE  /\ Billed(b) \in Nat /\ GroupCost(a, rates.rate[b]) \in Nat
                /\ GroupCost(a, dear.rate[b]) = GroupCost(a, rates.rate[b]) + Billed(b)
    <2>1. PICK r \in Rates : r = rates.rate[b]
      BY <1>9, FieldsAre
    <2>2. GroupCost(a, r) \in Nat
      BY <1>7
    <2>3. CASE b \in p.fallback /\ r = p.rate[b]
      <3>1. r # NoRate /\ dear.rate[b] = r + 1 /\ Billed(b) = a
        BY <1>8, <1>9, <1>10, <2>1, <2>3, FieldsAre
      <3>2. QED
        BY <1>7, <2>1, <2>2, <3>1
    <2>4. CASE ~(b \in p.fallback /\ r = p.rate[b])
      <3>1. dear.rate[b] = r /\ Billed(b) = 0
        BY <1>9, <1>10, <2>1, <2>4, FieldsAre
      <3>2. QED
        BY <2>1, <2>2, <3>1
    <2>5. QED
      BY <2>3, <2>4
  <1> HIDE DEF Billed
  <1>11. /\ Billed("input") \in Nat /\ GroupCost(e.input, rates.rate["input"]) \in Nat
         /\ GroupCost(e.input, dear.rate["input"]) = GroupCost(e.input, rates.rate["input"]) + Billed("input")
    BY <1>4, <1>10, AtBaseRateIs, FieldsAre
  <1>12. /\ Billed("output") \in Nat /\ GroupCost(out, rates.rate["output"]) \in Nat
         /\ GroupCost(out, dear.rate["output"]) = GroupCost(out, rates.rate["output"]) + Billed("output")
    BY <1>5, <1>10, AtBaseRateIs, FieldsAre
  <1>13. /\ Billed("cacheRead") \in Nat /\ GroupCost(e.cacheRead, rates.rate["cacheRead"]) \in Nat
         /\ GroupCost(e.cacheRead, dear.rate["cacheRead"]) =
                GroupCost(e.cacheRead, rates.rate["cacheRead"]) + Billed("cacheRead")
    BY <1>4, <1>10, AtBaseRateIs, FieldsAre
  <1> DEFINE Writes(m) == GroupCost(e.cacheWrite - e.cacheWrite1h, m.rate["cacheWrite"])
                          + GroupCost(e.cacheWrite1h, Or(m.rate["cacheWrite1h"], m.rate["cacheWrite"]))
  <1>14. Billed("cacheWrite") \in Nat /\ Writes(rates) \in Nat /\ Writes(dear) = Writes(rates) + Billed("cacheWrite")
    <2>1. PICK r \in Rates : r = rates.rate["cacheWrite"]
      BY <1>9, FieldsAre
    <2>2. PICK hour \in Rates : hour = rates.rate["cacheWrite1h"]
      BY <1>9, FieldsAre
    <2>3. dear.rate["cacheWrite1h"] = hour
      BY <1>9, <2>2, FieldsAre DEF Models
    <2>4. PICK five \in Nat : five = e.cacheWrite - e.cacheWrite1h
      BY <1>4
    <2>5. e.cacheWrite1h \in Nat /\ five + e.cacheWrite1h = e.cacheWrite
      BY <1>4, <2>4
    <2>6. PICK R \in Rates : R = dear.rate["cacheWrite"]
      BY <1>9, <1>3, DearerIs, FieldsAre DEF RateMaps
    <2>7. AtBaseRate(e, p, rates, "cacheWrite") =
              IF r # p.rate["cacheWrite"] THEN 0 ELSE IF hour # NoRate THEN five ELSE five + e.cacheWrite1h
      BY <1>4, <2>1, <2>2, <2>4, <2>5, AtBaseRateIs DEF Defined
    <2>8. /\ Writes(rates) = GroupCost(five, r) + GroupCost(e.cacheWrite1h, IF hour # NoRate THEN hour ELSE r)
          /\ Writes(dear) = GroupCost(five, R) + GroupCost(e.cacheWrite1h, IF hour # NoRate THEN hour ELSE R)
      BY <2>1, <2>2, <2>3, <2>4, <2>6 DEF Or, Defined
    <2>9. /\ GroupCost(five, r) \in Nat /\ GroupCost(e.cacheWrite1h, r) \in Nat
          /\ GroupCost(e.cacheWrite1h, hour) \in Nat
      BY <1>7, <2>5
    <2>10. CASE "cacheWrite" \in p.fallback /\ r = p.rate["cacheWrite"]
      <3>1. r # NoRate /\ R = r + 1
        BY <1>8, <1>9, <2>1, <2>6, <2>10, FieldsAre
      <3>2. /\ GroupCost(five, R) = GroupCost(five, r) + five
            /\ GroupCost(e.cacheWrite1h, R) = GroupCost(e.cacheWrite1h, r) + e.cacheWrite1h
        BY <1>7, <2>5, <3>1
      <3>3. Billed("cacheWrite") = IF hour # NoRate THEN five ELSE five + e.cacheWrite1h
        BY <2>7, <2>10 DEF Billed
      <3>4. CASE hour # NoRate
        BY <2>5, <2>8, <2>9, <3>2, <3>3, <3>4
      <3>5. CASE hour = NoRate
        BY <2>5, <2>8, <2>9, <3>2, <3>3, <3>5
      <3>6. QED
        BY <3>4, <3>5
    <2>11. CASE ~("cacheWrite" \in p.fallback /\ r = p.rate["cacheWrite"])
      <3>1. R = r /\ Billed("cacheWrite") = 0
        BY <1>9, <2>1, <2>6, <2>7, <2>11, FieldsAre DEF Billed
      <3>2. QED
        BY <2>8, <2>9, <3>1
    <2>12. QED
      BY <2>10, <2>11
  <1> HIDE DEF Writes
  <1>15. PICK reasoning \in Nat : /\ reasoning = GroupCost(BilledReasoning(e, rates), rates.reasoning)
                                  /\ reasoning = GroupCost(BilledReasoning(e, dear), dear.reasoning)
    <2>1. BilledReasoning(e, rates) \in Nat /\ rates.reasoning \in Rates
      BY BilledIs DEF Models
    <2>2. QED
      BY <1>3, <1>6, <1>7, <2>1
  <1>16. /\ Estimate(e, rates) = GroupCost(e.input, rates.rate["input"]) + GroupCost(out, rates.rate["output"])
                                 + GroupCost(e.cacheRead, rates.rate["cacheRead"]) + Writes(rates) + reasoning
         /\ Estimate(e, dear) = GroupCost(e.input, dear.rate["input"]) + GroupCost(out, dear.rate["output"])
                                + GroupCost(e.cacheRead, dear.rate["cacheRead"]) + Writes(dear) + reasoning
    <2>1. \A m \in {rates, dear} :
            Estimate(e, m) = GroupCost(e.input, m.rate.input) + GroupCost(BilledOutput(e, m), m.rate.output)
                             + GroupCost(e.cacheRead, m.rate.cacheRead) + Writes(m)
                             + GroupCost(BilledReasoning(e, m), m.reasoning)
      BY GroupsAre DEF Estimate, Writes
    <2>2. QED
      BY <1>5, <1>6, <1>15, <2>1
  <1>17. Estimate(e, dear) = Estimate(e, rates)
                             + (Billed("input") + Billed("output") + Billed("cacheRead") + Billed("cacheWrite"))
    BY <1>11, <1>12, <1>13, <1>14, <1>15, <1>16
  <1>18. Estimate(e, rates) # Estimate(e, dear) <=> \E b \in Buckets : Billed(b) > 0
    <2>1. Estimate(e, rates) \in Nat
      BY EstimateIs
    <2>2. Estimate(e, rates) # Estimate(e, dear) <=>
            Billed("input") > 0 \/ Billed("output") > 0 \/ Billed("cacheRead") > 0 \/ Billed("cacheWrite") > 0
      BY <1>11, <1>12, <1>13, <1>14, <1>17, <2>1
    <2>3. QED
      BY <2>2, FieldsAre
  <1>19. PriorityPriced(e, p, rates) <=> \E b \in Buckets : Billed(b) > 0
    <2>1. p.fallback \subseteq Buckets
      BY DEF Models
    <2>2. QED
      BY <2>1 DEF PriorityPriced, Billed
  <1>20. QED
    BY <1>1, <1>2, <1>18, <1>19 DEF PriorityMatters

(* For any event, entry and other parts of its requests: what the cost modes,
   sums, tiers and priority rates make of it agrees.                          *)
THEOREM CostsDoAgree ==
  ASSUME NEW e \in Usages, NEW entry \in PriceEntries, NEW others \in SUBSET Usages
  PROVE  CostsAgree(e, entry, others)
  <1>1. PICK p : p = Normalize(entry)
    OBVIOUS
  <1>2. \/ p = Unpriceable
        \/ (p \in Models /\ p.known)
    BY <1>1, NormalizeIs
  <1>3. ModesAgree(e, p)
    BY <1>2, ModesDoAgree
  <1>4. p.known => p \in Models
    BY <1>2 DEF Unpriceable
  <1>5. p \in Models => /\ SumsUp(e, p, others) /\ TiersApart(e, p)
                        /\ \A perRequest \in BOOLEAN : PriorityMatters(e, p, perRequest)
    BY PartsSumUp, TiersAreApart, PriorityDoesMatter
  <1>6. QED
    BY <1>1, <1>3, <1>4, <1>5 DEF CostsAgree

----------------------------------------------------------------------------
(* ModelMatch, for any name, table and orders of the table: the first key.    *)

NamesOf(P, M, S) == [provider : P, model : M, suffix : Lists(S)]
(* Every key is a different spelling, and has at most four rates.             *)
TablesOf(P, M, S) ==
    UNION {{table \in [K -> [rates : 0 .. 4, spelled : Nat]] :
              /\ NoKey \notin K
              /\ \A k, l \in K : k # l /\ k.model = l.model /\ k.suffix = l.suffix
                                   => table[k].spelled # table[l].spelled} : K \in SUBSET NamesOf(P, M, S)}
OrdersOf(table) == {order \in [DOMAIN table -> Nat] : \A k, l \in DOMAIN table : order[k] = order[l] => k = l}

LEMMA FirstKeyIs ==
  ASSUME NEW keys, NEW m \in Nat, DOMAIN keys = 1 .. m
  PROVE  /\ (\A i \in 1 .. m : keys[i] = NoKey) => FirstKey(keys) = NoKey
         /\ \A i \in 1 .. m : keys[i] # NoKey /\ (\A j \in 1 .. i - 1 : keys[j] = NoKey) => FirstKey(keys) = keys[i]
  <1>1. PICK found : found = {i \in 1 .. m : keys[i] # NoKey}
    OBVIOUS
  <1>2. FirstKey(keys) = IF found = {} THEN NoKey ELSE keys[CHOOSE i \in found : \A j \in found : i <= j]
    BY <1>1 DEF FirstKey
  <1>3. ASSUME NEW i \in 1 .. m, keys[i] # NoKey, \A j \in 1 .. i - 1 : keys[j] = NoKey
        PROVE  FirstKey(keys) = keys[i]
    <2>1. i \in found /\ \A j \in found : i <= j
      BY <1>1, <1>3
    <2>2. PICK x : x = CHOOSE y \in found : \A j \in found : y <= j
      OBVIOUS
    <2>3. x \in found /\ \A j \in found : x <= j
      BY <2>1, <2>2
    <2>4. x = i
      BY <1>1, <2>1, <2>3
    <2>5. QED
      BY <1>2, <2>1, <2>2, <2>4
  <1>4. (\A i \in 1 .. m : keys[i] = NoKey) => FirstKey(keys) = NoKey
    BY <1>1, <1>2
  <1>5. QED
    BY <1>3, <1>4

LEMMA FirstOfTwo ==
  ASSUME NEW keys, DOMAIN keys = 1 .. 2
  PROVE  FirstKey(keys) = IF keys[1] # NoKey THEN keys[1] ELSE keys[2]
  <1>1. PICK m \in Nat : m = 2
    OBVIOUS
  <1>2. DOMAIN keys = 1 .. m /\ 1 .. m = {1, 2} /\ 1 .. 1 - 1 = {} /\ 1 .. 2 - 1 = {1}
    BY <1>1
  <1>3. QED
    BY <1>2, FirstKeyIs

LEMMA FirstOfFour ==
  ASSUME NEW a, NEW b, NEW c, NEW d
  PROVE  FirstKey(<<a, b, c, d>>) = IF a # NoKey THEN a ELSE IF b # NoKey THEN b ELSE IF c # NoKey THEN c ELSE d
  <1>1. PICK keys : keys = <<a, b, c, d>>
    OBVIOUS
  <1>2. PICK m \in Nat : m = 4
    OBVIOUS
  <1>3. /\ DOMAIN keys = 1 .. m /\ 1 .. m = {1, 2, 3, 4}
        /\ 1 .. 1 - 1 = {} /\ 1 .. 2 - 1 = {1} /\ 1 .. 3 - 1 = {1, 2} /\ 1 .. 4 - 1 = {1, 2, 3}
        /\ keys[1] = a /\ keys[2] = b /\ keys[3] = c /\ keys[4] = d
    BY <1>1, <1>2
  <1>4. \A i \in {1, 2, 3, 4} : keys[i] # NoKey /\ (\A j \in 1 .. i - 1 : keys[j] = NoKey)
                                => FirstKey(keys) = keys[i]
    BY <1>3, FirstKeyIs
  <1>5. (\A i \in {1, 2, 3, 4} : keys[i] = NoKey) => FirstKey(keys) = NoKey
    BY <1>3, FirstKeyIs
  <1>6. /\ a # NoKey => FirstKey(keys) = a
        /\ a = NoKey /\ b # NoKey => FirstKey(keys) = b
        /\ a = NoKey /\ b = NoKey /\ c # NoKey => FirstKey(keys) = c
        /\ a = NoKey /\ b = NoKey /\ c = NoKey /\ d # NoKey => FirstKey(keys) = d
    BY <1>3, <1>4
  <1>7. a = NoKey /\ b = NoKey /\ c = NoKey /\ d = NoKey => FirstKey(keys) = NoKey
    BY <1>3, <1>5
  <1>8. QED
    BY <1>1, <1>6, <1>7

----------------------------------------------------------------------------
(* What each rule finds.                                                      *)

(* A key of the name's own provider, or of none; and one that another publishes. *)
OwnKey(n, table, key) ==
    /\ key \in DOMAIN table /\ key.model = n.model /\ IsPrefix(key.suffix, n.suffix)
    /\ key.provider \in {n.provider, NoProvider}
    /\ \A i \in Len(key.suffix) + 1 .. Len(n.suffix) : n.suffix[i] \in ReleaseSegments \cup EffortSegments
PublishedKey(n, table, key) ==
    /\ key \in DOMAIN table /\ key.model = n.model /\ key.suffix = n.suffix
    /\ n.provider # Dotted \/ n.provider = NoProvider
    /\ \A k \in DOMAIN table : k.provider # NoProvider /\ k.model = n.model /\ k.suffix = n.suffix
                                 => Rank(key) <= Rank(k)

LEMMA StripIs ==
  ASSUME NEW P, NEW M, NEW S, NEW n \in NamesOf(P, M, S)
  PROVE  /\ Strip(n) = n \/ Strip(n) = [provider |-> NoProvider, model |-> n.model, suffix |-> n.suffix]
         /\ Strip(n).model = n.model /\ Strip(n).suffix = n.suffix
         /\ Strip(n).provider \in {n.provider, NoProvider}
         /\ n.provider # Dotted => Strip(n).provider = NoProvider
         /\ n.provider = Dotted => Strip(n) = n
  BY DEF Strip, NamesOf

LEMMA DirectIs ==
  ASSUME NEW P, NEW M, NEW S, NEW n \in NamesOf(P, M, S), NEW table, NoKey \notin DOMAIN table
  PROVE  /\ Direct(n, table) = NoKey => n \notin DOMAIN table /\ Strip(n) \notin DOMAIN table
         /\ Direct(n, table) # NoKey => OwnKey(n, table, Direct(n, table)) /\ Direct(n, table).suffix = n.suffix
  <1>1. Direct(n, table) # NoKey => /\ Direct(n, table) \in DOMAIN table
                                    /\ Direct(n, table).model = n.model /\ Direct(n, table).suffix = n.suffix
                                    /\ Direct(n, table).provider \in {n.provider, NoProvider}
    BY StripIs DEF Direct
  <1>2. IsPrefix(n.suffix, n.suffix) /\ Len(n.suffix) \in Nat
    BY EmptyIs DEF IsPrefix, NamesOf
  <1>3. Len(n.suffix) + 1 .. Len(n.suffix) = {}
    BY <1>2
  <1>4. Direct(n, table) = NoKey => n \notin DOMAIN table /\ Strip(n) \notin DOMAIN table
    BY DEF Direct
  <1>5. QED
    BY <1>1, <1>2, <1>3, <1>4 DEF OwnKey

LEMMA FrontIs ==
  ASSUME NEW S, NEW s \in Lists(S), s # <<>>
  PROVE  /\ Front(s) \in Lists(S) /\ IsPrefix(Front(s), s) /\ Len(Front(s)) = Len(s) - 1
         /\ Last(s) = s[Len(s)] /\ Len(s) \in Nat \ {0}
  <1>1. s \in Seq(S) /\ Len(s) \in Nat /\ Len(s) # 0
    BY EmptyIs DEF Lists
  <1>2. PICK k \in Nat : k = Len(s) - 1
    BY <1>1
  <1>3. Front(s) = SubSeq(s, 1, k)
    BY <1>2 DEF Front
  <1>4. k <= Len(s) /\ \A i \in 1 .. k : s[i] \in S
    BY <1>1, <1>2
  <1>5. SubSeq(s, 1, k) \in Seq(S) /\ Len(SubSeq(s, 1, k)) = k /\ \A i \in 1 .. k : SubSeq(s, 1, k)[i] = s[i]
    BY <1>1, <1>4
  <1>6. PICK front \in Seq(S) : front = SubSeq(s, 1, k) /\ Len(front) = k /\ \A i \in 1 .. k : front[i] = s[i]
    BY <1>5
  <1>7. IsPrefix(front, s)
    BY <1>1, <1>4, <1>6, PrefixMeans
  <1>8. QED
    BY <1>1, <1>2, <1>3, <1>6, <1>7 DEF Lists, Last

LEMMA EffortIs ==
  ASSUME NEW P, NEW M, NEW S, NEW n \in NamesOf(P, M, S), NEW table, NoKey \notin DOMAIN table,
         NEW key, key = EffortSuffix(n, table), key # NoKey
  PROVE  OwnKey(n, table, key)
  <1>1. n.suffix # <<>> /\ Last(n.suffix) \in EffortSegments /\ key = Direct([n EXCEPT !.suffix = Front(n.suffix)], table)
    BY DEF EffortSuffix
  <1>2. n.suffix \in Lists(S)
    BY DEF NamesOf
  <1>3. PICK front \in Lists(S) : /\ front = Front(n.suffix) /\ IsPrefix(front, n.suffix)
                                  /\ Len(front) = Len(n.suffix) - 1
    BY <1>1, <1>2, FrontIs
  <1>4. Len(n.suffix) \in Nat \ {0} /\ Last(n.suffix) = n.suffix[Len(n.suffix)]
    BY <1>1, <1>2, FrontIs
  <1>5. PICK m \in NamesOf(P, M, S) : m = [provider |-> n.provider, model |-> n.model, suffix |-> front]
    BY DEF NamesOf
  <1>6. m = [n EXCEPT !.suffix = Front(n.suffix)]
    BY <1>3, <1>5 DEF NamesOf
  <1>7. key = Direct(m, table)
    BY <1>1, <1>6
  <1>8. /\ key \in DOMAIN table /\ key.model = n.model /\ key.suffix = front
        /\ key.provider \in {n.provider, NoProvider}
    BY <1>5, <1>7, DirectIs DEF OwnKey
  <1>9. \A i \in Len(front) + 1 .. Len(n.suffix) : i = Len(n.suffix)
    BY <1>3, <1>4
  <1>10. QED
    BY <1>1, <1>3, <1>4, <1>8, <1>9 DEF OwnKey

(* Of any keys of one model and suffix, one is better than all others.        *)
LEMMA BestExists ==
  ASSUME NEW table, NEW order, NEW U \in SUBSET (DOMAIN table), U # {},
         \A k \in U : table[k].rates \in 0 .. 4 /\ table[k].spelled \in Nat,
         \A k, l \in U : k # l => table[k].spelled # table[l].spelled
  PROVE  \E k \in U : \A l \in U \ {k} : Better(table, order, k, l)
  <1>1. \A k \in U : Rank(k) \in Nat
    BY DEF Rank
  <1>2. PICK a \in {Rank(k) : k \in U} : \A b \in {Rank(k) : k \in U} : a <= b
    <2>1. {Rank(k) : k \in U} \subseteq Nat /\ {Rank(k) : k \in U} # {}
      BY <1>1
    <2>2. QED
      BY <2>1, LeastNatural
  <1>3. PICK V : V = {k \in U : Rank(k) = a}
    OBVIOUS
  <1>4. V # {} /\ V \subseteq U /\ a \in Nat
    BY <1>1, <1>2, <1>3
  <1>5. PICK b \in {4 - table[k].rates : k \in V} : \A c \in {4 - table[k].rates : k \in V} : b <= c
    <2>1. {4 - table[k].rates : k \in V} \subseteq Nat /\ {4 - table[k].rates : k \in V} # {}
      BY <1>4
    <2>2. QED
      BY <2>1, LeastNatural
  <1>6. PICK W : W = {k \in V : 4 - table[k].rates = b}
    OBVIOUS
  <1>7. W # {} /\ W \subseteq V
    BY <1>5, <1>6
  <1>8. PICK c \in {table[k].spelled : k \in W} : \A d \in {table[k].spelled : k \in W} : c <= d
    <2>1. {table[k].spelled : k \in W} \subseteq Nat /\ {table[k].spelled : k \in W} # {}
      BY <1>4, <1>7
    <2>2. QED
      BY <2>1, LeastNatural
  <1>9. PICK k \in W : c = table[k].spelled
    BY <1>8
  <1>10. k \in U /\ Rank(k) = a /\ 4 - table[k].rates = b
    BY <1>3, <1>4, <1>6, <1>7
  <1>11. \A l \in U \ {k} : Better(table, order, k, l)
    <2> SUFFICES ASSUME NEW l \in U \ {k}
                 PROVE  Better(table, order, k, l)
      OBVIOUS
    <2>1. /\ table[k].rates \in 0 .. 4 /\ table[l].rates \in 0 .. 4 /\ table[k].spelled \in Nat
          /\ table[l].spelled \in Nat /\ table[k].spelled # table[l].spelled
      BY <1>10
    <2>2. CASE Rank(l) # a
      <3>1. a <= Rank(l) /\ Rank(l) \in Nat
        BY <1>1, <1>2
      <3>2. Rank(k) < Rank(l)
        BY <1>4, <1>10, <2>2, <3>1
      <3>3. QED
        BY <3>2 DEF Better
    <2>3. CASE l \in V /\ l \notin W
      <3>1. b <= 4 - table[l].rates /\ 4 - table[l].rates # b
        BY <1>5, <1>6, <2>3
      <3>2. table[k].rates > table[l].rates
        BY <1>10, <2>1, <3>1
      <3>3. QED
        BY <1>3, <1>10, <2>3, <3>2 DEF Better
    <2>4. CASE l \in W
      <3>1. c <= table[l].spelled
        BY <1>8, <2>4
      <3>2. table[k].spelled < table[l].spelled
        BY <1>9, <2>1, <3>1
      <3>3. table[k].rates = table[l].rates /\ Rank(k) = Rank(l)
        BY <1>3, <1>6, <1>7, <1>10, <2>1, <2>4
      <3>4. QED
        BY <3>2, <3>3 DEF Better
    <2>5. QED
      BY <1>3, <2>2, <2>3, <2>4
  <1>12. QED
    BY <1>10, <1>11

LEMMA TablesAre ==
  ASSUME NEW P, NEW M, NEW S, NEW table \in TablesOf(P, M, S)
  PROVE  /\ NoKey \notin DOMAIN table /\ DOMAIN table \subseteq NamesOf(P, M, S)
         /\ \A k \in DOMAIN table : table[k].rates \in 0 .. 4 /\ table[k].spelled \in Nat
         /\ \A k, l \in DOMAIN table : k # l /\ k.model = l.model /\ k.suffix = l.suffix
                                         => table[k].spelled # table[l].spelled
  <1>1. PICK K \in SUBSET NamesOf(P, M, S) :
          /\ table \in [K -> [rates : 0 .. 4, spelled : Nat]] /\ NoKey \notin K
          /\ \A k, l \in K : k # l /\ k.model = l.model /\ k.suffix = l.suffix
                               => table[k].spelled # table[l].spelled
    BY DEF TablesOf
  <1>2. DOMAIN table = K
    BY <1>1
  <1>3. QED
    BY <1>1, <1>2

LEMMA PrefixedIs ==
  ASSUME NEW P, NEW M, NEW S, NEW n \in NamesOf(P, M, S), NEW table \in TablesOf(P, M, S), NEW order,
         NEW key, key = ProviderPrefixed(n, table, order), key # NoKey
  PROVE  PublishedKey(n, table, key)
  <1> DEFINE Under(c) == {k \in DOMAIN table : c.provider = NoProvider /\ k.provider # NoProvider
                                               /\ k.model = c.model /\ k.suffix = c.suffix}
             Best(c) == IF Under(c) = {} THEN NoKey
                        ELSE CHOOSE k \in Under(c) : \A l \in Under(c) \ {k} : Better(table, order, k, l)
  <1>1. PICK keys : keys = [i \in 1 .. 2 |-> Best(Forms(n)[i])]
    OBVIOUS
  <1>2. key = FirstKey(keys)
    BY <1>1 DEF ProviderPrefixed
  <1>3. Forms(n)[1] = n /\ Forms(n)[2] = Strip(n)
    BY DEF Forms
  <1> HIDE DEF Best
  <1>4. keys[1] = Best(n) /\ keys[2] = Best(Strip(n)) /\ DOMAIN keys = 1 .. 2
    BY <1>1, <1>3
  <1>5. key = Best(n) \/ key = Best(Strip(n))
    BY <1>2, <1>4, FirstOfTwo
  <1>6. PICK c \in {n, Strip(n)} : key = Best(c)
    BY <1>5
  <1>7. PICK U : U = Under(c)
    OBVIOUS
  <1>8. U # {} /\ key = CHOOSE k \in U : \A l \in U \ {k} : Better(table, order, k, l)
    BY <1>6, <1>7 DEF Best
  <1>9. c.provider = NoProvider /\ c.model = n.model /\ c.suffix = n.suffix
    BY <1>6, <1>7, <1>8, StripIs
  <1>10. U = {k \in DOMAIN table : k.provider # NoProvider /\ k.model = n.model /\ k.suffix = n.suffix}
    BY <1>7, <1>9
  <1> HIDE DEF Under
  <1>11. \E k \in U : \A l \in U \ {k} : Better(table, order, k, l)
    <2>1. U \in SUBSET (DOMAIN table)
      BY <1>10
    <2>2. \A k \in U : table[k].rates \in 0 .. 4 /\ table[k].spelled \in Nat
      BY <2>1, TablesAre
    <2>3. \A k, l \in U : k # l => table[k].spelled # table[l].spelled
      BY <1>10, TablesAre
    <2>4. QED
      BY <1>8, <2>1, <2>2, <2>3, BestExists
  <1>12. key \in U /\ \A l \in U \ {key} : Better(table, order, key, l)
    BY <1>8, <1>11
  <1>13. \A l \in U : Rank(key) <= Rank(l)
    <2>1. \A k : Rank(k) \in Nat
      BY DEF Rank
    <2>2. \A l \in U \ {key} : Rank(key) < Rank(l) \/ Rank(key) = Rank(l)
      BY <1>12 DEF Better
    <2>3. QED
      BY <2>1, <2>2
  <1>14. n.provider # Dotted \/ n.provider = NoProvider
    BY <1>6, <1>9, StripIs
  <1>15. QED
    BY <1>10, <1>12, <1>13, <1>14 DEF PublishedKey

LEMMA ReleaseIs ==
  ASSUME NEW P, NEW M, NEW S, NEW n \in NamesOf(P, M, S), NEW table \in TablesOf(P, M, S),
         NEW key, key = ReleaseSuffix(n, table), key # NoKey
  PROVE  OwnKey(n, table, key)
  <1> DEFINE Found(c) == {k \in DOMAIN table : ReleaseOf(c, k)}
             Best(c) == IF Found(c) = {} THEN NoKey
                        ELSE CHOOSE k \in Found(c) : \A l \in Found(c) : Len(l.suffix) <= Len(k.suffix)
  <1>1. PICK keys : keys = [i \in 1 .. 2 |-> Best(Forms(n)[i])]
    OBVIOUS
  <1>2. key = FirstKey(keys)
    BY <1>1 DEF ReleaseSuffix
  <1>3. Forms(n)[1] = n /\ Forms(n)[2] = Strip(n)
    BY DEF Forms
  <1> HIDE DEF Best
  <1>4. keys[1] = Best(n) /\ keys[2] = Best(Strip(n)) /\ DOMAIN keys = 1 .. 2
    BY <1>1, <1>3
  <1>5. key = Best(n) \/ key = Best(Strip(n))
    BY <1>2, <1>4, FirstOfTwo
  <1>6. PICK c \in {n, Strip(n)} : key = Best(c)
    BY <1>5
  <1>7. PICK U : U = Found(c)
    OBVIOUS
  <1>8. U # {} /\ key = CHOOSE k \in U : \A l \in U : Len(l.suffix) <= Len(k.suffix)
    BY <1>6, <1>7 DEF Best
  <1>9. c.model = n.model /\ c.suffix = n.suffix /\ c.provider \in {n.provider, NoProvider}
    BY <1>6, StripIs
  <1>10. \A k \in U : /\ k \in DOMAIN table /\ k.provider = c.provider /\ k.model = n.model
                      /\ IsPrefix(k.suffix, n.suffix)
                      /\ \A i \in Len(k.suffix) + 1 .. Len(n.suffix) :
                             n.suffix[i] \in ReleaseSegments \cup EffortSegments
    BY <1>7, <1>9 DEF ReleaseOf
  <1> HIDE DEF Found
  <1>11. \E k \in U : \A l \in U : Len(l.suffix) <= Len(k.suffix)
    <2>1. PICK m \in Nat : m = Len(n.suffix)
      BY EmptyIs DEF NamesOf
    <2>2. \A k \in U : Len(k.suffix) \in Nat
      BY <1>10, TablesAre, EmptyIs DEF NamesOf
    <2>3. \A k \in U : Len(k.suffix) \in 0 .. m
      BY <1>10, <2>1, <2>2 DEF IsPrefix
    <2>4. PICK T : T = {Len(k.suffix) : k \in U}
      OBVIOUS
    <2>5. T \in SUBSET (0 .. m) /\ T # {}
      BY <1>8, <2>3, <2>4
    <2>6. PICK d \in T : \A e \in T : d >= e
      BY <2>5, EdgesOfDays
    <2>7. PICK k \in U : d = Len(k.suffix)
      BY <2>4, <2>6
    <2>8. \A l \in U : Len(l.suffix) <= Len(k.suffix)
      BY <2>2, <2>4, <2>6, <2>7
    <2>9. QED
      BY <2>8
  <1>12. key \in U
    BY <1>8, <1>11
  <1>13. QED
    BY <1>9, <1>10, <1>12 DEF OwnKey

LEMMA FuzzyIs ==
  ASSUME NEW n, NEW table, NEW order \in OrdersOf(table), \A k \in DOMAIN table : Distance(n, k) \in Nat,
         NEW guess, guess = Fuzzy(n, table, order), guess # NoKey
  PROVE  /\ n \notin NeverFuzzy /\ Strip(n) \notin NeverFuzzy
         /\ \A k \in DOMAIN table : Distance(n, guess) <= Distance(n, k)
  <1>1. PICK near : near = {k \in DOMAIN table : Distance(n, k) < Far}
    OBVIOUS
  <1> DEFINE First(k) == \A l \in near \ {k} : \/ Distance(n, k) < Distance(n, l)
                                               \/ Distance(n, k) = Distance(n, l) /\ order[k] < order[l]
  <1>2. /\ n \notin NeverFuzzy /\ Strip(n) \notin NeverFuzzy
        /\ near # {} /\ guess = CHOOSE k \in near : First(k)
    BY <1>1 DEF Fuzzy, SkipsFuzzy
  <1>3. \A k \in near : Distance(n, k) \in Nat /\ order[k] \in Nat
    BY <1>1 DEF OrdersOf
  <1>4. \E k \in near : First(k)
    <2>1. PICK d \in {Distance(n, k) : k \in near} : \A e \in {Distance(n, k) : k \in near} : d <= e
      <3>1. {Distance(n, k) : k \in near} \subseteq Nat /\ {Distance(n, k) : k \in near} # {}
        BY <1>2, <1>3
      <3>2. QED
        BY <3>1, LeastNatural
    <2>2. PICK V : V = {k \in near : Distance(n, k) = d}
      OBVIOUS
    <2>3. V # {} /\ V \subseteq near /\ d \in Nat
      BY <1>3, <2>1, <2>2
    <2>4. PICK b \in {order[k] : k \in V} : \A c \in {order[k] : k \in V} : b <= c
      <3>1. {order[k] : k \in V} \subseteq Nat /\ {order[k] : k \in V} # {}
        BY <1>3, <2>3
      <3>2. QED
        BY <3>1, LeastNatural
    <2>5. PICK k \in V : b = order[k]
      BY <2>4
    <2>6. \A l \in near \ {k} : \/ Distance(n, k) < Distance(n, l)
                                \/ Distance(n, k) = Distance(n, l) /\ order[k] < order[l]
      <3> SUFFICES ASSUME NEW l \in near \ {k}
                   PROVE  \/ Distance(n, k) < Distance(n, l)
                          \/ Distance(n, k) = Distance(n, l) /\ order[k] < order[l]
        OBVIOUS
      <3>1. d <= Distance(n, l) /\ Distance(n, l) \in Nat /\ Distance(n, k) = d
        BY <1>3, <2>1, <2>2
      <3>2. CASE Distance(n, l) = d
        <4>1. b <= order[l]
          BY <2>2, <2>4, <3>2
        <4>2. order[k] # order[l] /\ order[k] \in Nat /\ order[l] \in Nat
          BY <1>1, <1>3, <2>3 DEF OrdersOf
        <4>3. QED
          BY <2>5, <3>1, <3>2, <4>1, <4>2
      <3>3. CASE Distance(n, l) # d
        BY <2>3, <3>1, <3>3
      <3>4. QED
        BY <3>2, <3>3
    <2>7. QED
      BY <2>3, <2>6
  <1>5. guess \in near /\ First(guess)
    BY <1>2, <1>4
  <1>6. \A k \in DOMAIN table : Distance(n, guess) <= Distance(n, k)
    <2> SUFFICES ASSUME NEW k \in DOMAIN table
                 PROVE  Distance(n, guess) <= Distance(n, k)
      OBVIOUS
    <2>1. Distance(n, k) \in Nat /\ Distance(n, guess) \in Nat /\ Distance(n, guess) < Far /\ Far \in Nat
      BY <1>1, <1>5 DEF Far
    <2>2. CASE k \in near
      BY <1>5, <2>1, <2>2
    <2>3. CASE k \notin near
      <3>1. ~(Distance(n, k) < Far)
        BY <1>1, <2>3
      <3>2. QED
        BY <2>1, <3>1
    <2>4. QED
      BY <2>2, <2>3
  <1>7. QED
    BY <1>2, <1>6

(* For any name, price file and orders of it: a key that is no guess is one of
   the same model; a guess is the nearest there is, and not at a name that the
   model map bans from guessing.                                              *)
THEOREM MatchesKeepModels ==
  ASSUME NEW P, NEW M, NEW S, NEW n \in NamesOf(P, M, S), NEW table \in TablesOf(P, M, S),
         \A k \in DOMAIN table : Distance(n, k) \in Nat, NEW orders \in SUBSET OrdersOf(table)
  PROVE  MatchKeepsModel(n, table, orders)
  <1> SUFFICES ASSUME NEW order \in orders, NEW key, key = Exact(n, table, order, FALSE),
                      NEW guess, guess = Resolve(n, table, order)
               PROVE  /\ \A other \in orders : key = Exact(n, table, other, FALSE)
                      /\ key # NoKey =>
                           /\ key \in DOMAIN table /\ key.model = n.model /\ IsPrefix(key.suffix, n.suffix)
                           /\ \A i \in Len(key.suffix) + 1 .. Len(n.suffix) :
                                  n.suffix[i] \in ReleaseSegments \cup EffortSegments
                           /\ key.provider \notin {n.provider, NoProvider} =>
                                  \A k \in DOMAIN table :
                                      k.model = n.model /\ k.suffix = n.suffix => Rank(key) <= Rank(k)
                      /\ guess # NoKey /\ CanonicalName(n) = NoKey =>
                           \/ guess = key
                           \/ /\ n \notin NeverFuzzy /\ Strip(n) \notin NeverFuzzy
                              /\ \A k \in DOMAIN table : Distance(n, guess) <= Distance(n, k)
    BY DEF MatchKeepsModel
  <1>1. /\ NoKey \notin DOMAIN table /\ DOMAIN table \subseteq NamesOf(P, M, S)
        /\ n.suffix \in Lists(S) /\ order \in OrdersOf(table)
    BY TablesAre DEF NamesOf
  <1>2. \A other : ProviderPrefixed(n, table, other) = ProviderPrefixed(n, table, order)
    BY DEF ProviderPrefixed, Better
  <1>3. \A other \in orders : key = Exact(n, table, other, FALSE)
    BY <1>2 DEF Exact
  <1>4. PICK direct, effort, prefixed, release :
          /\ direct = Direct(n, table) /\ effort = EffortSuffix(n, table)
          /\ prefixed = ProviderPrefixed(n, table, order) /\ release = ReleaseSuffix(n, table)
    OBVIOUS
  <1>5. key = IF direct # NoKey THEN direct ELSE IF effort # NoKey THEN effort
              ELSE IF prefixed # NoKey THEN prefixed ELSE release
    BY <1>4, FirstOfFour DEF Exact
  <1>6. \A s \in Lists(S) : IsPrefix(s, s) /\ Len(s) \in Nat /\ Len(s) + 1 .. Len(s) = {}
    BY EmptyIs DEF IsPrefix
  <1>7. ASSUME key # NoKey
        PROVE  /\ key \in DOMAIN table /\ key.model = n.model /\ IsPrefix(key.suffix, n.suffix)
               /\ \A i \in Len(key.suffix) + 1 .. Len(n.suffix) :
                      n.suffix[i] \in ReleaseSegments \cup EffortSegments
               /\ key.provider \notin {n.provider, NoProvider} =>
                      \A k \in DOMAIN table : k.model = n.model /\ k.suffix = n.suffix => Rank(key) <= Rank(k)
    <2>1. CASE key = direct
      <3>1. key = Direct(n, table) /\ key # NoKey
        BY <1>4, <1>7, <2>1
      <3>2. OwnKey(n, table, key)
        BY <1>1, <3>1, DirectIs
      <3>3. QED
        BY <3>2 DEF OwnKey
    <2>2. CASE key = effort
      <3>1. key = EffortSuffix(n, table) /\ key # NoKey
        BY <1>4, <1>7, <2>2
      <3>2. OwnKey(n, table, key)
        BY <1>1, <3>1, EffortIs
      <3>3. QED
        BY <3>2 DEF OwnKey
    <2>3. CASE direct = NoKey /\ key = prefixed
      <3>1. PublishedKey(n, table, key)
        <4>1. key = ProviderPrefixed(n, table, order) /\ key # NoKey
          BY <1>4, <1>7, <2>3
        <4>2. QED
          BY <4>1, PrefixedIs
      <3>2. n \notin DOMAIN table /\ Strip(n) \notin DOMAIN table
        BY <1>1, <1>4, <2>3, DirectIs
      <3>3. \A k \in DOMAIN table : k.model = n.model /\ k.suffix = n.suffix => k.provider # NoProvider
        <4> SUFFICES ASSUME NEW k \in DOMAIN table, k.model = n.model, k.suffix = n.suffix, k.provider = NoProvider
                     PROVE  FALSE
          OBVIOUS
        <4>1. k = [provider |-> NoProvider, model |-> n.model, suffix |-> n.suffix]
          BY <1>1 DEF NamesOf
        <4>2. n = [provider |-> n.provider, model |-> n.model, suffix |-> n.suffix]
          BY DEF NamesOf
        <4>3. k = n \/ k = Strip(n)
          BY <3>1, <4>1, <4>2 DEF Strip, PublishedKey
        <4>4. QED
          BY <3>2, <4>3
      <3>4. QED
        BY <1>1, <1>6, <3>1, <3>3 DEF PublishedKey
    <2>4. CASE key = release
      <3>1. key = ReleaseSuffix(n, table) /\ key # NoKey
        BY <1>4, <1>7, <2>4
      <3>2. OwnKey(n, table, key)
        BY <3>1, ReleaseIs
      <3>3. QED
        BY <3>2 DEF OwnKey
    <2>5. QED
      BY <1>5, <2>1, <2>2, <2>3, <2>4
  <1>8. ASSUME guess # NoKey, CanonicalName(n) = NoKey
        PROVE  \/ guess = key
               \/ /\ n \notin NeverFuzzy /\ Strip(n) \notin NeverFuzzy
                  /\ \A k \in DOMAIN table : Distance(n, guess) <= Distance(n, k)
    <2>1. Mapped(n, table, order) = NoKey
      BY <1>8 DEF Mapped
    <2>2. PICK found : found = KeyMatch(n, table, order, FALSE)
      OBVIOUS
    <2>3. PICK near : near = Fuzzy(n, table, order)
      OBVIOUS
    <2>4. guess = found
      <3>1. PICK keys : keys = <<NoKey, found>>
        OBVIOUS
      <3>2. DOMAIN keys = 1 .. 2 /\ keys[1] = NoKey /\ keys[2] = found
        BY <3>1
      <3>3. guess = FirstKey(keys)
        BY <2>1, <2>2, <3>1 DEF Resolve
      <3>4. QED
        BY <3>2, <3>3, FirstOfTwo
    <2>5. found = IF key # NoKey THEN key ELSE near
      <3>1. PICK keys : keys = <<key, near>>
        OBVIOUS
      <3>2. DOMAIN keys = 1 .. 2 /\ keys[1] = key /\ keys[2] = near
        BY <3>1
      <3>3. found = FirstKey(keys)
        BY <2>2, <2>3, <3>1 DEF KeyMatch
      <3>4. QED
        BY <3>2, <3>3, FirstOfTwo
    <2>6. CASE key # NoKey
      BY <2>4, <2>5, <2>6
    <2>7. CASE key = NoKey
      <3>1. guess = Fuzzy(n, table, order)
        BY <2>3, <2>4, <2>5, <2>7
      <3>2. QED
        BY <1>1, <1>8, <3>1, FuzzyIs
    <2>8. QED
      BY <2>6, <2>7
  <1>9. QED
    BY <1>3, <1>7, <1>8

----------------------------------------------------------------------------
(* Blocks, for any hour, length of a block and history: first the hours.      *)

LEMMA DurationIs ==
  /\ Hour \in Nat \ {0} /\ BlockHours \in Nat \ {0}
  /\ Duration \in Nat /\ Duration >= Hour /\ Duration = BlockHours * Hour
  <1>1. Hour \in Nat \ {0} /\ BlockHours \in Nat \ {0}
    BY BlockAssumption
  <1>2. 0 * Hour + Hour <= BlockHours * Hour
    BY <1>1, Apart
  <1>3. BlockHours * Hour \in Nat
    BY <1>1, TimesNat
  <1>4. QED
    BY <1>1, <1>2, <1>3 DEF Duration

OnHour(t) == \E q \in Nat : t = q * Hour

LEMMA FloorIs ==
  ASSUME NEW t \in Nat
  PROVE  \E r \in Nat : FloorHour(t) = r * Hour /\ r * Hour \in Nat /\ r * Hour <= t /\ t < r * Hour + Hour
  <1>1. Hour \in Nat \ {0}
    BY DurationIs
  <1>2. PICK r \in Int : r = t \div Hour /\ r * Hour <= t /\ t < r * Hour + Hour
    BY <1>1, DivSplits
  <1>3. r \in Nat
    <2>1. CASE r < 0
      <3>1. r * Hour + Hour <= 0 * Hour
        BY <1>1, <2>1, Apart
      <3>2. QED
        BY <1>1, <1>2, <3>1
    <2>2. QED
      BY <2>1
  <1>4. r * Hour \in Nat
    BY <1>1, <1>3, TimesNat
  <1>5. QED
    BY <1>2, <1>3, <1>4 DEF FloorHour

(* A block that ends on an hour by an event's time ends by that event's hour. *)
LEMMA EndsByHour ==
  ASSUME NEW x \in Nat, OnHour(x), NEW t \in Nat, x + Duration <= t
  PROVE  x + Duration <= FloorHour(t)
  <1>1. PICK q \in Nat : x = q * Hour
    BY DEF OnHour
  <1>2. PICK r \in Nat : FloorHour(t) = r * Hour /\ r * Hour \in Nat /\ t < r * Hour + Hour
    BY FloorIs
  <1>3. PICK p \in Nat : p = q + BlockHours /\ p * Hour = x + Duration
    <2>1. q + BlockHours \in Nat
      BY DurationIs
    <2>2. (q + BlockHours) * Hour = q * Hour + BlockHours * Hour
      BY DurationIs
    <2>3. QED
      BY <1>1, <2>1, <2>2, DurationIs
  <1>4. ~(r < p)
    <2>1. SUFFICES ASSUME r < p PROVE FALSE
      OBVIOUS
    <2>2. r * Hour + Hour <= p * Hour
      BY <2>1, DurationIs, Apart
    <2>3. QED
      BY <1>2, <1>3, <2>2, DurationIs
  <1>5. CASE p = r
    BY <1>2, <1>3, <1>5
  <1>6. CASE p < r
    <2>1. p * Hour + Hour <= r * Hour
      BY <1>6, DurationIs, Apart
    <2>2. QED
      BY <1>2, <1>3, <2>1, DurationIs
  <1>7. QED
    BY <1>4, <1>5, <1>6

(* The hours that are looked up for a time are those it is in the block of.   *)
LEMMA HoursBefore ==
  ASSUME NEW t \in Nat, NEW n \in 0 .. BlockHours - 1
  PROVE  /\ FloorHour(t) - n * Hour \in Int /\ FloorHour(t) - n * Hour <= t
         /\ t < FloorHour(t) - n * Hour + Duration
  <1>1. PICK f \in Nat : f = FloorHour(t) /\ f <= t /\ t < f + Hour
    BY FloorIs
  <1>2. n * Hour + Hour <= BlockHours * Hour
    BY DurationIs, Apart
  <1>3. n * Hour \in Nat
    BY DurationIs, TimesNat
  <1>4. QED
    BY <1>1, <1>2, <1>3, DurationIs

LEMMA HoursReach ==
  ASSUME NEW x \in Nat, OnHour(x), NEW t \in Nat, x <= t, t < x + Duration
  PROVE  \E n \in 0 .. BlockHours - 1 : FloorHour(t) - n * Hour = x
  <1>1. PICK q \in Nat : x = q * Hour
    BY DEF OnHour
  <1>2. PICK r \in Nat : FloorHour(t) = r * Hour /\ r * Hour \in Nat /\ r * Hour <= t /\ t < r * Hour + Hour
    BY FloorIs
  <1>3. PICK p \in Nat : p = q + BlockHours /\ p * Hour = x + Duration
    <2>1. q + BlockHours \in Nat
      BY DurationIs
    <2>2. (q + BlockHours) * Hour = q * Hour + BlockHours * Hour
      BY DurationIs
    <2>3. QED
      BY <1>1, <2>1, <2>2, DurationIs
  <1>4. ~(r < q)
    <2>1. SUFFICES ASSUME r < q PROVE FALSE
      OBVIOUS
    <2>2. r * Hour + Hour <= q * Hour
      BY <2>1, DurationIs, Apart
    <2>3. QED
      BY <1>1, <1>2, <2>2, DurationIs
  <1>5. r < p
    <2>1. CASE r = p
      BY <1>2, <1>3, <2>1
    <2>2. CASE p < r
      <3>1. p * Hour + Hour <= r * Hour
        BY <2>2, DurationIs, Apart
      <3>2. QED
        BY <1>2, <1>3, <3>1, DurationIs
    <2>3. QED
      BY <2>1, <2>2
  <1>6. PICK n \in 0 .. BlockHours - 1 : r = q + n
    <2>1. r - q \in 0 .. BlockHours - 1 /\ r = q + (r - q)
      BY <1>3, <1>4, <1>5, DurationIs
    <2>2. QED
      BY <2>1
  <1>7. r * Hour = q * Hour + n * Hour
    BY <1>6, DurationIs
  <1>8. n * Hour \in Nat
    BY DurationIs, TimesNat
  <1>9. QED
    BY <1>1, <1>2, <1>7, <1>8

----------------------------------------------------------------------------
(* The chain of blocks: what placing one event does, and that a chain is made *)
(* of these steps.                                                            *)

Placing == [at : Nat, counted : BOOLEAN]
BlockOfTimes == [start : Nat, certain : BOOLEAN, events : Lists(Nat)]
Chain == Lists(BlockOfTimes)

Extends(bs, n, e) == n = 0 \/ e.at >= bs[n].start + Duration
PlacedAs(r, bs, n, e, c) ==
    IF Extends(bs, n, e)
    THEN /\ Len(r) = n + 1 /\ \A k \in 1 .. n : r[k] = bs[k]
         /\ r[n + 1] = [start |-> FloorHour(e.at), certain |-> c,
                        events |-> IF e.counted THEN Append(<<>>, e.at) ELSE <<>>]
    ELSE /\ n > 0 /\ Len(r) = n /\ \A k \in 1 .. n - 1 : r[k] = bs[k]
         /\ r[n] = [start |-> bs[n].start, certain |-> bs[n].certain,
                    events |-> IF e.counted THEN Append(bs[n].events, e.at) ELSE bs[n].events]

LEMMA NewTimes ==
  ASSUME NEW o \in BlockOfTimes, NEW es
  PROVE  [o EXCEPT !.events = es] = [start |-> o.start, certain |-> o.certain, events |-> es]
  BY DEF BlockOfTimes

LEMMA PlacedIs ==
  ASSUME NEW bs \in Chain, NEW n \in Nat, n = Len(bs), NEW e \in Placing, NEW c \in BOOLEAN
  PROVE  Placed(bs, e, c) \in Chain /\ PlacedAs(Placed(bs, e, c), bs, n, e, c)
  <1>1. e.at \in Nat /\ e.counted \in BOOLEAN /\ Duration \in Nat /\ FloorHour(e.at) \in Nat
    BY DurationIs, FloorIs DEF Placing
  <1>2. (n = 0 <=> bs = <<>>) /\ \A k \in 1 .. n : bs[k] \in BlockOfTimes
    BY EmptyIs DEF Chain
  <1> DEFINE new == [start |-> FloorHour(e.at), certain |-> c, events |-> <<>>]
  <1>3. new \in BlockOfTimes
    BY <1>1, EmptySeq DEF BlockOfTimes, Lists
  <1> DEFINE Opened(open, m) ==
               /\ m = Len(open) /\ m = IF Extends(bs, n, e) THEN n + 1 ELSE n
               /\ \A k \in 1 .. n : open[k] = bs[k]
               /\ Extends(bs, n, e) => open[m] = new
               /\ Placed(bs, e, c) = IF e.counted THEN [open EXCEPT ![m].events = Append(@, e.at)] ELSE open
  <1>4. \E open \in Chain, m \in Nat \ {0} : Opened(open, m)
    <2>1. Opens(bs, e) <=> Extends(bs, n, e)
      BY <1>2 DEF Opens, Extends, Last
    <2>2. CASE Extends(bs, n, e)
      <3>1. Append(bs, new) \in Chain /\ Len(Append(bs, new)) = n + 1 /\ Append(bs, new)[n + 1] = new
            /\ \A k \in 1 .. n : Append(bs, new)[k] = bs[k]
        BY <1>3, AppendProperties DEF Chain, Lists
      <3>2. PICK open \in Chain : open = Append(bs, new)
        BY <3>1
      <3>3. Placed(bs, e, c) = IF e.counted THEN [open EXCEPT ![Len(open)].events = Append(@, e.at)] ELSE open
        BY <2>1, <2>2, <3>2 DEF Placed
      <3>4. Len(open) = n + 1 /\ n + 1 \in Nat \ {0}
        BY <3>1, <3>2
      <3>5. Opened(open, n + 1)
        BY <2>2, <3>1, <3>2, <3>3, <3>4
      <3>6. QED
        BY <3>4, <3>5
    <2>3. CASE ~Extends(bs, n, e)
      <3>1. Placed(bs, e, c) = IF e.counted THEN [bs EXCEPT ![Len(bs)].events = Append(@, e.at)] ELSE bs
        BY <2>1, <2>3 DEF Placed
      <3>2. n \in Nat \ {0}
        BY <2>3 DEF Extends
      <3>3. Opened(bs, n)
        BY <2>3, <3>1, <3>2
      <3>4. QED
        BY <3>2, <3>3
    <2>4. QED
      BY <2>2, <2>3
  <1> HIDE DEF Opened
  <1>5. PICK open \in Chain, m \in Nat \ {0} : Opened(open, m)
    BY <1>4
  <1>6. /\ m = Len(open) /\ m = IF Extends(bs, n, e) THEN n + 1 ELSE n
        /\ \A k \in 1 .. n : open[k] = bs[k]
        /\ Extends(bs, n, e) => open[m] = new
        /\ Placed(bs, e, c) = IF e.counted THEN [open EXCEPT ![m].events = Append(@, e.at)] ELSE open
    BY <1>5 DEF Opened
  <1>7. open[m] \in BlockOfTimes
    <2>1. \A i \in 1 .. Len(open) : open[i] \in BlockOfTimes
      BY EmptyIs DEF Chain
    <2>2. m \in 1 .. Len(open)
      BY <1>6
    <2>3. QED
      BY <2>1, <2>2
  <1>8. open[m].events \in Lists(Nat) /\ open[m].start \in Nat /\ open[m].certain \in BOOLEAN
        /\ open[m] = [start |-> open[m].start, certain |-> open[m].certain, events |-> open[m].events]
    BY <1>7 DEF BlockOfTimes
  <1>9. Extends(bs, n, e) => /\ open[m].start = FloorHour(e.at) /\ open[m].certain = c
                             /\ open[m].events = <<>>
    BY <1>6 DEF new
  <1> DEFINE top == [start |-> open[m].start, certain |-> open[m].certain,
                     events |-> IF e.counted THEN Append(open[m].events, e.at) ELSE open[m].events]
  <1>10. top \in BlockOfTimes
    BY <1>1, <1>8, AppendProperties DEF BlockOfTimes, Lists
  <1>11. PICK r : r = Placed(bs, e, c)
    OBVIOUS
  <1>12. r \in Chain /\ Len(r) = m /\ r[m] = top /\ \A k \in 1 .. m - 1 : r[k] = open[k]
    <2>1. CASE ~e.counted
      <3>1. r = open /\ top = open[m]
        BY <1>6, <1>8, <1>11, <2>1
      <3>2. QED
        BY <1>6, <3>1
    <2>2. CASE e.counted
      <3>1. top = [open[m] EXCEPT !.events = Append(@, e.at)]
        <4>1. PICK o \in BlockOfTimes : o = open[m]
          BY <1>7
        <4>2. [o EXCEPT !.events = Append(o.events, e.at)]
                = [start |-> o.start, certain |-> o.certain, events |-> Append(o.events, e.at)]
          BY NewTimes
        <4>3. QED
          BY <2>2, <4>1, <4>2
      <3>2. r = [open EXCEPT ![m] = top]
        BY <1>6, <1>11, <2>2, <3>1
      <3> HIDE DEF top
      <3>3. open \in Seq(BlockOfTimes) /\ m \in 1 .. Len(open)
        BY <1>6 DEF Chain, Lists
      <3>4. r \in Seq(BlockOfTimes) /\ Len(r) = Len(open) /\ \A k \in 1 .. Len(open) : r[k] = IF k = m THEN top ELSE open[k]
        BY <1>10, <3>2, <3>3, ExceptSeq
      <3>5. r \in Chain
        BY <3>4 DEF Chain, Lists
      <3>6. Len(r) = m /\ m \in 1 .. m /\ \A k \in 1 .. m : r[k] = IF k = m THEN top ELSE open[k]
        BY <1>6, <3>3, <3>4
      <3>7. r[m] = top /\ \A k \in 1 .. m - 1 : r[k] = open[k]
        BY <3>6
      <3>8. QED
        BY <3>5, <3>6, <3>7
    <2>3. QED
      BY <1>1, <2>1, <2>2
  <1>13. CASE Extends(bs, n, e)
    <2>1. top = [start |-> FloorHour(e.at), certain |-> c, events |-> IF e.counted THEN Append(<<>>, e.at) ELSE <<>>]
      BY <1>9, <1>13
    <2> HIDE DEF top
    <2>2. m = n + 1
      BY <1>6, <1>13
    <2>3. PlacedAs(r, bs, n, e, c)
      BY <1>6, <1>12, <1>13, <2>1, <2>2 DEF PlacedAs
    <2>4. QED
      BY <1>11, <1>12, <2>3
  <1>14. CASE ~Extends(bs, n, e)
    <2>1. m = n
      BY <1>6, <1>14
    <2>2. open[m] = bs[n]
      BY <1>6, <2>1
    <2>3. top = [start |-> bs[n].start, certain |-> bs[n].certain,
                 events |-> IF e.counted THEN Append(bs[n].events, e.at) ELSE bs[n].events]
      BY <2>2
    <2> HIDE DEF top
    <2>4. PlacedAs(r, bs, n, e, c)
      BY <1>6, <1>12, <1>14, <2>1, <2>3 DEF PlacedAs
    <2>5. QED
      BY <1>11, <1>12, <2>4
  <1>15. QED
    BY <1>13, <1>14

ChainTo(g, s, n, first, c) ==
    /\ g \in [0 .. n -> Chain]
    /\ \A i \in 0 .. n : i < first => g[i] = <<>>
    /\ \A i \in first .. n : PlacedAs(g[i], g[i - 1], Len(g[i - 1]), s[i], c[i])
CertainFrom(s, start) == [i \in 1 .. Len(s) |-> Certain(s, start, i)]

LEMMA ChainTypes ==
  ASSUME NEW s, NEW n \in Nat, NEW first, NEW c, NEW g, ChainTo(g, s, n, first, c), NEW i \in 1 .. n
  PROVE  g[i - 1] \in Chain /\ g[i] \in Chain
  <1>1. i - 1 \in 0 .. n /\ i \in 0 .. n /\ g \in [0 .. n -> Chain]
    BY DEF ChainTo
  <1>2. QED
    BY <1>1

LEMMA ChainSteps ==
  ASSUME NEW s \in Lists(Placing), NEW n \in Nat \ {0}, n = Len(s),
         NEW first \in 1 .. n, NEW sure \in BOOLEAN, NEW start, start = [first |-> first, certain |-> sure]
  PROVE  \E g : ChainTo(g, s, n, first, CertainFrom(s, start)) /\ Chained(s, start) = g[n]
  <1>1. \A i \in 1 .. n : s[i] \in Placing
    BY EmptyIs
  <1>2. PICK c : c = CertainFrom(s, start)
    OBVIOUS
  <1>3. \A i \in 1 .. n : c[i] = Certain(s, start, i) /\ c[i] \in BOOLEAN
    BY <1>2 DEF CertainFrom, Certain
  <1> DEFINE Take(r, i) == IF i < first THEN <<>> ELSE Placed(r, s[i], c[i])
             step == [p \in Chain \X (1 .. n) |-> Take(p[1], p[2])]
  <1>4. <<>> \in Chain
    BY EmptySeq DEF Chain, Lists
  <1>5. \A r \in Chain, i \in 1 .. n : Take(r, i) \in Chain
    <2>1. ASSUME NEW r \in Chain, NEW i \in 1 .. n PROVE Placed(r, s[i], c[i]) \in Chain
      <3>1. PICK k \in Nat : k = Len(r)
        BY EmptyIs DEF Chain
      <3>2. QED
        BY <1>1, <1>3, <3>1, PlacedIs
    <2>2. QED
      BY <1>4, <2>1
  <1> HIDE DEF Take
  <1>6. step \in [Chain \X (1 .. n) -> Chain]
    BY <1>5
  <1>7. \A r \in Chain, i \in 1 .. n : step[<<r, i>>] = Take(r, i)
    OBVIOUS
  <1> HIDE DEF step
  <1>8. PICK g \in [0 .. n -> Chain] : StepsTo(g, n, <<>>, step)
    BY <1>4, <1>6, StepsExist
  <1>9. g[0] = <<>> /\ \A i \in 1 .. n : g[i] = Take(g[i - 1], i)
    <2>1. \A i \in 1 .. n : i - 1 \in 0 .. n /\ g[i - 1] \in Chain
      OBVIOUS
    <2>2. QED
      BY <1>7, <1>8, <2>1 DEF StepsTo
  <1> DEFINE F(h) == [i \in 0 .. Len(s) |-> IF i < start.first THEN <<>>
                                            ELSE Placed(h[i - 1], s[i], Certain(s, start, i))]
             f == CHOOSE h : h = F(h)
  <1>10. \A h : F(h) = [i \in 0 .. n |-> IF i = 0 THEN <<>> ELSE Take(h[i - 1], i)]
    <2>1. ASSUME NEW h, NEW i \in 0 .. n
          PROVE  (IF i < start.first THEN <<>> ELSE Placed(h[i - 1], s[i], Certain(s, start, i)))
                   = IF i = 0 THEN <<>> ELSE Take(h[i - 1], i)
      <3>1. CASE i = 0
        BY <3>1
      <3>2. CASE i # 0
        BY <1>3, <3>2 DEF Take
      <3>3. QED
        BY <3>1, <3>2
    <2>2. QED
      BY <2>1
  <1>11. Chained(s, start) = f[n]
    BY DEF Chained
  <1> HIDE DEF F
  <1>12. g = F(g)
    <2>1. \A i \in 0 .. n : g[i] = IF i = 0 THEN <<>> ELSE Take(g[i - 1], i)
      BY <1>9
    <2>2. g = [i \in 0 .. n |-> IF i = 0 THEN <<>> ELSE Take(g[i - 1], i)]
      BY <2>1
    <2>3. QED
      BY <1>10, <2>2
  <1>13. f = F(f)
    BY <1>12
  <1> HIDE DEF f
  <1>14. f[0] = <<>> /\ \A i \in 1 .. n : f[i] = Take(f[i - 1], i)
    <2>1. f = [i \in 0 .. n |-> IF i = 0 THEN <<>> ELSE Take(f[i - 1], i)]
      BY <1>10, <1>13
    <2>2. PICK k : k = f
      OBVIOUS
    <2>3. \A i \in 0 .. n : f[i] = IF i = 0 THEN <<>> ELSE Take(k[i - 1], i)
      BY <2>1, <2>2
    <2>4. QED
      BY <2>2, <2>3
  <1> DEFINE K == {i \in 0 .. n : f[i] = g[i]}
  <1>15. 0 \in K
    BY <1>9, <1>14
  <1>16. ASSUME NEW i \in 1 .. n, i - 1 \in K PROVE i \in K
    BY <1>9, <1>14, <1>16
  <1> HIDE DEF K
  <1>17. \A i \in 0 .. n : i \in K
    BY <1>15, <1>16, CountUp
  <1>18. f[n] = g[n]
    BY <1>17 DEF K
  <1>19. \A i \in 0 .. n : i < first => g[i] = <<>>
    BY <1>9 DEF Take
  <1>20. ASSUME NEW i \in first .. n PROVE PlacedAs(g[i], g[i - 1], Len(g[i - 1]), s[i], c[i])
    <2>1. i \in 1 .. n /\ g[i - 1] \in Chain /\ g[i] = Placed(g[i - 1], s[i], c[i])
      BY <1>9 DEF Take
    <2>2. PICK k \in Nat : k = Len(g[i - 1])
      BY <2>1, EmptyIs DEF Chain
    <2>3. QED
      BY <1>1, <1>3, <2>1, <2>2, PlacedIs
  <1>21. ChainTo(g, s, n, first, c)
    BY <1>19, <1>20 DEF ChainTo
  <1>22. QED
    BY <1>2, <1>11, <1>18, <1>21

(* Blocks start on hours, apart by the length of one, and hold what is within *)
(* them; the last one has not ended by the last event.                        *)
BlocksFit(bs, at) ==
    \E n \in Nat \ {0} :
        /\ n = Len(bs)
        /\ \A k \in 1 .. n : /\ OnHour(bs[k].start)
                             /\ \A t \in ToSet(bs[k].events) : bs[k].start <= t /\ t < bs[k].start + Duration
        /\ \A j, k \in 1 .. n : j < k => bs[j].start + Duration <= bs[k].start
        /\ bs[n].start <= at /\ at < bs[n].start + Duration
HasTime(bs, t) == \E k \in 1 .. Len(bs) : t \in ToSet(bs[k].events)
InTime(s) == \A i, j \in 1 .. Len(s) : i <= j => s[i].at <= s[j].at

LEMMA BlockFields ==
  ASSUME NEW bs \in Chain
  PROVE  \A k \in 1 .. Len(bs) : /\ bs[k].start \in Nat /\ bs[k].certain \in BOOLEAN
                                 /\ bs[k].events \in Lists(Nat) /\ ToSet(bs[k].events) \subseteq Nat
  <1>1. \A k \in 1 .. Len(bs) : bs[k] \in BlockOfTimes
    BY EmptyIs DEF Chain
  <1>2. \A es \in Lists(Nat) : ToSet(es) \subseteq Nat
    BY DEF ToSet, Lists
  <1>3. QED
    BY <1>1, <1>2 DEF BlockOfTimes

LEMMA TimesGrow ==
  ASSUME NEW es \in Lists(Nat), NEW t \in Nat
  PROVE  ToSet(Append(es, t)) = ToSet(es) \cup {t}
  BY ToSetGrows

LEMMA FirstTime ==
  ASSUME NEW t \in Nat
  PROVE  ToSet(Append(<<>>, t)) = {t}
  <1>1. <<>> \in Lists(Nat)
    BY EmptySeq DEF Lists
  <1>2. ToSet(Append(<<>>, t)) = {} \cup {t}
    BY <1>1, TimesGrow, ToSetEmpty
  <1>3. QED
    BY <1>2

(* Sums of times.                                                             *)
LEMMA Widen ==
  ASSUME NEW x \in Nat, NEW t \in Nat, NEW h \in Nat, NEW d \in Nat, t < x + h, h <= d
  PROVE  t < x + d
  OBVIOUS

LEMMA EndsEarlier ==
  ASSUME NEW x \in Nat, NEW y \in Nat, NEW t \in Nat, NEW d \in Nat, x + d <= y, y + d <= t
  PROVE  x + d <= t
  OBVIOUS

LEMMA EndsBefore ==
  ASSUME NEW x \in Nat, NEW y \in Nat, NEW t \in Nat, NEW d \in Nat, x <= y, t - y >= d
  PROVE  x + d <= t
  OBVIOUS

LEMMA FitsPlaced ==
  ASSUME NEW bs \in Chain, NEW n \in Nat, n = Len(bs), NEW e \in Placing, NEW c, NEW r \in Chain,
         PlacedAs(r, bs, n, e, c), NEW at \in Nat, at <= e.at, n > 0 => BlocksFit(bs, at)
  PROVE  BlocksFit(r, e.at)
  <1>1. e.at \in Nat /\ Duration \in Nat /\ Hour \in Nat /\ Hour <= Duration
    BY DurationIs DEF Placing
  <1>2. \A k \in 1 .. n : bs[k].start \in Nat /\ bs[k].events \in Lists(Nat) /\ ToSet(bs[k].events) \subseteq Nat
    BY BlockFields
  <1>3. n > 0 => /\ \A k \in 1 .. n : /\ OnHour(bs[k].start)
                                      /\ \A t \in ToSet(bs[k].events) : bs[k].start <= t /\ t < bs[k].start + Duration
                 /\ \A j, k \in 1 .. n : j < k => bs[j].start + Duration <= bs[k].start
                 /\ bs[n].start <= at /\ at < bs[n].start + Duration
    BY DEF BlocksFit
  <1>4. CASE Extends(bs, n, e)
    <2>1. PICK m \in Nat \ {0} : m = n + 1
      OBVIOUS
    <2>2. PICK f \in Nat : f = FloorHour(e.at) /\ OnHour(f) /\ f <= e.at /\ e.at < f + Duration
      <3>1. PICK f \in Nat : f = FloorHour(e.at) /\ OnHour(f) /\ f <= e.at /\ e.at < f + Hour
        BY <1>1, FloorIs DEF OnHour
      <3>2. e.at < f + Duration
        BY <1>1, <3>1, Widen
      <3>3. QED
        BY <3>1, <3>2
    <2>3. Len(r) = m /\ (\A k \in 1 .. n : r[k] = bs[k]) /\ r[m].start = f
          /\ r[m].events = IF e.counted THEN Append(<<>>, e.at) ELSE <<>>
      BY <1>4, <2>1, <2>2 DEF PlacedAs
    <2>4. ToSet(r[m].events) \subseteq {e.at}
      <3>1. ToSet(Append(<<>>, e.at)) = {e.at}
        BY <1>1, FirstTime
      <3>2. QED
        BY <2>3, <3>1, ToSetEmpty
    <2>5. \A k \in 1 .. m : /\ OnHour(r[k].start)
                            /\ \A t \in ToSet(r[k].events) : r[k].start <= t /\ t < r[k].start + Duration
      <3>1. ASSUME NEW k \in 1 .. n
            PROVE  /\ OnHour(r[k].start)
                   /\ \A t \in ToSet(r[k].events) : r[k].start <= t /\ t < r[k].start + Duration
        BY <1>3, <2>3, <3>1
      <3>2. /\ OnHour(r[m].start)
            /\ \A t \in ToSet(r[m].events) : r[m].start <= t /\ t < r[m].start + Duration
        <4>1. r[m].start = f /\ OnHour(r[m].start)
          BY <2>2, <2>3
        <4>2. f <= e.at /\ e.at < f + Duration
          BY <2>2
        <4>3. \A t \in ToSet(r[m].events) : t = e.at
          BY <2>4
        <4>4. QED
          BY <4>1, <4>2, <4>3
      <3>3. QED
        BY <2>1, <3>1, <3>2
    <2>6. n > 0 => bs[n].start + Duration <= f
      <3>1. SUFFICES ASSUME n > 0 PROVE bs[n].start + Duration <= f
        OBVIOUS
      <3>2. n \in 1 .. n
        BY <3>1
      <3>3. PICK x \in Nat : x = bs[n].start /\ OnHour(x)
        BY <1>2, <1>3, <3>1, <3>2
      <3>4. PICK t \in Nat : t = e.at /\ t >= x + Duration
        BY <1>1, <1>4, <3>1, <3>3 DEF Extends
      <3>5. x + Duration <= t
        BY <1>1, <3>3, <3>4
      <3>6. x + Duration <= FloorHour(t)
        BY <3>3, <3>5, EndsByHour
      <3>7. QED
        BY <2>2, <3>3, <3>4, <3>6
    <2>7. \A j \in 1 .. n : bs[j].start + Duration <= f
      <3>1. ASSUME NEW j \in 1 .. n PROVE bs[j].start + Duration <= f
        <4>1. n \in 1 .. n /\ bs[n].start \in Nat /\ bs[j].start \in Nat
          BY <1>2
        <4>2. CASE j = n
          BY <2>6, <4>2
        <4>3. CASE j < n
          <5>1. PICK x \in Nat, y \in Nat : x = bs[j].start /\ y = bs[n].start
            BY <4>1
          <5>2. x + Duration <= y /\ y + Duration <= f
            BY <1>3, <2>6, <4>1, <4>3, <5>1
          <5>3. QED
            BY <1>1, <2>2, <5>1, <5>2, EndsEarlier
        <4>4. QED
          BY <4>2, <4>3
      <3>2. QED
        BY <3>1
    <2>8. ASSUME NEW j \in 1 .. m, NEW k \in 1 .. m, j < k PROVE r[j].start + Duration <= r[k].start
      <3>1. j \in 1 .. n
        BY <2>1, <2>8
      <3>2. CASE k = m
        BY <2>3, <2>7, <3>1, <3>2
      <3>3. CASE k \in 1 .. n
        BY <1>3, <2>3, <2>8, <3>1, <3>3
      <3>4. QED
        BY <2>1, <3>2, <3>3
    <2>9. r[m].start <= e.at /\ e.at < r[m].start + Duration
      BY <2>2, <2>3
    <2>10. QED
      BY <2>3, <2>5, <2>8, <2>9 DEF BlocksFit
  <1>5. CASE ~Extends(bs, n, e)
    <2>1. n \in Nat \ {0} /\ n \in 1 .. n /\ e.at < bs[n].start + Duration
      BY <1>1, <1>2, <1>5 DEF Extends
    <2>2. Len(r) = n /\ (\A k \in 1 .. n - 1 : r[k] = bs[k]) /\ r[n].start = bs[n].start
          /\ r[n].events = IF e.counted THEN Append(bs[n].events, e.at) ELSE bs[n].events
      <3>1. /\ Len(r) = n /\ \A k \in 1 .. n - 1 : r[k] = bs[k]
            /\ r[n] = [start |-> bs[n].start, certain |-> bs[n].certain,
                       events |-> IF e.counted THEN Append(bs[n].events, e.at) ELSE bs[n].events]
        BY <1>5 DEF PlacedAs
      <3>2. QED
        BY <3>1
    <2>3. \A k \in 1 .. n : r[k].start = bs[k].start
      BY <2>2
    <2>4. ToSet(r[n].events) \subseteq ToSet(bs[n].events) \cup {e.at}
      BY <1>1, <1>2, <2>1, <2>2, TimesGrow
    <2>5. bs[n].start <= e.at
      BY <1>1, <1>2, <1>3, <2>1
    <2>6. \A k \in 1 .. n : /\ OnHour(r[k].start)
                            /\ \A t \in ToSet(r[k].events) : r[k].start <= t /\ t < r[k].start + Duration
      <3>1. ASSUME NEW k \in 1 .. n - 1
            PROVE  /\ OnHour(r[k].start)
                   /\ \A t \in ToSet(r[k].events) : r[k].start <= t /\ t < r[k].start + Duration
        BY <1>3, <2>1, <2>2
      <3>2. /\ OnHour(r[n].start)
            /\ \A t \in ToSet(r[n].events) : r[n].start <= t /\ t < r[n].start + Duration
        BY <1>3, <2>1, <2>2, <2>4, <2>5
      <3>3. QED
        BY <3>1, <3>2
    <2>7. \A j, k \in 1 .. n : j < k => r[j].start + Duration <= r[k].start
      BY <1>3, <2>1, <2>3
    <2>8. r[n].start <= e.at /\ e.at < r[n].start + Duration
      BY <2>1, <2>2, <2>5
    <2>9. QED
      BY <2>1, <2>2, <2>6, <2>7, <2>8 DEF BlocksFit
  <1>6. QED
    BY <1>4, <1>5

LEMMA ChainFits ==
  ASSUME NEW s \in Lists(Placing), NEW n \in Nat \ {0}, n = Len(s), InTime(s),
         NEW first \in 1 .. n, NEW c, NEW g, ChainTo(g, s, n, first, c)
  PROVE  \A i \in first .. n : BlocksFit(g[i], s[i].at)
  <1>1. \A i \in 1 .. n : s[i] \in Placing /\ s[i].at \in Nat
    <2>1. \A i \in 1 .. n : s[i] \in Placing
      BY EmptyIs
    <2>2. QED
      BY <2>1 DEF Placing
  <1> DEFINE K == {i \in 0 .. n : i >= first => BlocksFit(g[i], s[i].at)}
  <1>2. 0 \in K
    OBVIOUS
  <1>3. ASSUME NEW i \in 1 .. n, i - 1 \in K PROVE i \in K
    <2> SUFFICES ASSUME i >= first PROVE BlocksFit(g[i], s[i].at)
      OBVIOUS
    <2>1. PICK bs \in Chain, r \in Chain : bs = g[i - 1] /\ r = g[i]
      BY ChainTypes
    <2>2. PICK m \in Nat : m = Len(bs)
      BY EmptyIs DEF Chain
    <2>3. PlacedAs(r, bs, m, s[i], c[i])
      BY <2>1, <2>2 DEF ChainTo
    <2>4. CASE i = first
      <3>1. bs = <<>>
        BY <2>1, <2>4 DEF ChainTo
      <3>2. m = 0
        BY <2>2, <3>1
      <3>3. PICK e \in Placing, at \in Nat : e = s[i] /\ at = e.at
        BY <1>1
      <3>4. at <= e.at /\ (m > 0 => BlocksFit(bs, at)) /\ PlacedAs(r, bs, m, e, c[i])
        BY <2>3, <3>2, <3>3
      <3>5. BlocksFit(r, e.at)
        BY <2>2, <3>4, FitsPlaced
      <3>6. QED
        BY <2>1, <3>3, <3>5
    <2>5. CASE i > first
      <3>1. BlocksFit(bs, s[i - 1].at)
        BY <1>3, <2>1, <2>5
      <3>2. i - 1 \in 1 .. n /\ s[i - 1].at \in Nat /\ s[i - 1].at <= s[i].at
        BY <1>1, <2>5 DEF InTime
      <3>3. QED
        BY <1>1, <2>1, <2>2, <2>3, <3>1, <3>2, FitsPlaced
    <2>6. QED
      BY <2>4, <2>5
  <1> HIDE DEF K
  <1>4. \A i \in 0 .. n : i \in K
    BY <1>2, <1>3, CountUp
  <1>5. QED
    BY <1>4 DEF K

(* An event that is placed stays in the blocks.                               *)
LEMMA TimesPlaced ==
  ASSUME NEW bs \in Chain, NEW n \in Nat, n = Len(bs), NEW e \in Placing, NEW c, NEW r \in Chain,
         PlacedAs(r, bs, n, e, c)
  PROVE  (e.counted => HasTime(r, e.at)) /\ \A t : HasTime(bs, t) => HasTime(r, t)
  <1>1. e.at \in Nat /\ \A k \in 1 .. n : bs[k].events \in Lists(Nat)
    BY BlockFields DEF Placing
  <1>2. CASE Extends(bs, n, e)
    <2>1. PICK m \in Nat \ {0} : m = n + 1 /\ m = Len(r)
      BY <1>2 DEF PlacedAs
    <2>2. (\A k \in 1 .. n : r[k] = bs[k])
          /\ r[m].events = IF e.counted THEN Append(<<>>, e.at) ELSE <<>>
      BY <1>2, <2>1 DEF PlacedAs
    <2>3. e.at \in ToSet(Append(<<>>, e.at))
      BY <1>1, FirstTime
    <2>4. e.counted => HasTime(r, e.at)
      BY <2>1, <2>2, <2>3 DEF HasTime
    <2>5. \A t : HasTime(bs, t) => HasTime(r, t)
      BY <2>1, <2>2 DEF HasTime
    <2>6. QED
      BY <2>4, <2>5
  <1>3. CASE ~Extends(bs, n, e)
    <2>1. n > 0 /\ n \in 1 .. n /\ Len(r) = n /\ (\A k \in 1 .. n - 1 : r[k] = bs[k])
          /\ r[n].events = IF e.counted THEN Append(bs[n].events, e.at) ELSE bs[n].events
      <3>1. /\ n > 0 /\ Len(r) = n /\ \A k \in 1 .. n - 1 : r[k] = bs[k]
            /\ r[n] = [start |-> bs[n].start, certain |-> bs[n].certain,
                       events |-> IF e.counted THEN Append(bs[n].events, e.at) ELSE bs[n].events]
        BY <1>3 DEF PlacedAs
      <3>2. QED
        BY <3>1
    <2>2. ToSet(Append(bs[n].events, e.at)) = ToSet(bs[n].events) \cup {e.at}
      BY <1>1, <2>1, TimesGrow
    <2>3. e.counted => HasTime(r, e.at)
      BY <2>1, <2>2 DEF HasTime
    <2>4. \A k \in 1 .. n : ToSet(bs[k].events) \subseteq ToSet(r[k].events)
      BY <2>1, <2>2
    <2>5. \A t : HasTime(bs, t) => HasTime(r, t)
      BY <2>1, <2>4 DEF HasTime
    <2>6. QED
      BY <2>3, <2>5
  <1>4. QED
    BY <1>2, <1>3

LEMMA ChainHolds ==
  ASSUME NEW s \in Lists(Placing), NEW n \in Nat \ {0}, n = Len(s),
         NEW first \in 1 .. n, NEW c, NEW g, ChainTo(g, s, n, first, c)
  PROVE  \A i \in first .. n : \A j \in first .. i : s[j].counted => HasTime(g[i], s[j].at)
  <1>1. \A i \in 1 .. n : s[i] \in Placing
    BY EmptyIs
  <1> DEFINE K == {i \in 0 .. n : \A j \in first .. i : s[j].counted => HasTime(g[i], s[j].at)}
  <1>2. 0 \in K
    OBVIOUS
  <1>3. ASSUME NEW i \in 1 .. n, i - 1 \in K PROVE i \in K
    <2> SUFFICES ASSUME NEW j \in first .. i, s[j].counted PROVE HasTime(g[i], s[j].at)
      OBVIOUS
    <2>1. PICK bs \in Chain, r \in Chain : bs = g[i - 1] /\ r = g[i]
      BY ChainTypes
    <2>2. PICK m \in Nat : m = Len(bs)
      BY EmptyIs DEF Chain
    <2>3. PlacedAs(r, bs, m, s[i], c[i])
      BY <2>1, <2>2 DEF ChainTo
    <2>4. (s[i].counted => HasTime(r, s[i].at)) /\ \A t : HasTime(bs, t) => HasTime(r, t)
      BY <1>1, <2>1, <2>2, <2>3, TimesPlaced
    <2>5. CASE j = i
      BY <2>1, <2>4, <2>5
    <2>6. CASE j # i
      <3>1. j \in first .. i - 1
        BY <2>6
      <3>2. HasTime(bs, s[j].at)
        BY <1>3, <2>1, <3>1
      <3>3. QED
        BY <2>1, <2>4, <3>2
    <2>7. QED
      BY <2>5, <2>6
  <1> HIDE DEF K
  <1>4. \A i \in 0 .. n : i \in K
    BY <1>2, <1>3, CountUp
  <1>5. QED
    BY <1>4 DEF K

(* Blocks that were there when another one opened do not change any more.     *)
Opening(g, s, p) == Extends(g[p - 1], Len(g[p - 1]), s[p])

BeginsAs(x, y, b) == Len(x) > b /\ \A k \in 1 .. b : x[k] = y[k]

LEMMA ChainKeeps ==
  ASSUME NEW s, NEW n \in Nat \ {0}, NEW first \in 1 .. n, NEW c, NEW g, ChainTo(g, s, n, first, c),
         NEW p \in first .. n, Opening(g, s, p), NEW b \in Nat, b = Len(g[p - 1])
  PROVE  \A i \in p .. n : BeginsAs(g[i], g[p - 1], b)
  <1> DEFINE Kept(i) == Len(g[i]) > b /\ \A k \in 1 .. b : g[i][k] = g[p - 1][k]
             K == {i \in 0 .. n : i >= p => Kept(i)}
  <1>1. \A i \in 1 .. n : Len(g[i]) \in Nat /\ Len(g[i - 1]) \in Nat
    BY EmptyIs DEF ChainTo, Chain
  <1>2. 0 \in K
    OBVIOUS
  <1>3. ASSUME NEW i \in 1 .. n, i - 1 \in K PROVE i \in K
    <2> SUFFICES ASSUME i >= p PROVE Kept(i)
      OBVIOUS
    <2>1. PICK m \in Nat : m = Len(g[i - 1]) /\ Len(g[i]) \in Nat
      BY <1>1
    <2>2. PlacedAs(g[i], g[i - 1], m, s[i], c[i])
      BY <2>1 DEF ChainTo
    <2>3. CASE i = p
      <3>1. Extends(g[i - 1], m, s[i]) /\ m = b
        BY <2>1, <2>3 DEF Opening
      <3>2. Len(g[i]) = b + 1 /\ \A k \in 1 .. b : g[i][k] = g[i - 1][k]
        BY <2>2, <3>1 DEF PlacedAs
      <3>3. QED
        BY <2>3, <3>2
    <2>4. CASE i > p
      <3>1. m > b /\ \A k \in 1 .. b : g[i - 1][k] = g[p - 1][k]
        BY <1>3, <2>1, <2>4
      <3>2. Len(g[i]) >= m /\ \A k \in 1 .. m - 1 : g[i][k] = g[i - 1][k]
        <4>1. CASE Extends(g[i - 1], m, s[i])
          <5>1. Len(g[i]) = m + 1 /\ \A k \in 1 .. m : g[i][k] = g[i - 1][k]
            BY <2>2, <4>1 DEF PlacedAs
          <5>2. QED
            BY <5>1
        <4>2. CASE ~Extends(g[i - 1], m, s[i])
          BY <2>2, <4>2 DEF PlacedAs
        <4>3. QED
          BY <4>1, <4>2
      <3>3. Len(g[i]) > b /\ \A k \in 1 .. b : k \in 1 .. m - 1
        <4>1. PICK l \in Nat : l = Len(g[i]) /\ l >= m
          BY <2>1, <3>2
        <4>2. m > b /\ l > b
          BY <3>1, <4>1
        <4>3. \A k \in 1 .. b : k \in 1 .. m - 1
          BY <4>2
        <4>4. QED
          BY <4>1, <4>2, <4>3
      <3>4. \A k \in 1 .. b : g[i][k] = g[p - 1][k]
        BY <3>1, <3>2, <3>3
      <3>5. QED
        BY <3>3, <3>4
    <2>5. QED
      BY <2>3, <2>4
  <1> HIDE DEF K
  <1>4. \A i \in 0 .. n : i \in K
    BY <1>2, <1>3, CountUp
  <1>5. QED
    BY <1>4 DEF K, BeginsAs

(* Two chains over the same events are the same from an event on that opens   *)
(* a block in both, whatever came before.                                     *)
SameBlock(a, b) == a.start = b.start /\ a.events = b.events

AgreeFrom(x, b, v, a) ==
    \E l \in Nat \ {0} : /\ Len(x) = b + l /\ Len(v) = a + l
                         /\ \A k \in 1 .. l : SameBlock(x[b + k], v[a + k])

LEMMA OpenedAlike ==
  ASSUME NEW x, NEW y, NEW v, NEW w, NEW e, NEW c, NEW d, NEW b \in Nat, NEW a \in Nat,
         PlacedAs(y, x, b, e, c), PlacedAs(w, v, a, e, d), Extends(x, b, e), Extends(v, a, e)
  PROVE  AgreeFrom(y, b, w, a)
  <1>1. Len(y) = b + 1 /\ y[b + 1] = [start |-> FloorHour(e.at), certain |-> c,
                                      events |-> IF e.counted THEN Append(<<>>, e.at) ELSE <<>>]
    BY DEF PlacedAs
  <1>2. Len(w) = a + 1 /\ w[a + 1] = [start |-> FloorHour(e.at), certain |-> d,
                                      events |-> IF e.counted THEN Append(<<>>, e.at) ELSE <<>>]
    BY DEF PlacedAs
  <1>3. SameBlock(y[b + 1], w[a + 1])
    BY <1>1, <1>2 DEF SameBlock
  <1>4. \A k \in 1 .. 1 : SameBlock(y[b + k], w[a + k])
    BY <1>3
  <1>5. 1 \in Nat \ {0}
    OBVIOUS
  <1>6. QED
    BY <1>1, <1>2, <1>4, <1>5 DEF AgreeFrom

LEMMA PlacedAlike ==
  ASSUME NEW x, NEW y, NEW v, NEW w, NEW e, NEW c, NEW d, NEW b \in Nat, NEW a \in Nat,
         AgreeFrom(x, b, v, a), PlacedAs(y, x, Len(x), e, c), PlacedAs(w, v, Len(v), e, d)
  PROVE  AgreeFrom(y, b, w, a)
  <1>1. PICK l \in Nat \ {0} : /\ Len(x) = b + l /\ Len(v) = a + l
                               /\ \A k \in 1 .. l : SameBlock(x[b + k], v[a + k])
    BY DEF AgreeFrom
  <1>2. PICK q \in Nat, r \in Nat : q = b + l /\ r = a + l
    OBVIOUS
  <1>3. l \in 1 .. l
    OBVIOUS
  <1>4. SameBlock(x[q], v[r])
    BY <1>1, <1>2, <1>3
  <1>5. Extends(x, q, e) <=> Extends(v, r, e)
    BY <1>2, <1>4 DEF Extends, SameBlock
  <1>6. PlacedAs(y, x, q, e, c) /\ PlacedAs(w, v, r, e, d)
    BY <1>1, <1>2
  <1>7. CASE Extends(x, q, e)
    <2>1. /\ Len(y) = q + 1 /\ (\A k \in 1 .. q : y[k] = x[k])
          /\ Len(w) = r + 1 /\ (\A k \in 1 .. r : w[k] = v[k])
      BY <1>5, <1>6, <1>7 DEF PlacedAs
    <2>2. AgreeFrom(y, q, w, r)
      BY <1>5, <1>6, <1>7, OpenedAlike
    <2>3. SameBlock(y[q + 1], w[r + 1])
      <3>1. PICK o \in Nat \ {0} : Len(y) = q + o /\ \A k \in 1 .. o : SameBlock(y[q + k], w[r + k])
        BY <2>2 DEF AgreeFrom
      <3>2. 1 \in 1 .. o
        OBVIOUS
      <3>3. QED
        BY <3>1, <3>2
    <2>4. ASSUME NEW k \in 1 .. l + 1 PROVE SameBlock(y[b + k], w[a + k])
      <3>1. CASE k \in 1 .. l
        <4>1. b + k \in 1 .. q /\ a + k \in 1 .. r
          BY <1>2, <3>1
        <4>2. y[b + k] = x[b + k] /\ w[a + k] = v[a + k]
          BY <2>1, <4>1
        <4>3. QED
          BY <1>1, <3>1, <4>2
      <3>2. CASE k = l + 1
        <4>1. b + k = q + 1 /\ a + k = r + 1
          BY <1>2, <3>2
        <4>2. QED
          BY <2>3, <4>1
      <3>3. QED
        BY <3>1, <3>2
    <2>5. l + 1 \in Nat \ {0} /\ Len(y) = b + (l + 1) /\ Len(w) = a + (l + 1)
      BY <1>2, <2>1
    <2>6. QED
      BY <2>4, <2>5 DEF AgreeFrom
  <1>8. CASE ~Extends(x, q, e)
    <2>1. /\ Len(y) = q /\ (\A k \in 1 .. q - 1 : y[k] = x[k])
          /\ y[q] = [start |-> x[q].start, certain |-> x[q].certain,
                     events |-> IF e.counted THEN Append(x[q].events, e.at) ELSE x[q].events]
      BY <1>6, <1>8 DEF PlacedAs
    <2>2. /\ Len(w) = r /\ (\A k \in 1 .. r - 1 : w[k] = v[k])
          /\ w[r] = [start |-> v[r].start, certain |-> v[r].certain,
                     events |-> IF e.counted THEN Append(v[r].events, e.at) ELSE v[r].events]
      BY <1>5, <1>6, <1>8 DEF PlacedAs
    <2>3. SameBlock(y[q], w[r])
      BY <1>4, <2>1, <2>2 DEF SameBlock
    <2>4. ASSUME NEW k \in 1 .. l PROVE SameBlock(y[b + k], w[a + k])
      <3>1. CASE k \in 1 .. l - 1
        <4>1. b + k \in 1 .. q - 1 /\ a + k \in 1 .. r - 1
          BY <1>2, <3>1
        <4>2. y[b + k] = x[b + k] /\ w[a + k] = v[a + k]
          BY <2>1, <2>2, <4>1
        <4>3. QED
          BY <1>1, <2>4, <4>2
      <3>2. CASE k = l
        BY <1>2, <2>3, <3>2
      <3>3. QED
        BY <3>1, <3>2
    <2>5. Len(y) = b + l /\ Len(w) = a + l
      BY <1>2, <2>1, <2>2
    <2>6. QED
      BY <2>4, <2>5 DEF AgreeFrom
  <1>9. QED
    BY <1>7, <1>8

TailOf(s, n, u, m) == \A i \in 1 .. n : s[i] = u[m + i]

LEMMA ChainsAgree ==
  ASSUME NEW s, NEW n \in Nat \ {0}, NEW first \in 1 .. n, NEW c, NEW g, ChainTo(g, s, n, first, c),
         NEW u, NEW N \in Nat \ {0}, NEW d, NEW h, ChainTo(h, u, N, 1, d),
         NEW m \in Nat, N = m + n, TailOf(s, n, u, m),
         NEW p \in first .. n, Opening(g, s, p), Opening(h, u, m + p),
         NEW b \in Nat, b = Len(g[p - 1]), NEW a \in Nat, a = Len(h[m + p - 1])
  PROVE  AgreeFrom(g[n], b, h[N], a)
  <1> DEFINE K == {i \in 0 .. n : i >= p => AgreeFrom(g[i], b, h[m + i], a)}
  <1>1. 0 \in K
    OBVIOUS
  <1>2. ASSUME NEW i \in 1 .. n, i - 1 \in K PROVE i \in K
    <2> SUFFICES ASSUME i >= p PROVE AgreeFrom(g[i], b, h[m + i], a)
      OBVIOUS
    <2>1. PICK j \in 1 .. N : j = m + i /\ j - 1 = m + (i - 1) /\ j - 1 = m + i - 1
      OBVIOUS
    <2>2. PICK x, y, v, w : x = g[i - 1] /\ y = g[i] /\ v = h[j - 1] /\ w = h[j]
      OBVIOUS
    <2>3. PICK e : e = s[i] /\ e = u[j]
      BY <2>1 DEF TailOf
    <2>4. PlacedAs(y, x, Len(x), e, c[i])
      <3>1. i \in first .. n
        OBVIOUS
      <3>2. QED
        BY <2>2, <2>3, <3>1 DEF ChainTo
    <2>5. PlacedAs(w, v, Len(v), e, d[j])
      BY <2>1, <2>2, <2>3 DEF ChainTo
    <2>6. CASE i = p
      <3>1. Len(x) = b /\ Len(v) = a
        BY <2>1, <2>2, <2>6
      <3>2. Extends(x, b, e) /\ Extends(v, a, e)
        BY <2>1, <2>2, <2>3, <2>6, <3>1 DEF Opening
      <3>3. AgreeFrom(y, b, w, a)
        BY <2>4, <2>5, <3>1, <3>2, OpenedAlike
      <3>4. QED
        BY <2>1, <2>2, <3>3
    <2>7. CASE i > p
      <3>1. AgreeFrom(x, b, v, a)
        BY <1>2, <2>1, <2>2, <2>7
      <3>2. AgreeFrom(y, b, w, a)
        BY <2>4, <2>5, <3>1, PlacedAlike
      <3>3. QED
        BY <2>1, <2>2, <3>2
    <2>8. QED
      BY <2>6, <2>7
  <1> HIDE DEF K
  <1>3. \A i \in 0 .. n : i \in K
    BY <1>1, <1>2, CountUp
  <1>4. n \in 0 .. n /\ n >= p /\ n \in K
    BY <1>3
  <1>5. QED
    BY <1>4 DEF K

(* Blocks are marked as the alignment was known when they opened.             *)
SureFrom(c, first, last, v) == \A i \in first .. last : c[i] = v
MarkedAs(bs, v) == \A k \in 1 .. Len(bs) : bs[k].certain = v

LEMMA ChainMarks ==
  ASSUME NEW s, NEW n \in Nat \ {0}, NEW first \in 1 .. n, NEW c, NEW g, ChainTo(g, s, n, first, c),
         NEW last \in 0 .. n, NEW v, SureFrom(c, first, last, v)
  PROVE  MarkedAs(g[last], v)
  <1> DEFINE K == {i \in 0 .. last : \A k \in 1 .. Len(g[i]) : g[i][k].certain = v}
  <1>1. \A i \in 0 .. n : Len(g[i]) \in Nat /\ (i < first => Len(g[i]) = 0)
    <2>1. \A i \in 0 .. n : g[i] \in Chain /\ (i < first => g[i] = <<>>)
      BY DEF ChainTo
    <2>2. \A x \in Chain : Len(x) \in Nat /\ (x = <<>> => Len(x) = 0)
      BY EmptyIs DEF Chain
    <2>3. QED
      BY <2>1, <2>2
  <1>2. 0 \in K
    BY <1>1
  <1>3. ASSUME NEW i \in 1 .. last, i - 1 \in K PROVE i \in K
    <2>1. CASE i < first
      BY <1>1, <2>1
    <2>2. CASE i >= first
      <3>1. PICK m \in Nat : m = Len(g[i - 1])
        BY <1>1
      <3>2. PlacedAs(g[i], g[i - 1], m, s[i], c[i]) /\ c[i] = v
        BY <2>2, <3>1 DEF ChainTo, SureFrom
      <3>3. \A k \in 1 .. m : g[i - 1][k].certain = v
        BY <1>3, <3>1
      <3>4. CASE Extends(g[i - 1], m, s[i])
        <4>1. Len(g[i]) = m + 1 /\ (\A k \in 1 .. m : g[i][k] = g[i - 1][k]) /\ g[i][m + 1].certain = v
          BY <3>2, <3>4 DEF PlacedAs
        <4>2. QED
          BY <3>3, <4>1
      <3>5. CASE ~Extends(g[i - 1], m, s[i])
        <4>1. m > 0 /\ Len(g[i]) = m /\ (\A k \in 1 .. m - 1 : g[i][k] = g[i - 1][k])
              /\ g[i][m].certain = g[i - 1][m].certain
          BY <3>2, <3>5 DEF PlacedAs
        <4>2. QED
          BY <3>3, <4>1
      <3>6. QED
        BY <3>4, <3>5
    <2>3. QED
      BY <2>1, <2>2
  <1> HIDE DEF K
  <1>4. \A i \in 0 .. last : i \in K
    BY <1>2, <1>3, CountUp
  <1>5. last \in K
    BY <1>4
  <1>6. QED
    BY <1>5 DEF K, MarkedAs

LEMMA GapOpens ==
  ASSUME NEW s \in Lists(Placing), NEW n \in Nat \ {0}, n = Len(s), InTime(s),
         NEW first \in 1 .. n, NEW c, NEW g, ChainTo(g, s, n, first, c),
         NEW p \in first .. n, p = first \/ Gap(s, p)
  PROVE  Opening(g, s, p)
  <1>1. CASE p = first
    <2>1. g[p - 1] = <<>> /\ <<>> \in Lists(Nat)
      BY <1>1, EmptySeq DEF ChainTo, Lists
    <2>2. Len(g[p - 1]) = 0
      BY <2>1, EmptyIs
    <2>3. QED
      BY <2>2 DEF Opening, Extends
  <1>2. CASE p # first
    <2>1. \A i \in 1 .. n : s[i] \in Placing
      BY EmptyIs
    <2>2. PICK y \in Nat, t \in Nat : y = s[p - 1].at /\ t = s[p].at /\ t - y >= Duration
      <3>1. p - 1 \in 1 .. n /\ p \in 1 .. n
        BY <1>2
      <3>2. QED
        BY <1>2, <2>1, <3>1 DEF Gap, Placing
    <2>3. BlocksFit(g[p - 1], y)
      <3>1. p - 1 \in first .. n
        BY <1>2
      <3>2. QED
        BY <2>2, <3>1, ChainFits
    <2>4. PICK k \in Nat \ {0} : k = Len(g[p - 1]) /\ g[p - 1][k].start <= y
      BY <2>3 DEF BlocksFit
    <2>5. g[p - 1] \in Chain /\ k \in 1 .. k
      <3>1. p - 1 \in 0 .. n
        OBVIOUS
      <3>2. g[p - 1] \in Chain
        BY <3>1 DEF ChainTo
      <3>3. k \in 1 .. k
        OBVIOUS
      <3>4. QED
        BY <3>2, <3>3
    <2>6. PICK x \in Nat : x = g[p - 1][k].start
      BY <2>4, <2>5, BlockFields
    <2>7. t >= g[p - 1][k].start + Duration
      <3>1. t - y >= Duration /\ x <= y /\ Duration \in Nat
        BY <2>2, <2>4, <2>6, DurationIs
      <3>2. t >= x + Duration
        BY <3>1
      <3>3. QED
        BY <2>6, <3>2
    <2>8. QED
      BY <2>2, <2>4, <2>7 DEF Opening, Extends
  <1>3. QED
    BY <1>1, <1>2

----------------------------------------------------------------------------
(* What a report reads of a history, and where its chain starts.              *)

Bounds == Nat \cup {None}
PartRead(u, N, s, n, m, from) ==
    /\ u \in Lists(Placing) /\ s \in Lists(Placing) /\ N = Len(u) /\ n = Len(s) /\ N = m + n
    /\ InTime(u) /\ InTime(s)
    /\ TailOf(s, n, u, m)
    /\ \A i \in 1 .. m : u[i].at < from

LEMMA ReadIs ==
  ASSUME NEW u \in Lists(Placing), InTime(u), NEW from \in Bounds
  PROVE  \E m, n \in Nat : PartRead(u, Len(u), ReadFrom(u, from), n, m, from)
  <1>1. PICK N \in Nat : N = Len(u)
    BY EmptyIs
  <1>2. \A i \in 1 .. N : u[i] \in Placing /\ u[i].at \in Nat
    <2>1. \A i \in 1 .. N : u[i] \in Placing
      BY <1>1, EmptyIs
    <2>2. QED
      BY <2>1 DEF Placing
  <1>3. from \in Int
    BY DEF Bounds, None
  <1> DEFINE early == {i \in 1 .. N : u[i].at < from}
             late == {i \in 1 .. N : u[i].at >= from}
  <1>4. PICK m \in 0 .. N : early = 1 .. m
    <2>1. CASE late = {}
      <3>1. early = 1 .. N
        BY <1>2, <1>3, <2>1
      <3>2. QED
        BY <3>1
    <2>2. CASE late # {}
      <3>1. late \subseteq Nat
        OBVIOUS
      <3>2. PICK x \in late : \A y \in late : x <= y
        BY <2>2, <3>1, LeastNatural
      <3>3. \A i \in 1 .. N : i >= x => u[x].at <= u[i].at
        BY <1>1 DEF InTime
      <3>4. \A i \in 1 .. N : i \in early <=> i < x
        BY <1>2, <1>3, <3>2, <3>3
      <3>5. early = 1 .. x - 1
        BY <3>4
      <3>6. QED
        BY <3>5
    <2>3. QED
      BY <2>1, <2>2
  <1>5. Cardinality({i \in DOMAIN u : u[i].at < from}) = m
    <2>1. DOMAIN u = 1 .. N
      BY <1>1 DEF Lists
    <2>2. {i \in DOMAIN u : u[i].at < from} = 1 .. m
      BY <1>4, <2>1
    <2>3. Cardinality(1 .. m) = m
      BY FS_Interval
    <2>4. QED
      BY <2>2, <2>3
  <1>6. PICK s : s = ReadFrom(u, from) /\ s = SubSeq(u, m + 1, N)
    BY <1>1, <1>5 DEF ReadFrom
  <1>7. PICK n \in Nat : n = N - m
    OBVIOUS
  <1>8. s \in Lists(Placing) /\ Len(s) = n /\ \A i \in 1 .. n : s[i] = u[m + i]
    <2>1. \A i \in m + 1 .. N : u[i] \in Placing
      BY <1>2
    <2>2. /\ s \in Seq(Placing)
          /\ Len(s) = IF m + 1 <= N THEN N - (m + 1) + 1 ELSE 0
          /\ \A i \in 1 .. N - (m + 1) + 1 : s[i] = u[(m + 1) + i - 1]
      BY <1>6, <2>1, SubSeqProperties
    <2>3. N - (m + 1) + 1 = n /\ \A i \in 1 .. n : (m + 1) + i - 1 = m + i
      BY <1>7
    <2>4. Len(s) = n
      BY <1>7, <2>2
    <2>5. \A i \in 1 .. n : s[i] = u[m + i]
      BY <2>2, <2>3
    <2>6. QED
      BY <2>2, <2>4, <2>5 DEF Lists
  <1>9. InTime(s)
    <2>1. ASSUME NEW i \in 1 .. n, NEW j \in 1 .. n, i <= j PROVE s[i].at <= s[j].at
      <3>1. m + i \in 1 .. N /\ m + j \in 1 .. N /\ m + i <= m + j
        BY <1>7, <2>1
      <3>2. QED
        BY <1>1, <1>8, <3>1 DEF InTime
    <2>2. QED
      BY <1>8, <2>1 DEF InTime
  <1>10. PartRead(u, N, s, n, m, from)
    BY <1>1, <1>4, <1>7, <1>8, <1>9 DEF PartRead, TailOf
  <1>11. QED
    BY <1>1, <1>6, <1>10

StartsAt(s, first, sure, since, from) ==
    \/ first = 1 /\ (sure <=> from = None \/ s[1].at - from >= Duration)
    \/ Gap(s, first) /\ since # None /\ s[first].at <= since /\ sure

LEMMA StartIs ==
  ASSUME NEW s \in Lists(Placing), NEW n \in Nat \ {0}, n = Len(s), NEW since \in Bounds, NEW from \in Bounds
  PROVE  \E first \in 1 .. n, sure \in BOOLEAN :
             /\ ChainStart(s, since, from) = [first |-> first, certain |-> sure]
             /\ StartsAt(s, first, sure, since, from)
  <1> DEFINE breaks == {i \in DOMAIN s : Gap(s, i) /\ since # None /\ s[i].at <= since}
  <1>1. DOMAIN s = 1 .. n
    BY DEF Lists
  <1>2. CASE breaks = {}
    <2>1. ChainStart(s, since, from) = [first |-> 1, certain |-> from = None \/ s[1].at - from >= Duration]
      BY <1>2 DEF ChainStart
    <2>2. PICK sure \in BOOLEAN : sure <=> from = None \/ s[1].at - from >= Duration
      OBVIOUS
    <2>3. ChainStart(s, since, from) = [first |-> 1, certain |-> sure]
      BY <2>1, <2>2
    <2>4. 1 \in 1 .. n
      OBVIOUS
    <2>5. QED
      BY <2>2, <2>3, <2>4 DEF StartsAt
  <1>3. CASE breaks # {}
    <2>1. ChainStart(s, since, from) = [first |-> Max(breaks), certain |-> TRUE]
      BY <1>3 DEF ChainStart
    <2> DEFINE T == {n - i : i \in breaks}
    <2>2. T \subseteq Nat /\ T # {} /\ breaks \subseteq 1 .. n
      BY <1>1, <1>3
    <2>3. PICK x \in T : \A y \in T : x <= y
      BY <2>2, LeastNatural
    <2>4. PICK i \in breaks : x = n - i
      OBVIOUS
    <2>5. \A j \in breaks : i >= j
      <3>1. ASSUME NEW j \in breaks PROVE i >= j
        <4>1. n - j \in T /\ i \in 1 .. n /\ j \in 1 .. n
          BY <2>2
        <4>2. x <= n - j
          BY <2>3, <4>1
        <4>3. QED
          BY <2>4, <4>1, <4>2
      <3>2. QED
        BY <3>1
    <2> HIDE DEF breaks
    <2>6. Max(breaks) \in breaks
      BY <2>5 DEF Max
    <2>7. PICK first : first = Max(breaks) /\ first \in breaks
      BY <2>6
    <2>8. first \in 1 .. n /\ Gap(s, first) /\ since # None /\ s[first].at <= since
      BY <2>2, <2>7 DEF breaks
    <2>9. QED
      BY <2>1, <2>7, <2>8 DEF StartsAt
  <1>4. QED
    BY <1>2, <1>3

LEMMA WholeStart ==
  ASSUME NEW s
  PROVE  ChainStart(s, None, None) = [first |-> 1, certain |-> TRUE]
  <1>1. {i \in DOMAIN s : Gap(s, i) /\ None # None /\ s[i].at <= None} = {}
    OBVIOUS
  <1>2. QED
    BY <1>1 DEF ChainStart

(* A block that is found by its start.                                        *)
KeptIn(b, since) == b.events # <<>> /\ (since # None => b.start + Duration > since)

LEMMA KeptBlocks ==
  ASSUME NEW bs \in Chain, NEW since
  PROVE  /\ \A b \in FromSince(bs, since) : \E k \in 1 .. Len(bs) : b = bs[k] /\ KeptIn(b, since)
         /\ \A k \in 1 .. Len(bs) : KeptIn(bs[k], since) => bs[k] \in FromSince(bs, since)
  <1>1. DOMAIN bs = 1 .. Len(bs)
    BY DEF Chain, Lists
  <1>2. ToSet(bs) = {bs[k] : k \in 1 .. Len(bs)}
    BY <1>1 DEF ToSet
  <1>3. QED
    BY <1>2 DEF FromSince, KeptIn

LEMMA OneWindow ==
  ASSUME NEW x \in Nat, NEW y \in Nat, NEW t \in Nat, NEW d \in Nat,
         x <= t, t < x + d, y <= t, t < y + d
  PROVE  ~(y + d <= x) /\ ~(x + d <= y)
  OBVIOUS

LEMMA FoundOnce ==
  ASSUME NEW bs \in Chain, NEW at, BlocksFit(bs, at), NEW since,
         NEW k \in 1 .. Len(bs), KeptIn(bs[k], since), NEW t \in ToSet(bs[k].events)
  PROVE  BlockOf(t, {d.start : d \in FromSince(bs, since)}) = bs[k].start
  <1>1. PICK n \in Nat \ {0} :
          /\ n = Len(bs)
          /\ \A j \in 1 .. n : /\ OnHour(bs[j].start)
                               /\ \A x \in ToSet(bs[j].events) : bs[j].start <= x /\ x < bs[j].start + Duration
          /\ \A i, j \in 1 .. n : i < j => bs[i].start + Duration <= bs[j].start
    BY DEF BlocksFit
  <1>2. \A j \in 1 .. n : bs[j].start \in Nat /\ ToSet(bs[j].events) \subseteq Nat
    BY <1>1, BlockFields
  <1>3. k \in 1 .. n /\ t \in Nat /\ Duration \in Nat
    BY <1>1, <1>2, DurationIs
  <1>4. PICK x \in Nat : x = bs[k].start /\ OnHour(x) /\ x <= t /\ t < x + Duration
    BY <1>1, <1>2, <1>3
  <1> DEFINE starts == {d.start : d \in FromSince(bs, since)}
             hours == {FloorHour(t) - i * Hour : i \in 0 .. BlockHours - 1}
  <1>5. x \in starts
    BY <1>4, KeptBlocks
  <1>6. x \in hours
    <2>1. PICK i \in 0 .. BlockHours - 1 : FloorHour(t) - i * Hour = x
      BY <1>3, <1>4, HoursReach
    <2>2. QED
      BY <2>1
  <1>7. \A y \in hours : y <= t /\ t < y + Duration
    BY <1>3, HoursBefore
  <1>8. \A y \in starts : \E j \in 1 .. Len(bs) : y = bs[j].start
    BY KeptBlocks
  <1>9. PICK near : near = hours \cap starts
    OBVIOUS
  <1>10. BlockOf(t, starts) = IF near = {} THEN None ELSE Max(near)
    BY <1>9 DEF BlockOf
  <1> HIDE DEF hours, starts
  <1>11. ASSUME NEW y \in hours, y \in starts PROVE y = x
    <2>1. PICK j \in 1 .. n : y = bs[j].start /\ y \in Nat
      BY <1>1, <1>2, <1>8, <1>11
    <2>2. y <= t /\ t < y + Duration
      BY <1>7
    <2>3. (j < k => y + Duration <= x) /\ (k < j => x + Duration <= y)
      BY <1>1, <1>3, <1>4, <2>1
    <2>4. ~(y + Duration <= x) /\ ~(x + Duration <= y)
      BY <1>3, <1>4, <2>1, <2>2, OneWindow
    <2>5. ~(j < k) /\ ~(k < j)
      BY <2>3, <2>4
    <2>6. QED
      BY <1>3, <1>4, <2>1, <2>5
  <1>12. near = {x}
    BY <1>5, <1>6, <1>9, <1>11
  <1>13. Max({x}) = x
    BY DEF Max
  <1>14. BlockOf(t, starts) = x
    BY <1>10, <1>12, <1>13
  <1>15. QED
    BY <1>4, <1>14 DEF starts

LEMMA FoundByStart ==
  ASSUME NEW bs \in Chain, NEW at, BlocksFit(bs, at), NEW since,
         NEW b \in FromSince(bs, since), NEW c \in FromSince(bs, since), NEW t \in ToSet(c.events)
  PROVE  t \in ToSet(b.events) <=> BlockOf(t, {d.start : d \in FromSince(bs, since)}) = b.start
  <1>1. PICK i \in 1 .. Len(bs) : b = bs[i] /\ KeptIn(b, since)
    BY KeptBlocks
  <1>2. PICK k \in 1 .. Len(bs) : c = bs[k] /\ KeptIn(c, since)
    BY KeptBlocks
  <1>3. PICK found : found = BlockOf(t, {d.start : d \in FromSince(bs, since)})
    OBVIOUS
  <1>4. found = c.start
    BY <1>2, <1>3, FoundOnce
  <1>5. t \in ToSet(b.events) => found = b.start
    BY <1>1, <1>3, FoundOnce
  <1>6. ASSUME b.start = c.start PROVE i = k
    <2>1. PICK n \in Nat \ {0} : n = Len(bs) /\ \A p, q \in 1 .. n : p < q => bs[p].start + Duration <= bs[q].start
      BY DEF BlocksFit
    <2>2. bs[i].start \in Nat /\ bs[i].start = bs[k].start /\ Duration \in Nat \ {0}
      BY <1>1, <1>2, <1>6, BlockFields, DurationIs
    <2>3. i \in 1 .. n /\ k \in 1 .. n
      BY <2>1
    <2>4. ~(i < k) /\ ~(k < i)
      BY <2>1, <2>2, <2>3
    <2>5. QED
      BY <2>3, <2>4
  <1>7. QED
    BY <1>1, <1>2, <1>3, <1>4, <1>5, <1>6

----------------------------------------------------------------------------
(* The chain of what was read and that of the whole history.                  *)

PartFits(u, N, s, n, m) ==
    /\ \A i \in 1 .. N : u[i].at \in Nat
    /\ \A i \in 1 .. n : s[i].at \in Nat /\ m + i \in 1 .. N /\ s[i] = u[m + i]

LEMMA PartTimes ==
  ASSUME NEW u, NEW N, NEW s, NEW n \in Nat, NEW m \in Nat, NEW from, PartRead(u, N, s, n, m, from)
  PROVE  PartFits(u, N, s, n, m)
  <1>1. u \in Lists(Placing) /\ s \in Lists(Placing) /\ N = Len(u) /\ n = Len(s) /\ N = m + n
        /\ \A i \in 1 .. n : s[i] = u[m + i]
    BY DEF PartRead, TailOf
  <1>2. (\A i \in 1 .. N : u[i] \in Placing) /\ \A i \in 1 .. n : s[i] \in Placing
    BY <1>1, EmptyIs
  <1>3. \A i \in 1 .. n : m + i \in 1 .. N
    BY <1>1
  <1>4. QED
    BY <1>1, <1>2, <1>3 DEF Placing, PartFits

LEMMA GapInWhole ==
  ASSUME NEW u, NEW N, NEW s, NEW n \in Nat, NEW m \in Nat, NEW from, PartRead(u, N, s, n, m, from),
         NEW p \in 1 .. n, Gap(s, p)
  PROVE  Gap(u, m + p)
  <1>1. p > 1 /\ p - 1 \in 1 .. n /\ s[p].at - s[p - 1].at >= Duration
    BY DEF Gap
  <1>2. s[p] = u[m + p] /\ s[p - 1] = u[m + (p - 1)]
    BY <1>1 DEF PartRead, TailOf
  <1>3. m + (p - 1) = m + p - 1 /\ m + p > 1
    BY <1>1
  <1>4. QED
    BY <1>1, <1>2, <1>3 DEF Gap

LEMMA SureIsGap ==
  ASSUME NEW u, NEW N, NEW s, NEW n \in Nat, NEW m \in Nat, NEW from \in Bounds, PartRead(u, N, s, n, m, from),
         NEW first \in 1 .. n, NEW since, StartsAt(s, first, TRUE, since, from)
  PROVE  m + first = 1 \/ Gap(u, m + first)
  <1>1. CASE Gap(s, first)
    BY <1>1, GapInWhole
  <1>2. CASE first = 1 /\ m = 0
    BY <1>2
  <1>3. CASE first = 1 /\ m # 0 /\ ~Gap(s, first)
    <2>1. m \in 1 .. N /\ u[m].at < from
      BY <1>3 DEF PartRead
    <2>2. u[m].at \in Nat /\ s[1].at \in Nat /\ s[1] = u[m + 1]
      <3>1. PartFits(u, N, s, n, m)
        BY PartTimes
      <3>2. 1 \in 1 .. n
        BY <1>3
      <3>3. QED
        BY <2>1, <3>1, <3>2 DEF PartFits
    <2>3. from # None
      BY <2>1, <2>2 DEF None
    <2>4. from \in Nat /\ s[1].at - from >= Duration
      BY <1>3, <2>3 DEF StartsAt, Bounds
    <2>5. u[m + 1].at - u[m].at >= Duration
      BY <2>1, <2>2, <2>4, DurationIs
    <2>6. m + first = m + 1 /\ m + 1 > 1 /\ m + 1 - 1 = m
      BY <1>3
    <2>7. QED
      BY <2>5, <2>6 DEF Gap
  <1>4. QED
    BY <1>1, <1>2, <1>3 DEF StartsAt

OpensAt(s, first, p) == p = first \/ Gap(s, p)
Synced(g, n, h, N, p, q) ==
    /\ Len(g[p - 1]) \in Nat /\ Len(h[q - 1]) \in Nat
    /\ AgreeFrom(g[n], Len(g[p - 1]), h[N], Len(h[q - 1]))
    /\ BeginsAs(g[n], g[p - 1], Len(g[p - 1])) /\ BeginsAs(h[N], h[q - 1], Len(h[q - 1]))

LEMMA SyncedFrom ==
  ASSUME NEW u, NEW N \in Nat \ {0}, NEW s, NEW n \in Nat \ {0}, NEW m \in Nat, NEW from,
         PartRead(u, N, s, n, m, from),
         NEW first \in 1 .. n, NEW c, NEW g, ChainTo(g, s, n, first, c),
         NEW d, NEW h, ChainTo(h, u, N, 1, d),
         NEW p \in first .. n, OpensAt(s, first, p), OpensAt(u, 1, m + p)
  PROVE  Synced(g, n, h, N, p, m + p)
  <1>1. /\ u \in Lists(Placing) /\ s \in Lists(Placing) /\ N = Len(u) /\ n = Len(s) /\ N = m + n
        /\ InTime(u) /\ InTime(s) /\ TailOf(s, n, u, m)
    BY DEF PartRead
  <1>2. m + p \in 1 .. N /\ 1 \in 1 .. N
    BY <1>1
  <1>3. Opening(g, s, p)
    BY <1>1, GapOpens DEF OpensAt
  <1>4. Opening(h, u, m + p)
    <2>1. PICK q \in 1 .. N : q = m + p
      BY <1>2
    <2>2. q = 1 \/ Gap(u, q)
      BY <2>1 DEF OpensAt
    <2>3. Opening(h, u, q)
      BY <1>1, <1>2, <2>2, GapOpens
    <2>4. QED
      BY <2>1, <2>3
  <1>5. PICK b \in Nat, a \in Nat : b = Len(g[p - 1]) /\ a = Len(h[m + p - 1])
    <2>1. p - 1 \in 0 .. n /\ m + p - 1 \in 0 .. N
      BY <1>2
    <2>2. g[p - 1] \in Chain /\ h[m + p - 1] \in Chain
      BY <2>1 DEF ChainTo
    <2>3. QED
      BY <2>2, EmptyIs DEF Chain
  <1>6. AgreeFrom(g[n], b, h[N], a)
    BY <1>1, <1>3, <1>4, <1>5, ChainsAgree
  <1>7. BeginsAs(g[n], g[p - 1], b)
    <2>1. \A i \in p .. n : BeginsAs(g[i], g[p - 1], b)
      BY <1>3, <1>5, ChainKeeps
    <2>2. QED
      BY <2>1
  <1>8. BeginsAs(h[N], h[m + p - 1], a)
    <2>1. PICK q \in 1 .. N : q = m + p
      BY <1>2
    <2>2. Opening(h, u, q) /\ a = Len(h[q - 1])
      BY <1>4, <1>5, <2>1
    <2>3. \A i \in q .. N : BeginsAs(h[i], h[q - 1], a)
      BY <1>2, <2>2, ChainKeeps
    <2>4. QED
      BY <2>1, <2>3
  <1>9. QED
    BY <1>5, <1>6, <1>7, <1>8 DEF Synced

CertainBy(c, s, n, first, sure) == \A i \in 1 .. n : c[i] = (sure \/ \E k \in first + 1 .. i : Gap(s, k))

LEMMA CertainAreWhole ==
  ASSUME NEW u, NEW N \in Nat \ {0}, NEW s, NEW n \in Nat \ {0}, NEW m \in Nat, NEW from \in Bounds,
         PartRead(u, N, s, n, m, from),
         NEW first \in 1 .. n, NEW sure \in BOOLEAN, NEW since \in Bounds, StartsAt(s, first, sure, since, from),
         NEW c, CertainBy(c, s, n, first, sure),
         NEW g, ChainTo(g, s, n, first, c), NEW d, NEW h, ChainTo(h, u, N, 1, d),
         NEW b \in FromSince(g[n], since), b.certain
  PROVE  \E w \in FromSince(h[N], None) : SameBlock(b, w)
  <1>1. g[n] \in Chain /\ h[N] \in Chain
    BY DEF ChainTo
  <1>2. PICK i \in 1 .. Len(g[n]) : b = g[n][i] /\ KeptIn(b, since)
    BY <1>1, KeptBlocks
  <1> DEFINE T == {j \in first .. n : c[j]}
  <1>3. T # {}
    <2>1. SUFFICES ASSUME T = {} PROVE FALSE
      OBVIOUS
    <2>2. \A j \in first .. n : c[j] = FALSE
      BY <2>1 DEF CertainBy
    <2>3. SureFrom(c, first, n, FALSE) /\ n \in 0 .. n
      BY <2>2 DEF SureFrom
    <2>4. MarkedAs(g[n], FALSE)
      BY <2>3, ChainMarks
    <2>5. QED
      BY <1>2, <2>4 DEF MarkedAs
  <1>4. T \subseteq Nat
    OBVIOUS
  <1>5. PICK p \in T : \A j \in T : p <= j
    BY <1>3, <1>4, LeastNatural
  <1>6. p \in first .. n /\ c[p]
    OBVIOUS
  <1>7. (p = first \/ Gap(s, p)) /\ (m + p = 1 \/ Gap(u, m + p))
    <2>1. CASE sure
      <3>1. first \in T
        <4>1. first \in 1 .. n /\ first \in first .. n
          OBVIOUS
        <4>2. c[first]
          BY <2>1, <4>1 DEF CertainBy
        <4>3. QED
          BY <4>1, <4>2
      <3>2. p = first
        BY <1>5, <1>6, <3>1
      <3>3. StartsAt(s, first, TRUE, since, from)
        BY <2>1 DEF StartsAt
      <3>4. QED
        BY <3>2, <3>3, SureIsGap
    <2>2. CASE ~sure
      <3>1. PICK k \in first + 1 .. p : Gap(s, k)
        <4>1. p \in 1 .. n
          BY <1>6
        <4>2. QED
          BY <1>6, <2>2, <4>1 DEF CertainBy
      <3>2. k \in T
        <4>1. k \in 1 .. n /\ k \in first .. n /\ k \in first + 1 .. k
          BY <1>6
        <4>2. c[k]
          BY <3>1, <4>1 DEF CertainBy
        <4>3. QED
          BY <4>1, <4>2
      <3>3. k = p
        BY <1>5, <1>6, <3>2
      <3>4. Gap(s, p) /\ p \in 1 .. n
        BY <1>6, <3>1, <3>3
      <3>5. QED
        BY <3>4, GapInWhole
    <2>3. QED
      BY <2>1, <2>2
  <1>8. PICK x \in Nat, a \in Nat : /\ x = Len(g[p - 1]) /\ AgreeFrom(g[n], x, h[N], a)
                                    /\ \A k \in 1 .. x : g[n][k] = g[p - 1][k]
    <2>1. p \in first .. n /\ OpensAt(s, first, p) /\ OpensAt(u, 1, m + p)
      BY <1>6, <1>7 DEF OpensAt
    <2>2. Synced(g, n, h, N, p, m + p)
      BY <2>1, SyncedFrom
    <2>3. QED
      BY <2>2 DEF Synced, BeginsAs
  <1>9. \A k \in 1 .. x : g[n][k].certain = FALSE
    <2>1. p - 1 \in 0 .. n
      BY <1>6
    <2>2. \A j \in first .. p - 1 : c[j] = FALSE
      <3>1. ASSUME NEW j \in first .. p - 1 PROVE c[j] = FALSE
        <4>1. j \in first .. n /\ ~(p <= j) /\ j \in 1 .. n
          BY <1>6
        <4>2. c[j] \in BOOLEAN /\ j \notin T
          BY <1>5, <4>1 DEF CertainBy
        <4>3. QED
          BY <4>1, <4>2
      <3>2. QED
        BY <3>1
    <2>3. SureFrom(c, first, p - 1, FALSE)
      BY <2>2 DEF SureFrom
    <2>4. MarkedAs(g[p - 1], FALSE)
      BY <2>1, <2>3, ChainMarks
    <2>5. QED
      BY <1>8, <2>4 DEF MarkedAs
  <1>10. ~(i <= x)
    BY <1>2, <1>9
  <1>11. PICK l \in Nat \ {0} : /\ Len(g[n]) = x + l /\ Len(h[N]) = a + l
                                /\ \A k \in 1 .. l : SameBlock(g[n][x + k], h[N][a + k])
    BY <1>8 DEF AgreeFrom
  <1>12. PICK k \in 1 .. l : i = x + k
    <2>1. i - x \in 1 .. l /\ i = x + (i - x)
      BY <1>10, <1>11
    <2>2. QED
      BY <2>1
  <1>13. SameBlock(b, h[N][a + k]) /\ a + k \in 1 .. Len(h[N])
    BY <1>2, <1>11, <1>12
  <1>14. KeptIn(h[N][a + k], None)
    BY <1>2, <1>13 DEF KeptIn, SameBlock
  <1>15. QED
    BY <1>1, <1>13, <1>14, KeptBlocks

EndsAfter(w, since) == since # None => w.start + Duration > since

LEMMA NothingIsLost ==
  ASSUME NEW u, NEW N \in Nat \ {0}, NEW s, NEW n \in Nat \ {0}, NEW m \in Nat, PartRead(u, N, s, n, m, None),
         NEW first \in 1 .. n, NEW sure \in BOOLEAN, NEW since \in Bounds, StartsAt(s, first, sure, since, None),
         NEW c, CertainBy(c, s, n, first, sure),
         NEW g, ChainTo(g, s, n, first, c), NEW d, NEW h, ChainTo(h, u, N, 1, d),
         NEW w \in FromSince(h[N], None), EndsAfter(w, since)
  PROVE  \E b \in FromSince(g[n], since) : SameBlock(b, w) /\ b.certain
  <1>1. g[n] \in Chain /\ h[N] \in Chain
    BY DEF ChainTo
  <1>2. PICK j \in 1 .. Len(h[N]) : w = h[N][j] /\ KeptIn(w, None)
    BY <1>1, KeptBlocks
  <1>3. sure = TRUE
    BY DEF StartsAt
  <1>4. (first = first \/ Gap(s, first)) /\ (m + first = 1 \/ Gap(u, m + first)) /\ first \in first .. n
    <2>1. None \in Bounds /\ StartsAt(s, first, TRUE, since, None)
      BY <1>3 DEF Bounds
    <2>2. m + first = 1 \/ Gap(u, m + first)
      BY <2>1, SureIsGap
    <2>3. QED
      BY <2>2
  <1>5. PICK x \in Nat, a \in Nat : /\ x = Len(g[first - 1]) /\ a = Len(h[m + first - 1])
                                    /\ AgreeFrom(g[n], x, h[N], a)
                                    /\ \A k \in 1 .. a : h[N][k] = h[m + first - 1][k]
    <2>1. OpensAt(s, first, first) /\ OpensAt(u, 1, m + first)
      BY <1>4 DEF OpensAt
    <2>2. Synced(g, n, h, N, first, m + first)
      BY <1>4, <2>1, SyncedFrom
    <2>3. QED
      BY <2>2 DEF Synced, BeginsAs
  <1>6. x = 0
    <2>1. g[first - 1] = <<>> /\ <<>> \in Lists(Nat)
      BY EmptySeq DEF ChainTo, Lists
    <2>2. QED
      BY <1>5, <2>1, EmptyIs
  <1>7. PICK l \in Nat \ {0} : /\ Len(g[n]) = l /\ Len(h[N]) = a + l
                               /\ \A k \in 1 .. l : SameBlock(g[n][k], h[N][a + k])
    BY <1>5, <1>6 DEF AgreeFrom
  <1>8. ~(j <= a)
    <2>1. SUFFICES ASSUME j <= a PROVE FALSE
      OBVIOUS
    <2>2. PICK q \in Nat : q = m + first - 1 /\ q \in 0 .. N
      <3>1. N = m + n /\ first \in 1 .. n
        BY DEF PartRead
      <3>2. m + first - 1 \in 0 .. N
        BY <3>1
      <3>3. QED
        BY <3>2
    <2>3. w = h[q][j] /\ j \in 1 .. a /\ a = Len(h[q])
      BY <1>2, <1>5, <2>1, <2>2
    <2>4. q > 0
      <3>1. CASE q = 0
        <4>1. h[q] = <<>> /\ <<>> \in Lists(Nat)
          BY <3>1, EmptySeq DEF ChainTo, Lists
        <4>2. a = 0
          BY <2>3, <4>1, EmptyIs
        <4>3. QED
          BY <2>3, <4>2
      <3>2. QED
        BY <2>2, <3>1
    <2>5. m = 0
      <3>1. CASE m # 0
        <4>1. m \in 1 .. N /\ u[m].at < None
          BY <3>1 DEF PartRead
        <4>2. u[m].at \in Nat
          BY <4>1, PartTimes DEF PartFits
        <4>3. QED
          BY <4>1, <4>2 DEF None
      <3>2. QED
        BY <3>1
    <2>6. first > 1 /\ q = first - 1
      BY <2>2, <2>4, <2>5
    <2>7. Gap(s, first) /\ since # None /\ s[first].at <= since
      BY <2>6 DEF StartsAt
    <2>8. q \in 1 .. n /\ q \in 1 .. N /\ u[q].at \in Nat /\ s[first].at \in Nat /\ s[q] = u[q]
      <3>1. q \in 1 .. n /\ q \in 1 .. N /\ m + q = q
        BY <2>2, <2>5, <2>6 DEF PartRead
      <3>2. PartFits(u, N, s, n, m)
        BY PartTimes
      <3>3. first \in 1 .. n
        OBVIOUS
      <3>4. QED
        BY <3>1, <3>2, <3>3 DEF PartFits
    <2>9. u[q].at + Duration <= s[first].at
      <3>1. s[first].at - s[first - 1].at >= Duration /\ s[first - 1] = u[q]
        BY <2>6, <2>7, <2>8 DEF Gap
      <3>2. PICK y \in Nat, t \in Nat : y = u[q].at /\ t = s[first].at
        BY <2>8
      <3>3. t - y >= Duration /\ y <= y /\ Duration \in Nat
        BY <3>1, <3>2, DurationIs
      <3>4. y + Duration <= t
        BY <3>3, EndsBefore
      <3>5. QED
        BY <3>2, <3>4
    <2>10. BlocksFit(h[q], u[q].at)
      <3>1. u \in Lists(Placing) /\ N = Len(u) /\ InTime(u) /\ 1 \in 1 .. N
        BY DEF PartRead
      <3>2. QED
        BY <2>8, <3>1, ChainFits
    <2>11. PICK k \in Nat \ {0} : /\ k = Len(h[q]) /\ h[q][k].start <= u[q].at
                                  /\ \A y, z \in 1 .. k : y < z => h[q][y].start + Duration <= h[q][z].start
      BY <2>10 DEF BlocksFit
    <2>12. h[q] \in Chain
      BY <2>2 DEF ChainTo
    <2>13. k = a /\ j \in 1 .. k /\ k \in 1 .. k /\ h[q][j].start \in Nat /\ h[q][k].start \in Nat
      <3>1. k = a /\ j \in 1 .. k /\ k \in 1 .. k
        BY <2>3, <2>11
      <3>2. QED
        BY <2>11, <2>12, <3>1, BlockFields
    <2>14. PICK x1 \in Nat, y1 \in Nat, t1 \in Nat : x1 = w.start /\ y1 = h[q][k].start /\ t1 = u[q].at
      BY <2>3, <2>8, <2>13
    <2>15. w.start + Duration <= since
      <3>1. since \in Nat /\ Duration \in Nat /\ y1 <= t1 /\ t1 + Duration <= since
        <4>1. since \in Nat /\ Duration \in Nat
          BY <2>7, DurationIs DEF Bounds
        <4>2. y1 <= t1
          BY <2>11, <2>14
        <4>3. t1 + Duration <= since
          <5>1. PICK z \in Nat : z = s[first].at
            BY <2>8
          <5>2. t1 + Duration <= z /\ z <= since
            BY <2>7, <2>9, <2>14, <5>1
          <5>3. QED
            BY <4>1, <5>2
        <4>4. QED
          BY <4>1, <4>2, <4>3
      <3>2. x1 <= y1
        <4>1. CASE j = k
          BY <2>3, <2>14, <4>1
        <4>2. CASE j < k
          <5>1. h[q][j].start + Duration <= h[q][k].start
            BY <2>11, <2>13, <4>2
          <5>2. x1 + Duration <= y1
            BY <2>3, <2>14, <5>1
          <5>3. QED
            BY <3>1, <5>2
        <4>3. QED
          BY <2>13, <4>1, <4>2
      <3>3. x1 + Duration <= since
        BY <3>1, <3>2
      <3>4. QED
        BY <2>14, <3>3
    <2>16. w.start + Duration > since
      BY <2>7 DEF EndsAfter
    <2>17. since \in Nat /\ x1 + Duration \in Nat /\ x1 + Duration <= since /\ x1 + Duration > since
      BY <2>7, <2>14, <2>15, <2>16, DurationIs DEF Bounds
    <2>18. QED
      BY <2>17
  <1>9. PICK k \in 1 .. l : j = a + k
    <2>1. j \in 1 .. a + l
      BY <1>2, <1>7
    <2>2. j - a \in 1 .. l /\ j = a + (j - a)
      BY <1>8, <2>1
    <2>3. QED
      BY <2>2
  <1>10. k \in 1 .. Len(g[n]) /\ SameBlock(g[n][k], w)
    BY <1>2, <1>7, <1>9
  <1>11. g[n][k].certain = TRUE
    <2>1. ASSUME NEW i \in first .. n PROVE c[i] = TRUE
      <3>1. i \in 1 .. n
        OBVIOUS
      <3>2. c[i] = (sure \/ \E y \in first + 1 .. i : Gap(s, y))
        BY <3>1 DEF CertainBy
      <3>3. QED
        BY <1>3, <3>2
    <2>2. SureFrom(c, first, n, TRUE) /\ n \in 0 .. n
      <3>1. \A i \in first .. n : c[i] = TRUE
        BY <2>1
      <3>2. n \in 0 .. n
        OBVIOUS
      <3>3. QED
        BY <3>1, <3>2 DEF SureFrom
    <2>3. MarkedAs(g[n], TRUE)
      BY <2>2, ChainMarks
    <2>4. QED
      BY <1>10, <2>3 DEF MarkedAs
  <1>12. KeptIn(g[n][k], since)
    BY <1>2, <1>10 DEF KeptIn, SameBlock, EndsAfter
  <1>13. QED
    BY <1>1, <1>10, <1>11, <1>12, KeptBlocks

CountedSince(e, since) == e.counted /\ e.at >= since

LEMMA EventsStay ==
  ASSUME NEW s \in Lists(Placing), NEW n \in Nat \ {0}, n = Len(s), InTime(s),
         NEW first \in 1 .. n, NEW sure \in BOOLEAN, NEW since \in Bounds, NEW from,
         StartsAt(s, first, sure, since, from),
         NEW c, NEW g, ChainTo(g, s, n, first, c),
         NEW i \in 1 .. n, CountedSince(s[i], since)
  PROVE  \E b \in FromSince(g[n], since) : s[i].at \in ToSet(b.events)
  <1>0. s[i].counted /\ s[i].at >= since
    BY DEF CountedSince
  <1>1. \A j \in 1 .. n : s[j].at \in Nat
    <2>1. \A j \in 1 .. n : s[j] \in Placing
      BY EmptyIs
    <2>2. QED
      BY <2>1 DEF Placing
  <1>2. since \in Int /\ Duration \in Nat \ {0}
    BY DurationIs DEF Bounds, None
  <1>3. i >= first
    <2>1. SUFFICES ASSUME i < first PROVE FALSE
      OBVIOUS
    <2>2. Gap(s, first) /\ s[first].at <= since
      BY <2>1 DEF StartsAt
    <2>3. first - 1 \in 1 .. n /\ i <= first - 1
      BY <2>1
    <2>4. s[i].at <= s[first - 1].at
      BY <2>3 DEF InTime
    <2>5. s[first].at - s[first - 1].at >= Duration
      BY <2>2 DEF Gap
    <2>6. PICK x \in Nat, y \in Nat, t \in Nat : x = s[i].at /\ y = s[first - 1].at /\ t = s[first].at
      BY <1>1, <2>3
    <2>7. x <= y /\ t - y >= Duration /\ Duration \in Nat
      BY <1>2, <2>4, <2>5, <2>6
    <2>8. x + Duration <= t
      BY <2>7, EndsBefore
    <2>9. x >= since /\ t <= since
      BY <1>0, <2>2, <2>6
    <2>10. QED
      BY <1>2, <2>8, <2>9
  <1>4. n \in first .. n /\ i \in first .. n
    BY <1>3
  <1>5. HasTime(g[n], s[i].at)
    BY <1>0, <1>4, ChainHolds
  <1>6. PICK k \in 1 .. Len(g[n]) : s[i].at \in ToSet(g[n][k].events)
    BY <1>5 DEF HasTime
  <1>7. g[n] \in Chain
    BY DEF ChainTo
  <1>8. g[n][k].start \in Nat
    BY <1>7, BlockFields
  <1>9. s[i].at < g[n][k].start + Duration
    <2>1. BlocksFit(g[n], s[n].at)
      BY <1>4, ChainFits
    <2>2. QED
      BY <1>6, <2>1 DEF BlocksFit
  <1>10. g[n][k].events # <<>>
    BY <1>6, ToSetEmpty
  <1>11. KeptIn(g[n][k], since)
    <2>1. PICK x \in Nat, t \in Nat : x = g[n][k].start /\ t = s[i].at
      BY <1>1, <1>8
    <2>2. t < x + Duration /\ t >= since
      BY <1>0, <1>9, <2>1
    <2>3. x + Duration > since
      BY <1>2, <2>2
    <2>4. QED
      BY <1>10, <2>1, <2>3 DEF KeptIn
  <1>12. QED
    BY <1>6, <1>7, <1>11, KeptBlocks

LEMMA WholeChain ==
  ASSUME NEW u \in Lists(Placing), NEW N \in Nat \ {0}, N = Len(u)
  PROVE  \E h, d : ChainTo(h, u, N, 1, d) /\ Chained(u, [first |-> 1, certain |-> TRUE]) = h[N]
  <1>1. 1 \in 1 .. N /\ TRUE \in BOOLEAN
    OBVIOUS
  <1>2. PICK one \in 1 .. N : one = 1
    BY <1>1
  <1>3. PICK yes \in BOOLEAN : yes = TRUE
    OBVIOUS
  <1>4. PICK all : all = [first |-> one, certain |-> yes]
    OBVIOUS
  <1>5. \E h : ChainTo(h, u, N, one, CertainFrom(u, all)) /\ Chained(u, all) = h[N]
    BY <1>4, ChainSteps
  <1>6. QED
    BY <1>2, <1>4, <1>5, <1>3

(* Blocks, for any hour, number of hours a block lasts, history in order of    *)
(* time, `since` and start of what was read: a block that a report does not    *)
(* mark is one of the whole history's; where the whole stream was read, each   *)
(* block that ends after `since` is shown; no counted event from `since` on is *)
(* left out; and a block's start finds it again for its events alone.          *)
THEOREM BlocksAreOfHistory ==
  ASSUME NEW history \in Seq([at : Nat, counted : BOOLEAN]),
         \A i, j \in 1 .. Len(history) : i <= j => history[i].at <= history[j].at,
         NEW since \in Nat \cup {None}, NEW from \in Nat \cup {None}
  PROVE  BlocksOfHistory(history, since, from)
  <1>1. history \in Lists(Placing) /\ InTime(history) /\ since \in Bounds /\ from \in Bounds
    BY DEF Lists, Placing, InTime, Bounds
  <1>2. PICK u, N : u = history /\ N \in Nat /\ N = Len(u) /\ u \in Lists(Placing) /\ InTime(u)
    BY <1>1, EmptyIs
  <1>3. PICK s : s = ReadFrom(history, from)
    OBVIOUS
  <1>4. PICK m \in Nat, n \in Nat : PartRead(u, N, s, n, m, from)
    BY <1>1, <1>2, <1>3, ReadIs
  <1>5. s \in Lists(Placing) /\ n = Len(s) /\ N = m + n /\ InTime(s)
    BY <1>4 DEF PartRead
  <1> DEFINE whole == SourceBlocks(history, None, None)
             blocks == SourceBlocks(s, since, from)
             Certainly == \A b \in blocks : b.certain => \E w \in whole : SameBlock(b, w)
             Wholly == from = None => \A w \in whole : (since # None => w.start + Duration > since) =>
                                                           \E b \in blocks : SameBlock(b, w) /\ b.certain
             Counted == \A i \in DOMAIN s : s[i].counted /\ s[i].at >= since =>
                            \E b \in blocks : s[i].at \in ToSet(b.events)
             Found == \A b, c \in blocks : \A t \in ToSet(c.events) :
                          t \in ToSet(b.events) <=> BlockOf(t, {d.start : d \in blocks}) = b.start
  <1>6. Certainly /\ Wholly /\ Counted /\ Found => BlocksOfHistory(history, since, from)
    BY <1>3 DEF BlocksOfHistory, SameBlock
  <1>7. DOMAIN s = 1 .. n
    BY <1>5 DEF Lists
  <1>8. CASE n = 0
    <2>1. s = <<>>
      BY <1>5, <1>8, EmptyIs
    <2>2. blocks = {}
      BY <2>1 DEF SourceBlocks
    <2>3. from = None => whole = {}
      <3>1. SUFFICES ASSUME from = None PROVE whole = {}
        OBVIOUS
      <3>2. CASE N # 0
        <4>1. m = N /\ 1 \in 1 .. m /\ 1 \in 1 .. N
          BY <1>2, <1>5, <1>8, <3>2
        <4>2. u[1].at < None
          BY <1>4, <3>1, <4>1 DEF PartRead
        <4>3. u[1] \in Placing
          BY <1>2, <4>1, EmptyIs
        <4>4. QED
          BY <4>2, <4>3 DEF None, Placing
      <3>3. CASE N = 0
        <4>1. history = <<>>
          BY <1>2, <3>3, EmptyIs
        <4>2. QED
          BY <4>1 DEF SourceBlocks
      <3>4. QED
        BY <3>2, <3>3
    <2> HIDE DEF whole, blocks
    <2>4. QED
      BY <1>6, <1>7, <1>8, <2>2, <2>3
  <1>9. CASE n # 0
    <2>1. n \in Nat \ {0} /\ N \in Nat \ {0}
      BY <1>2, <1>5, <1>9
    <2>2. s # <<>> /\ u # <<>>
      BY <1>2, <1>5, <2>1, EmptyIs
    <2>3. PICK first \in 1 .. n, sure \in BOOLEAN :
            ChainStart(s, since, from) = [first |-> first, certain |-> sure] /\ StartsAt(s, first, sure, since, from)
      BY <1>1, <1>5, <2>1, StartIs
    <2>4. PICK start : start = [first |-> first, certain |-> sure]
      OBVIOUS
    <2>5. PICK c : c = CertainFrom(s, start) /\ CertainBy(c, s, n, first, sure)
      <3>1. PICK c : c = CertainFrom(s, start)
        OBVIOUS
      <3>2. \A i \in 1 .. n : c[i] = Certain(s, start, i)
        BY <1>5, <3>1 DEF CertainFrom
      <3>3. \A i \in 1 .. n : Certain(s, start, i) = (sure \/ \E k \in first + 1 .. i : Gap(s, k))
        BY <2>4 DEF Certain
      <3>4. CertainBy(c, s, n, first, sure)
        BY <3>2, <3>3 DEF CertainBy
      <3>5. QED
        BY <3>1, <3>4
    <2>6. PICK g : ChainTo(g, s, n, first, c) /\ Chained(s, start) = g[n]
      <3>1. \E g : ChainTo(g, s, n, first, CertainFrom(s, start)) /\ Chained(s, start) = g[n]
        BY <1>5, <2>1, <2>4, ChainSteps
      <3>2. QED
        BY <2>5, <3>1
    <2>7. blocks = FromSince(g[n], since)
      BY <2>2, <2>3, <2>4, <2>6 DEF SourceBlocks
    <2>8. PICK all : all = [first |-> 1, certain |-> TRUE]
      OBVIOUS
    <2>9. PICK h, d : ChainTo(h, u, N, 1, d) /\ Chained(u, all) = h[N]
      <3>1. u \in Lists(Placing) /\ N = Len(u)
        BY <1>2
      <3>2. QED
        BY <2>1, <2>8, <3>1, WholeChain
    <2>10. whole = FromSince(h[N], None)
      BY <1>2, <2>2, <2>8, <2>9, WholeStart DEF SourceBlocks
    <2> HIDE DEF whole, blocks
    <2>11. Certainly
      <3>1. ASSUME NEW b \in FromSince(g[n], since), b.certain
            PROVE  \E w \in FromSince(h[N], None) : SameBlock(b, w)
        BY <1>1, <1>4, <2>1, <2>3, <2>5, <2>6, <2>9, <3>1, CertainAreWhole
      <3>2. QED
        BY <2>7, <2>10, <3>1
    <2>12. Wholly
      <3>1. ASSUME from = None, NEW w \in FromSince(h[N], None), EndsAfter(w, since)
            PROVE  \E b \in FromSince(g[n], since) : SameBlock(b, w) /\ b.certain
        <4>1. PartRead(u, N, s, n, m, None) /\ StartsAt(s, first, sure, since, None)
          BY <1>4, <2>3, <3>1
        <4>2. QED
          BY <1>1, <2>1, <2>5, <2>6, <2>9, <3>1, <4>1, NothingIsLost
      <3>2. QED
        BY <2>7, <2>10, <3>1 DEF EndsAfter
    <2>13. Counted
      <3>1. ASSUME NEW i \in 1 .. n, s[i].counted, s[i].at >= since
            PROVE  \E b \in FromSince(g[n], since) : s[i].at \in ToSet(b.events)
        <4>1. s \in Lists(Placing) /\ n = Len(s) /\ InTime(s) /\ since \in Bounds
          BY <1>1, <1>5
        <4>2. StartsAt(s, first, sure, since, from) /\ ChainTo(g, s, n, first, c)
          BY <2>3, <2>6
        <4>3. CountedSince(s[i], since)
          BY <3>1 DEF CountedSince
        <4>4. QED
          BY <2>1, <4>1, <4>2, <4>3, EventsStay
      <3>2. QED
        BY <1>7, <2>7, <3>1
    <2>14. Found
      <3>1. g[n] \in Chain /\ n \in first .. n
        BY <2>1, <2>6 DEF ChainTo
      <3>2. BlocksFit(g[n], s[n].at)
        BY <1>5, <2>1, <2>6, <3>1, ChainFits
      <3>3. \A b, e \in FromSince(g[n], since) : \A t \in ToSet(e.events) :
                t \in ToSet(b.events) <=> BlockOf(t, {x.start : x \in FromSince(g[n], since)}) = b.start
        BY <3>1, <3>2, FoundByStart
      <3>4. QED
        BY <2>7, <3>3
    <2>15. QED
      BY <1>6, <2>11, <2>12, <2>13, <2>14
  <1>10. QED
    BY <1>8, <1>9

----------------------------------------------------------------------------
(* Days that stand out, for any costs and charts.                             *)

(* What a day is compared with is in every chart that shows the day.          *)
LEMMA ChartHasBaseline ==
  ASSUME NEW costs, NEW from \in Int, NEW to \in Int, NEW d \in from .. to
  PROVE  d \in ChartSpikes(costs, from, to) <=> d \in Spikes(costs, d, d)
  <1> DEFINE shown == DOMAIN costs \cap (SpikeBaselineStart(from) .. to)
             read == [e \in shown |-> costs[e]]
             Past(c) == [i \in 1 .. SpikeBaselineDays |-> CostOn(c, d - SpikeBaselineDays + i - 1)]
             Paid(c) == SelectSeq(Past(c), LAMBDA x : x > 0)
             Stands(c) == /\ CostOn(c, d) >= SpikeMinCost
                          /\ Len(Paid(c)) >= SpikeMinActiveDays
                          /\ 2 * CostOn(c, d) >= SpikeMinMultiple * TwiceMedian(Paid(c))
  <1>1. SpikeBaselineDays \in Nat
    BY DailyAssumption
  <1>2. ASSUME NEW e \in (d - SpikeBaselineDays) .. d PROVE CostOn(read, e) = CostOn(costs, e)
    <2>1. e \in SpikeBaselineStart(from) .. to
      BY <1>1 DEF SpikeBaselineStart
    <2>2. e \in DOMAIN read <=> e \in DOMAIN costs
      BY <2>1
    <2>3. e \in DOMAIN costs => read[e] = costs[e]
      BY <2>1
    <2> HIDE DEF read
    <2>4. QED
      BY <2>2, <2>3 DEF CostOn
  <1> HIDE DEF read
  <1>3. CostOn(read, d) = CostOn(costs, d)
    BY <1>1, <1>2
  <1>4. Past(read) = Past(costs)
    <2>1. \A i \in 1 .. SpikeBaselineDays : d - SpikeBaselineDays + i - 1 \in (d - SpikeBaselineDays) .. d
      BY <1>1
    <2>2. \A i \in 1 .. SpikeBaselineDays :
             CostOn(read, d - SpikeBaselineDays + i - 1) = CostOn(costs, d - SpikeBaselineDays + i - 1)
      BY <1>2, <2>1
    <2>3. QED
      BY <2>2
  <1>5. Paid(read) = Paid(costs)
    BY <1>4
  <1>6. Stands(read) <=> Stands(costs)
    BY <1>3, <1>5
  <1>7. d \in ChartSpikes(costs, from, to) <=> Stands(read)
    BY DEF ChartSpikes, Spikes, read
  <1>8. d \in Spikes(costs, d, d) <=> Stands(costs)
    BY DEF Spikes
  <1>9. QED
    BY <1>6, <1>7, <1>8

(* Days that stand out, for any costs and days: a chart marks a day whichever  *)
(* other days it shows, since it is read from the baseline's first day on      *)
(* (buildTrendsData, markSpendSpikes).                                         *)
THEOREM SpikesDoStay ==
  ASSUME NEW costs, NEW days, days \subseteq Int
  PROVE  SpikesStay(costs, days)
  <1>1. ASSUME NEW from \in days, NEW to \in days, NEW d \in from .. to
        PROVE  d \in ChartSpikes(costs, from, to) <=> d \in ChartSpikes(costs, d, d)
    <2>1. from \in Int /\ to \in Int /\ d \in Int /\ d \in d .. d
      OBVIOUS
    <2>2. d \in ChartSpikes(costs, from, to) <=> d \in Spikes(costs, d, d)
      BY <2>1, ChartHasBaseline
    <2>3. d \in ChartSpikes(costs, d, d) <=> d \in Spikes(costs, d, d)
      BY <2>1, ChartHasBaseline
    <2>4. QED
      BY <2>2, <2>3
  <1>2. QED
    BY <1>1 DEF SpikesStay
=============================================================================
