------------------------------ MODULE ModelMatch ------------------------------
(***************************************************************************)
(* Which pricing key a model name resolves to (litellm-model-matching.ts,  *)
(* pricing-table.ts, pricing-override-source.ts).  A name is its provider, *)
(* the model, and the segments after it; the rules are tried in order, and *)
(* the first that finds a key wins.                                        *)
(***************************************************************************)
EXTENDS Integers, Sequences, SequencesExt, FiniteSets

CONSTANTS
    NoProvider, Dotted,   \* no provider, and one joined by a dot
    FirstParty, Clouds,   \* the providers that publish prices, and the clouds that resell
    EffortSegments,       \* reasoning-effort labels
    ReleaseSegments,      \* what else leaves the priced model unchanged: dates, -latest, :n
    Alias,                \* the model map: an alias's canonical name
    Preferred,            \* the model map: a canonical name's preferred key
    NeverFuzzy,           \* the model map: names that, spelled like this, are never guessed at
    Letters(_),           \* canonicalizeForFuzzy: a name's letters and digits
    Distance(_, _)        \* edit distance of a stripped name and a key by those, or Far

Far == 99
NoKey == [provider |-> NoProvider, model |-> "none", suffix |-> <<>>]

\* stripProviderPrefix: up to the last slash; a dotted provider stays.
Strip(n) == IF n.provider = Dotted THEN n ELSE [n EXCEPT !.provider = NoProvider]
Forms(n) == <<n, Strip(n)>>

FirstKey(keys) ==
    LET found == {i \in DOMAIN keys : keys[i] # NoKey} IN
    IF found = {} THEN NoKey ELSE keys[CHOOSE i \in found : \A j \in found : i <= j]

\* resolveDirectModelMatch
Direct(n, table) ==
    IF n \in DOMAIN table THEN n ELSE IF Strip(n) \in DOMAIN table THEN Strip(n) ELSE NoKey

\* resolveEffortSuffixMatch
EffortSuffix(n, table) ==
    IF n.suffix # <<>> /\ Last(n.suffix) \in EffortSegments
    THEN Direct([n EXCEPT !.suffix = Front(@)], table) ELSE NoKey

\* getProviderPrefixedKeyRank
Rank(key) == IF key.provider \in FirstParty THEN 0
             ELSE IF key.provider \in Clouds \cup {Dotted} THEN 1 ELSE 2

\* The comparator: own provider, most rates, shortest, and then the code points.
Better(table, order, k, l) ==
    \/ Rank(k) < Rank(l)
    \/ Rank(k) = Rank(l) /\ table[k].rates > table[l].rates
    \/ Rank(k) = Rank(l) /\ table[k].rates = table[l].rates /\ table[k].spelled < table[l].spelled

\* resolveProviderPrefixedModelMatch: keys that are the name under some provider.
ProviderPrefixed(n, table, order) ==
    LET under(c) == {k \in DOMAIN table : c.provider = NoProvider /\ k.provider # NoProvider
                                          /\ k.model = c.model /\ k.suffix = c.suffix}
        best(c) == IF under(c) = {} THEN NoKey
                   ELSE CHOOSE k \in under(c) : \A l \in under(c) \ {k} : Better(table, order, k, l)
    IN FirstKey([i \in 1 .. 2 |-> best(Forms(n)[i])])

\* isPrefixModelMatch, isReleaseSuffix
ReleaseOf(c, k) ==
    /\ k.provider = c.provider /\ k.model = c.model /\ IsPrefix(k.suffix, c.suffix)
    /\ \A i \in Len(k.suffix) + 1 .. Len(c.suffix) :
           c.suffix[i] \in ReleaseSegments \cup EffortSegments

\* resolvePrefixModelMatch: the longest such key.
ReleaseSuffix(n, table) ==
    LET keys(c) == {k \in DOMAIN table : ReleaseOf(c, k)}
        best(c) == IF keys(c) = {} THEN NoKey
                   ELSE CHOOSE k \in keys(c) : \A l \in keys(c) : Len(l.suffix) <= Len(k.suffix)
    IN FirstKey([i \in 1 .. 2 |-> best(Forms(n)[i])])

\* A mutant: a provider's prefix lifts the ban.
SkipsFuzzyAsSpelled(n) == n \in NeverFuzzy

\* shouldSkipFuzzyModelMatch: the whole name, with its provider or without.  A suffix or a
\* dotted provider makes it another name, which is guessed at.
SkipsFuzzy(n) == n \in NeverFuzzy \/ Strip(n) \in NeverFuzzy

\* resolveFuzzyModelMatch: the nearest key, the first of the table's order among equals.
Fuzzy(n, table, order) ==
    LET near == {k \in DOMAIN table : Distance(n, k) < Far} IN
    IF SkipsFuzzy(n) \/ near = {} THEN NoKey
    ELSE CHOOSE k \in near : \A l \in near \ {k} :
             \/ Distance(n, k) < Distance(n, l)
             \/ Distance(n, k) = Distance(n, l) /\ order[k] < order[l]

\* explainKeyMatch: a canonical name skips the effort suffix.
Exact(n, table, order, mapped) ==
    FirstKey(<<Direct(n, table), IF mapped THEN NoKey ELSE EffortSuffix(n, table),
               ProviderPrefixed(n, table, order), ReleaseSuffix(n, table)>>)
KeyMatch(n, table, order, mapped) ==
    FirstKey(<<Exact(n, table, order, mapped), Fuzzy(n, table, order)>>)

\* resolveCanonicalModelName: an alias as it is spelled, without its provider, and then by its
\* letters (aliases that share them share the canonical name).
CanonicalName(n) ==
    LET spelled(c) == IF c \in DOMAIN Alias THEN Alias[c] ELSE NoKey
        alike(c) == {a \in DOMAIN Alias : Letters(a) = Letters(c)}
        lettered(c) == IF alike(c) = {} THEN NoKey ELSE Alias[CHOOSE a \in alike(c) : TRUE]
    IN FirstKey(<<spelled(n), spelled(Strip(n)), lettered(n), lettered(Strip(n))>>)

\* explainMappedModelAlias
Mapped(n, table, order) ==
    LET canonical == CanonicalName(n) IN
    IF canonical = NoKey THEN NoKey
    ELSE IF canonical \in DOMAIN Preferred /\ Preferred[canonical] \in DOMAIN table
    THEN Preferred[canonical]
    ELSE KeyMatch(canonical, table, order, TRUE)

\* resolveCanonicalModelKey; resolveModelAlias keeps a name no rule finds.
Resolve(n, table, order) ==
    FirstKey(<<Mapped(n, table, order), KeyMatch(n, table, order, FALSE)>>)

(***************************************************************************)
(* A key that is no guess is a key of the same model: it drops no segment  *)
(* but release and effort labels, keeps the provider or leaves it to the   *)
(* table, and is the same whatever order the price file lists its keys in. *)
(* A name that is no alias is otherwise resolved to a nearest key, and one *)
(* the model map bans from guessing, under a provider too, to none.        *)
(***************************************************************************)
MatchKeepsModel(n, table, orders) ==
    \A order \in orders :
        LET key == Exact(n, table, order, FALSE)
            guess == Resolve(n, table, order)
        IN /\ \A other \in orders : key = Exact(n, table, other, FALSE)
           /\ key # NoKey =>
                /\ key \in DOMAIN table /\ key.model = n.model /\ IsPrefix(key.suffix, n.suffix)
                /\ \A i \in Len(key.suffix) + 1 .. Len(n.suffix) :
                       n.suffix[i] \in ReleaseSegments \cup EffortSegments
                /\ key.provider \notin {n.provider, NoProvider} =>
                       \A k \in DOMAIN table :
                           k.model = n.model /\ k.suffix = n.suffix => Rank(key) <= Rank(k)
           /\ guess # NoKey /\ CanonicalName(n) = NoKey =>
                \/ guess = key
                \/ /\ n \notin NeverFuzzy /\ Strip(n) \notin NeverFuzzy
                   /\ \A k \in DOMAIN table : Distance(n, guess) <= Distance(n, k)
=============================================================================
