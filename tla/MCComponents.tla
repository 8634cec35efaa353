----------------------------- MODULE MCComponents -----------------------------
(***************************************************************************)
(* The components that share no state, side by side: a behaviour is one of *)
(* one component, its scene, and the others stand still.  A component      *)
(* without state of its own is given samples of its input instead.         *)
(***************************************************************************)
EXTENDS PricingLoad, OtlpPush,
        LocalDays, CodexLog, CostEngine, ModelMatch, MachineMerge, Blocks,
        PiSessions, JsonlRead, ClaudeRead, Projects, ProjectLabels,
        UsageTable, Calendar, EventWindow, DailyActivity, SourceLogs, ChunkedScans, TLC

CONSTANT Scenes

VARIABLES scene, sample
allVars == <<scene, sample, priceVars, pushVars, daysVars, codexVars, piVars, jsonlVars, projectVars>>

UpTo(S, n) == UNION {[1 .. k -> S] : k \in 0 .. n}

----------------------------------------------------------------------------
(* Values of the constants.                                                *)

MCPiModels == <<"m1", "m2">>
MCExports ==
    {[kind |-> k, lines |-> lines] : k \in {"traces", "metrics"}, lines \in UpTo(UpTo({1, 2, 6}, 2), 2)}

Key(p, m, x) == [provider |-> p, model |-> m, suffix |-> x]
MCAlias == Key("none", "k2", <<>>) :> Key("none", "kimi", <<>>)
           @@ Key("azure", "k2", <<>>) :> Key("azure", "opus", <<>>)
           @@ Key("dot", "k2", <<>>) :> Key("none", "kimi", <<>>)
MCPreferred == Key("none", "kimi", <<>>) :> Key("moonshot", "kimi", <<>>)
MCNeverFuzzy == {Key("none", "opuz", <<>>)}
MCLetters(n) == [n EXCEPT !.model = IF @ = "k-2" THEN "k2" ELSE @]
\* A letter apart, and a segment or two when those count for little in a long name.
MCDistance(n, k) ==
    IF n.model # k.model /\ {n.model, k.model} \subseteq {"opus", "opuss", "opuz"}
    THEN 1 + (IF n.suffix = k.suffix THEN 0 ELSE 1) + (IF k.provider = "none" THEN 0 ELSE 1) ELSE Far

----------------------------------------------------------------------------
(* Samples of events and of price entries.                                 *)

Billed == [input : 0 .. 2, output : {0, 1}, reasoning : {0, 1}, cacheRead : {0, 1}, cacheWrite : {0, 1},
           cacheWrite1h : {0, 1}, single : {TRUE}, model : {TRUE}, logged : {NoCost, 0, 3}]
Metered == {e \in Billed : e.cacheWrite1h <= e.cacheWrite}
OtherParts == {e \in Metered : e.logged = NoCost /\ e.input # 1 /\ e.output = e.reasoning
                               /\ e.cacheWrite = e.cacheWrite1h}
RateOf(i, o, r, w) == [input |-> i, output |-> o, cacheRead |-> r, cacheWrite |-> w]
TierOf(i, r) == [b \in TierFields |-> CASE b = "input" -> i [] b = "cacheRead" -> r [] OTHER -> NoRate]
Tiers == {{}} \cup {{[above |-> 1, rate |-> TierOf(i, r)], [above |-> 2, rate |-> TierOf(NoRate, s)]} :
                        i \in {4, 5}, r, s \in {NoRate, 6}}
Entries == [standard : {RateOf(i, 3, r, 1) : i \in {NoRate, 2}, r \in {NoRate, 1}},
            priority : {RateOf(4, 4, 2, 3)}, cacheWrite1h : {NoRate, 2}, reasoning : {NoRate, 7},
            tiers : Tiers]
CostSamples == [event : {e \in Metered : e.logged # NoCost => e.input = 2 /\ e.cacheRead = 0}, entry : Entries]

Keys == {Key("none", "opus", <<>>), Key("openai", "opus", <<>>), Key("azure", "opus", <<>>),
         Key("none", "opus", <<"date">>), Key("dot", "opus", <<>>), Key("moonshot", "kimi", <<>>)}
Names == [provider : {"none", "azure", "dot"}, model : {"opus", "opuss", "opuz", "k2", "k-2"},
          suffix : {<<>>, <<"high">>, <<"date">>, <<"date", "high">>, <<"mini">>}]
SpelledAs == [p \in {"none", "openai", "azure", "dot", "moonshot"} |->
              CASE p = "none" -> 0 [] p = "openai" -> 1 [] p = "azure" -> 2
                [] p = "dot" -> 3 [] p = "moonshot" -> 4]
KeySets(n) == {K \in SUBSET Keys : Cardinality(K) \in 1 .. n}
Tables == UNION {[K -> {3, 4}] : K \in KeySets(2)}
          \cup UNION {{[k \in K |-> IF k = l THEN 4 ELSE 3] : l \in K} : K \in KeySets(3)}
TableOf(rates) == [k \in DOMAIN rates |-> [rates |-> rates[k], spelled |-> SpelledAs[k.provider]]]
Orders(K) == {f \in [K -> 1 .. Cardinality(K)] : \A k, l \in K : f[k] = f[l] => k = l}
MatchSamples == [name : Names, rates : Tables]

Logged(sessions, times, models, usages, ids) ==
    [session : sessions, at : times, model : models, usage : usages, ids : ids]
InOrder(events) == \A i, j \in DOMAIN events : i < j => events[i].session <= events[j].session
FileSamples == UpTo(UpTo(Logged({1, 2}, {1}, {1}, {1, 2}, {0}), 2), 2)
CopySamples ==
    {s \in UpTo(Logged(1 .. 3, {1}, {1}, {1}, 0 .. 2) \cup Logged(1 .. 3, {2}, {1}, {1}, {0}), 4) : InOrder(s)}
Turns(models, n) ==
    UpTo({t \in Logged({1}, {1}, models, {1}, 0 .. 2) : t.model = 2 => t.ids = 0}, n)
MergeSamples == [served : Turns({1, 2}, 2), version : {0, 1},
                 machines : {<<[events |-> a, version |-> 1], [events |-> b, version |-> 2]>> :
                                 a \in Turns({1, 2}, 2), b \in Turns({1}, 1)}]

Histories ==
    {f \in UNION {[T -> BOOLEAN] : T \in {U \in SUBSET (0 .. 8) : Cardinality(U) <= 6}} :
        \A t \in DOMAIN f : f[t] \/ t \in {2, 3, 6, 7}}
HistoryOf(f) == [i \in 1 .. Cardinality(DOMAIN f) |->
                   LET t == CHOOSE u \in DOMAIN f : Cardinality({v \in DOMAIN f : v < u}) = i - 1
                   IN [at |-> t, counted |-> f[t]]]

----------------------------------------------------------------------------
(* Samples of a transcript's rows, and of projects.                        *)

MCHashOf(id) == id % 2
Rows(types, ids, ats) == [type : types, id : ids, at : ats]
UsageRows == Rows({"usage"}, {1, 3}, {0, 1}) \cup Rows({"spoilt"}, {1}, {1}) \cup Rows({"usage"}, {1}, {Unknown})
CallRows == Rows({"call", "result"}, {1, 3}, {1, Unknown})
TitleRows == Rows({"custom", "ai"}, 1 .. 2, {1}) \cup Rows({"custom", "message"}, {1}, {Unknown}) \cup Rows({"message"}, {1, 3}, {1})
Transcripts == UpTo(UsageRows, 4) \cup UpTo(CallRows \cup TitleRows, 3)
\* A session row with a time is stamped as it is written; usage is of the response's time.
Written(rows) ==
    [i \in DOMAIN rows |->
        LET r == rows[i] IN
        [type |-> IF r.type = "spoilt" THEN "usage" ELSE r.type, id |-> r.id,
         at |-> IF r.at = Unknown \/ r.type \in {"usage", "spoilt"} THEN r.at ELSE i,
         value |-> CASE r.type = "spoilt" -> Invalid [] r.type = "usage" -> i [] OTHER -> r.id]]

\* A home with repositories a and b, worktrees a/wt and a-x, and a folder a/src.
MCHome == <<1>>
MCRepoDirs == {<<1, 2>>, <<1, 3>>}
MCGitDirs == MCRepoDirs \cup {<<1, 2, 4>>, <<1, 5>>}
MCWorkDirs == {<<1, 2, 6>>, <<1, 2, 4>>, <<1, 5, 6>>, <<1, 5>>}
MCNamesIn(segment) == IF segment = 5 THEN {2} ELSE {}
MCNameLength(name) == 4
MCReserved == <<0>>
MCHere == <<5>>
SessionSamples == UpTo([session : {1, 2}, at : {1, 2},
                        root : {NoPath, <<1>>, <<1, 2>>, <<1, 2, 4>>, <<1, 3>>}], 3)
MapsIn(S, T) == UNION {[D -> T] : D \in SUBSET S}
PathSamples ==
    [roots : {f \in MapsIn({<<1, 2>>, <<1, 3>>, <<1, 2, 4>>, <<1, 5>>}, {<<1, 2>>, <<1, 3>>}) :
                 \A d \in DOMAIN f : f[d] \in DOMAIN f /\ f[f[d]] = f[d]},
     local : MapsIn({<<1, 2>>, <<1, 3>>}, {1, 2}), remotes : MapsIn({<<7>>, <<7, 4>>}, {1}),
     aliases : MapsIn({<<7>>, <<1, 2>>, <<1, 2, 6>>}, {<<1, 2>>, <<8>>}), below : {<<6>>}]
LabelKeys == [root : {0, 1}, segs : {<<s>> : s \in {<<0>>, <<1>>, <<1, 2>>}} \cup
                                    {<<s, t>> : s \in {<<1>>, <<5>>, <<0, 2>>}, t \in {<<0>>, <<1>>}}]
LabelSamples == UpTo(LabelKeys, 3)

----------------------------------------------------------------------------
(* Samples of what reports are built of.                                   *)

TableEvents ==
    [period : {1}, source : {1}, machine : {0, 1}, project : {1, 2}, model : {0, 1}, tokens : {1}, cost : {NoUsd, 2}]
    \cup [period : {2}, source : {2}, machine : {2}, project : {3}, model : {1}, tokens : {3}, cost : {1}]
Ranked == {<<[period |-> 1, source |-> s, machine |-> 1, project |-> 1, model |-> 1, tokens |-> 2, cost |-> c],
             [period |-> 1, source |-> 1, machine |-> 2, project |-> 2, model |-> 2, tokens |-> t, cost |-> d],
             [period |-> 1, source |-> 1, machine |-> 1, project |-> 3, model |-> 1, tokens |-> 1, cost |-> 1]>> :
               s \in {1, 2}, t \in 1 .. 3, c \in {NoUsd, 1, 2}, d \in {NoUsd, 0, 3}}
TableSamples == UpTo(TableEvents, 2) \cup Ranked
Limits == {[count |-> NoLimit, byCost |-> TRUE], [count |-> 1, byCost |-> TRUE], [count |-> 1, byCost |-> FALSE]}

DateSamples == [date : {Date(2020, 12, d) : d \in 27 .. 31} \cup {Date(2024, 2, d) : d \in {1, 28, 29}}
                       \cup {Date(2024, 1, d) : d \in {1, 31}} \cup {Date(2023, 12, 31), Date(2024, 3, 31)},
                ahead : {0, 13, 40}]

Instants == [at : {3, 5, 8}, offset : {-2, 2}, provider : {1}, model : {<<>>, <<1, 2>>}, author : {1}]
            \cup [at : {2, 4, 7, 10}, offset : {-2, 2}, provider : {1, 2}, model : {<<1>>}, author : {1}]
WindowSamples == [events : UpTo(Instants, 2), models : {{}, {<<1>>}},
                  since : {NoDate, 2}, until : {NoDate, 2}, lookback : {NoDate, 0}]
FilterOf(s) == [providers |-> {1}, models |-> s.models, window |-> [since |-> s.since, until |-> s.until],
                lookback |-> s.lookback]

DailySamples == [sessions : UpTo(UpTo([at : {0, 1, 2, 5}, group : {1, 2}], 2), 2)
                            \cup UpTo(UpTo([at : {0, 1, 3}, group : {1, 2}], 4), 1), costs : {<<>>}]
                \cup [sessions : {<<>>}, costs : MapsIn(1 .. 6, {1, 3})]

PeriodUsage == [period : {1, 2}, usage : {e \in Metered : e.cacheRead = 0 /\ e.input < 2 /\ e.reasoning <= e.output
                                                          /\ (e.logged # NoCost => e.cacheWrite = 0 /\ e.logged = 3)
                                                          /\ (e.logged = NoCost => e.input = e.cacheWrite)},
               bare : {FALSE}]
BareUsage == [period : {1}, usage : {[NoUsage EXCEPT !.logged = c] : c \in {NoCost, 0, 3}}, bare : BOOLEAN]
ModelEntry(w, x, r) == Normalize([standard |-> RateOf(2, 3, 1, w), priority |-> RateOf(4, 4, 2, NoRate),
    cacheWrite1h |-> x, reasoning |-> r, tiers |-> {[above |-> 1, rate |-> TierOf(5, 6)]}])
SavingsSamples == [events : UpTo(PeriodUsage, 2) \cup UpTo(BareUsage, 2), model : {ModelEntry(1, 2, 7), ModelEntry(NoRate, 2, NoRate)}]
Candidates == <<ModelEntry(1, 2, NoRate), Unpriceable, ModelEntry(NoRate, NoRate, 5)>>

----------------------------------------------------------------------------
(* Samples of requests, of telemetry and of logs that repeat messages.     *)

RequestSamples == [input : 0 .. 2, cached : 0 .. 2, written : {0, 1}, output : 0 .. 2, thoughts : 0 .. 2]
Classes == SUBSET (1 .. 4) \ {{}}
TraceSamples == [turns : {<<<<1, 2>>>>, <<<<1>>, <<2, 3>>>>}, classes : Classes, others : Classes,
                 logTraces : BOOLEAN, again : {{}, {<<1, 1>>, <<4, 1>>}}]
RepeatSamples ==
    [updates : UpTo([id : {1, 2}, total : {1, 2}, at : {1, 2}], 3), messages : {<<>>}, again : {{}},
     steps : {<<>>}, migrated : {FALSE}, new : {<<>>}]
    \cup [updates : {<<>>}, messages : UpTo([id : {1, 2}, assistant : BOOLEAN, tokens : {1, 2}, cache : {0, 3}], 2),
          again : SUBSET {1, 2}, steps : {<<>>}, migrated : {FALSE}, new : {<<>>}]
    \cup [updates : {<<>>}, messages : {<<>>}, again : {{}}, migrated : BOOLEAN, new : UpTo({8, 9}, 1),
          steps : {<<>>} \cup UpTo(UpTo({1, 2, 3}, 2) \ {<<>>}, 2)]

----------------------------------------------------------------------------
(* Samples of files that are scanned.                                      *)

ArraySamples == UpTo({"[", "]", ",", "{", "q", "_", "1"}, 3)
                \cup {<<"[">> \o s \o <<"]">> : s \in UpTo({"[", "]", ",", "q", "b", "_", "1"}, 4)}
\* Lines with long strings in values that are used and unused, and those one character off.
Lines == {<<"{", "q", "n", "q", ":", "q", "1", "b", "n", "q", ",", "q", "1", "q", ":", "q", "1", "1", "q", "}">>,
          <<"{", "q", "1", "q", ":", "{", "q", "n", "q", ":", "[", "q", "1", "1", "q", "]", "}", "}">>,
          <<"[", "{", "q", "n", "q", ":", "_", "{", "q", "1", "q", ":", "q", "1", "1", "q", "}", "}", "]">>,
          <<"{", "q", "1", "1", "q", ":", "[", "[", "1", "]", ",", "q", "b", "q", "q", "]", ",",
            "q", "n", "q", ":", "q", "1", "1", "q", "}">>}
OneOff(s) == {s} \cup {[s EXCEPT ![i] = c] : i \in DOMAIN s, c \in {"{", "]", "q", "b", ",", "n", "c", "_"}}
             \cup {RemoveAt(s, i) : i \in DOMAIN s} \cup {InsertAt(s, i, c) : i \in DOMAIN s, c \in {"q", "b", "1", "}"}}
CutSamples == UNION {OneOff(s) : s \in Lines}
UnusedSpec == Spec_(FALSE, (<<"n">> :> Spec_(TRUE, <<>>)) @@ (<<"1">> :> Spec_(FALSE, <<"n">> :> Spec_(TRUE, <<>>))))
Segments == {<<OpenTag, CloseTag>>, <<OpenTag, ModelOpen, <<"x">>, ModelClose, CloseTag>>, <<OpenTag, <<"<">>, CloseTag>>,
             <<OpenTag, ModelOpen, <<"<">>, <<"x">>, CloseTag>>, <<ModelOpen, <<"x">>, <<"y">>, ModelClose>>, <<OpenTag>>,
             <<CloseTag>>, <<ModelOpen, <<"y">>>>}
HistorySamples == {FlattenSeq(s) : s \in UpTo(Segments, 3)}

Samples == [costs |-> CostSamples, models |-> MatchSamples, files |-> FileSamples,
            copies |-> CopySamples, machines |-> MergeSamples, blocks |-> Histories,
            transcripts |-> Transcripts, sessions |-> SessionSamples, paths |-> PathSamples,
            labels |-> LabelSamples, tables |-> TableSamples, dates |-> DateSamples,
            windows |-> WindowSamples, daily |-> DailySamples, savings |-> SavingsSamples,
            requests |-> RequestSamples, telemetry |-> TraceSamples, repeats |-> RepeatSamples,
            arrays |-> ArraySamples, cuts |-> CutSamples, histories |-> HistorySamples,
            frames |-> UpTo({0, 1, 2}, 7)]
NoSample == <<>>

----------------------------------------------------------------------------
\* What stands still stands at one initial state.
ComponentsInit ==
    /\ scene \in Scenes /\ sample = NoSample
    /\ PriceInit /\ (scene # "price" => ahead = 0 /\ priceFile = Unreadable
                           /\ \A l \in Loaders : load[l] = IdleLoad(DefaultUrl, FALSE))
    /\ PushInit /\ (scene # "push" => export.kind = "traces" /\ export.lines = <<>>)
    /\ DaysInit /\ (scene # "days" => zone = [before |-> Min(Offsets), after |-> Min(Offsets), change |-> 0])
    /\ CodexInit /\ (scene # "codex" => \A r \in Rollouts : version[r] = "totals")
    /\ PiInit /\ outside \in {{}, {1}} /\ (scene # "pi" => outside = {})
    /\ JsonlInit
    /\ ProjectsInit

ComponentsNext ==
    \/ /\ scene = "price" /\ PriceNext
       /\ UNCHANGED <<scene, sample, pushVars, daysVars, codexVars, piVars, jsonlVars, projectVars>>
    \/ /\ scene = "push" /\ PushNext
       /\ UNCHANGED <<scene, sample, priceVars, daysVars, codexVars, piVars, jsonlVars, projectVars>>
    \/ /\ scene = "days" /\ DaysNext
       /\ UNCHANGED <<scene, sample, priceVars, pushVars, codexVars, piVars, jsonlVars, projectVars>>
    \/ /\ scene = "codex" /\ CodexNext
       /\ UNCHANGED <<scene, sample, priceVars, pushVars, daysVars, piVars, jsonlVars, projectVars>>
    \/ /\ scene = "pi" /\ PiNext
       /\ UNCHANGED <<scene, sample, priceVars, pushVars, daysVars, codexVars, jsonlVars, projectVars>>
    \/ /\ scene = "jsonl" /\ JsonlNext
       /\ UNCHANGED <<scene, sample, priceVars, pushVars, daysVars, codexVars, piVars, projectVars>>
    \/ /\ scene = "projects" /\ ProjectsNext
       /\ UNCHANGED <<scene, sample, priceVars, pushVars, daysVars, codexVars, piVars, jsonlVars>>
    \/ /\ scene \in DOMAIN Samples /\ sample = NoSample
       /\ sample' \in Samples[scene]
       /\ UNCHANGED <<scene, priceVars, pushVars, daysVars, codexVars, piVars, jsonlVars, projectVars>>
ComponentsSpec == ComponentsInit /\ [][ComponentsNext]_allVars

Sampled(n) == scene = n /\ sample # NoSample

(* Usage is counted once, and as its own: events that several files, copied
   sessions or machines hold (RepeatsCountOnce, CopiesCountOnce,
   MachinesCountOnce), what a session's log tells of (CountsOwnResponses of
   Codex rollouts, AnswersCountOnce of pi sessions), and a request, the same
   whichever tool logged it (ReadsAlike), where a log repeats it (TraceOnce,
   UpdatesSettle, ThreadAlike, StepsOnce), and whether its file is read in
   steps or by chunks (StepsReadTheWhole, ElementsAsParsed, CutsKeepTheRest,
   ModelWhateverChunks, FramesWhateverChunks).                              *)
UsageCountsOnce ==
    /\ Sampled("files") => RepeatsCountOnce(sample)
    /\ Sampled("copies") => CopiesCountOnce(sample)
    /\ Sampled("machines") => MachinesCountOnce(sample.served, sample.version, sample.machines)
    /\ scene = "codex" => CountsOwnResponses
    /\ scene = "pi" => AnswersCountOnce
    /\ Sampled("requests") => ReadsAlike(sample)
    /\ Sampled("telemetry") => TraceOnce(sample)
    /\ Sampled("repeats") => /\ UpdatesSettle(sample.updates)
                             /\ ThreadAlike(sample.messages, sample.again)
                             /\ StepsOnce(sample.steps, sample.migrated, sample.new)
    /\ Sampled("transcripts") => StepsReadTheWhole(Written(sample))
    /\ Sampled("arrays") => ElementsAsParsed(sample)
    /\ Sampled("cuts") => CutsKeepTheRest(sample, UnusedSpec)
    /\ Sampled("histories") => ModelWhateverChunks(sample)
    /\ Sampled("frames") => FramesWhateverChunks(sample)

(* A report adds up to what was read, by the prices, projects and dates it
   names: prices follow the model and the cost modes (CostsAgree,
   MatchKeepsModel), a session has one root and a path one project
   (SessionsKeepRoots, OneProjectEverywhere) under a label of its own
   (LabelsTellApart), blocks are the same read from whenever
   (BlocksOfHistory), windows hold what their dates name (CalendarHolds,
   WindowsAreLocal), figures of a day are its own (DaysStandAlone), no split
   of a table loses an event (TablesAddUp), and savings are of prices alone
   (SavingsAreOfPrices).                                                    *)
ReportsAddUp ==
    /\ Sampled("costs") => CostsAgree(sample.event, sample.entry, OtherParts)
    /\ Sampled("models") => MatchKeepsModel(sample.name, TableOf(sample.rates), Orders(DOMAIN sample.rates))
    /\ Sampled("sessions") => SessionsKeepRoots(sample)
    /\ Sampled("paths") =>
          OneProjectEverywhere(sample.roots, sample.local, sample.remotes, sample.aliases, sample.below)
    /\ Sampled("labels") => LabelsTellApart(ToSet(sample))
    /\ Sampled("blocks") => \A from \in {None, 1, 3, 5}, since \in {None, 4, 6, 8} :
                               BlocksOfHistory(HistoryOf(sample), since, from)
    /\ Sampled("tables") => TablesAddUp(sample, Limits)
    /\ Sampled("dates") => CalendarHolds(sample.date, sample.ahead)
    /\ Sampled("windows") => WindowsAreLocal(sample.events, FilterOf(sample), {2})
    /\ Sampled("daily") => DaysStandAlone(sample.sessions, sample.costs, 6)
    /\ Sampled("savings") => SavingsAreOfPrices(sample.events, sample.model, Candidates)
=============================================================================
