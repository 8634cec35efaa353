------------------------------- MODULE CodexLog -------------------------------
(***************************************************************************)
(* What is read of a Codex rollout (sources/codex/codex-source-adapter):   *)
(* running totals, per-response records, and the lines a fork copies from  *)
(* its parent, which must not be counted again.  Codex, which writes the   *)
(* files, is external; the reader folds over the lines.                    *)
(***************************************************************************)
EXTENDS Integers, Sequences, SequencesExt, FiniteSets, FiniteSetsExt

CONSTANTS
    Versions,       \* of Codex: what its logs hold, by name (see Logs)
    TokenCounts,    \* what one response may take
    Prompts,        \* user messages
    MaxTurns,       \* bounds what each rollout gets
    Missing         \* no value

VARIABLES
    log,        \* the lines of each rollout
    version,    \* the Codex that writes it
    total,      \* its running total
    startedAt,  \* the total it started from
    due,        \* the tokens of its own that its lines account for
    turns,      \* what was written to it, copies left out
    settled     \* its last token_count holds the running total
codexVars == <<log, version, total, startedAt, due, turns, settled>>

Rollouts == {"parent", "fork"}
LogsRecords(v) == v = "records"         \* Codex 0.153 and later
LogsTotals(v) == v # "lastOnly"
CopiesUnnamed(v) == v = "spawns"        \* Codex 0.120 to 0.134, spawned subagents

Line(type) == [type |-> type, thread |-> Missing, parent |-> Missing, named |-> FALSE,
               version |-> Missing, response |-> Missing, tokens |-> 0, total |-> Missing,
               info |-> TRUE, text |-> Missing, at |-> 0]
IsUsage(line) == line.type \notin {"user", "assistant"}

----------------------------------------------------------------------------
(* The copied block of a fork.                                             *)

\* getCopySignature
HasSignature(line) == line.type \in {"user", "assistant"} \/ (line.type = "count" /\ line.info)
Signature(line) == <<line.type, line.text, line.total>>
Signatures(lines) == SelectSeq(lines, HasSignature)

\* matchFrom: past the parent's assistant messages that the copy left out.
Matches(signatures, i, line) ==
    {j \in i .. Len(signatures) : /\ Signature(signatures[j]) = Signature(line)
                                  /\ \A k \in i .. j - 1 : /\ signatures[k].type = "assistant"
                                                           /\ Signature(signatures[k]) # Signature(line)}
NextInRun(signatures, i, line) == {j + 1 : j \in Matches(signatures, i, line)}

\* findCopiedPrefixEnd: the position of the last token_count copied from the parent.
TakeCopy(signatures, lines, acc, n) ==
    LET line == lines[n]
        next == IF acc.started THEN UNION {NextInRun(signatures, i, line) : i \in acc.next}
                ELSE {i + 1 : i \in {j \in DOMAIN signatures : Signature(signatures[j]) = Signature(line)}}
    IN IF acc.done \/ ~HasSignature(line) THEN acc
       ELSE [started |-> TRUE, next |-> next, done |-> next = {},
             end |-> IF next # {} /\ IsUsage(line) THEN n ELSE acc.end]
CopiedPrefixEnd(lines, parent) ==
    FoldLeftDomain(LAMBDA acc, n : TakeCopy(Signatures(parent), lines, acc, n),
                   [started |-> FALSE, next |-> {}, done |-> FALSE, end |-> Missing], lines).end

\* readForkHeader, hasOwnClosingEvent, findForkPrefixEnd
NeedsParent(lines) ==
    LET meta == lines[1] IN
    /\ meta.parent # Missing /\ ~LogsRecords(meta.version)
    /\ meta.named \/ CopiesUnnamed(meta.version)
    /\ \A line \in ToSet(lines) : ~(line.type = "settings" /\ line.thread = meta.thread)
PrefixEnd(lines, parent) == IF NeedsParent(lines) THEN CopiedPrefixEnd(lines, parent) ELSE Missing

----------------------------------------------------------------------------
(* The usage state, line by line.                                          *)

NoCountKey == <<>>
StartState == [prefix |-> FALSE, held |-> FALSE, awaits |-> FALSE, previous |-> Missing, lastKey |-> NoCountKey,
               pending |-> <<>>, seen |-> {}, sawMeta |-> FALSE, out |-> <<>>, heldOut |-> <<>>]

\* endForkPrefix: `line` is the rollout's own session_meta.
EndPrefix(st, line) == [st EXCEPT !.prefix = FALSE, !.pending = <<>>, !.lastKey = NoCountKey,
                                  !.awaits = LogsRecords(line.version) /\ st.previous = Missing]

\* takeUsageLine, by the type of the line.
TakeMeta(st, line) ==
    IF st.prefix THEN st
    ELSE [st EXCEPT !.sawMeta = TRUE, !.prefix = ~st.sawMeta /\ line.named]
TakeRecord(st, line) ==
    IF line.tokens = 0 \/ line.response \in st.seen THEN st
    ELSE [st EXCEPT !.pending = Append(@, line.tokens), !.seen = @ \cup {line.response}]
TakeSettings(st, line, meta) ==
    IF st.prefix /\ line.thread = meta.thread THEN EndPrefix(st, meta) ELSE st

\* deriveDeltaFromTotals: [delta, lastOnly]; a delta of zero is none.
Delta(st, line) ==
    IF line.total # Missing /\ st.previous # Missing
    THEN [lastOnly |-> FALSE,
          delta |-> IF line.total >= st.previous THEN line.total - st.previous
                    ELSE IF line.tokens > 0 THEN line.tokens ELSE line.total]
    ELSE [lastOnly |-> TRUE, delta |-> line.tokens]

Emit(st, tokens) == IF st.held THEN [st EXCEPT !.heldOut = @ \o tokens] ELSE [st EXCEPT !.out = @ \o tokens]
\* What a token_count with new usage releases: the records, or else its delta.
ReleaseUsage(st, line, d) ==
    LET key == IF d.lastOnly THEN <<line.at, d.delta>> ELSE NoCountKey
        previous == IF line.total # Missing THEN line.total
                    ELSE IF st.previous # Missing THEN st.previous + d.delta ELSE d.delta
        released == IF st.pending # <<>> THEN st.pending ELSE <<d.delta>>
    IN IF d.lastOnly /\ st.lastKey = key THEN st
       ELSE [Emit(st, released) EXCEPT !.pending = <<>>, !.lastKey = key, !.previous = previous]
TakeCount(st, line) ==
    LET d == Delta([st EXCEPT !.awaits = FALSE], line) IN
    IF ~line.info THEN st
    ELSE IF st.awaits /\ line.total # Missing /\ st.pending = <<>>
         THEN [st EXCEPT !.awaits = FALSE, !.previous = line.total]
    ELSE IF d.delta = 0
         THEN [st EXCEPT !.awaits = FALSE, !.lastKey = IF d.lastOnly THEN @ ELSE NoCountKey,
                         !.previous = IF line.total # Missing THEN line.total ELSE @]
    ELSE ReleaseUsage([st EXCEPT !.awaits = FALSE], line, d)

\* followForkPrefix: the copied block ends at `end`, and its lines are held until then.
FollowPrefix(st, meta, n, end) ==
    LET now == IF st.prefix /\ n = end THEN EndPrefix(st, meta) ELSE st
    IN [now EXCEPT !.held = now.prefix, !.heldOut = IF now.prefix THEN @ ELSE <<>>]

\* readFile, for one line: the first one of an unnamed copy starts the hold as well.
ReadLine(st, lines, n, end) ==
    LET line == lines[n]
        meta == lines[1]
        taken == CASE line.type = "meta"     -> TakeMeta(st, line)
                   [] line.type = "record"   -> TakeRecord(st, line)
                   [] line.type = "settings" -> TakeSettings(st, line, meta)
                   [] line.type = "count"    -> TakeCount(st, line)
                   [] OTHER                  -> st
        copied == IF n = 1 /\ end # Missing THEN [taken EXCEPT !.prefix = TRUE] ELSE taken
    IN IF IsUsage(line) THEN FollowPrefix(copied, meta, n, end) ELSE st

\* What a rollout is read as: what it released, the lines still held, and what is pending.
ReadRollout(lines, parent) ==
    LET end == PrefixEnd(lines, parent)
        st == FoldLeftDomain(LAMBDA acc, n : ReadLine(acc, lines, n, end), StartState, lines)
    IN st.out \o st.heldOut \o st.pending

----------------------------------------------------------------------------
(* Codex, as the reader's comments and tests tell of it.                   *)

Meta(r, v, parent, named) ==
    [Line("meta") EXCEPT !.thread = r, !.version = v, !.parent = parent, !.named = named]
Said(type, text) == [Line(type) EXCEPT !.text = text]
Count(r, n, t) == [Line("count") EXCEPT !.tokens = n, !.at = turns[r],
                                        !.total = IF LogsTotals(version[r]) THEN t ELSE Missing]
Record(r, n) == [Line("record") EXCEPT !.response = <<r, turns[r]>>, !.tokens = n]
Records(r, n) == IF LogsRecords(version[r]) THEN <<Record(r, n)>> ELSE <<>>
Fresh(r) == <<r, turns[r]>>     \* an answer of the model, said once

CodexInit ==
    /\ version \in [Rollouts -> Versions]
    /\ log = [r \in Rollouts |-> IF r = "parent" THEN <<Meta(r, version[r], Missing, FALSE)>> ELSE <<>>]
    /\ total = [r \in Rollouts |-> 0] /\ startedAt = total /\ due = total /\ turns = total
    /\ settled = [r \in Rollouts |-> TRUE]

Write(r, lines) ==
    /\ log[r] # <<>> /\ turns[r] < MaxTurns
    /\ log' = [log EXCEPT ![r] = @ \o lines]
    /\ turns' = [turns EXCEPT ![r] = @ + 1]
    /\ UNCHANGED <<version, startedAt>>

\* A turn: without records, its tokens are told by the total of a later token_count.
Turn(r, prompt, n) ==
    /\ Write(r, <<Said("user", prompt), Said("assistant", Fresh(r))>> \o Records(r, n)
                \o <<Count(r, n, total[r] + n)>>)
    /\ total' = [total EXCEPT ![r] = @ + n]
    /\ due' = [due EXCEPT ![r] = IF LogsRecords(version[r]) \/ ~LogsTotals(version[r])
                                 THEN @ + n ELSE total[r] + n - startedAt[r]]
    /\ settled' = [settled EXCEPT ![r] = TRUE]
\* A turn whose token_count is not written, or without info; not the first of a rollout,
\* as the first count of one is read by its last usage.
UncountedTurn(r, prompt, n, lines) ==
    /\ LogsTotals(version[r]) /\ due[r] > 0
    /\ Write(r, <<Said("user", prompt), Said("assistant", Fresh(r))>> \o Records(r, n) \o lines)
    /\ total' = [total EXCEPT ![r] = @ + n]
    /\ due' = [due EXCEPT ![r] = IF LogsRecords(version[r]) THEN @ + n ELSE @]
    /\ settled' = [settled EXCEPT ![r] = FALSE]
\* A response that no total includes, and the last total told again.
Compaction(r, n) ==
    /\ LogsRecords(version[r]) /\ settled[r]
    /\ Write(r, <<Record(r, n), Count(r, 0, total[r])>>)
    /\ due' = [due EXCEPT ![r] = @ + n]
    /\ UNCHANGED <<total, settled>>
\* The last token_count written again; by a fork that logs records even before a response.
Repeat(r) ==
    LET counts == SelectSeq(log[r], LAMBDA line : line.type = "count") IN
    /\ settled[r]
    /\ \/ counts # <<>> /\ turns[r] > 0 /\ Write(r, <<Last(counts)>>)
       \/ r = "fork" /\ turns[r] = 0 /\ LogsRecords(version[r]) /\ Write(r, <<Count(r, 0, total[r])>>)
    /\ UNCHANGED <<total, due, settled>>

\* A fork: it copies a run of its parent's lines, and goes on from the parent's total.
\* A spawned subagent may copy without naming its parent, and leaves answers out.
CopiedLines(first, last, answers) ==
    SelectSeq(SubSeq(log["parent"], first, last), LAMBDA line : answers \/ line.type # "assistant")
Fork(first, last, named, answers) ==
    /\ log["fork"] = <<>> /\ settled["parent"]
    /\ LogsTotals(version["fork"]) /\ LogsTotals(version["parent"])
    /\ LogsRecords(version["parent"]) => LogsRecords(version["fork"])
    /\ ~named => CopiesUnnamed(version["fork"])
    /\ last < Len(log["parent"]) => log["parent"][last + 1].type = "user"
    /\ named => first = 1
    /\ log' = [log EXCEPT !["fork"] =
                 <<Meta("fork", version["fork"], "parent", named)>> \o CopiedLines(first, last, answers)
                 \o (IF LogsRecords(version["fork"])
                     THEN <<[Line("settings") EXCEPT !.thread = "fork"]>> ELSE <<>>)]
    /\ LET counts == SelectSeq(SubSeq(log["parent"], 1, last), LAMBDA line : line.type = "count" /\ line.info)
           start == IF counts = <<>> THEN 0 ELSE Last(counts).total
       IN total' = [total EXCEPT !["fork"] = start] /\ startedAt' = [startedAt EXCEPT !["fork"] = start]
    /\ UNCHANGED <<version, due, turns, settled>>

CodexNext ==
    \/ \E r \in Rollouts, n \in TokenCounts, prompt \in Prompts :
          \/ Turn(r, prompt, n)
          \/ UncountedTurn(r, prompt, n, <<>>)
          \/ UncountedTurn(r, prompt, n, <<[Count(r, n, total[r]) EXCEPT !.info = FALSE]>>)
    \/ \E r \in Rollouts, n \in TokenCounts : Compaction(r, n)
    \/ \E r \in Rollouts : Repeat(r)
    \/ \E first, last \in DOMAIN log["parent"], named, answers \in BOOLEAN : Fork(first, last, named, answers)
CodexSpec == CodexInit /\ [][CodexNext]_codexVars

Spent(tokens) == FoldLeft(LAMBDA a, n : a + n, 0, tokens)

(***************************************************************************)
(* Wherever a rollout is read, it counts the tokens of its own responses   *)
(* that its lines account for, each once: none that a fork copied, none    *)
(* that a token_count repeats, and none that no total includes.            *)
(***************************************************************************)
CountsOwnResponses ==
    \A r \in Rollouts : log[r] # <<>> => Spent(ReadRollout(log[r], log["parent"])) = due[r]
=============================================================================
