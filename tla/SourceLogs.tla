------------------------------ MODULE SourceLogs ------------------------------
(***************************************************************************)
(* What one request costs in tokens, out of the logs of the tools that     *)
(* write a count per request: each counts cached input and thoughts in a   *)
(* bucket of its own or inside another, and some log a request more than   *)
(* once.  A request is its fresh input, the input read from a cache and    *)
(* written to one, the visible output and the thoughts.                    *)
(***************************************************************************)
EXTENDS Integers, Sequences, FiniteSets, SequencesExt

Absent == -1
NoId == 0
NoSpan == <<>>
Counted(input, output, reasoning, read, write) ==
    [input |-> input, output |-> output, reasoning |-> reasoning, cacheRead |-> read, cacheWrite |-> write]
\* The contract of UsageEvent: thoughts are in output, cached input is not in input.
AsBilled(r) == Counted(r.input, r.output + r.thoughts, r.thoughts, r.cached, r.written)
Billable(b) == b.input + b.output + b.cacheRead + b.cacheWrite

----------------------------------------------------------------------------
(* How the tools log a request (external: the tools, as the adapters read  *)
(* them).  A total of 0 is not stated.                                     *)

PromptOf(r) == r.input + r.cached
TokensOf(r) == PromptOf(r) + r.written + r.output + r.thoughts
GeminiLogs(r) == {[input |-> PromptOf(r) - tool, cached |-> r.cached, output |-> r.output, thoughts |-> r.thoughts,
                   tool |-> tool] : tool \in 0 .. r.input}
QwenLogs(r) ==
    LET log(out, total, gemini) == [prompt |-> PromptOf(r), cached |-> r.cached, candidates |-> out,
                                    thoughts |-> r.thoughts, total |-> total, gemini |-> gemini]
    IN {log(r.output, TokensOf(r), g) : g \in BOOLEAN} \cup {log(r.output + r.thoughts, TokensOf(r), g) : g \in BOOLEAN}
       \cup {log(r.output, 0, TRUE), log(r.output + r.thoughts, 0, FALSE)}
OpenCodeLog(r, out, total, v2) == [input |-> r.input, output |-> out, reasoning |-> r.thoughts, read |-> r.cached,
                                   write |-> r.written, total |-> total, v2 |-> v2]
OpenCodeLogs(r) ==
    {OpenCodeLog(r, r.output + r.thoughts, 0, FALSE), OpenCodeLog(r, r.output + r.thoughts, TokensOf(r), FALSE),
     OpenCodeLog(r, r.output, TokensOf(r), FALSE), OpenCodeLog(r, r.output, 0, TRUE)}
OldGeminiLog(r) == OpenCodeLog(r, r.output, 0, FALSE)
GooseLogs(r) ==
    LET log(out, total) == [input |-> PromptOf(r) + r.written, output |-> out, total |-> total]
    IN {log(r.output, TokensOf(r)), log(r.output + r.thoughts, TokensOf(r)), log(r.output + r.thoughts, Absent)}
TaskLog(r, in, inclusive) == [in |-> in, out |-> r.output + r.thoughts, read |-> r.cached, write |-> r.written,
                              inclusive |-> inclusive]
TaskLogs(r) == {TaskLog(r, r.input, FALSE), TaskLog(r, PromptOf(r) + r.written, TRUE)}
OldRooLog(r) == TaskLog(r, r.input, TRUE)
AntigravityLogs(r) == {[input |-> r.input, read |-> r.cached, visible |-> r.output, reasoning |-> r.thoughts,
                        out |-> out] : out \in {Absent, r.output + r.thoughts}}
OpenClawLogs(r) ==
    LET log(named, prompt) == [named |-> named, prompt |-> prompt, output |-> r.output + r.thoughts,
                               reasoning |-> r.thoughts, read |-> r.cached, write |-> r.written]
    IN {log(r.input, Absent), log(Absent, PromptOf(r)), log(r.input, PromptOf(r))}

----------------------------------------------------------------------------
(* How the adapters read them.                                             *)

\* splitPromptIncludingCachedTokens
FreshOf(prompt, cached) == IF prompt > cached THEN prompt - cached ELSE 0
\* extractTokenUsage of the Gemini adapter
ReadGemini(log) ==
    Counted(FreshOf(log.input, log.cached) + log.tool, log.output + log.thoughts, log.thoughts, log.cached, 0)
\* reportsThoughtsOutsideCandidates
ThoughtsOutside(log) ==
    /\ log.thoughts > 0
    /\ IF log.total > 0 THEN log.total >= log.prompt + log.candidates + log.thoughts ELSE log.gemini
\* extractTokenUsage of the Qwen adapter
ReadQwen(log) ==
    Counted(FreshOf(log.prompt, log.cached),
            log.candidates + (IF ThoughtsOutside(log) THEN log.thoughts ELSE 0), log.thoughts, log.cached, 0)
\* createRequestEvent
OutputIncludesReasoning(log) ==
    /\ ~log.v2 /\ log.output >= log.reasoning
    /\ log.total = 0 \/ log.total = log.input + log.output + log.read + log.write
ReadOpenCode(log) ==
    Counted(log.input, log.output + (IF OutputIncludesReasoning(log) THEN 0 ELSE log.reasoning), log.reasoning,
            log.read, log.write)
\* parseGooseRow
ReadGoose(log) ==
    LET reasoning == IF log.total = Absent THEN 0 ELSE FreshOf(log.total, log.input + log.output)
    IN Counted(log.input, log.output + reasoning, reasoning, 0, 0)
\* resolveInputTokens, extractUsage of the Cline family
ReadTask(log) ==
    LET cache == log.read + log.write
    IN Counted(IF log.inclusive /\ log.in >= cache THEN log.in - cache ELSE log.in, log.out, 0, log.read, log.write)
\* readUsage
ReadAntigravity(log) ==
    Counted(log.input, IF log.out # Absent THEN log.out ELSE log.visible + log.reasoning, log.reasoning, log.read, 0)
\* extractUsageFromRecord
ReadOpenClaw(log) ==
    Counted(IF log.named # Absent THEN log.named ELSE FreshOf(log.prompt, log.read), log.output, log.reasoning,
            log.read, log.write)

\* The elements of s at the positions in I.
Picked(s, I) ==
    LET upTo[i \in 0 .. Len(s)] ==
            IF i = 0 THEN <<>> ELSE IF i \in I THEN Append(upTo[i - 1], s[i]) ELSE upTo[i - 1]
    IN upTo[Len(s)]

----------------------------------------------------------------------------
(* Copilot's telemetry: one request in a chat span, in a log record, in    *)
(* the record of its agent turn and in the span of the whole agent.        *)

\* applyClassPriorityGuard: a coarser record is dropped when a finer one has its trace or response.
Finer(kept, c) == \E k \in kept : /\ k.class < c.class
                                  /\ \/ c.trace # NoId /\ k.trace = c.trace
                                     \/ c.response # NoId /\ k.response = c.response
KeptOfClass(records, kept, class) == kept \cup {c \in records : c.class = class /\ ~Finer(kept, c)}
Guarded(lines) ==
    LET kept == FoldLeft(LAMBDA k, class : KeptOfClass(ToSet(lines), k, class), {}, <<1, 2, 3, 4>>)
    IN Picked(lines, {i \in DOMAIN lines : lines[i] \in kept})
\* dedupeCandidates: a span of a trace is counted once; a record of no span stands for its line.
SpanKey(lines, i) == <<IF lines[i].trace # NoId THEN lines[i].trace ELSE lines[i].session,
                       IF lines[i].span # NoSpan THEN <<lines[i].span>> ELSE <<"line", i>>>>
CopilotEvents(lines) ==
    LET kept == Guarded(lines)
    IN [j \in {i \in DOMAIN kept : \A h \in 1 .. i - 1 : SpanKey(kept, h) # SpanKey(kept, i)} |-> kept[j].covers]

----------------------------------------------------------------------------
(* Logs that repeat a message.                                             *)

\* isNewerStatusUpdate of the Kimi adapter: the largest update of a message is kept.
NewerUpdate(next, current) ==
    next.total > current.total \/ (next.total = current.total /\ next.at > current.at)
LargestUpdates(lines) ==
    LET upTo[i \in 0 .. Len(lines)] ==
            IF i = 0 THEN <<>> ELSE
            LET u == lines[i] kept == upTo[i - 1]
            IN IF u.id \notin DOMAIN kept \/ NewerUpdate(u, kept[u.id])
               THEN [k \in DOMAIN kept \cup {u.id} |-> IF k = u.id THEN u ELSE kept[k]] ELSE kept
    IN upTo[Len(lines)]
\* parseLedgerEvents and parseMessageUsage of the Amp adapter: the first of an id counts.
FirstOfIds(records) ==
    Picked(records,
           {i \in DOMAIN records : records[i].id # NoId => \A h \in 1 .. i - 1 : records[h].id # records[i].id})
AssistantsOf(messages) == Picked(messages, {i \in DOMAIN messages : messages[i].assistant})
\* getMessageCacheUsageById; only the assistant's messages state usage.
CacheOf(messages, id) ==
    LET own == {i \in DOMAIN messages : messages[i].assistant /\ messages[i].id = id /\ id # NoId}
    IN IF own = {} THEN 0 ELSE messages[Min(own)].cache
AmpThread(thread) ==
    IF thread.ledger # <<>>
    THEN LET events == FirstOfIds(thread.ledger)
         IN [i \in DOMAIN events |-> [tokens |-> events[i].tokens, cache |-> CacheOf(thread.messages, events[i].to)]]
    ELSE LET messages == FirstOfIds(AssistantsOf(thread.messages))
         IN [i \in DOMAIN messages |-> [tokens |-> messages[i].tokens, cache |-> messages[i].cache]]
\* createStepPartsJoin, readStepRequests: a message of several steps is read by its steps.
RequestsOf(m) == IF Len(m.parts) > 1 THEN m.parts ELSE <<m.last>>
\* createV2Query: a message in both layouts is read by the first.
OnlyIn(v2, v1) == Picked(v2, {i \in DOMAIN v2 : \A j \in DOMAIN v1 : v1[j].id # v2[i].id})
\* queryOpenCodeMessageRows
OpenCodeRequests(db) ==
    LET new == OnlyIn(db.v2, db.v1)
    IN FlattenSeq([i \in DOMAIN db.v1 |-> RequestsOf(db.v1[i])]) \o [i \in DOMAIN new |-> new[i].last]

----------------------------------------------------------------------------
(* What the tools write of a session (external: the tools).                *)

\* A trace: turns of requests, and the classes of records the exporter writes.
Telemetry(trace, turns, classes) ==
    LET all == UNION {ToSet(turns[i]) : i \in DOMAIN turns}
        Line(class, span, response, covers) ==
            [class |-> class, trace |-> trace, session |-> 0, span |-> span, response |-> response, covers |-> covers]
        Turn(i) == FlattenSeq([j \in DOMAIN turns[i] |-> LET q == turns[i][j] IN
                                    <<Line(2, NoSpan, q, {q}), Line(1, <<1, q>>, q, {q})>>])
                   \o <<Line(3, NoSpan, NoId, ToSet(turns[i]))>>
    IN SelectSeq(FlattenSeq([i \in DOMAIN turns |-> Turn(i)]) \o <<Line(4, <<4, trace>>, NoId, all)>>,
                 LAMBDA c : c.class \in classes)
WithoutTraces(lines) == [i \in DOMAIN lines |-> [lines[i] EXCEPT !.trace = IF lines[i].class = 2 THEN NoId ELSE @]]

\* The steps of messages in a database before and after the step to OpenCode 2, and the new ones.
V1Messages(steps) == [i \in DOMAIN steps |-> [id |-> i, last |-> Last(steps[i]), parts |-> steps[i]]]
OpenCodeDb(steps, migrated, new) ==
    LET old == V1Messages(steps)
    IN [v1 |-> old, v2 |-> IF migrated THEN old \o [i \in DOMAIN new |-> [id |-> Len(steps) + i, last |-> new[i], parts |-> <<>>]]
                           ELSE <<>>]
\* A thread's ledger: an event for each message of the assistant, some of them twice.
AmpLedger(messages, again) ==
    LET of == AssistantsOf(messages)
        event == [i \in DOMAIN of |-> [id |-> of[i].id, to |-> of[i].id, tokens |-> of[i].tokens]]
    IN event \o Picked(event, {i \in DOMAIN event : event[i].id \in again})

----------------------------------------------------------------------------
(* What must hold.                                                         *)

\* A request has the same buckets out of every log that tells them; what an old log leaves open
\* is never counted for more than it is.
ReadsAlike(r) ==
    /\ r.written = 0 => /\ \A log \in GeminiLogs(r) : ReadGemini(log) = AsBilled(r)
                        /\ \A log \in QwenLogs(r) : ReadQwen(log) = AsBilled(r)
                        /\ \A log \in AntigravityLogs(r) : ReadAntigravity(log) = AsBilled(r)
    /\ \A log \in OpenCodeLogs(r) : ReadOpenCode(log) = AsBilled(r)
    /\ \A log \in OpenClawLogs(r) : ReadOpenClaw(log) = AsBilled(r)
    /\ \A log \in TaskLogs(r) : ReadTask(log) = [AsBilled(r) EXCEPT !.reasoning = 0]
    /\ \A log \in GooseLogs(r) : LET read == ReadGoose(log) IN
            /\ Billable(read) = TokensOf(r) /\ read.output = r.output + r.thoughts
            /\ read.reasoning \in {0, r.thoughts}
    /\ LET read == ReadOpenCode(OldGeminiLog(r)) IN
            Billable(read) <= TokensOf(r) /\ (r.output < r.thoughts => read = AsBilled(r))
    /\ LET read == ReadTask(OldRooLog(r)) IN
            Billable(read) <= TokensOf(r) /\ (r.input < r.cached + r.written => read.input = r.input)

\* However the records come, each request of a trace is in exactly one event.
TraceOnce(trace) ==
    LET lines == Telemetry(1, trace.turns, trace.classes) \o Telemetry(2, <<<<9>>>>, trace.others)
        logs == IF trace.classes \cup trace.others \subseteq {1, 2} /\ ~trace.logTraces THEN WithoutTraces(lines) ELSE lines
        written == logs \o SelectSeq(logs, LAMBDA c : c.span \in trace.again)
        requests == UNION {ToSet(trace.turns[i]) : i \in DOMAIN trace.turns} \cup {9}
        Once(events) == \A q \in requests : Cardinality({i \in DOMAIN events : q \in events[i]}) = 1
    IN Once(CopilotEvents(written)) /\ Once(CopilotEvents(Reverse(written)))

\* The largest update of a message counts, in whatever order they are written.
UpdatesSettle(lines) ==
    LET kept == LargestUpdates(lines) IN
    /\ kept = LargestUpdates(Reverse(lines))
    /\ \A i \in DOMAIN lines : kept[lines[i].id].total >= lines[i].total

\* A thread counts the same by its ledger as by its messages.
ThreadAlike(messages, again) ==
    LET Tally(events) == {<<e, Cardinality({i \in DOMAIN events : events[i] = e})>> : e \in ToSet(events)}
    IN Tally(AmpThread([messages |-> messages, ledger |-> AmpLedger(messages, again)]))
       = Tally(AmpThread([messages |-> messages, ledger |-> <<>>]))

\* Each step of a message is one request, before and after the database is migrated.
StepsOnce(steps, migrated, new) ==
    OpenCodeRequests(OpenCodeDb(steps, migrated, new))
        = FlattenSeq(steps) \o (IF migrated THEN new ELSE <<>>)
=============================================================================
