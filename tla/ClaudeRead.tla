------------------------------ MODULE ClaudeRead ------------------------------
(***************************************************************************)
(* The resumable read of a Claude transcript (sources/claude, stream/      *)
(* cursor.ts): usage, of which the last row of a key wins and which is     *)
(* sorted; tool calls, which wait for their results; rows that wait for a  *)
(* timestamp; titles.  A read goes on from the state its cursor keeps of   *)
(* the rows before, and starts over when it meets a row that state cannot  *)
(* place.  The cursor covers whole rows here (JsonlRead).                  *)
(***************************************************************************)
EXTENDS Integers, Sequences, SequencesExt, FiniteSets, FiniteSetsExt

CONSTANTS
    HashOf(_),  \* the 32 bits that a cursor keeps of an id
    Unknown,    \* no timestamp, title, key or state
    Invalid     \* a usage that no event can be made of

\* A set of ids of which those before the cursor are kept as hashes (ResumableIdSet).
IdSet(hashes) == [ids |-> {}, hashes |-> hashes]
HasId(set, id) == id \in set.ids
Clashes(set, id) == id \notin set.ids /\ HashOf(id) \in set.hashes
AddId(set, id) == [set EXCEPT !.ids = @ \cup {id}]
Hashed(set) == set.hashes \cup {HashOf(id) : id \in set.ids}

StartPairing == [pending |-> <<>>, seen |-> IdSet({})]
StartUsage == [events |-> <<>>, sequence |-> 0, lastKey |-> Unknown, settled |-> {}, settledLast |-> Unknown]
NoEvents == [usage |-> <<>>, tool |-> <<>>, message |-> <<>>, title |-> <<>>]
\* What a pass keeps of the rows it took, and what it yielded.
StartPass == [usage |-> StartUsage, lastAt |-> Unknown, held |-> <<>>, pairing |-> StartPairing,
              uuids |-> IdSet({}), title |-> Unknown, customTitle |-> FALSE,
              out |-> NoEvents, skipped |-> 0, conflict |-> FALSE]

Yield(st, kind, event) == [st EXCEPT !.out[kind] = Append(@, event)]
Skip(st) == [st EXCEPT !.skipped = @ + 1]

----------------------------------------------------------------------------
(* Usage rows (ClaudeUsageRows).                                           *)

\* A settled event's key came back: it would replace an event already yielded.
SettledAgain(usage, key) ==
    (\A e \in ToSet(usage.events) : e.key # key) /\ HashOf(key) \in usage.settled

\* Map.set: a later row of a key takes its place.
PutEvent(events, e) == Append(SelectSeq(events, LAMBDA d : d.key # e.key), e)
AddUsage(st, row) ==
    LET n == st.usage.sequence + 1
        e == [key |-> row.id, at |-> row.at, use |-> row.value, sequence |-> n]
    IN IF row.at = Unknown THEN Skip(st)
       ELSE IF SettledAgain(st.usage, row.id) THEN [st EXCEPT !.conflict = TRUE]
       ELSE [st EXCEPT !.usage = [@ EXCEPT !.events = PutEvent(@, e), !.sequence = n, !.lastKey = row.id]]

SortsBefore(d, e) == d.at < e.at \/ (d.at = e.at /\ d.sequence < e.sequence)
\* flush: the events sorted; those from the last row's on stay open.
Flushed(st) ==
    LET usage == st.usage
        sorted == SortSeq(usage.events, SortsBefore)
        last == {i \in DOMAIN sorted : sorted[i].key = usage.lastKey}
        openFrom == IF last = {} THEN Len(sorted) + 1 ELSE CHOOSE i \in last : TRUE
        open == SubSeq(sorted, openFrom, Len(sorted))
        made == SelectSeq(sorted, LAMBDA e : e.use # Invalid)
    IN [out |-> [i \in DOMAIN made |-> <<made[i].key, made[i].at, made[i].use>>],
        skipped |-> Len(sorted) - Len(made),
        conflict |-> usage.settledLast # Unknown /\ sorted # <<>>
                     /\ ~SortsBefore(usage.settledLast, sorted[1]),
        resumable |-> \A e \in ToSet(open) : e.use # Invalid,
        open |-> Len(open),
        state |-> [usage EXCEPT !.events = open,
                     !.settled = @ \cup {HashOf(sorted[i].key) : i \in 1 .. openFrom - 1},
                     !.settledLast = IF openFrom > 1 THEN sorted[openFrom - 1] ELSE @]]

----------------------------------------------------------------------------
(* Session rows (ClaudeSessionEvents), each run once it has a timestamp.   *)

\* ToolCallPairing.start: the first call with an id wins.
StartCall(st, id, at) ==
    LET seen == st.pairing.seen IN
    IF Clashes(seen, id) THEN [st EXCEPT !.conflict = TRUE]
    ELSE IF HasId(seen, id) THEN Skip(st)
    ELSE [st EXCEPT !.pairing = [pending |-> Append(@.pending, [id |-> id, at |-> at]), seen |-> AddId(seen, id)]]
\* ToolCallPairing.finish, createToolCall
FinishCall(st, id, at) ==
    LET calls == {c \in ToSet(st.pairing.pending) : c.id = id} IN
    IF calls # {}
    THEN LET call == CHOOSE c \in calls : TRUE
         IN Yield([st EXCEPT !.pairing.pending = SelectSeq(@, LAMBDA c : c # call)],
                  "tool", [call |-> call, answered |-> at])
    ELSE IF Clashes(st.pairing.seen, id) THEN [st EXCEPT !.conflict = TRUE]
    ELSE IF HasId(st.pairing.seen, id) THEN st
    ELSE Skip(st)
\* SessionMetaTracker.changes: after a custom title no other counts.
StateTitle(st, custom, title, at) ==
    IF ~custom /\ st.customTitle THEN st
    ELSE LET now == [st EXCEPT !.customTitle = @ \/ custom, !.title = title]
         IN IF title = st.title THEN now ELSE Yield(now, "title", <<title, at>>)

RunRow(st, row, at) ==
    CASE row.type = "call"    -> StartCall(st, row.id, at)
      [] row.type = "result"  -> FinishCall(st, row.id, at)
      [] row.type = "custom"  -> StateTitle(st, TRUE, row.value, at)
      [] row.type = "ai"      -> StateTitle(st, FALSE, row.value, at)
      [] row.type = "message" -> Yield(st, "message", <<row.id, row.value, at>>)
\* TimestampCarry.advance
ReleaseHeld(st, at) ==
    FoldLeft(LAMBDA acc, held : RunRow(acc, held, at), [st EXCEPT !.lastAt = at, !.held = <<>>], st.held)
\* A row without a timestamp takes the last one, or is held for the next.
TakeSessionRow(st, row) ==
    IF row.at # Unknown THEN RunRow(ReleaseHeld(st, row.at), row, row.at)
    ELSE IF st.lastAt # Unknown THEN RunRow(st, row, st.lastAt)
    ELSE [st EXCEPT !.held = Append(@, row)]
\* messageAction: one message of a row uuid, the first.
TakeMessage(st, row) ==
    IF Clashes(st.uuids, row.id) THEN [st EXCEPT !.conflict = TRUE]
    ELSE IF HasId(st.uuids, row.id)
         THEN IF row.at = Unknown THEN st ELSE ReleaseHeld(st, row.at)
    ELSE TakeSessionRow([st EXCEPT !.uuids = AddId(@, row.id)], row)
TakeRow(st, row) ==
    CASE row.type = "usage"   -> AddUsage(st, row)
      [] row.type = "message" -> TakeMessage(st, row)
      [] OTHER                -> TakeSessionRow(st, row)

----------------------------------------------------------------------------
(* A read under a cursor (readJsonlFromStatefulCursor).                    *)

\* finishResumableSessionEvents: the calls never answered are yielded, and again by the
\* next read; no state while rows wait for a timestamp.
Finished(st) ==
    LET usage == Flushed(st)
        unanswered == [i \in DOMAIN st.pairing.pending |-> [call |-> st.pairing.pending[i], answered |-> Unknown]]
    IN [conflict |-> st.conflict \/ usage.conflict,
        out |-> [st.out EXCEPT !.usage = usage.out, !.tool = @ \o unanswered],
        skipped |-> st.skipped + usage.skipped + Len(st.held),
        state |-> IF st.held # <<>> \/ ~usage.resumable THEN Unknown
                  ELSE [usage |-> usage.state, lastAt |-> st.lastAt, pending |-> st.pairing.pending,
                        seen |-> Hashed(st.pairing.seen), uuids |-> Hashed(st.uuids),
                        title |-> st.title, customTitle |-> st.customTitle,
                        replaced |-> [usage |-> usage.open, tool |-> Len(unanswered), message |-> 0, title |-> 0]]]
\* restoreState, and the constructor of ClaudeUsageRows
Restored(state) ==
    [StartPass EXCEPT !.usage = state.usage, !.lastAt = state.lastAt, !.title = state.title,
        !.customTitle = state.customTitle, !.uuids = IdSet(state.uuids),
        !.pairing = [pending |-> state.pending,
                     seen |-> [ids |-> {c.id : c \in ToSet(state.pending)}, hashes |-> state.seen]]]

ReadWhole(rows) == Finished(FoldLeft(TakeRow, StartPass, rows))

DropLast(s, n) == SubSeq(s, 1, Len(s) - n)
\* The read to row n after `kept`, the events and state of the read to row kept.n.
ReadOn(kept, rows, n) ==
    LET whole == ReadWhole(SubSeq(rows, 1, n))
        pass == Finished(FoldLeft(TakeRow, Restored(kept.state), SubSeq(rows, kept.n + 1, n)))
        resumes == kept.state # Unknown /\ ~pass.conflict
    IN [n |-> n,
        state |-> IF resumes THEN pass.state ELSE whole.state,
        skipped |-> IF resumes THEN kept.skipped + pass.skipped ELSE whole.skipped,
        out |-> IF resumes
                THEN [k \in DOMAIN NoEvents |-> DropLast(kept.out[k], kept.state.replaced[k]) \o pass.out[k]]
                ELSE whole.out]
\* The reads of a file that grows, each to one of the rows of `cuts`, then to its end.
ReadInSteps(rows, cuts) ==
    FoldLeft(LAMBDA kept, n : ReadOn(kept, rows, n),
             [n |-> 0, state |-> Unknown, skipped |-> 0, out |-> NoEvents],
             SetToSortSeq(cuts \cup {Len(rows)}, <))

(***************************************************************************)
(* Wherever the reads of a growing transcript stop, together they keep the *)
(* events that one read of it yields, kind by kind and in order, and count *)
(* each skipped row once.                                                  *)
(***************************************************************************)
StepsReadTheWhole(rows) ==
    \A cuts \in SUBSET DOMAIN rows :
        LET kept == ReadInSteps(rows, cuts)
            whole == ReadWhole(rows)
        IN kept.out = whole.out /\ kept.skipped = whole.skipped
=============================================================================
