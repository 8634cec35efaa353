-------------------------------- MODULE Blocks --------------------------------
(***************************************************************************)
(* The estimated usage blocks of one source (blocks/aggregate-blocks.ts).  *)
(* An event is a time, in ticks, and whether it is counted or only places  *)
(* blocks; `since` and `from` (the start of the range read) may be None.   *)
(***************************************************************************)
EXTENDS Integers, Sequences, SequencesExt, FiniteSets, FiniteSetsExt

CONSTANTS Hour, BlockHours      \* an hour in ticks, and a block in hours
ASSUME BlockAssumption == Hour \in Nat \ {0} /\ BlockHours \in Nat \ {0}

None == -1
Duration == BlockHours * Hour
FloorHour(t) == (t \div Hour) * Hour
Gap(events, i) == i > 1 /\ events[i].at - events[i - 1].at >= Duration

\* findChainStart: the last event that follows a gap and is not after `since`.
ChainStart(events, since, from) ==
    LET breaks == {i \in DOMAIN events : Gap(events, i) /\ since # None /\ events[i].at <= since}
    IN IF breaks # {} THEN [first |-> Max(breaks), certain |-> TRUE]
       ELSE [first |-> 1, certain |-> from = None \/ events[1].at - from >= Duration]

\* chainSourceBlocks: an event goes to the last block, or opens one when that has ended.
Opens(blocks, e) == blocks = <<>> \/ e.at >= Last(blocks).start + Duration
Placed(blocks, e, certain) ==
    LET open == IF Opens(blocks, e)
                THEN Append(blocks, [start |-> FloorHour(e.at), certain |-> certain, events |-> <<>>])
                ELSE blocks
    IN IF e.counted THEN [open EXCEPT ![Len(open)].events = Append(@, e.at)] ELSE open

\* After a gap the alignment is known, whatever came before the chain.
Certain(events, start, i) == start.certain \/ \E k \in start.first + 1 .. i : Gap(events, k)
Chained(events, start) ==
    LET upTo[i \in 0 .. Len(events)] ==
            IF i < start.first THEN <<>> ELSE Placed(upTo[i - 1], events[i], Certain(events, start, i))
    IN upTo[Len(events)]

\* The blocks that are kept; their starts order them.
FromSince(blocks, since) ==
    {b \in ToSet(blocks) : b.events # <<>> /\ (since # None => b.start + Duration > since)}
SourceBlocks(events, since, from) ==
    IF events = <<>> THEN {} ELSE FromSince(Chained(events, ChainStart(events, since, from)), since)

\* findEventBlockKey: the block that starts in the event's hour or the hours before it.
BlockOf(t, starts) ==
    LET near == {FloorHour(t) - n * Hour : n \in 0 .. BlockHours - 1} \cap starts
    IN IF near = {} THEN None ELSE Max(near)

----------------------------------------------------------------------------
\* The events of a history, in order of time, that a report reads.
ReadFrom(history, from) ==
    SubSeq(history, Cardinality({i \in DOMAIN history : history[i].at < from}) + 1, Len(history))

(***************************************************************************)
(* A report that reads from `from` on, and drops what ended by `since`,    *)
(* shows the blocks of the whole history, except those it marks uncertain; *)
(* of the whole stream it loses none; no counted event it reads is lost    *)
(* from `since` on; and an event's block is found by its start alone.      *)
(***************************************************************************)
BlocksOfHistory(history, since, from) ==
    LET whole == SourceBlocks(history, None, None)
        read == ReadFrom(history, from)
        blocks == SourceBlocks(read, since, from)
        same(b, c) == b.start = c.start /\ b.events = c.events
        ends(b) == since # None => b.start + Duration > since
    IN /\ \A b \in blocks : b.certain => \E c \in whole : same(b, c)
       /\ from = None => \A c \in whole : ends(c) => \E b \in blocks : same(b, c) /\ b.certain
       /\ \A i \in DOMAIN read : read[i].counted /\ read[i].at >= since =>
              \E b \in blocks : read[i].at \in ToSet(b.events)
       /\ \A b, c \in blocks : \A t \in ToSet(c.events) :
              t \in ToSet(b.events) <=> BlockOf(t, {d.start : d \in blocks}) = b.start
=============================================================================
