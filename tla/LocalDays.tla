------------------------------- MODULE LocalDays -------------------------------
(***************************************************************************)
(* The local day and hour of an event (utils/time-buckets.ts): a process   *)
(* keeps, per timezone, a window for each local day it has met, in which   *)
(* the wall clock's offset is taken to be constant.  A tick is the second  *)
(* the offsets are resolved to.                                            *)
(***************************************************************************)
EXTENDS Integers, FiniteSets

CONSTANTS
    DayTicks, HourTicks,    \* the length of a day and of an hour
    Offsets,                \* what the wall clock may be ahead of UTC
    MaxTick,                \* bounds the times looked up
    NoWindow

ASSUME DaysAssumption ==
    /\ HourTicks \in Nat \ {0} /\ DayTicks \in Nat \ {0} /\ MaxTick \in Nat
    /\ Offsets \subseteq 0 .. DayTicks /\ Offsets # {}

VARIABLES
    zone,       \* the timezone's rule: [before, after, change]
    lastWindow, \* the window the last lookup was answered from
    byDay,      \* the windows by day index
    looked      \* the last lookup: [at, day, hour, offset], or NoWindow
daysVars == <<zone, lastWindow, byDay, looked>>

Ticks == 0 .. MaxTick
DayIndexes == 0 .. (MaxTick + DayTicks) \div DayTicks

\* resolveOffsetMs: a zone changes its offset at most once in the times looked up.
OffsetAt(t) == IF t < zone.change THEN zone.before ELSE zone.after
DayOf(t, offset) == (t + offset) \div DayTicks
HourOf(t, offset) == ((t + offset) % DayTicks) \div HourTicks
Covers(w, t) == w # NoWindow /\ w.first <= t /\ t < w.end

\* A mutant: the offset at the day's end is not looked at.
StableAtStart(first, end, offset) == OffsetAt(first) = offset
\* hasStableOffsetWindow
Stable(first, end, offset) == OffsetAt(first) = offset /\ OffsetAt(end - 1) = offset

\* createLocalDateWindow: the whole day, or the one tick.
NewWindow(t) ==
    LET offset == OffsetAt(t)
        first == DayOf(t, offset) * DayTicks - offset
    IN IF Stable(first, first + DayTicks, offset)
       THEN [first |-> first, end |-> first + DayTicks, offset |-> offset, day |-> DayOf(t, offset)]
       ELSE [first |-> t, end |-> t + 1, offset |-> offset, day |-> DayOf(t, offset)]

Answer(t, w) == looked' = [at |-> t, day |-> w.day, hour |-> HourOf(t, w.offset), offset |-> w.offset]

DaysInit ==
    /\ zone \in [before : Offsets, after : Offsets, change : Ticks]
    /\ lastWindow = NoWindow /\ looked = NoWindow
    /\ byDay = [d \in DayIndexes |-> NoWindow]

\* getCachedLocalDateWindow
LookUpLast(t) ==
    /\ Covers(lastWindow, t) /\ Answer(t, lastWindow)
    /\ UNCHANGED <<zone, lastWindow, byDay>>
LookUpDay(t) ==
    LET w == byDay[DayOf(t, OffsetAt(t))] IN
    /\ ~Covers(lastWindow, t) /\ Covers(w, t)
    /\ Answer(t, w) /\ lastWindow' = w
    /\ UNCHANGED <<zone, byDay>>
LookUpNew(t) ==
    LET d == DayOf(t, OffsetAt(t))
        w == NewWindow(t)
    IN /\ ~Covers(lastWindow, t) /\ ~Covers(byDay[d], t)
       /\ Answer(t, w) /\ lastWindow' = w /\ byDay' = [byDay EXCEPT ![d] = w]
       /\ UNCHANGED zone

DaysNext == \E t \in Ticks : LookUpLast(t) \/ LookUpDay(t) \/ LookUpNew(t)
DaysSpec == DaysInit /\ [][DaysNext]_daysVars

(***************************************************************************)
(* Whatever was looked up before, an event falls on the local day and hour *)
(* that the zone's own offset at its time gives, with that offset, so that *)
(* the same event is never counted on two days by two reports.             *)
(***************************************************************************)
DayIsLocal ==
    looked # NoWindow =>
        LET offset == OffsetAt(looked.at) IN
        /\ looked.offset = offset
        /\ looked.day = DayOf(looked.at, offset) /\ looked.hour = HourOf(looked.at, offset)
=============================================================================
