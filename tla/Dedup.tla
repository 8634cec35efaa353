-------------------------------- MODULE Dedup --------------------------------
(***************************************************************************)
(* What is counted once: an event that several files of a source repeat    *)
(* (dedup/repeated-across-files.ts), the events one session copied from    *)
(* another (dedup/copied-session.ts), and the events another machine holds *)
(* as well (machines/merge-machine-events.ts).  An event is a record of    *)
(* its session, its time `at`, its model, its usage, and its logged ids.   *)
(***************************************************************************)
EXTENDS Integers, Sequences, SequencesExt, FiniteSets, FiniteSetsExt

NoIds == 0
Greatest(S) == IF S = {} THEN 0 ELSE Max(S)
\* The elements of s that satisfy Test at their position.
Keep(s, Test(_)) ==
    FoldLeftDomain(LAMBDA kept, i : IF Test(i) THEN Append(kept, s[i]) ELSE kept, <<>>, s)

----------------------------------------------------------------------------
(* Repeats across the files of a source.                                   *)

\* computeEventContentHash: covers the session and the time, not the ids.
Hash(e) == <<e.session, e.at, e.model, e.usage>>
Repeats(file, h) == Cardinality({j \in DOMAIN file : Hash(file[j]) = h})
Seen(file, i) == Cardinality({j \in 1 .. i : Hash(file[j]) = Hash(file[i])})

\* Only files with a session that another file has too are hashed.
Shared(files, f) ==
    \E g \in DOMAIN files \ {f} : \E e \in ToSet(files[f]), d \in ToSet(files[g]) :
        e.session = d.session

\* takeUncountedEvents: what a file holds beyond what is counted, which then counts.
Uncounted(file, counted) ==
    LET upTo[i \in 0 .. Len(file)] ==
            IF i = 0 THEN <<>>
            ELSE IF Seen(file, i) > counted[Hash(file[i])] THEN Append(upTo[i - 1], file[i])
            ELSE upTo[i - 1]
    IN upTo[Len(file)]
TakeUncounted(acc, file) ==
    LET kept == Uncounted(file, acc.counted) IN
    [kept |-> acc.kept \o kept, counted |-> [h \in DOMAIN acc.counted |-> acc.counted[h] + Repeats(kept, h)]]

HashesOf(files) == {Hash(e) : e \in UNION {ToSet(file) : file \in ToSet(files)}}
NothingCounted(files) == [kept |-> <<>>, counted |-> [h \in HashesOf(files) |-> 0]]
\* repeatedAcrossFiles, the stage form: every file is hashed.
RepeatedStage(files) ==
    LET upTo[f \in 0 .. Len(files)] ==
            IF f = 0 THEN NothingCounted(files) ELSE TakeUncounted(upTo[f - 1], files[f])
    IN upTo[Len(files)].kept
\* dedupeRepeatedAcrossFiles
RepeatedAcrossFiles(files) ==
    LET upTo[f \in 0 .. Len(files)] ==
            IF f = 0 THEN NothingCounted(files)
            ELSE IF Shared(files, f) THEN TakeUncounted(upTo[f - 1], files[f])
            ELSE [upTo[f - 1] EXCEPT !.kept = @ \o files[f]]
    IN upTo[Len(files)].kept

(***************************************************************************)
(* Each event is counted as often as the file that repeats it most holds   *)
(* it, by the array form as by the stage form, so that neither splitting a *)
(* session over files nor reading a copied file changes a report.          *)
(***************************************************************************)
RepeatsCountOnce(files) ==
    LET kept == RepeatedAcrossFiles(files) IN
    /\ kept = RepeatedStage(files)
    /\ \A h \in HashesOf(files) :
           Repeats(kept, h) = Greatest({Repeats(file, h) : file \in ToSet(files)})

----------------------------------------------------------------------------
(* Copies in another session.                                              *)

\* isSameUsage, isCopyOf
SameUsage(e, f) == e.at = f.at /\ e.model = f.model /\ e.usage = f.usage
CopyOf(e, f) == SameUsage(e, f) /\ (NoIds \in {e.ids, f.ids} \/ e.ids = f.ids)

\* findEventsOtherSessionsHold: positions.
HeldByOthers(events) ==
    {i \in DOMAIN events : \E j \in DOMAIN events :
        events[i].session # events[j].session /\ CopyOf(events[i], events[j])}

\* The candidates of one usage, by session and by request.
Alike(events, C, i) == {j \in C : SameUsage(events[i], events[j])}
InSession(events, G, s) == {j \in G : events[j].session = s}
WithIds(events, G, s, k) == {j \in G : events[j].session = s /\ events[j].ids = k}
Sessions(events, G) == {events[j].session : j \in G}
Requests(events, G) == {events[j].ids : j \in G} \ {NoIds}
SlotCount(events, G, k) == Max({Cardinality(WithIds(events, G, s, k)) : s \in Sessions(events, G)})

\* A mutant: an event without ids may take a slot its own session holds.
AllSlots(events, G, s) ==
    UNION {{<<k, n>> : n \in 0 .. SlotCount(events, G, k) - 1} : k \in Requests(events, G)}

\* The slots a session does not hold yet.
FreeSlots(events, G, s) ==
    UNION {{<<k, n>> : n \in Cardinality(WithIds(events, G, s, k)) .. SlotCount(events, G, k) - 1}
           : k \in Requests(events, G)}

\* getCopyIdentities: a candidate's request slot; the free slots are taken in order.
Slot(events, G, i) ==
    LET e == events[i]
        before == Cardinality({j \in WithIds(events, G, e.session, e.ids) : j < i})
        free == FreeSlots(events, G, e.session)
        rank(f) == Cardinality({g \in free : g[1] < f[1] \/ (g[1] = f[1] /\ g[2] < f[2])})
    IN IF e.ids # NoIds THEN <<e.ids, before>>
       ELSE IF before < Cardinality(free) THEN CHOOSE f \in free : rank(f) = before
       ELSE <<NoIds, before - Cardinality(free)>>

\* The session whose first event is earlier, or whose id is lower, keeps what is copied.
SessionStart(events, s) == Min({e.at : e \in {d \in ToSet(events) : d.session = s}})
Older(events, s, t) ==
    \/ SessionStart(events, s) < SessionStart(events, t)
    \/ SessionStart(events, s) = SessionStart(events, t) /\ s < t

\* dedupeCopiedSessions: a session counts an identity beyond the most an older one counts.
Copies(events) ==
    LET C == HeldByOthers(events)
        slot == [i \in C |-> Slot(events, Alike(events, C, i), i)]
        same(i, s) == {j \in InSession(events, C, s) :
                         SameUsage(events[i], events[j]) /\ slot[j] = slot[i]}
        seen(i) == Cardinality({j \in same(i, events[i].session) : j <= i})
        counted(i) == Greatest({Cardinality(same(i, s)) :
                        s \in {t \in Sessions(events, C) : Older(events, t, events[i].session)}})
    IN {i \in C : seen(i) <= counted(i)}
DedupeCopiedSessions(events) ==
    LET copies == Copies(events) IN Keep(events, LAMBDA i : i \notin copies)

(***************************************************************************)
(* A group of copies counts the fewest requests its sessions can be copies *)
(* of: as many as its ids tell apart, or as its largest session holds; the *)
(* oldest of its sessions keeps all it holds; and every request with ids   *)
(* is still counted, by a copy of it.                                      *)
(***************************************************************************)
CopiesCountOnce(events) ==
    LET C == HeldByOthers(events)
        copies == Copies(events)
        kept == ToSet(DedupeCopiedSessions(events))
    IN /\ \A i \in C :
            LET G == Alike(events, C, i)
                oldest == {s \in Sessions(events, G) :
                             \A t \in Sessions(events, G) \ {s} : Older(events, s, t)}
            IN /\ Cardinality(G \ copies) =
                    Max({MapThenSumSet(LAMBDA k : SlotCount(events, G, k), Requests(events, G))}
                        \cup {Cardinality(InSession(events, G, s)) : s \in Sessions(events, G)})
               /\ \A s \in oldest : InSession(events, G, s) \cap copies = {}
       /\ \A e \in ToSet(events) : \E d \in kept : CopyOf(d, e)
=============================================================================
