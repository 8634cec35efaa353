------------------------------- MODULE Departed -------------------------------
(***************************************************************************)
(* Which stored files count though they left the disk, and for how much    *)
(* (event-store-history.ts, takeUncountedEvents).  A file's rows are a     *)
(* multiset of content hashes: an event keeps its hash wherever its file   *)
(* moves, so a departed file whose hashes are all counted already, by live *)
(* files or by departed ones before it, is suppressed as a copy.           *)
(*                                                                         *)
(* A row that an upgrade could not hash (`unhashed`) never lets its file   *)
(* be suppressed, and is served under the hash computed as it is read.     *)
(***************************************************************************)
EXTENDS Integers, Sequences, FiniteSets, FiniteSetsExt, SequencesExt

CONSTANT Hashes       \* content hashes of events

NoRows == [h \in Hashes |-> 0]
MoreOf(m, n) == [h \in Hashes |-> IF m[h] > n[h] THEN m[h] ELSE n[h]]
Plus(m, n) == [h \in Hashes |-> m[h] + n[h]]
Beyond(m, n) == [h \in Hashes |-> IF m[h] > n[h] THEN m[h] - n[h] ELSE 0]

\* All rows of a file, as they are served.
AllRows(file) == Plus(file.rows, file.unhashed)

\* readLiveHashCounts: what reports count of each hash.  A source whose files
\* repeat each other's events counts one as often as the file with most of it.
LiveHashCounts(files, live, repeats) ==
    [h \in Hashes |->
        IF repeats THEN Max({0} \cup {files[f].rows[h] : f \in live})
        ELSE Cardinality(UNION {{f} \X (1..files[f].rows[h]) : f \in live})]

\* compareDepartedFiles: oldest ingest first, then by path.
Precedes(files, f, g) ==
    \/ files[f].at < files[g].at
    \/ files[f].at = files[g].at /\ f < g
Preceding(files, departed, f) == {g \in departed : Precedes(files, g, f)}
DepartedOrder(files, departed) ==
    [i \in 1..Cardinality(departed) |->
        CHOOSE f \in departed : Cardinality(Preceding(files, departed, f)) = i - 1]

\* (mutant) A file is suppressed once one of its hashes is covered.
CoveredInPart(file, counts) ==
    file.unhashed = NoRows /\ \E h \in Hashes : file.rows[h] > 0 /\ file.rows[h] <= counts[h]

\* isSubsetOfServedData.
Covered(file, counts) ==
    file.unhashed = NoRows /\ \A h \in Hashes : file.rows[h] <= counts[h]

\* addServedFileHashCounts: only its rows beyond those already counted.
AddServed(counts, file) == MoreOf(counts, file.rows)

\* (mutant) A departed file is compared with all others, not those before it.
ClassifyAtOnce(files, order, live) ==
    LET Others(f) == FoldLeft(LAMBDA c, g : IF g = f THEN c ELSE AddServed(c, files[g]), live, order)
        copy == {f \in ToSet(order) : Covered(files[f], Others(f))} IN
    [served |-> SelectSeq(order, LAMBDA f : f \notin copy), suppressed |-> copy, counts |-> live]

\* classifyAgainstLiveFiles: the departed files in order, each served or
\* suppressed by what counts before it.
Weighed(files, acc, f) ==
    IF Covered(files[f], acc.counts)
    THEN [acc EXCEPT !.suppressed = @ \cup {f}]
    ELSE [acc EXCEPT !.served = Append(@, f), !.counts = AddServed(@, files[f])]
Classify(files, order, live) ==
    LET after[i \in 0..Len(order)] ==
          IF i = 0 THEN [served |-> <<>>, suppressed |-> {}, counts |-> live]
          ELSE Weighed(files, after[i - 1], order[i])
    IN after[Len(order)]

\* takeUncountedEvents: of a file's events, those beyond what is counted.
TakeUncounted(acc, file) ==
    LET more == Beyond(AllRows(file), acc.counts) IN
    [events |-> Plus(acc.events, more), counts |-> Plus(acc.counts, more)]

\* loadServedEvents: what the served files add to the live ones, in order.
ServedEvents(files, served, live) ==
    LET after[i \in 0..Len(served)] ==
          IF i = 0 THEN [events |-> NoRows, counts |-> live]
          ELSE TakeUncounted(after[i - 1], files[served[i]])
    IN after[Len(served)].events

----------------------------------------------------------------------------
\* What history should come to, without an order: per hash, what any one
\* departed file has of it beyond what is live.
HistoryOf(files, departed, live) ==
    [h \in Hashes |->
        Beyond([k \in Hashes |-> Max({0} \cup {AllRows(files[f])[k] : f \in departed})], live)[h]]
==============================================================================
