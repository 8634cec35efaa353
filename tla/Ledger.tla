-------------------------------- MODULE Ledger --------------------------------
(***************************************************************************)
(* The ledger of one source: files that leave the disk stay in the store,  *)
(* reports serve them as history, and prune deletes them                   *)
(* (build-usage-event-dataset.ts, history-live-files.ts,                   *)
(* event-store-history.ts, run-prune-report.ts, deleteStoredFiles).        *)
(*                                                                         *)
(* Two reports run beside one prune while tools write, move and delete     *)
(* files: one report on the source's usual directories, and one that a     *)
(* flag pointed at a custom directory, whose files are history of nothing  *)
(* until a usual report finds them as well.  Every process goes on between *)
(* any two SQLite statements or transactions of another.  How one file is  *)
(* read and stored is Ingest's; here a report reads its files at once.     *)
(***************************************************************************)
EXTENDS Departed

CONSTANTS Files,         \* paths, numbered in the order of their code points
          UsualDir,      \* those in the source's usual directories
          CustomDir,     \* those in the directory a flag points at
          Contents,      \* what a file may hold: a multiset of hashes
          Old,           \* the hashes older than prune's --departed-before
          Repeats,       \* the source's files repeat each other's events
          MaxChanges,    \* bound: what the tools do to the files
          None           \* no file, no entry

DiskFiles == [rows : Contents, version : Nat, seen : BOOLEAN]
Entries == [rows : Contents, unhashed : {NoRows}, version : Nat, at : Nat]

ASSUME LedgerAssumption ==
    /\ Files \subseteq Nat /\ IsFiniteSet(Files)
    /\ UsualDir \cup CustomDir = Files
    /\ Contents \subseteq [Hashes -> Nat] /\ Old \subseteq Hashes
    /\ Repeats \in BOOLEAN /\ MaxChanges \in Nat
    /\ None \notin DiskFiles /\ None \notin Entries /\ None \notin Contents

Reports == {"usual", "custom"}
Dir(r) == IF r = "usual" THEN UsualDir ELSE CustomDir

VARIABLES
    disk,       \* each file: its rows, version, and whether it can be looked at
    store,      \* files and events: rows, the version they were read at, ingested_at
    marked,     \* override_only_files
    changes,    \* what the tools did so far
    clock,      \* writes so far, for ingested_at
    rpc,        \* where each report is
    live,       \* the files it discovered
    got,        \* the rows it counted of each, None for one that failed to parse
    readAt,     \* the version it read of each
    keys,       \* marks the usual report read to take off
    present,    \* presentFiles: not discovered, and not departed either
    order,      \* the departed files of its history, oldest first
    counts,     \* its live counts, then what it served
    found,      \* files a usual report ever discovered (history)
    claimed,    \* stored files that a usual report claimed (history)
    ppc,        \* where prune is
    pruneLive,  \* the files it discovered
    taken,      \* the version it took of each as its fingerprint
    pruneSaw,   \* the other stored files it did not find missing
    disturbed   \* what another process did that a report may notice (history)

toolVars == <<disk, changes>>
storeVars == <<store, marked, clock>>
reportVars == <<rpc, live, got, readAt, keys, present, order, counts>>
pruneVars == <<ppc, pruneLive, taken, pruneSaw>>
historyVars == <<found, claimed>>
vars == <<toolVars, storeVars, reportVars, historyVars, pruneVars, disturbed>>

File(c, v) == [rows |-> c, version |-> v, seen |-> TRUE]
Entry(c, v, t) == [rows |-> c, unhashed |-> NoRows, version |-> v, at |-> t]

OnDisk(f) == disk[f] # None
Found(f) == disk[f] # None /\ disk[f].seen   \* discovery and stat see it
Stored == {f \in Files : store[f] # None}

\* What earlier runs and tools may have left of a file, on the disk and in the store.
Left ==
    {<<None, None>>} \cup
    {<<File(c, 1), Entry(c, 1, 0)>> : c \in Contents} \cup
    {<<File(p[1], 2), Entry(p[2], 1, 0)>> : p \in {q \in Contents \X Contents : q[1] # q[2]}} \cup
    {<<None, Entry(c, 1, 0)>> : c \in Contents} \cup
    {<<File(c, 1), None>> : c \in Contents}

\* Only a flag's report finds a file outside the usual directories, and no usual
\* one has found a marked file yet.
LeftMarked(f) == f \notin UsualDir \/ (f \in CustomDir /\ ~OnDisk(f))

Init ==
    /\ \E left \in [Files -> Left] :
         /\ disk = [f \in Files |-> left[f][1]]
         /\ store = [f \in Files |-> left[f][2]]
    /\ \E some \in SUBSET {f \in Stored : LeftMarked(f)} :
         /\ Stored \subseteq UsualDir \cup some
         /\ marked = some
    /\ claimed = Stored \ marked
    /\ found = claimed
    /\ changes = 0 /\ clock = 1
    /\ rpc = [r \in Reports |-> "idle"]
    /\ live = [r \in Reports |-> {}]
    /\ got = [r \in Reports |-> [f \in Files |-> None]]
    /\ readAt = [r \in Reports |-> [f \in Files |-> 0]]
    /\ keys = {} /\ present = {} /\ order = <<>> /\ counts = NoRows
    /\ ppc = "idle"
    /\ taken = [f \in Files |-> 0]
    /\ pruneLive = {} /\ pruneSaw = {}
    /\ disturbed = {}

----------------------------------------------------------------------------
(* The tools that write, move and delete session files: external.          *)

Change(f, file) ==
    /\ changes < MaxChanges
    /\ changes' = changes + 1
    /\ disk' = [disk EXCEPT ![f] = file]
    /\ disturbed' = disturbed \cup (IF ppc = "looked" THEN {"prune"} ELSE {})
                              \cup (IF rpc["usual"] # "idle" THEN {"report"} ELSE {})
    /\ UNCHANGED <<storeVars, reportVars, historyVars, pruneVars>>

WriteFile(f) == \E c \in Contents : Change(f, File(c, changes + 3))
DeleteFile(f) == OnDisk(f) /\ Change(f, None)
\* A directory above the file stops being readable.
HideFile(f) == Found(f) /\ Change(f, [disk[f] EXCEPT !.seen = FALSE])

----------------------------------------------------------------------------
(* A report.                                                               *)

Goto(r, from, to) == rpc[r] = from /\ rpc' = [rpc EXCEPT ![r] = to]

Good(r) == {f \in live[r] : got[r][f] # None}
Failed(r) == live[r] \ Good(r)

\* parseSelectedAdapters: it discovers its files, serves those whose stored
\* version is the current one, and reads the others, some of which fail.
ReadFiles(r) ==
    LET files == {f \in Dir(r) : Found(f)}
        hits == {f \in files : store[f] # None /\ store[f].version = disk[f].version} IN
    /\ Goto(r, "idle", "read")
    /\ live' = [live EXCEPT ![r] = files]
    /\ \E failed \in SUBSET (files \ hits) :
         got' = [got EXCEPT ![r] = [f \in Files |->
                   IF f \in hits THEN store[f].rows
                   ELSE IF f \in files \ failed THEN disk[f].rows ELSE None]]
    /\ readAt' = [readAt EXCEPT ![r] = [f \in Files |->
                    IF f \in files \ hits THEN disk[f].version ELSE 0]]
    /\ found' = IF r = "usual" THEN found \cup files ELSE found
    /\ UNCHANGED <<toolVars, storeVars, keys, present, order, counts, claimed, pruneVars, disturbed>>

Forget(r) ==
    /\ live' = [live EXCEPT ![r] = {}]
    /\ got' = [got EXCEPT ![r] = [f \in Files |-> None]]
    /\ readAt' = [readAt EXCEPT ![r] = [f \in Files |-> 0]]

\* (mutant) Each file that a flag's report stores is marked.
MarkedAlways(r, written) == IF r = "custom" THEN marked \cup written ELSE marked

\* markOverrideOnlyFile: a file first stored by a report on a custom directory.
MarkedBy(r, written) ==
    IF r = "custom" THEN marked \cup {f \in written : store[f] = None} ELSE marked

\* replaceFilesEvents: what it read is stored in one transaction.  A store that
\* fails is used no more in this report.
StoreFiles(r) ==
    LET written == {f \in Good(r) : readAt[r][f] # 0} IN
    \/ /\ Goto(r, "read", IF r = "usual" THEN "stored" ELSE "ended")
       /\ IF r = "usual" THEN UNCHANGED <<live, got, readAt>> ELSE Forget(r)
       /\ store' = [f \in Files |-> IF f \in written
                                    THEN Entry(got[r][f], readAt[r][f], clock) ELSE store[f]]
       /\ marked' = MarkedBy(r, written)
       /\ clock' = clock + 1
       /\ disturbed' = disturbed \cup
            (IF r = "custom" /\ written # {} /\ rpc["usual"] # "idle" THEN {"usual"} ELSE {})
       /\ UNCHANGED <<toolVars, keys, present, order, counts, historyVars, pruneVars>>
    \/ /\ Goto(r, "read", "failed")
       /\ Forget(r)
       /\ UNCHANGED <<toolVars, storeVars, keys, present, order, counts, historyVars, pruneVars,
                      disturbed>>

\* claimOverrideOnlyFiles reads the marks, and then takes off those of the files
\* it discovered in a transaction of its own, which may fail.
ReadMarks ==
    /\ Goto("usual", "stored", "claiming")
    /\ keys' = marked \cap live["usual"]
    /\ claimed' = claimed \cup ((live["usual"] \cap Stored) \ marked)
    /\ UNCHANGED <<toolVars, storeVars, live, got, readAt, present, order, counts, found,
                   pruneVars, disturbed>>
Claim ==
    /\ Goto("usual", "claiming", "history")
    /\ \/ /\ marked' = marked \ keys
          /\ claimed' = claimed \cup (keys \cap Stored)
       \/ UNCHANGED <<marked, claimed>>
    /\ UNCHANGED <<toolVars, store, clock, live, got, readAt, keys, present, order, counts,
                   found, pruneVars, disturbed>>

----------------------------------------------------------------------------
(* Its history (buildUsageEventDataset, loadHistoryEvents).                *)

\* addStoredFilesStillOnDisk: neither a file that failed to parse, nor a marked
\* one (readOverrideOnlyFiles), nor a stored file still on the disk, has departed.
Present(r) == Failed(r) \cup marked \cup {f \in Stored \ live[r] : Found(f)}

LookAtDisk ==
    /\ Goto("usual", "history", "select")
    /\ present' = Present("usual")
    /\ UNCHANGED <<toolVars, storeVars, live, got, readAt, keys, order, counts, historyVars,
                   pruneVars, disturbed>>

\* readDepartedFiles.
SelectDeparted ==
    /\ Goto("usual", "select", "classify")
    /\ order' = DepartedOrder(store, Stored \ (Good("usual") \cup present))
    /\ UNCHANGED <<toolVars, storeVars, live, got, readAt, keys, present, counts, historyVars,
                   pruneVars, disturbed>>

\* A file that lost its rows since it was selected has none.
RowsNow == [f \in Files |-> IF store[f] = None THEN Entry(NoRows, 0, 0) ELSE store[f]]

\* readDepartedHashMultisets, readLiveHashCounts and the loop over both.
ClassifyDeparted ==
    LET counted == LiveHashCounts(store, Good("usual") \cap Stored, Repeats) IN
    /\ Goto("usual", "classify", "load")
    /\ order' = Classify(RowsNow, order, counted).served
    /\ counts' = counted
    /\ UNCHANGED <<toolVars, storeVars, live, got, readAt, keys, present, historyVars, pruneVars,
                   disturbed>>

\* What the report counts of its own files (dedupeRepeatedAcrossFiles).
CountedLive(r) ==
    LiveHashCounts([f \in Files |-> [rows |-> got[r][f]]], Good(r), Repeats)

\* loadServedEvents: the served files' rows, as they are by now.
LoadServed ==
    /\ Goto("usual", "load", "ended")
    /\ counts' = Plus(CountedLive("usual"), ServedEvents(RowsNow, order, counts))
    /\ Forget("usual")
    /\ present' = {} /\ order' = <<>>
    /\ UNCHANGED <<toolVars, storeVars, keys, historyVars, pruneVars, disturbed>>

----------------------------------------------------------------------------
(* Prune with --apply (buildPruneReport).                                  *)

\* It discovers the files, takes their fingerprints, and looks for the other
\* stored files on the disk: one it cannot look at is taken to be there.
PruneLooks ==
    /\ ppc = "idle" /\ ppc' = "looked"
    /\ pruneLive' = {f \in UsualDir : Found(f)}
    /\ taken' = [f \in Files |-> IF f \in UsualDir /\ Found(f) THEN disk[f].version ELSE 0]
    /\ pruneSaw' = {f \in Stored \ pruneLive' : OnDisk(f)}
    /\ UNCHANGED <<toolVars, storeVars, reportVars, historyVars, disturbed>>

\* (mutant) A file on the disk stands in for its copies, whatever is stored of it.
CountedStored == {f \in pruneLive : store[f] # None}

\* splitLiveFilesByCurrentEntry: the files whose stored rows a report would count.
CountedCurrent == {f \in pruneLive : store[f] # None /\ store[f].version = taken[f]}

\* classifyFiles, on the store as it is under the write lock.
PruneDeparted == Stored \ (pruneLive \cup pruneSaw)
PruneSuppressed ==
    Classify(store, DepartedOrder(store, PruneDeparted),
             LiveHashCounts(store, CountedCurrent, Repeats)).suppressed

\* isOlderThanUtcDate: the newest event is older; a file with none never is.
Aged(f) == /\ \E h \in Hashes : store[f].rows[h] > 0
           /\ \A h \in Hashes : store[f].rows[h] > 0 => h \in Old

\* isStillMissing: only a file that is surely gone by now.
StillMissing(selected) == {f \in selected : ~OnDisk(f)}

\* The candidates are selected and their rows deleted in one transaction.
PruneApplies ==
    /\ ppc = "looked"
    /\ \E suppressed, aged \in BOOLEAN :
         LET selected == (IF suppressed THEN PruneSuppressed ELSE {})
                         \cup (IF aged THEN {f \in PruneDeparted : Aged(f)} ELSE {})
             deleted == StillMissing(selected) IN
         /\ suppressed \/ aged
         /\ ppc' = IF aged THEN "aged" ELSE "suppressed"
         /\ store' = [f \in Files |-> IF f \in deleted THEN None ELSE store[f]]
         /\ marked' = marked \ deleted
         /\ claimed' = claimed \ deleted
         /\ disturbed' = disturbed \cup
              (IF /\ deleted # {} /\ rpc["usual"] # "idle"
                  /\ aged \/ {"prune", "report"} \cap disturbed # {} \/ marked \cap PruneDeparted # {}
               THEN {"usual"} ELSE {})
    /\ pruneLive' = {} /\ pruneSaw' = {} /\ taken' = [f \in Files |-> 0]
    /\ UNCHANGED <<toolVars, clock, reportVars, found>>

----------------------------------------------------------------------------
History == LookAtDisk \/ SelectDeparted \/ ClassifyDeparted \/ LoadServed

Next ==
    \/ \E f \in Files : WriteFile(f) \/ DeleteFile(f) \/ HideFile(f)
    \/ \E r \in Reports : ReadFiles(r) \/ StoreFiles(r)
    \/ ReadMarks \/ Claim \/ History
    \/ PruneLooks \/ PruneApplies

Spec == Init /\ [][Next]_vars

----------------------------------------------------------------------------
\* Type correctness.
TypeOK ==
    /\ disk \in [Files -> DiskFiles \cup {None}]
    /\ store \in [Files -> Entries \cup {None}]
    /\ marked \subseteq Stored
    /\ \A r \in Reports : live[r] \subseteq Dir(r) /\ Good(r) \subseteq live[r]
    /\ present \subseteq Files /\ keys \subseteq Files
    /\ \A i \in 1..Len(order) : order[i] \in Files
    /\ counts \in [Hashes -> Nat]
    /\ pruneLive \subseteq UsualDir /\ pruneSaw \subseteq Files \ pruneLive
    /\ disturbed \subseteq {"usual", "prune", "report"}

(* The total of a report's history does not depend on the order of the
   departed files or on which of them are suppressed: per hash it is what the
   live files count, or what the departed file with most of it holds.  Tools
   may do anything meanwhile; and prune may delete what it suppresses between
   any two of the report's statements, if no tool changed a file since either
   of them looked at the files, and no departed file is one that only a flag's
   report found: only then do both mean the same by a departed file.         *)
HistoryIsExact ==
    [][rpc["usual"] = "load" /\ rpc'["usual"] = "ended" /\ "usual" \notin disturbed =>
         LET own == CountedLive("usual")
             departed == Stored \ (Good("usual") \cup present) IN
         counts' = Plus(own, HistoryOf(store, departed, own))]_vars

(* What a report on the files and the store as they are would count. *)
Expected ==
    LET own == LiveHashCounts(disk, {f \in UsualDir : Found(f)}, Repeats)
        departed == {f \in Stored \ marked : ~Found(f)} IN
    Plus(own, HistoryOf(store, departed, own))

(* Deleting the suppressed files changes no report, whatever other reports
   stored between prune's first look and its write lock: it selects again by
   what is stored then.  It looks at the files only once, so this is for files
   no tool touches in between; and it takes no file for departed that only a
   flag's report found, as reports do not count those (PruneKeepsReports).    *)
PruneApplied == ppc = "looked" /\ ppc' = "suppressed"
PruneKeepsUsage ==
    [][PruneApplied /\ "prune" \notin disturbed /\ marked \cap PruneDeparted = {}
       => Expected' = Expected]_vars

(* "Applying it never changes report output", as the docs have it. *)
PruneKeepsReports == [][PruneApplied => Expected' = Expected]_vars

(* Prune drops no event for good, whatever the tools and the other reports do
   between its look and its lock: what it deletes as suppressed is stored of
   another file too, which it keeps, and of the aged files every event is old.
   (Files that cover each other must not both be deleted.)                   *)
Held(files, h) == \E f \in Files : files[f] # None /\ files[f].rows[h] > 0
PruneKeepsEvents ==
    [][ppc = "looked" /\ ppc' # ppc =>
         \A h \in Hashes : Held(store, h) => Held(store', h) \/ (ppc' = "aged" /\ h \in Old)]_vars

(* Every stored file is history of the usual directories, unless it is marked:
   so only files a usual report discovered, by itself or before a flag's
   report stored them, are unmarked; and a file that a usual report claimed is
   never marked again, so that it is served once it departs, though the report
   reads the marks before the transaction that takes them off, and a flag's
   report stores in between.                                                *)
OnlyFoundUnmarked == Stored \ marked \subseteq found
ClaimedForGood == claimed \cap marked = {}
MarksHold == OnlyFoundUnmarked /\ ClaimedForGood
==============================================================================
