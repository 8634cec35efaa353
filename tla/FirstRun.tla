------------------------------ MODULE FirstRun ------------------------------
(***************************************************************************)
(* Runs that open the event store at its default place at the same time    *)
(* (openEventStore, copyLegacyEventStore, event-store-schema.ts): the      *)
(* first ones import the ledger an older version left in the cache         *)
(* directory, create the file and its schema, or migrate it.  Runs die     *)
(* between any two calls; the user deletes the ledger to start over; a     *)
(* newer build may raise the version of a store.                           *)
(*                                                                         *)
(* A store is an inode: a run that opened it keeps it when it is deleted.  *)
(***************************************************************************)
EXTENDS Integers, Sequences, FiniteSets

CONSTANTS Openers,       \* runs that open the store
          FoundVersions, \* versions the store may have to begin with
          MaxResets,     \* bound: ledgers the user deletes
          MaxDeaths,     \* bound: runs that die
          NoStore        \* no file

Latest == 5
Newer == 6                   \* a version this build does not know
EmptyStore == 0              \* an empty file: no tables
AddedTables == {"override_only_files", "file_read_cursors", "git_roots", "event_ids"}
StepFrom == <<"v1_v2", "v2_v3", "v3_v4", "v4_v5">>
OldUsage == "old_usage"      \* what the older version's ledger holds

VARIABLES
    storeAt,     \* the inode at the default path
    stores,      \* each inode: version, tables, rows, the schema steps it saw (history, 0 creates)
    copyMarker,  \* the file legacy-ledger-copied
    oldLedger,   \* the version of the ledger in the cache directory, or NoStore
    openPc,      \* where each run is
    handle,      \* the inode it opened
    missing,     \* the added tables it found missing
    resets, deaths,
    everOpened,  \* runs that got as far as to open the store (history)
    revivable    \* a reset came before anything was opened, or during a copy (history)

openVars == <<storeAt, stores, copyMarker, oldLedger, openPc, handle, missing,
              resets, deaths, everOpened, revivable>>

Inodes == ({"found"} \cup Openers) \X {"copy", "new"}

StoreType == [version : 0..Newer, tables : SUBSET AddedTables,
              rows : SUBSET ({OldUsage} \cup Openers), steps : Seq(0..(Latest - 1))]
Store(v, tables, rows) == [version |-> v, tables |-> tables, rows |-> rows, steps |-> <<>>]

ASSUME FirstRunAssumption ==
    /\ FoundVersions \subseteq 0..Newer /\ MaxResets \in Nat /\ MaxDeaths \in Nat
    /\ NoStore \notin Inodes \cup StoreType /\ {"found", OldUsage} \cap Openers = {}

Snapped(v) == Store(v, IF v = Latest THEN AddedTables ELSE {}, {OldUsage})

\* A ledger that is there already, of any version; or one in the old place; or both, where
\* an earlier run died after it linked its copy and before it marked it.
OpenInit ==
    /\ \/ \E v \in FoundVersions, tables \in {{}, AddedTables} :
            /\ stores = [i \in Inodes |-> IF i = <<"found", "new">>
                                          THEN Store(v, IF v = Latest THEN tables ELSE {}, {})
                                          ELSE NoStore]
            /\ storeAt = <<"found", "new">>
            /\ oldLedger = NoStore
       \/ /\ stores = [i \in Inodes |-> NoStore]
          /\ storeAt = NoStore
          /\ oldLedger \in {NoStore, 3, 5}
       \/ \E v \in {3, 5} :
            /\ stores = [i \in Inodes |-> IF i = <<"found", "copy">> THEN Snapped(v) ELSE NoStore]
            /\ storeAt = <<"found", "copy">>
            /\ oldLedger = v
    /\ copyMarker = FALSE
    /\ openPc = [p \in Openers |-> "start"]
    /\ handle = [p \in Openers |-> NoStore]
    /\ missing = [p \in Openers |-> {}]
    /\ resets = 0 /\ deaths = 0
    /\ everOpened = {} /\ revivable = FALSE

OpenStep(p, from, to) == openPc[p] = from /\ openPc' = [openPc EXCEPT ![p] = to]
historyOfOpens == <<resets, deaths, everOpened, revivable>>

----------------------------------------------------------------------------
(* copyLegacyEventStore.                                                   *)

\* No old ledger, or one that was copied once, is never looked at again.
CheckMarker(p) ==
    /\ OpenStep(p, "start", IF copyMarker \/ oldLedger = NoStore THEN "prepare" ELSE "target")
    /\ UNCHANGED <<storeAt, stores, copyMarker, oldLedger, handle, missing, historyOfOpens>>

CheckTarget(p) ==
    /\ OpenStep(p, "target", IF storeAt = NoStore THEN "snapshot" ELSE "mark")
    /\ UNCHANGED <<storeAt, stores, copyMarker, oldLedger, handle, missing, historyOfOpens>>

\* VACUUM INTO a file of the run's own, as the old ledger is now.
Snapshot(p) ==
    /\ \/ /\ OpenStep(p, "snapshot", "link")
          /\ stores' = [stores EXCEPT ![<<p, "copy">>] = Snapped(oldLedger)]
       \/ OpenStep(p, "snapshot", "failed") /\ UNCHANGED stores
    /\ UNCHANGED <<storeAt, copyMarker, oldLedger, handle, missing, historyOfOpens>>

\* (mutant) The snapshot is renamed into place.
LinkedOver(p) == <<p, "copy">>

\* The snapshot is linked into place, unless a file is there.
Linked(p) == IF storeAt = NoStore THEN <<p, "copy">> ELSE storeAt

LinkSnapshot(p) ==
    /\ OpenStep(p, "link", "mark")
    /\ storeAt' = Linked(p)
    /\ UNCHANGED <<stores, copyMarker, oldLedger, handle, missing, historyOfOpens>>

\* (mutant) Only the run that copied marks.
MarksOwnCopy(p) == storeAt = <<p, "copy">>

\* The marker is written whether this run copied or found a ledger.
Marks(p) == TRUE

MarkCopied(p) ==
    /\ \/ OpenStep(p, "mark", "prepare") /\ copyMarker' = (copyMarker \/ Marks(p))
       \/ OpenStep(p, "mark", "failed") /\ UNCHANGED copyMarker
    /\ UNCHANGED <<storeAt, stores, oldLedger, handle, missing, historyOfOpens>>

----------------------------------------------------------------------------
(* openEventStore, once the path is settled.                               *)

\* prepareEventStoreFile and the open: a file that is not there is created
\* empty, without regard to what another run does meanwhile.
PrepareFile(p) ==
    LET i == IF storeAt = NoStore THEN <<p, "new">> ELSE storeAt IN
    /\ OpenStep(p, "prepare", "assert")
    /\ storeAt' = i
    /\ stores' = IF storeAt = NoStore THEN [stores EXCEPT ![i] = Store(EmptyStore, {}, {})] ELSE stores
    /\ handle' = [handle EXCEPT ![p] = i]
    /\ everOpened' = everOpened \cup {p}
    /\ UNCHANGED <<copyMarker, oldLedger, missing, resets, deaths, revivable>>

VersionOf(p) == stores[handle[p]].version
UNCHANGEDbutStores == UNCHANGED <<storeAt, copyMarker, oldLedger, handle, historyOfOpens>>

\* assertSupportedSchemaVersion: before anything is written.
AssertSupported(p) ==
    /\ OpenStep(p, "assert", IF VersionOf(p) = Newer THEN "failed" ELSE "tables")
    /\ UNCHANGED <<stores, missing>> /\ UNCHANGEDbutStores

\* createOrMigrateSchema looks for tables first.
LookForTables(p) ==
    /\ OpenStep(p, "tables", IF VersionOf(p) = EmptyStore THEN "create" ELSE "version")
    /\ UNCHANGED <<stores, missing>> /\ UNCHANGEDbutStores

\* (mutant) The schema is created over what another run created meanwhile.
CreatesAnyway(p) == TRUE

\* createFreshSchema, if there still are no tables under the write lock.
Creates(p) == VersionOf(p) = EmptyStore

CreateSchema(p) ==
    /\ OpenStep(p, "create", IF Creates(p) THEN "added" ELSE "version")
    /\ stores' = IF Creates(p)
                 THEN [stores EXCEPT ![handle[p]].version = Latest,
                                     ![handle[p]].tables = AddedTables,
                                     ![handle[p]].steps = Append(@, 0)]
                 ELSE stores
    /\ UNCHANGED missing /\ UNCHANGEDbutStores

ReadVersion(p) ==
    /\ OpenStep(p, "version", CASE VersionOf(p) = Latest -> "added"
                                [] VersionOf(p) \in 1..(Latest - 1) -> StepFrom[1]
                                [] OTHER -> "failed")
    /\ UNCHANGED <<stores, missing>> /\ UNCHANGEDbutStores

\* The version a migration reads again under the write lock.
IsAt(p, v) == VersionOf(p) = v

\* migrateSchemaV1ToV2 to V4ToV5: each is a transaction that does nothing unless
\* the store is at its version by then.
Migrate(p) ==
    \E v \in 1..(Latest - 1) :
        /\ OpenStep(p, StepFrom[v], IF v + 1 < Latest THEN StepFrom[v + 1] ELSE "added")
        /\ stores' = IF IsAt(p, v)
                     THEN [stores EXCEPT ![handle[p]].version = v + 1,
                                         ![handle[p]].steps = Append(@, v)]
                     ELSE stores
        /\ UNCHANGED missing /\ UNCHANGEDbutStores

\* ensureAddedTables: it lists the tables, then creates those it missed, if they
\* are still missing.
ListTables(p) ==
    /\ OpenStep(p, "added", "add")
    /\ missing' = [missing EXCEPT ![p] = AddedTables \ stores[handle[p]].tables]
    /\ UNCHANGED stores /\ UNCHANGEDbutStores

AddTables(p) ==
    /\ OpenStep(p, "add", "open")
    /\ stores' = [stores EXCEPT ![handle[p]].tables = @ \cup missing[p]]
    /\ missing' = [missing EXCEPT ![p] = {}]
    /\ UNCHANGEDbutStores

\* What an open store is for.
StoreUsage(p) ==
    /\ OpenStep(p, "open", "ended")
    /\ stores' = [stores EXCEPT ![handle[p]].rows = @ \cup {p}]
    /\ UNCHANGED missing /\ UNCHANGEDbutStores

----------------------------------------------------------------------------
(* The surroundings: external.                                             *)

Copying(p) == openPc[p] \in {"target", "snapshot", "link"}

DeleteLedger ==
    /\ storeAt # NoStore /\ resets < MaxResets
    /\ storeAt' = NoStore
    /\ resets' = resets + 1
    /\ revivable' = (revivable \/ everOpened = {} \/ \E p \in Openers : Copying(p))
    /\ UNCHANGED <<stores, copyMarker, oldLedger, openPc, handle, missing, deaths, everOpened>>

Die(p) ==
    /\ deaths < MaxDeaths
    /\ openPc[p] \notin {"start", "failed", "ended"}
    /\ openPc' = [openPc EXCEPT ![p] = "failed"]
    /\ deaths' = deaths + 1
    /\ UNCHANGED <<storeAt, stores, copyMarker, oldLedger, handle, missing, resets, everOpened,
                   revivable>>

NewerBuildMigrates ==
    /\ storeAt # NoStore /\ stores[storeAt].version \in 1..Latest
    /\ stores' = [stores EXCEPT ![storeAt].version = Newer]
    /\ UNCHANGED <<openPc, missing>> /\ UNCHANGEDbutStores

OpenNext ==
    \/ \E p \in Openers :
        \/ CheckMarker(p) \/ CheckTarget(p) \/ Snapshot(p) \/ LinkSnapshot(p) \/ MarkCopied(p)
        \/ PrepareFile(p) \/ AssertSupported(p) \/ LookForTables(p) \/ CreateSchema(p)
        \/ ReadVersion(p) \/ Migrate(p) \/ ListTables(p) \/ AddTables(p) \/ StoreUsage(p)
        \/ Die(p)
    \/ DeleteLedger \/ NewerBuildMigrates

OpenSpec == OpenInit /\ [][OpenNext]_openVars

----------------------------------------------------------------------------
(* Concurrent first runs never replace one another's ledger: what a run
   stored, and what it imported, stays at the path until the user deletes it.
   (The snapshot is linked, not renamed.)                                   *)
LedgerKept ==
    [][storeAt # NoStore /\ resets' = resets =>
         /\ storeAt' = storeAt
         /\ stores[storeAt].rows \subseteq stores'[storeAt].rows]_openVars

(* A ledger that was in use and then deleted stays empty: the old one, whose
   usage may have been pruned since, is not imported again, although a run may
   die between its copy and the marker that records it.  A copy under way as
   the ledger is deleted is the exception.                                  *)
OldNotRevived ==
    resets > 0 /\ storeAt # NoStore /\ ~revivable => OldUsage \notin stores[storeAt].rows

(* Each schema step is taken once, in order, whoever takes it; and a run that
   has the store open finds it complete, unless a newer build raised it.    *)
SchemaSound ==
    \A i \in Inodes : stores[i] # NoStore =>
        LET s == stores[i].steps IN
        /\ \A j, k \in 1..Len(s) : j < k => 0 < s[j] /\ s[j] < s[k]
        /\ \A p \in Openers : openPc[p] = "open" /\ handle[p] = i =>
              /\ stores[i].version \in {Latest, Newer}
              /\ stores[i].version = Latest => stores[i].tables = AddedTables
==============================================================================
