----------------------------- MODULE MachineSync -----------------------------
(***************************************************************************)
(* The cached usage of one machine of the config (machine-cache.ts,        *)
(* sync-machine.ts, refresh-machines.ts, run-machine-commands.ts): reports *)
(* that refresh it when it is due, `sync`, `machine add` and `machine      *)
(* remove`, over exports that take their time and are incremental: a sync  *)
(* asks only for the files whose revision changed.                         *)
(*                                                                         *)
(* An edit of the config is one step, as ConfigEdits shows.  A cache is an *)
(* inode, numbered as they are created: a sync that opened one keeps it    *)
(* when it is deleted.                                                     *)
(***************************************************************************)
EXTENDS Integers, Sequences, FiniteSets

CONSTANTS Commands,      \* runs at the same time
          Dests,         \* ssh destinations
          SessionFiles,  \* the session files of a machine
          Interval,      \* MACHINE_REFRESH_INTERVAL_MS
          MaxRuns,       \* bound: runs one after another
          MaxTime,       \* bound: the clock
          MaxEdits,      \* bound: changes of session files
          MaxHappenings, \* bound: runs, changes and ticks of the clock together
          Nothing        \* no file, no entry

ASSUME MachineAssumption ==
    /\ {Interval, MaxRuns, MaxTime, MaxEdits, MaxHappenings} \subseteq Nat
    /\ Dests # {}

VARIABLES
    time, edits, runs,
    remote,      \* per destination, the revision of each file
    past,        \* every state each destination was in (history)
    entry,       \* the destination in the config
    cacheAt,     \* the number of the cache at its path, 0 if there is none
    caches,      \* each cache: the revisions it holds, whether this version stored them
                 \* (sessionEventsKept), the later of syncedAt and attemptedAt, and the
                 \* time of the last claim (history)
    cmd,         \* each run: where it is, what it is, the destination it found in the
                 \* config or was given, the time it read before it looked whether a
                 \* sync is due, and the cache it opened
    known,       \* the files it says it has (machine export --known)
    bundle       \* the export it fetched: what is listed, and what was sent

machineVars == <<time, edits, runs, remote, past, entry, cacheAt, caches, cmd, known, bundle>>
worldVars == <<time, edits, remote, past>>
runVars == <<runs, known, bundle>>

NoFiles == [f \in SessionFiles |-> Nothing]
NewCache == [files |-> NoFiles, kept |-> FALSE, last |-> 0, claimed |-> -Interval]
IdleRun == [at |-> "idle", role |-> "none", dest |-> Nothing, read |-> 0, cache |-> 0]
Revision(d, n) == <<d, n>>

\* A machine that was synced before, by this version or an older one, or none.  (The
\* destinations are alike, so it may be any of them.)
MachineInit ==
    /\ time = Interval /\ edits = 0 /\ runs = 0
    /\ remote = [d \in Dests |-> [f \in SessionFiles |-> Revision(d, 0)]]
    /\ past = [d \in Dests |-> {remote[d]}]
    /\ \/ \E d \in {CHOOSE d \in Dests : TRUE}, kept \in BOOLEAN :
            /\ entry = d /\ cacheAt = 1
            /\ caches = << [NewCache EXCEPT !.files = remote[d], !.kept = kept] >>
       \/ entry = Nothing /\ cacheAt = 0 /\ caches = <<>>
    /\ cmd = [p \in Commands |-> IdleRun]
    /\ known = [p \in Commands |-> NoFiles]
    /\ bundle = [p \in Commands |-> [listed |-> NoFiles, sent |-> {}]]

GoesAs(p, from, next) == cmd[p].at = from /\ cmd' = [cmd EXCEPT ![p] = next]
Goes(p, from, to) == GoesAs(p, from, IF to = "idle" THEN IdleRun ELSE [cmd[p] EXCEPT !.at = to])

----------------------------------------------------------------------------
Bounded == runs + edits + time - Interval < MaxHappenings

\* The clock, and the remote machine's tools and its clean-ups: external.
Tick ==
    /\ time < MaxTime /\ Bounded /\ time' = time + 1
    /\ UNCHANGED <<edits, remote, past, entry, cacheAt, caches, cmd, runVars>>
RemoteEdits ==
    /\ edits < MaxEdits /\ Bounded /\ edits' = edits + 1
    /\ \E d \in Dests, f \in SessionFiles, gone \in BOOLEAN :
         /\ remote' = [remote EXCEPT ![d][f] = IF gone THEN Nothing ELSE Revision(d, edits + 1)]
         /\ past' = [past EXCEPT ![d] = @ \cup {remote'[d]}]
    /\ UNCHANGED <<time, entry, cacheAt, caches, cmd, runVars>>

----------------------------------------------------------------------------
\* Each run loads the config first: it must list the machine, or must not.
Begin(p, role, first, d) ==
    /\ runs < MaxRuns /\ Bounded /\ runs' = runs + 1
    /\ GoesAs(p, "idle", [IdleRun EXCEPT !.at = first, !.role = role, !.dest = d])
    /\ UNCHANGED <<worldVars, entry, cacheAt, caches, known, bundle>>
BeginListed(p) ==
    /\ entry # Nothing
    /\ \/ Begin(p, "report", "look", entry) \/ Begin(p, "sync", "open", entry)
       \/ Begin(p, "remove", "unlist", entry)
BeginAdd(p) == entry = Nothing /\ \E d \in Dests : Begin(p, "add", "delete", d)

Later(m, n) == IF m > n THEN m ELSE n
IsDue(cache, now) == now - cache.last >= Interval

\* claimDueSync reads the clock, and takes a cheap look without a lock.
LookWhetherDue(p) ==
    /\ GoesAs(p, "look", IF cacheAt # 0 => IsDue(caches[cacheAt], time)
                         THEN [cmd[p] EXCEPT !.at = "claim", !.read = time] ELSE IdleRun)
    /\ UNCHANGED <<worldVars, runVars, entry, cacheAt, caches>>

\* openMachineCache: a cache that is not there is created (openEventStore).
Opened == IF cacheAt = 0 THEN Append(caches, NewCache) ELSE caches
OpenedAt == IF cacheAt = 0 THEN Len(caches) + 1 ELSE cacheAt

\* (mutant) The claim trusts the look.
ClaimsAsSeen(cache, now) == TRUE

\* claimMachineSync, under the write lock: with the time read before the look.
Claims(cache, now) == IsDue(cache, now)

\* The claim may also fail, when the cache is busy.
ClaimSync(p) ==
    /\ cacheAt' = OpenedAt
    /\ \/ /\ GoesAs(p, "claim", [cmd[p] EXCEPT !.at = "open", !.read = 0])
          /\ Claims(Opened[OpenedAt], cmd[p].read)
          /\ caches' = [Opened EXCEPT ![OpenedAt].last = Later(@, cmd[p].read),
                                      ![OpenedAt].claimed = cmd[p].read]
       \/ /\ Goes(p, "claim", "idle")
          /\ caches' = Opened
    /\ UNCHANGED <<worldVars, runVars, entry>>

\* syncMachine opens the cache, and a `sync` records its attempt, if it can.
OpenCache(p) ==
    /\ GoesAs(p, "open", [cmd[p] EXCEPT !.at = "known", !.cache = OpenedAt])
    /\ cacheAt' = OpenedAt
    /\ \/ caches' = Opened
       \/ cmd[p].role = "sync" /\ caches' = [Opened EXCEPT ![OpenedAt].last = time]
    /\ UNCHANGED <<worldVars, runVars, entry>>

\* readKnownFiles: none that an older version stored, none for `machine add` or
\* `sync --full`.
ReadKnown(p) ==
    /\ Goes(p, "known", "fetch")
    /\ \/ /\ cmd[p].role # "add" /\ caches[cmd[p].cache].kept
          /\ known' = [known EXCEPT ![p] = caches[cmd[p].cache].files]
       \/ /\ cmd[p].role # "report" \/ ~caches[cmd[p].cache].kept
          /\ UNCHANGED known
    /\ UNCHANGED <<worldVars, runs, entry, cacheAt, caches, bundle>>

\* fetchMachineExport: every file is listed, the changed ones are sent.  It may
\* fail, time out, or be aborted.
Fetch(p) ==
    LET listed == remote[cmd[p].dest] IN
    /\ \/ /\ Goes(p, "fetch", "apply")
          /\ bundle' = [bundle EXCEPT ![p] =
               [listed |-> listed,
                sent |-> {f \in SessionFiles : listed[f] \notin {Nothing, known[p][f]}}]]
       \/ Goes(p, "fetch", "fail") /\ UNCHANGED bundle
    /\ known' = [known EXCEPT ![p] = NoFiles]
    /\ UNCHANGED <<worldVars, runs, entry, cacheAt, caches>>

\* What the cache holds once the sent files are stored and the unlisted removed.
Merged(p) ==
    [f \in SessionFiles |-> CASE bundle[p].listed[f] = Nothing -> Nothing
                              [] f \in bundle[p].sent -> bundle[p].listed[f]
                              [] OTHER -> caches[cmd[p].cache].files[f]]

\* (mutant) What the cache holds in the end is not compared with the listing.
AppliesUnchecked(p) == TRUE

\* The cache must hold exactly the files and revisions listed.
Applies(p) == Merged(p) = bundle[p].listed

\* applyMachineExport: one transaction, or nothing.
ApplyExport(p) ==
    /\ \/ /\ Goes(p, "apply", IF cmd[p].role = "add" THEN "list" ELSE "idle")
          /\ Applies(p)
          /\ caches' = [caches EXCEPT ![cmd[p].cache].files = Merged(p),
                                      ![cmd[p].cache].kept = TRUE,
                                      ![cmd[p].cache].last = time]
       \/ Goes(p, "apply", "fail") /\ UNCHANGED caches
    /\ bundle' = [bundle EXCEPT ![p] = [listed |-> NoFiles, sent |-> {}]]
    /\ UNCHANGED <<worldVars, runs, entry, cacheAt, known>>

\* The failure is recorded, unless the sync was aborted or the cache is busy.
FailSync(p) ==
    /\ Goes(p, "fail", IF cmd[p].role = "add" THEN "undo" ELSE "idle")
    /\ \/ caches' = [caches EXCEPT ![cmd[p].cache].last = time]
       \/ UNCHANGED caches
    /\ UNCHANGED <<worldVars, entry, cacheAt, runVars>>

\* deleteMachineCache: before and after a failed `machine add`, and as the last
\* part of `machine remove`.
DeleteCache(p) ==
    /\ Goes(p, "delete", "open") \/ Goes(p, "undo", "idle") \/ Goes(p, "drop", "idle")
    /\ cacheAt' = 0
    /\ UNCHANGED <<worldVars, entry, caches, runVars>>

\* addMachineToConfigFile, which refuses a name that is there by now.
ListMachine(p) ==
    /\ Goes(p, "list", "idle")
    /\ entry' = IF entry = Nothing THEN cmd[p].dest ELSE entry
    /\ UNCHANGED <<worldVars, cacheAt, caches, runVars>>

\* removeMachineFromConfigFile.
UnlistMachine(p) ==
    /\ Goes(p, "unlist", IF entry = Nothing THEN "idle" ELSE "drop")
    /\ entry' = Nothing
    /\ UNCHANGED <<worldVars, cacheAt, caches, runVars>>

MachineNext ==
    \/ Tick \/ RemoteEdits
    \/ \E p \in Commands :
        \/ BeginListed(p) \/ BeginAdd(p) \/ LookWhetherDue(p) \/ ClaimSync(p)
        \/ OpenCache(p) \/ ReadKnown(p) \/ Fetch(p) \/ ApplyExport(p) \/ FailSync(p)
        \/ DeleteCache(p) \/ ListMachine(p) \/ UnlistMachine(p)

MachineSpec == MachineInit /\ [][MachineNext]_machineVars

----------------------------------------------------------------------------
(* A cache holds what one machine had at one time, never a mix of two exports
   or of two machines, however syncs overtake each other: a slow, incremental
   export that no longer fits what a faster sync stored changes nothing.  (It
   may be an older state than the one before.)                              *)
CacheIsOneExport ==
    \A c \in 1..Len(caches) :
        caches[c].files = NoFiles \/ \E d \in Dests : caches[c].files \in past[d]

(* Of the reports that find a cache stale one syncs it: two claims of one
   cache are Interval apart, by the times the reports go by, which they read
   before they waited for the write lock.                                   *)
OneSyncPerInterval ==
    [][\A c \in 1..Len(caches) : caches'[c].claimed # caches[c].claimed =>
         caches'[c].claimed - caches[c].claimed >= Interval]_machineVars
==============================================================================
