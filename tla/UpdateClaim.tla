----------------------------- MODULE UpdateClaim -----------------------------
(***************************************************************************)
(* The update check of concurrent runs (src/update/update-notifier.ts and  *)
(* update-cache-repository.ts).  A run serves a fresh cached version, or   *)
(* asks the registry, within the grace its exit leaves.  A run that is cut *)
(* short claims a background refresh: it reads the time of the last        *)
(* attempt, writes its own, and starts a detached process that does the    *)
(* same check with no grace.  The read and the write are two steps.        *)
(***************************************************************************)
EXTENDS Integers

CONSTANTS
    Checkers,   \* the runs that check for updates
    CiRuns,     \* those that run in CI
    CheckTtl,   \* cacheTtlMs
    CheckTries, \* requests per check, the first one included
    MaxHour,    \* bound: the clock
    MaxRelease  \* bound: the versions the registry comes to have

ASSUME UpdateClaimAssumption ==
    /\ CiRuns \subseteq Checkers
    /\ {CheckTtl, CheckTries, MaxHour, MaxRelease} \subseteq Nat \ {0}

VARIABLES
    hour,       \* the clock
    release,    \* the registry's latest version
    cached,     \* the cache file: when it was written, and its version
    attempt,    \* the attempt file: when a refresh was last claimed
    check,      \* each run, and then the refresh process it started
    claimedAt   \* history: when a run claimed the refresh

updateVars == <<hour, release, cached, attempt, check, claimedAt>>

Unwritten == -1         \* a time no file holds
NoVersion == 0
Hours == Unwritten .. MaxHour

IdleCheck == [role |-> "run", at |-> "reading", saw |-> [on |-> Unwritten, version |-> NoVersion],
              tries |-> 0, found |-> NoVersion, aborted |-> FALSE, before |-> {}]

\* A mutant: the interval's last moment left out.
IsFreshForLess(time) == time # Unwritten /\ time <= hour /\ hour - time < CheckTtl

\* isCacheFresh: a time ahead of the clock is not fresh.
IsFresh(time) == time # Unwritten /\ time <= hour /\ hour - time <= CheckTtl

\* A check that is done is forgotten.
Sees(c, places, next) ==
    /\ check[c].at \in places
    /\ check' = [check EXCEPT ![c] = IF next.at = "done" THEN [IdleCheck EXCEPT !.at = "done"] ELSE next]

\* resolveLatestVersion reads the cache; an abort is noticed before it is served.
ReadCached(c) ==
    /\ Sees(c, {"reading"},
            [check[c] EXCEPT !.saw = cached,
                             !.at = IF check[c].aborted THEN "resolved"
                                    ELSE IF IsFresh(cached.on) THEN "resolved" ELSE "asking",
                             !.found = IF ~check[c].aborted /\ IsFresh(cached.on)
                                       THEN cached.version ELSE NoVersion])
    /\ UNCHANGED <<hour, release, cached, attempt, claimedAt>>

\* The registry answers with its latest version.
RegistryAnswers(c) ==
    /\ Sees(c, {"asking"},
            IF check[c].aborted
            THEN [check[c] EXCEPT !.at = "resolved"]
            ELSE [check[c] EXCEPT !.at = "caching", !.found = release])
    /\ UNCHANGED <<hour, release, cached, attempt, claimedAt>>

\* A request fails: a retryable failure is asked again, until the tries are used up.
RegistryFails(c, retryable) ==
    /\ Sees(c, {"asking"},
            IF check[c].aborted
            THEN [check[c] EXCEPT !.at = "resolved"]
            ELSE IF retryable /\ check[c].tries + 1 < CheckTries
            THEN [check[c] EXCEPT !.tries = @ + 1]
            ELSE [check[c] EXCEPT !.at = "resolved", !.found = check[c].saw.version])
    /\ UNCHANGED <<hour, release, cached, attempt, claimedAt>>

\* The cache is written as well as it can; the version is served either way.
CacheVersion(c, written) ==
    /\ cached' = IF written THEN [on |-> hour, version |-> check[c].found] ELSE cached
    /\ Sees(c, {"caching"}, [check[c] EXCEPT !.at = "resolved"])
    /\ UNCHANGED <<hour, release, attempt, claimedAt>>

\* checkForUpdates: a check that was cut short goes on to claim a refresh.
EndCheck(c) ==
    /\ Sees(c, {"resolved"},
            [check[c] EXCEPT !.at = IF check[c].role = "run" /\ check[c].aborted /\ c \notin CiRuns
                                    THEN "claiming" ELSE "done"])
    /\ UNCHANGED <<hour, release, cached, attempt, claimedAt>>

\* claimBackgroundRefresh reads the last attempt ...
ReadAttempt(c) ==
    /\ Sees(c, {"claiming"},
            [check[c] EXCEPT !.at = IF IsFresh(attempt) THEN "done" ELSE "attempting",
                             !.before = {d \in Checkers : claimedAt[d] # Unwritten}])
    /\ UNCHANGED <<hour, release, cached, attempt, claimedAt>>

\* ... and writes its own, then the refresh process starts with a check of its own.
ClaimRefresh(c) ==
    /\ attempt' = hour
    /\ claimedAt' = [claimedAt EXCEPT ![c] = hour]
    /\ Sees(c, {"attempting"}, [IdleCheck EXCEPT !.role = "refresh", !.before = check[c].before])
    /\ UNCHANGED <<hour, release, cached>>

\* The attempt cannot be written, so no process is started.
ClaimFails(c) ==
    /\ Sees(c, {"attempting"}, [check[c] EXCEPT !.at = "done"])
    /\ UNCHANGED <<hour, release, cached, attempt, claimedAt>>

\* The grace of the run's exit ends.
AbortCheck(c) ==
    /\ check[c].role = "run" /\ ~check[c].aborted
    /\ Sees(c, {"reading", "asking", "caching"}, [check[c] EXCEPT !.aborted = TRUE])
    /\ UNCHANGED <<hour, release, cached, attempt, claimedAt>>

\* A run, or the process it started, is killed.
CheckDies(c) ==
    /\ Sees(c, {"reading", "asking", "caching", "claiming", "attempting"},
            [check[c] EXCEPT !.at = "done"])
    /\ UNCHANGED <<hour, release, cached, attempt, claimedAt>>

HourPasses ==
    /\ hour < MaxHour
    /\ hour' = hour + 1
    /\ UNCHANGED <<release, cached, attempt, check, claimedAt>>

Publish ==
    /\ release < MaxRelease
    /\ release' = release + 1
    /\ UNCHANGED <<hour, cached, attempt, check, claimedAt>>

\* The files an earlier run left, whose clock may have been ahead.
UpdateInit ==
    /\ hour = 0 /\ release = 1
    /\ cached \in {[on |-> Unwritten, version |-> NoVersion], [on |-> 0, version |-> 1]}
    /\ attempt \in {Unwritten, 0, 1}
    /\ check = [c \in Checkers |-> IdleCheck]
    /\ claimedAt = [c \in Checkers |-> Unwritten]

UpdateNext ==
    \/ HourPasses \/ Publish
    \/ \E c \in Checkers :
        \/ ReadCached(c) \/ RegistryAnswers(c) \/ EndCheck(c) \/ ReadAttempt(c)
        \/ \E yes \in BOOLEAN : RegistryFails(c, yes) \/ CacheVersion(c, yes)
        \/ ClaimRefresh(c) \/ ClaimFails(c) \/ AbortCheck(c) \/ CheckDies(c)

UpdateSpec == UpdateInit /\ [][UpdateNext]_updateVars

UpdateTypeOK ==
    /\ hour \in 0 .. MaxHour /\ release \in 1 .. MaxRelease
    /\ cached \in [on : Hours, version : 0 .. MaxRelease]
    /\ attempt \in Hours
    /\ check \in [Checkers -> [role : {"run", "refresh"},
                               at : {"reading", "asking", "caching", "resolved", "claiming",
                                     "attempting", "done"},
                               saw : [on : Hours, version : 0 .. MaxRelease],
                               tries : 0 .. CheckTries - 1, found : 0 .. MaxRelease,
                               aborted : BOOLEAN, before : SUBSET Checkers]]
    /\ claimedAt \in [Checkers -> Hours]

(***************************************************************************)
(* claimBackgroundRefresh is true at most once per interval, except for    *)
(* runs that read the attempt file before one another wrote it: a run that *)
(* looks after a claim starts no second refresh within that claim's        *)
(* interval, whatever dies, fails or is cut short meanwhile.               *)
(***************************************************************************)
RefreshClaims ==
    [][\A c \in Checkers : claimedAt'[c] # claimedAt[c] =>
           \A d \in check[c].before : hour - claimedAt[d] > CheckTtl]_updateVars

=============================================================================
