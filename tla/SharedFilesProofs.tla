--------------------------- MODULE SharedFilesProofs ---------------------------
(* The files that every run of the program shares: its config, the record of    *)
(* its update check, its ledger as runs create, copy and migrate it, the        *)
(* caches of other machines' usage, and the lock of its statusline.             *)
EXTENDS ConfigEdits, UpdateClaim, FirstRun, MachineSync, StatuslineLock, SequenceTheorems,
        FiniteSetTheorems, TLAPS

----------------------------------------------------------------------------
(* ConfigEdits, for any number of runs that edit one config, that die with its
   lock, and for a user who deletes the lock a dead run left: no edit drops
   another's.                                                                 *)

(* What each step keeps: the types, and that the lock file names the only   *)
(* live run that edits, and that run's copy is the file.                    *)
EditInv == EditTypeOK /\ LockGuards

LEMMA EditInitHolds == EditInit => EditInv
  BY DEF EditInit, EditInv, EditTypeOK, LockGuards, Editing

(* A run that finds no lock file is the only live one to edit: a live editor
   would have its own there (withConfigLock).                               *)
LEMMA TakeLockKeepsInv ==
  ASSUME EditInv, NEW e \in Editors, TakeLock(e)
  PROVE  EditInv'
  <1> USE DEF EditInv, EditTypeOK, LockGuards, Editing
  <1>1. CASE LockFree
    <2>1. /\ editPc' = [editPc EXCEPT ![e] = "read"] /\ configLock' = e
          /\ UNCHANGED <<config, base, dead>>
      BY <1>1 DEF TakeLock, EditStep
    <2>2. \A f \in Editors : Editing(f) => f \in dead
      BY <1>1, ConfigAssumption DEF LockFree
    <2>3. EditTypeOK'
      BY <2>1
    <2>4. LockGuards'
      BY <2>1, <2>2
    <2>5. QED
      BY <2>3, <2>4
  <1>2. CASE ~LockFree
    <2>1. /\ editPc' = [editPc EXCEPT ![e] = "failed"]
          /\ UNCHANGED <<config, configLock, base, dead>>
      BY <1>2 DEF TakeLock, EditStep
    <2>2. QED
      BY <2>1
  <1>3. QED
    BY <1>1, <1>2

LEMMA ReadConfigKeepsInv ==
  ASSUME EditInv, NEW e \in Editors, ReadConfig(e)
  PROVE  EditInv'
  <1>1. /\ editPc[e] = "read" /\ e \notin dead
        /\ editPc' = [editPc EXCEPT ![e] = "replace"] /\ base' = [base EXCEPT ![e] = config]
        /\ UNCHANGED <<config, configLock, dead>>
    BY DEF ReadConfig, EditStep
  <1>2. EditTypeOK'
    BY <1>1 DEF EditInv, EditTypeOK
  <1>3. LockGuards'
    BY <1>1 DEF EditInv, EditTypeOK, LockGuards, Editing
  <1>4. QED
    BY <1>2, <1>3 DEF EditInv

(* The run that replaces the file has the lock, so no other live run's copy
   is made old by it.                                                       *)
LEMMA ReplaceConfigKeepsInv ==
  ASSUME EditInv, NEW e \in Editors, ReplaceConfig(e)
  PROVE  EditInv'
  <1>1. /\ editPc[e] = "replace" /\ e \notin dead
        /\ \/ editPc' = [editPc EXCEPT ![e] = "edited"] /\ config' = Edit(e, base[e])
           \/ editPc' = [editPc EXCEPT ![e] = "refused"] /\ config' = config
        /\ UNCHANGED <<configLock, base, dead>>
    BY DEF ReplaceConfig, EditStep
  <1>2. Edit(e, base[e]) \subseteq Machines
    BY DEF EditInv, EditTypeOK, Edit, Machines
  <1>3. EditTypeOK'
    BY <1>1, <1>2 DEF EditInv, EditTypeOK
  <1>4. \A f \in Editors : Editing(f) /\ f \notin dead => f = e
    BY <1>1 DEF EditInv, LockGuards, Editing
  <1>5. LockGuards'
    BY <1>1, <1>4 DEF EditInv, EditTypeOK, LockGuards, Editing
  <1>6. QED
    BY <1>3, <1>5 DEF EditInv

LEMMA UnlockKeepsInv ==
  ASSUME EditInv, NEW e \in Editors, Unlock(e)
  PROVE  EditInv'
  <1>1. /\ editPc[e] \in {"edited", "refused"} /\ e \notin dead
        /\ \/ editPc' = [editPc EXCEPT ![e] = "done"] \/ editPc' = [editPc EXCEPT ![e] = "failed"]
        /\ configLock' = NoEditor
        /\ UNCHANGED <<config, base, dead>>
    BY DEF Unlock, EditStep
  <1>2. EditTypeOK'
    BY <1>1 DEF EditInv, EditTypeOK
  <1>3. \A f \in Editors : Editing(f) /\ f \notin dead => f = e
    BY <1>1 DEF EditInv, LockGuards, Editing
  <1>4. LockGuards'
    BY <1>1, <1>3 DEF EditInv, EditTypeOK, LockGuards, Editing
  <1>5. QED
    BY <1>2, <1>4 DEF EditInv

LEMMA DieEditingKeepsInv ==
  ASSUME EditInv, NEW e \in Editors, DieEditing(e)
  PROVE  EditInv'
  BY DEF EditInv, EditTypeOK, LockGuards, Editing, DieEditing

(* The lock of a dead run is deleted: while it was there no live run edited. *)
LEMMA DeleteLockKeepsInv ==
  ASSUME EditInv, DeleteLock
  PROVE  EditInv'
  <1>1. \A f \in Editors : Editing(f) => f \in dead
    BY DEF EditInv, LockGuards, DeleteLock
  <1>2. QED
    BY <1>1 DEF EditInv, EditTypeOK, LockGuards, Editing, DeleteLock

LEMMA EditStepKeepsInv == EditInv /\ [EditNext]_editVars => EditInv'
  <1> SUFFICES ASSUME EditInv, [EditNext]_editVars PROVE EditInv'
    OBVIOUS
  <1>1. CASE UNCHANGED editVars
    BY <1>1 DEF EditInv, EditTypeOK, LockGuards, Editing, editVars
  <1>2. CASE EditNext
    BY <1>2, TakeLockKeepsInv, ReadConfigKeepsInv, ReplaceConfigKeepsInv, UnlockKeepsInv,
       DieEditingKeepsInv, DeleteLockKeepsInv DEF EditNext
  <1>3. QED
    BY <1>1, <1>2

(* The lock file names the only live run that edits, and what that run read
   is still the file (withConfigLock), whoever died or was cleaned up after. *)
THEOREM ConfigLockGuards == EditSpec => [](EditTypeOK /\ LockGuards)
  <1>1. EditSpec => []EditInv
    BY EditInitHolds, EditStepKeepsInv, PTL DEF EditSpec
  <1>2. QED
    BY <1>1, PTL DEF EditInv

(* Only the rename writes the file, and it writes what the file is with one
   machine added or removed, since the run's copy is still the file.        *)
LEMMA EditsFollowFile ==
  ASSUME EditInv, [EditNext]_editVars, config' # config
  PROVE  \E e \in Editors : config' = Edit(e, config)
  <1>1. PICK e \in Editors : ReplaceConfig(e)
    BY DEF EditNext, editVars, TakeLock, ReadConfig, Unlock, DieEditing, DeleteLock
  <1>2. config' = Edit(e, base[e]) /\ base[e] = config
    BY <1>1 DEF ReplaceConfig, EditStep, EditInv, LockGuards
  <1>3. QED
    BY <1>2

(* Every write of the config is the file as it is at that moment with one
   machine added or removed, whatever other runs did between the read and
   the rename (addMachineUnderLock, removeMachineUnderLock).                *)
THEOREM EditsAreKept == EditSpec => NoEditLost
  <1>1. EditInv /\ [EditNext]_editVars =>
          [config' # config => \E e \in Editors : config' = Edit(e, config)]_editVars
    BY EditsFollowFile
  <1>2. EditSpec => []EditInv
    BY EditInitHolds, EditStepKeepsInv, PTL DEF EditSpec
  <1>3. QED
    BY <1>1, <1>2, PTL DEF EditSpec, NoEditLost

----------------------------------------------------------------------------
(* UpdateClaim, for any number of runs, and however long they take: no
   background refresh is claimed within the interval of a claim that the run
   could have seen.                                                           *)

(* A run that claimed has become its refresh process, or is done: it does not
   claim again.                                                               *)
ClaimsOnce ==
    \A c \in Checkers :
        /\ check[c].role = "refresh" => check[c].at \notin {"claiming", "attempting"}
        /\ claimedAt[c] # Unwritten => check[c].role = "refresh" \/ check[c].at = "done"

(* The attempt file is as late as every claim, and no later than now.         *)
AttemptIsLatest ==
    \A d \in Checkers : claimedAt[d] # Unwritten => claimedAt[d] <= attempt /\ attempt <= hour

(* A run about to claim found those it saw past their interval.               *)
SeenAreOver ==
    \A c \in Checkers : check[c].at = "attempting" =>
        \A d \in check[c].before : claimedAt[d] # Unwritten /\ hour - claimedAt[d] > CheckTtl

ClaimInv == UpdateTypeOK /\ ClaimsOnce /\ AttemptIsLatest /\ SeenAreOver

Places == {"reading", "asking", "caching", "resolved", "claiming", "attempting", "done"}
Versions == 0 .. MaxRelease
CheckType == [role : {"run", "refresh"}, at : Places, saw : [on : Hours, version : Versions],
              tries : 0 .. CheckTries - 1, found : Versions, aborted : BOOLEAN,
              before : SUBSET Checkers]

LEMMA PlacesAre ==
  /\ "reading" \in Places /\ "asking" \in Places /\ "caching" \in Places /\ "resolved" \in Places
  /\ "claiming" \in Places /\ "attempting" \in Places /\ "done" \in Places
  BY DEF Places

LEMMA IdleIsCheck == IdleCheck \in CheckType /\ [IdleCheck EXCEPT !.at = "done"] \in CheckType
  <1>1. IdleCheck \in CheckType
    BY UpdateClaimAssumption DEF IdleCheck, CheckType, Places, Versions, Hours, Unwritten, NoVersion
  <1>2. QED
    BY <1>1, PlacesAre DEF CheckType

LEMMA ClaimInitHolds == UpdateInit => ClaimInv
  <1> SUFFICES ASSUME UpdateInit PROVE ClaimInv
    OBVIOUS
  <1>1. UpdateTypeOK
    BY UpdateClaimAssumption, IdleIsCheck
    DEF UpdateInit, UpdateTypeOK, CheckType, Places, Versions, Hours, Unwritten, NoVersion
  <1>2. ClaimsOnce /\ AttemptIsLatest /\ SeenAreOver
    BY DEF UpdateInit, ClaimsOnce, AttemptIsLatest, SeenAreOver, IdleCheck
  <1>3. QED
    BY <1>1, <1>2 DEF ClaimInv

(* A step of one run that claims nothing and writes no attempt keeps the
   invariant, if its new state is one of a run that is not about to claim, or
   that found every claim it saw over.                                        *)
LEMMA QuietStepKeepsInv ==
  ASSUME ClaimInv, NEW c \in Checkers, NEW next \in CheckType,
         check' = [check EXCEPT ![c] = next],
         UNCHANGED <<hour, release, attempt, claimedAt>>,
         cached' \in [on : Hours, version : Versions],
         check[c].role = "refresh" => next.role = "refresh" \/ next.at = "done",
         next.role = "refresh" => next.at \notin {"claiming", "attempting"},
         check[c].at = "done" => next.at = "done",
         next.at = "attempting" =>
             \A d \in next.before : claimedAt[d] # Unwritten /\ hour - claimedAt[d] > CheckTtl
  PROVE  ClaimInv'
  <1>1. UpdateTypeOK'
    BY DEF ClaimInv, UpdateTypeOK, CheckType, Places, Versions
  <1>2. \A d \in Checkers : check'[d] = IF d = c THEN next ELSE check[d]
    BY DEF ClaimInv, UpdateTypeOK
  <1>3. ClaimsOnce'
    BY <1>2 DEF ClaimInv, ClaimsOnce
  <1>4. AttemptIsLatest'
    BY DEF ClaimInv, AttemptIsLatest
  <1>5. SeenAreOver'
    BY <1>2 DEF ClaimInv, SeenAreOver
  <1>6. QED
    BY <1>1, <1>3, <1>4, <1>5 DEF ClaimInv

(* What Sees makes of a run whose next state is well formed: that state, or a
   forgotten one.                                                             *)
LEMMA SeesKeepsInv ==
  ASSUME ClaimInv, NEW c \in Checkers, NEW places, NEW next \in CheckType,
         Sees(c, places, next), "done" \notin places,
         UNCHANGED <<hour, release, attempt, claimedAt>>,
         cached' \in [on : Hours, version : Versions],
         next.role = check[c].role,
         check[c].role = "refresh" => next.at \notin {"claiming", "attempting"},
         next.at = "attempting" =>
             \A d \in next.before : claimedAt[d] # Unwritten /\ hour - claimedAt[d] > CheckTtl
  PROVE  ClaimInv'
  <1>1. CASE next.at = "done"
    <2>1. check' = [check EXCEPT ![c] = [IdleCheck EXCEPT !.at = "done"]]
      BY <1>1 DEF Sees
    <2>2. [IdleCheck EXCEPT !.at = "done"].at = "done" /\ [IdleCheck EXCEPT !.at = "done"].role = "run"
      BY DEF IdleCheck
    <2>3. QED
      BY <2>1, <2>2, IdleIsCheck, QuietStepKeepsInv
  <1>2. CASE next.at # "done"
    <2>1. check' = [check EXCEPT ![c] = next] /\ check[c].at # "done"
      BY <1>2 DEF Sees
    <2>2. QED
      BY <2>1, QuietStepKeepsInv
  <1>3. QED
    BY <1>1, <1>2

LEMMA CheckTyped == ClaimInv => check \in [Checkers -> CheckType] /\ cached \in [on : Hours, version : Versions]
  BY DEF ClaimInv, UpdateTypeOK, CheckType, Places, Versions

LEMMA ReadCachedKeepsInv ==
  ASSUME ClaimInv, NEW c \in Checkers, ReadCached(c) PROVE ClaimInv'
  <1> DEFINE place == IF check[c].aborted THEN "resolved"
                      ELSE IF IsFresh(cached.on) THEN "resolved" ELSE "asking"
             version == IF ~check[c].aborted /\ IsFresh(cached.on) THEN cached.version ELSE NoVersion
             next == [check[c] EXCEPT !.saw = cached, !.at = place, !.found = version]
  <1>1. place \in {"resolved", "asking"} /\ version \in Versions
    BY CheckTyped, UpdateClaimAssumption DEF NoVersion, Versions
  <1>2. check[c] \in CheckType /\ cached \in [on : Hours, version : Versions]
    BY CheckTyped
  <1>3. Sees(c, {"reading"}, next) /\ UNCHANGED <<hour, release, cached, attempt, claimedAt>>
    BY DEF ReadCached
  <1> HIDE DEF place, version
  <1>4. next \in CheckType /\ next.role = check[c].role /\ next.at = place
    BY <1>1, <1>2 DEF CheckType, Places
  <1>5. QED
    BY <1>1, <1>2, <1>3, <1>4, SeesKeepsInv

LEMMA RegistryAnswersKeepsInv ==
  ASSUME ClaimInv, NEW c \in Checkers, RegistryAnswers(c) PROVE ClaimInv'
  <1> DEFINE next == IF check[c].aborted
                     THEN [check[c] EXCEPT !.at = "resolved"]
                     ELSE [check[c] EXCEPT !.at = "caching", !.found = release]
  <1>1. release \in Versions /\ check[c] \in CheckType
    BY CheckTyped, UpdateClaimAssumption DEF ClaimInv, UpdateTypeOK, Versions
  <1>2. next \in CheckType /\ next.role = check[c].role /\ next.at \in {"resolved", "caching"}
    <2>1. CASE check[c].aborted
      BY <2>1, <1>1, PlacesAre DEF CheckType
    <2>2. CASE ~check[c].aborted
      BY <2>2, <1>1, PlacesAre DEF CheckType
    <2>3. QED
      BY <2>1, <2>2
  <1>3. Sees(c, {"asking"}, next) /\ UNCHANGED <<hour, release, cached, attempt, claimedAt>>
    BY DEF RegistryAnswers
  <1>4. QED
    BY <1>2, <1>3, CheckTyped, SeesKeepsInv

LEMMA RegistryFailsKeepsInv ==
  ASSUME ClaimInv, NEW c \in Checkers, NEW retryable \in BOOLEAN, RegistryFails(c, retryable)
  PROVE  ClaimInv'
  <1> DEFINE next ==
        IF check[c].aborted
        THEN [check[c] EXCEPT !.at = "resolved"]
        ELSE IF retryable /\ check[c].tries + 1 < CheckTries
        THEN [check[c] EXCEPT !.tries = @ + 1]
        ELSE [check[c] EXCEPT !.at = "resolved", !.found = check[c].saw.version]
  <1>1. Sees(c, {"asking"}, next) /\ UNCHANGED <<hour, release, cached, attempt, claimedAt>>
    BY DEF RegistryFails
  <1>2. check[c].tries + 1 < CheckTries => check[c].tries + 1 \in 0 .. CheckTries - 1
    BY CheckTyped, UpdateClaimAssumption DEF CheckType
  <1>3. next \in CheckType /\ next.role = check[c].role
    <2>1. check[c] \in CheckType /\ check[c].saw.version \in Versions
      BY CheckTyped, PlacesAre DEF CheckType
    <2>2. /\ [check[c] EXCEPT !.at = "resolved"] \in CheckType
          /\ [check[c] EXCEPT !.at = "resolved"].role = check[c].role
      BY <2>1, PlacesAre DEF CheckType
    <2>3. /\ [check[c] EXCEPT !.at = "resolved", !.found = check[c].saw.version] \in CheckType
          /\ [check[c] EXCEPT !.at = "resolved", !.found = check[c].saw.version].role = check[c].role
      BY <2>1, PlacesAre DEF CheckType
    <2>4. check[c].tries + 1 < CheckTries =>
            /\ [check[c] EXCEPT !.tries = check[c].tries + 1] \in CheckType
            /\ [check[c] EXCEPT !.tries = check[c].tries + 1].role = check[c].role
      BY <2>1, <1>2, PlacesAre DEF CheckType
    <2>5. QED
      BY <2>2, <2>3, <2>4
  <1>4. next.at \in {"resolved", "asking"}
    BY <1>1, CheckTyped DEF Sees, CheckType
  <1>5. QED
    BY <1>1, <1>3, <1>4, CheckTyped, SeesKeepsInv

LEMMA CacheVersionKeepsInv ==
  ASSUME ClaimInv, NEW c \in Checkers, NEW wrote \in BOOLEAN, CacheVersion(c, wrote)
  PROVE  ClaimInv'
  <1> DEFINE next == [check[c] EXCEPT !.at = "resolved"]
  <1>1. next \in CheckType /\ next.role = check[c].role /\ next.at = "resolved"
    BY CheckTyped, PlacesAre DEF CheckType
  <1>2. cached' \in [on : Hours, version : Versions]
    BY CheckTyped, UpdateClaimAssumption
    DEF CacheVersion, CheckType, ClaimInv, UpdateTypeOK, Hours, Unwritten
  <1>3. Sees(c, {"caching"}, next) /\ UNCHANGED <<hour, release, attempt, claimedAt>>
    BY DEF CacheVersion
  <1>4. QED
    BY <1>1, <1>2, <1>3, SeesKeepsInv

(* Only a run that was cut short goes on to claim, never its refresh process
   (checkForUpdates).                                                         *)
LEMMA EndCheckKeepsInv ==
  ASSUME ClaimInv, NEW c \in Checkers, EndCheck(c) PROVE ClaimInv'
  <1> DEFINE next ==
        [check[c] EXCEPT !.at = IF check[c].role = "run" /\ check[c].aborted /\ c \notin CiRuns
                                THEN "claiming" ELSE "done"]
  <1>1. /\ next \in CheckType /\ next.role = check[c].role
        /\ next.at = IF check[c].role = "run" /\ check[c].aborted /\ c \notin CiRuns
                     THEN "claiming" ELSE "done"
    BY CheckTyped, PlacesAre DEF CheckType
  <1>2. Sees(c, {"resolved"}, next) /\ UNCHANGED <<hour, release, cached, attempt, claimedAt>>
    BY DEF EndCheck
  <1>3. next.at # "attempting" /\ (check[c].role = "refresh" => next.at # "claiming")
    BY <1>1
  <1> HIDE DEF next
  <1>4. QED
    BY <1>1, <1>2, <1>3, CheckTyped, SeesKeepsInv

(* A run that goes on past its look found the attempt file's time over, and so
   every claim made by then.                                                  *)
LEMMA ReadAttemptKeepsInv ==
  ASSUME ClaimInv, NEW c \in Checkers, ReadAttempt(c) PROVE ClaimInv'
  <1> DEFINE claimers == {d \in Checkers : claimedAt[d] # Unwritten}
             next == [check[c] EXCEPT !.at = IF IsFresh(attempt) THEN "done" ELSE "attempting",
                                      !.before = claimers]
  <1>1. /\ next \in CheckType /\ next.role = check[c].role /\ next.before = claimers
        /\ next.at = IF IsFresh(attempt) THEN "done" ELSE "attempting"
    <2>1. check[c] \in CheckType /\ claimers \in SUBSET Checkers
      BY CheckTyped
    <2>2. CASE IsFresh(attempt)
      BY <2>1, <2>2, PlacesAre DEF CheckType
    <2>3. CASE ~IsFresh(attempt)
      BY <2>1, <2>3, PlacesAre DEF CheckType
    <2>4. QED
      BY <2>2, <2>3
  <1>2. Sees(c, {"claiming"}, next) /\ UNCHANGED <<hour, release, cached, attempt, claimedAt>>
    BY DEF ReadAttempt
  <1>3. check[c].role # "refresh"
    BY <1>2 DEF Sees, ClaimInv, ClaimsOnce
  <1>4. ASSUME ~IsFresh(attempt), NEW d \in claimers
        PROVE  claimedAt[d] # Unwritten /\ hour - claimedAt[d] > CheckTtl
    <2>1. claimedAt[d] <= attempt /\ attempt <= hour
      BY DEF ClaimInv, AttemptIsLatest
    <2>2. /\ hour \in Int /\ attempt \in Int /\ claimedAt[d] \in Int /\ CheckTtl \in Int
          /\ claimedAt[d] >= -1 /\ claimedAt[d] # -1
      BY UpdateClaimAssumption DEF ClaimInv, UpdateTypeOK, Hours, Unwritten
    <2>3. attempt # Unwritten
      BY <2>1, <2>2 DEF Unwritten
    <2>4. QED
      BY <1>4, <2>1, <2>2, <2>3 DEF IsFresh
  <1>5. next.at = "attempting" =>
          \A d \in next.before : claimedAt[d] # Unwritten /\ hour - claimedAt[d] > CheckTtl
    <2>1. ASSUME next.at = "attempting", NEW d \in next.before
          PROVE  claimedAt[d] # Unwritten /\ hour - claimedAt[d] > CheckTtl
      <3>1. ~IsFresh(attempt) /\ d \in claimers
        BY <2>1, <1>1
      <3>2. QED
        BY <3>1, <1>4
    <2>2. QED
      BY <2>1
  <1> HIDE DEF next
  <1>6. QED
    BY <1>1, <1>2, <1>3, <1>5, CheckTyped, SeesKeepsInv

(* The claim itself: the attempt file says now, which no claim is later than. *)
LEMMA ClaimRefreshKeepsInv ==
  ASSUME ClaimInv, NEW c \in Checkers, ClaimRefresh(c) PROVE ClaimInv'
  <1> DEFINE next == [IdleCheck EXCEPT !.role = "refresh", !.before = check[c].before]
  <1>1. /\ next \in CheckType /\ next.role = "refresh" /\ next.at = "reading"
    BY CheckTyped, IdleIsCheck DEF IdleCheck, CheckType
  <1>2. /\ check[c].at = "attempting" /\ check' = [check EXCEPT ![c] = next]
        /\ attempt' = hour /\ claimedAt' = [claimedAt EXCEPT ![c] = hour]
        /\ UNCHANGED <<hour, release, cached>>
    BY <1>1 DEF ClaimRefresh, Sees
  <1>3. /\ hour \in 0 .. MaxHour /\ hour \in Hours /\ hour \in Int
        /\ claimedAt \in [Checkers -> Hours]
    BY UpdateClaimAssumption DEF ClaimInv, UpdateTypeOK, Hours, Unwritten
  <1>4. /\ \A d \in Checkers : check'[d] = IF d = c THEN next ELSE check[d]
        /\ \A d \in Checkers : claimedAt'[d] = IF d = c THEN hour ELSE claimedAt[d]
    BY <1>2, <1>3, CheckTyped
  <1>5. UpdateTypeOK'
    BY <1>1, <1>2, <1>3, CheckTyped DEF ClaimInv, UpdateTypeOK, CheckType, Places, Versions
  <1>6. ClaimsOnce'
    BY <1>1, <1>4 DEF ClaimInv, ClaimsOnce
  <1>7. AttemptIsLatest'
    <2>1. ASSUME NEW d \in Checkers, claimedAt'[d] # Unwritten
          PROVE  claimedAt'[d] <= attempt' /\ attempt' <= hour'
      <3>1. CASE d = c
        BY <3>1, <1>2, <1>3, <1>4
      <3>2. CASE d # c
        <4>1. claimedAt[d] <= attempt /\ attempt <= hour /\ attempt \in Int /\ claimedAt[d] \in Int
          BY <2>1, <3>2, <1>4, UpdateClaimAssumption
          DEF ClaimInv, AttemptIsLatest, UpdateTypeOK, Hours, Unwritten
        <4>2. QED
          BY <4>1, <3>2, <1>2, <1>3, <1>4
      <3>3. QED
        BY <3>1, <3>2
    <2>2. QED
      BY <2>1 DEF AttemptIsLatest
  <1>8. SeenAreOver'
    <2>1. ASSUME NEW b \in Checkers, check'[b].at = "attempting", NEW d \in check'[b].before
          PROVE  claimedAt'[d] # Unwritten /\ hour' - claimedAt'[d] > CheckTtl
      <3>1. b # c /\ check'[b] = check[b] /\ d \in Checkers
        BY <2>1, <1>1, <1>4, CheckTyped DEF CheckType
      <3>2. claimedAt[d] # Unwritten /\ hour - claimedAt[d] > CheckTtl
        BY <2>1, <3>1 DEF ClaimInv, SeenAreOver
      <3>3. claimedAt[c] = Unwritten
        BY <1>2 DEF ClaimInv, ClaimsOnce
      <3>4. QED
        BY <3>1, <3>2, <3>3, <1>2, <1>4
    <2>2. QED
      BY <2>1 DEF SeenAreOver
  <1>9. QED
    BY <1>5, <1>6, <1>7, <1>8 DEF ClaimInv

LEMMA ClaimFailsKeepsInv ==
  ASSUME ClaimInv, NEW c \in Checkers, ClaimFails(c) PROVE ClaimInv'
  <1> DEFINE next == [check[c] EXCEPT !.at = "done"]
  <1>1. next \in CheckType /\ next.role = check[c].role /\ next.at = "done"
    BY CheckTyped, PlacesAre DEF CheckType
  <1>2. Sees(c, {"attempting"}, next) /\ UNCHANGED <<hour, release, cached, attempt, claimedAt>>
    BY DEF ClaimFails
  <1>3. QED
    BY <1>1, <1>2, CheckTyped, SeesKeepsInv

LEMMA AbortCheckKeepsInv ==
  ASSUME ClaimInv, NEW c \in Checkers, AbortCheck(c) PROVE ClaimInv'
  <1> DEFINE next == [check[c] EXCEPT !.aborted = TRUE]
  <1>0. check[c] \in CheckType
    BY CheckTyped
  <1>1. next \in CheckType /\ next.role = check[c].role /\ next.at = check[c].at
    BY <1>0 DEF CheckType
  <1>2. /\ Sees(c, {"reading", "asking", "caching"}, next)
        /\ UNCHANGED <<hour, release, cached, attempt, claimedAt>>
    BY DEF AbortCheck
  <1>3. next.at \in {"reading", "asking", "caching"}
    BY <1>1, <1>2 DEF Sees
  <1>4. QED
    BY <1>1, <1>2, <1>3, CheckTyped, SeesKeepsInv

LEMMA CheckDiesKeepsInv ==
  ASSUME ClaimInv, NEW c \in Checkers, CheckDies(c) PROVE ClaimInv'
  <1> DEFINE next == [check[c] EXCEPT !.at = "done"]
  <1>1. next \in CheckType /\ next.role = check[c].role /\ next.at = "done"
    BY CheckTyped, PlacesAre DEF CheckType
  <1>2. /\ Sees(c, {"reading", "asking", "caching", "claiming", "attempting"}, next)
        /\ UNCHANGED <<hour, release, cached, attempt, claimedAt>>
    BY DEF CheckDies
  <1>3. QED
    BY <1>1, <1>2, CheckTyped, SeesKeepsInv

(* Time only takes claims further into the past.                              *)
LEMMA HourPassesKeepsInv ==
  ASSUME ClaimInv, HourPasses PROVE ClaimInv'
  <1>1. /\ hour \in 0 .. MaxHour /\ hour' = hour + 1 /\ hour < MaxHour
        /\ claimedAt \in [Checkers -> Hours] /\ attempt \in Hours
        /\ UNCHANGED <<release, cached, attempt, check, claimedAt>>
    BY DEF ClaimInv, UpdateTypeOK, HourPasses
  <1>2. UpdateTypeOK'
    BY <1>1, UpdateClaimAssumption DEF ClaimInv, UpdateTypeOK, Hours, Unwritten
  <1>3. ClaimsOnce'
    BY <1>1 DEF ClaimInv, ClaimsOnce
  <1>4. AttemptIsLatest'
    BY <1>1, UpdateClaimAssumption DEF ClaimInv, AttemptIsLatest, Hours, Unwritten
  <1>5. SeenAreOver'
    <2>0. hour' = hour + 1 /\ check' = check /\ claimedAt' = claimedAt
      BY <1>1
    <2>1. ASSUME NEW c \in Checkers, check'[c].at = "attempting", NEW d \in check'[c].before
          PROVE  claimedAt'[d] # Unwritten /\ hour' - claimedAt'[d] > CheckTtl
      <3>1. claimedAt[d] # Unwritten /\ hour - claimedAt[d] > CheckTtl /\ d \in Checkers
        BY <2>0, <2>1, CheckTyped DEF ClaimInv, SeenAreOver, CheckType
      <3>2. claimedAt[d] \in Int /\ hour \in Int /\ CheckTtl \in Int
        BY <1>1, <3>1, UpdateClaimAssumption DEF Hours, Unwritten
      <3>3. QED
        BY <2>0, <3>1, <3>2
    <2>2. QED
      BY <2>1 DEF SeenAreOver
  <1>6. QED
    BY <1>2, <1>3, <1>4, <1>5 DEF ClaimInv

LEMMA PublishKeepsInv ==
  ASSUME ClaimInv, Publish PROVE ClaimInv'
  <1>1. UpdateTypeOK'
    BY UpdateClaimAssumption DEF ClaimInv, UpdateTypeOK, Publish
  <1>2. ClaimsOnce' /\ AttemptIsLatest' /\ SeenAreOver'
    BY DEF ClaimInv, ClaimsOnce, AttemptIsLatest, SeenAreOver, Publish
  <1>3. QED
    BY <1>1, <1>2 DEF ClaimInv

LEMMA ClaimStepKeepsInv == ClaimInv /\ [UpdateNext]_updateVars => ClaimInv'
  <1> SUFFICES ASSUME ClaimInv, [UpdateNext]_updateVars PROVE ClaimInv'
    OBVIOUS
  <1>1. CASE UNCHANGED updateVars
    BY <1>1 DEF updateVars, ClaimInv, UpdateTypeOK, ClaimsOnce, AttemptIsLatest, SeenAreOver
  <1>2. CASE UpdateNext
    BY <1>2, ReadCachedKeepsInv, RegistryAnswersKeepsInv, RegistryFailsKeepsInv, CacheVersionKeepsInv,
       EndCheckKeepsInv, ReadAttemptKeepsInv, ClaimRefreshKeepsInv, ClaimFailsKeepsInv,
       AbortCheckKeepsInv, CheckDiesKeepsInv, HourPassesKeepsInv, PublishKeepsInv
    DEF UpdateNext
  <1>3. QED
    BY <1>1, <1>2

(* The types, and what makes a claim safe: the attempt file is never older
   than a claim, and who is about to claim saw only claims that are over.     *)
THEOREM UpdateInvariant == UpdateSpec => []ClaimInv
  BY ClaimInitHolds, ClaimStepKeepsInv, PTL DEF UpdateSpec

LEMMA ClaimsKeepApart ==
  ASSUME ClaimInv, [UpdateNext]_updateVars, NEW c \in Checkers, claimedAt'[c] # claimedAt[c],
         NEW d \in check[c].before
  PROVE  hour - claimedAt[d] > CheckTtl
  <1>1. PICK b \in Checkers : ClaimRefresh(b)
    BY DEF UpdateNext, updateVars, ReadCached, RegistryAnswers, RegistryFails, CacheVersion, EndCheck,
           ReadAttempt, ClaimFails, AbortCheck, CheckDies, HourPasses, Publish
  <1>2. b = c /\ check[c].at = "attempting"
    BY <1>1 DEF ClaimRefresh, Sees, ClaimInv, UpdateTypeOK
  <1>3. QED
    BY <1>2 DEF ClaimInv, SeenAreOver

(* claimBackgroundRefresh is true at most once per interval for runs that look
   after one another: whoever claims saw only claims past their interval.     *)
THEOREM RefreshIsClaimedOnce == UpdateSpec => RefreshClaims
  <1>1. ClaimInv /\ [UpdateNext]_updateVars =>
          [\A c \in Checkers : claimedAt'[c] # claimedAt[c] =>
               \A d \in check[c].before : hour - claimedAt[d] > CheckTtl]_updateVars
    BY ClaimsKeepApart
  <1>2. QED
    BY <1>1, UpdateInvariant, PTL DEF UpdateSpec, RefreshClaims

----------------------------------------------------------------------------
(* FirstRun, for any number of runs, resets, deaths and steps of a newer build:
   a ledger stays at its path with what it holds, its schema steps are taken
   once and in order, and an old ledger is not imported a second time.        *)

Before == {"start", "target", "snapshot", "link", "mark", "prepare"}
Migrating == {"v1_v2", "v2_v3", "v3_v4", "v4_v5"}
Complete == {"added", "add", "open"}
HasOpen == {"assert", "tables", "create", "version"} \cup Migrating \cup Complete
OpenPlaces == Before \cup HasOpen \cup {"ended", "failed"}

OpenTypeOK ==
    /\ stores \in [Inodes -> StoreType \cup {NoStore}]
    /\ storeAt \in Inodes \cup {NoStore}
    /\ copyMarker \in BOOLEAN /\ revivable \in BOOLEAN
    /\ oldLedger \in {NoStore, 3, 5}
    /\ openPc \in [Openers -> OpenPlaces]
    /\ handle \in [Openers -> Inodes \cup {NoStore}]
    /\ missing \in [Openers -> SUBSET AddedTables]
    /\ resets \in Nat /\ deaths \in Nat
    /\ everOpened \subseteq Openers

(* The steps a store saw are behind its version, each above the one before; the
   one that creates it is its only one.                                        *)
StepsTaken(S) ==
    /\ \A j \in 1..Len(S.steps) : S.steps[j] < S.version /\ (S.version < Latest => 0 < S.steps[j])
    /\ \A j, k \in 1..Len(S.steps) : j < k => 0 < S.steps[j] /\ S.steps[j] < S.steps[k]
SchemaOrdered == \A i \in Inodes : stores[i] \in StoreType => StepsTaken(stores[i])

AtStore == storeAt # NoStore => stores[storeAt] \in StoreType

(* What the place of a run tells of the store it holds.                        *)
Holds(stage, S, missed) ==
    /\ S \in StoreType
    /\ stage = "version" => 1 <= S.version
    /\ \A v \in 1..(Latest - 1) : stage = StepFrom[v] => v <= S.version
    /\ stage \in Complete => Latest <= S.version
    /\ stage = "add" /\ S.version = Latest => AddedTables \ S.tables \subseteq missed
    /\ stage = "open" /\ S.version = Latest => S.tables = AddedTables
HandlesHold ==
    \A p \in Openers : openPc[p] \in HasOpen =>
        handle[p] \in Inodes /\ Holds(openPc[p], stores[handle[p]], missing[p])

(* Nobody uses the inodes of a run before it made them.                        *)
Unused(i) == storeAt # i /\ \A q \in Openers : handle[q] # i
OwnInodes ==
    \A p \in Openers :
        /\ openPc[p] \in {"start", "target", "snapshot", "link"} => Unused(<<p, "copy">>) 
        /\ openPc[p] \in Before => Unused(<<p, "new">>)
        /\ openPc[p] = "link" => stores[<<p, "copy">>] \in StoreType
        /\ Copying(p) => oldLedger # NoStore

(* The old ledger is settled before a store is opened; and once a ledger in use
   was deleted, outside a copy, no run is about to import the old one again.   *)
Settled == copyMarker \/ oldLedger = NoStore
SettledFirst == (everOpened # {} \/ \E p \in Openers : openPc[p] = "prepare") => Settled
NotImported ==
    resets > 0 /\ ~revivable =>
        /\ Settled /\ \A p \in Openers : ~Copying(p)
        /\ storeAt # NoStore => OldUsage \notin stores[storeAt].rows

OpenInv ==
    /\ OpenTypeOK /\ SchemaOrdered /\ AtStore /\ HandlesHold /\ OwnInodes
    /\ SettledFirst /\ NotImported

LEMMA Steps ==
  /\ StepFrom[1] = "v1_v2" /\ StepFrom[2] = "v2_v3" /\ StepFrom[3] = "v3_v4" /\ StepFrom[4] = "v4_v5"
  /\ Latest = 5 /\ Newer = 6 /\ EmptyStore = 0
  BY DEF StepFrom, Latest, Newer, EmptyStore

LEMMA InodesOfRuns ==
  \A p \in Openers :
    /\ <<p, "copy">> \in Inodes /\ <<p, "new">> \in Inodes
    /\ <<p, "copy">> # NoStore /\ <<p, "new">> # NoStore
    /\ p # OldUsage /\ p # "found"
  BY FirstRunAssumption DEF Inodes, OldUsage

LEMMA OpenInitHolds == OpenInit => OpenInv
  <1> SUFFICES ASSUME OpenInit PROVE OpenInv
    OBVIOUS
  <1> USE Steps
  <1>1. /\ copyMarker = FALSE /\ openPc = [p \in Openers |-> "start"]
        /\ handle = [p \in Openers |-> NoStore] /\ missing = [p \in Openers |-> {}]
        /\ resets = 0 /\ deaths = 0 /\ everOpened = {} /\ revivable = FALSE
        /\ oldLedger \in {NoStore, 3, 5}
    BY DEF OpenInit
  <1>2. \A v \in 0..6, tables \in SUBSET AddedTables, rows \in SUBSET {OldUsage} :
          Store(v, tables, rows) \in StoreType /\ StepsTaken(Store(v, tables, rows))
    <2> SUFFICES ASSUME NEW v \in 0..6, NEW tables \in SUBSET AddedTables,
                        NEW rows \in SUBSET {OldUsage}
                 PROVE  Store(v, tables, rows) \in StoreType /\ StepsTaken(Store(v, tables, rows))
      OBVIOUS
    <2>1. <<>> \in Seq(0..4) /\ Len(<<>>) = 0
      OBVIOUS
    <2>2. QED
      BY <2>1 DEF Store, StoreType, StepsTaken
  <1>3. /\ stores \in [Inodes -> StoreType \cup {NoStore}]
        /\ storeAt \in {<<"found", "new">>, <<"found", "copy">>, NoStore}
        /\ SchemaOrdered /\ AtStore
    <2>0. <<"found", "new">> \in Inodes /\ <<"found", "copy">> \in Inodes
      BY DEF Inodes
    <2>1. CASE stores = [i \in Inodes |-> NoStore] /\ storeAt = NoStore
      BY <2>1, FirstRunAssumption DEF SchemaOrdered, AtStore
    <2>2. ASSUME NEW v \in FoundVersions, NEW tables \in {{}, AddedTables},
                 stores = [i \in Inodes |-> IF i = <<"found", "new">>
                                            THEN Store(v, IF v = Latest THEN tables ELSE {}, {})
                                            ELSE NoStore],
                 storeAt = <<"found", "new">>
          PROVE  stores \in [Inodes -> StoreType \cup {NoStore}] /\ SchemaOrdered /\ AtStore
      <3> DEFINE S == Store(v, IF v = Latest THEN tables ELSE {}, {})
      <3>1. S \in StoreType /\ StepsTaken(S)
        BY <1>2, FirstRunAssumption
      <3> HIDE DEF S
      <3>2. QED
        BY <2>0, <2>2, <3>1, FirstRunAssumption DEF SchemaOrdered, AtStore, S
    <2>3. ASSUME NEW v \in {3, 5},
                 stores = [i \in Inodes |-> IF i = <<"found", "copy">> THEN Snapped(v) ELSE NoStore],
                 storeAt = <<"found", "copy">>
          PROVE  stores \in [Inodes -> StoreType \cup {NoStore}] /\ SchemaOrdered /\ AtStore
      <3>1. Snapped(v) \in StoreType /\ StepsTaken(Snapped(v))
        BY <1>2 DEF Snapped
      <3>2. QED
        BY <2>0, <2>3, <3>1, FirstRunAssumption DEF SchemaOrdered, AtStore
    <2>4. QED
      BY <2>1, <2>2, <2>3 DEF OpenInit
  <1>4. OpenTypeOK
    BY <1>1, <1>3 DEF OpenTypeOK, OpenPlaces, Before, Inodes
  <1>5. HandlesHold
    BY <1>1 DEF HandlesHold, HasOpen, Migrating, Complete
  <1>6. OwnInodes
    <2>1. \A p \in Openers, k \in {"copy", "new"} : Unused(<<p, k>>)
      <3> SUFFICES ASSUME NEW p \in Openers, NEW k \in {"copy", "new"} PROVE Unused(<<p, k>>)
        OBVIOUS
      <3>1. <<p, k>> # <<"found", "new">> /\ <<p, k>> # <<"found", "copy">> /\ <<p, k>> # NoStore
        BY InodesOfRuns
      <3>2. QED
        BY <1>1, <1>3, <3>1 DEF Unused
    <2>2. QED
      BY <1>1, <2>1 DEF OwnInodes, Copying
  <1>7. SettledFirst /\ NotImported
    BY <1>1 DEF SettledFirst, NotImported
  <1>8. QED
    BY <1>3, <1>4, <1>5, <1>6, <1>7 DEF OpenInv

(* What a step does to a store that is in use.                                 *)
Grown(S, T) ==
    S \in StoreType => /\ T \in StoreType
                       /\ S.version <= T.version
                       /\ S.tables \subseteq T.tables
                       /\ S.rows \subseteq T.rows

LEMMA SameGrown == \A S : Grown(S, S)
  BY Steps DEF Grown, StoreType

OwnUnused(p, i) == i \in {<<p, "copy">>, <<p, "new">>} /\ Unused(i)

LEMMA StillHolds ==
  ASSUME NEW stage \in OpenPlaces, NEW S, NEW T, NEW missed, Holds(stage, S, missed), Grown(S, T)
  PROVE  Holds(stage, T, missed)
  <1> USE Steps
  <1>1. S \in StoreType /\ T \in StoreType /\ S.version <= T.version /\ S.tables \subseteq T.tables
        /\ S.version \in 0..6 /\ T.version \in 0..6 /\ T.tables \subseteq AddedTables
    BY DEF Holds, Grown, StoreType
  <1>2. stage \in Complete => Latest <= S.version
    BY DEF Holds
  <1>3. stage \in Complete /\ T.version = Latest => S.version = Latest
    BY <1>1, <1>2
  <1>4. stage = "add" /\ T.version = Latest => AddedTables \ T.tables \subseteq missed
    BY <1>1, <1>3 DEF Holds, Complete
  <1>5. stage = "open" /\ T.version = Latest => T.tables = AddedTables
    BY <1>1, <1>3 DEF Holds, Complete
  <1>6. /\ stage = "version" => 1 <= T.version
        /\ \A v \in 1..(Latest - 1) : stage = StepFrom[v] => v <= T.version
        /\ stage \in Complete => Latest <= T.version
    BY <1>1 DEF Holds
  <1>7. QED
    BY <1>1, <1>4, <1>5, <1>6 DEF Holds

(* A step of one run: what it must establish itself, and what follows for the
   other runs.                                                                 *)
Moved(p) ==
    /\ \A q \in Openers \ {p} : /\ openPc'[q] = openPc[q]
                                /\ handle'[q] = handle[q] /\ missing'[q] = missing[q]
    /\ UNCHANGED <<oldLedger, resets, revivable>>
    /\ copyMarker => copyMarker'
    /\ \A i \in Inodes : ~OwnUnused(p, i) => Grown(stores[i], stores'[i])
    /\ \A i \in Inodes : stores'[i] \in StoreType => StepsTaken(stores'[i])
Lands(p) ==
    /\ openPc'[p] \in HasOpen =>
          handle'[p] \in Inodes /\ Holds(openPc'[p], stores'[handle'[p]], missing'[p])
    /\ handle'[p] \in {handle[p], storeAt'}
    /\ storeAt' \in {storeAt, <<p, "copy">>, <<p, "new">>}
    /\ storeAt' # NoStore => stores'[storeAt'] \in StoreType
    /\ openPc'[p] \in {"start", "target", "snapshot", "link"} => Unused(<<p, "copy">>)'
    /\ openPc'[p] \in Before => Unused(<<p, "new">>)'
    /\ openPc'[p] = "link" => stores'[<<p, "copy">>] \in StoreType
    /\ openPc'[p] \in {"target", "snapshot", "link"} => Copying(p) \/ ~Settled
    /\ openPc'[p] \in {"target", "snapshot", "link"} => oldLedger # NoStore
    /\ everOpened' # everOpened \/ openPc'[p] = "prepare" => Settled'
    /\ storeAt' # NoStore /\ OldUsage \in stores'[storeAt'].rows =>
          Copying(p) \/ (storeAt # NoStore /\ OldUsage \in stores[storeAt].rows)

LEMMA MovedKeeps ==
  ASSUME NEW p \in Openers, OpenInv, OpenTypeOK', Moved(p), Lands(p)
  PROVE  OpenInv'
  <1> USE InodesOfRuns
  <1>1. SchemaOrdered'
    BY DEF Moved, SchemaOrdered
  <1>2. AtStore'
    BY DEF Lands, AtStore
  <1>3. HandlesHold'
    <2> SUFFICES ASSUME NEW q \in Openers, openPc'[q] \in HasOpen
                 PROVE  handle'[q] \in Inodes /\ Holds(openPc'[q], stores'[handle'[q]], missing'[q])
      BY DEF HandlesHold
    <2>1. CASE q = p
      BY <2>1 DEF Lands
    <2>2. CASE q # p
      <3>1. openPc'[q] = openPc[q] /\ handle'[q] = handle[q] /\ missing'[q] = missing[q]
        BY <2>2 DEF Moved
      <3>2. handle[q] \in Inodes /\ Holds(openPc[q], stores[handle[q]], missing[q])
        BY <3>1 DEF OpenInv, HandlesHold
      <3>3. Grown(stores[handle[q]], stores'[handle[q]])
        BY <3>2 DEF Moved, OwnUnused, Unused
      <3>4. openPc[q] \in OpenPlaces
        BY DEF OpenInv, OpenTypeOK
      <3>5. QED
        BY <3>1, <3>2, <3>3, <3>4, StillHolds
    <2>3. QED
      BY <2>1, <2>2
  <1>4. OwnInodes'
    <2> SUFFICES ASSUME NEW q \in Openers
                 PROVE  /\ openPc'[q] \in {"start", "target", "snapshot", "link"} => Unused(<<q, "copy">>)'
                        /\ openPc'[q] \in Before => Unused(<<q, "new">>)'
                        /\ openPc'[q] = "link" => stores'[<<q, "copy">>] \in StoreType
                        /\ Copying(q)' => oldLedger' # NoStore
      BY DEF OwnInodes
    <2>1. CASE q = p
      BY <2>1 DEF Lands, Copying, Moved
    <2>2. CASE q # p
      <3>1. openPc'[q] = openPc[q]
        BY <2>2 DEF Moved
      <3>2. \A i \in {<<q, "copy">>, <<q, "new">>} : Unused(i) => Unused(i)'
        BY <2>2 DEF Unused, Lands, Moved
      <3>3. stores[<<q, "copy">>] \in StoreType => stores'[<<q, "copy">>] \in StoreType
        BY <2>2 DEF Moved, OwnUnused, Grown
      <3>4. QED
        BY <3>1, <3>2, <3>3 DEF OpenInv, OwnInodes, Copying, Moved
    <2>3. QED
      BY <2>1, <2>2
  <1>5. SettledFirst'
    <2>1. Settled => Settled'
      BY DEF Settled, Moved
    <2>2. QED
      BY <2>1 DEF OpenInv, SettledFirst, Lands, Moved
  <1>6. NotImported'
    BY DEF OpenInv, NotImported, Lands, Moved, Settled, Copying
  <1>7. QED
    BY <1>1, <1>2, <1>3, <1>4, <1>5, <1>6 DEF OpenInv

(* The steps that leave the stores alone.                                      *)
LEMMA SameStores ==
  ASSUME OpenInv, UNCHANGED stores
  PROVE  /\ \A i \in Inodes : Grown(stores[i], stores'[i])
         /\ \A i \in Inodes : stores'[i] \in StoreType => StepsTaken(stores'[i])
  BY SameGrown DEF OpenInv, SchemaOrdered

LEMMA CopyStepsKeep ==
  ASSUME NEW p \in Openers, OpenInv,
         CheckMarker(p) \/ CheckTarget(p) \/ LinkSnapshot(p) \/ MarkCopied(p)
  PROVE  OpenInv'
  <1> USE InodesOfRuns
  <1>1. OpenTypeOK /\ UNCHANGED <<stores, oldLedger, handle, missing, historyOfOpens>>
    BY DEF OpenInv, CheckMarker, CheckTarget, LinkSnapshot, MarkCopied
  <1>2. OpenTypeOK'
    BY <1>1 DEF OpenTypeOK, OpenPlaces, Before, CheckMarker, CheckTarget, LinkSnapshot, Linked,
                MarkCopied, Marks, OpenStep, historyOfOpens
  <1>3. Moved(p)
    <2>1. /\ \A q \in Openers \ {p} : openPc'[q] = openPc[q]
          /\ copyMarker => copyMarker'
      BY <1>1 DEF CheckMarker, CheckTarget, LinkSnapshot, MarkCopied, Marks, OpenStep, OpenTypeOK
    <2>2. QED
      BY <1>1, <2>1, SameStores DEF Moved, historyOfOpens
  <1>4. Lands(p)
    <2>1. OwnInodes /\ AtStore
      BY DEF OpenInv
    <2>2. CASE CheckMarker(p)
      BY <1>1, <2>1, <2>2 DEF Lands, CheckMarker, OpenStep, OpenTypeOK, historyOfOpens, Settled,
           OwnInodes, Unused, AtStore, HasOpen, Migrating, Complete, Before
    <2>3. CASE CheckTarget(p)
      BY <1>1, <2>1, <2>3 DEF Lands, CheckTarget, OpenStep, OpenTypeOK, historyOfOpens, Copying,
           OwnInodes, Unused, AtStore, HasOpen, Migrating, Complete, Before
    <2>4. CASE LinkSnapshot(p)
      <3>1. openPc[p] = "link" /\ openPc'[p] = "mark" /\ storeAt' = Linked(p)
        BY <1>1, <2>4 DEF LinkSnapshot, OpenStep, OpenTypeOK
      <3>2. stores[<<p, "copy">>] \in StoreType /\ Unused(<<p, "new">>)
        BY <2>1, <3>1 DEF OwnInodes, Before
      <3>3. Unused(<<p, "new">>)'
        BY <1>1, <3>1, <3>2 DEF Unused, Linked
      <3>4. QED
        BY <1>1, <2>1, <3>1, <3>2, <3>3 DEF Lands, Linked, historyOfOpens, Copying,
             AtStore, HasOpen, Migrating, Complete, Before
    <2>5. CASE MarkCopied(p)
      BY <1>1, <2>1, <2>5 DEF Lands, MarkCopied, Marks, OpenStep, OpenTypeOK, historyOfOpens, Settled,
           OwnInodes, Unused, AtStore, HasOpen, Migrating, Complete, Before
    <2>6. QED
      BY <2>2, <2>3, <2>4, <2>5
  <1>5. QED
    BY <1>2, <1>3, <1>4, MovedKeeps

(* The copy is a store no one uses, with no steps of this kind.                *)
LEMMA SnapshotKeeps ==
  ASSUME NEW p \in Openers, OpenInv, Snapshot(p)
  PROVE  OpenInv'
  <1> USE InodesOfRuns, Steps
  <1> DEFINE i == <<p, "copy">>
  <1>1. /\ OpenTypeOK /\ OwnInodes /\ AtStore /\ openPc[p] = "snapshot"
        /\ UNCHANGED <<storeAt, copyMarker, oldLedger, handle, missing, historyOfOpens>>
        /\ \A q \in Openers \ {p} : openPc'[q] = openPc[q]
    BY DEF OpenInv, Snapshot, OpenStep, OpenTypeOK
  <1>2. oldLedger \in {3, 5} /\ oldLedger # NoStore /\ Unused(i) /\ Unused(<<p, "new">>)
    BY <1>1 DEF OwnInodes, Copying, Before, OpenTypeOK
  <1>3. Snapped(oldLedger) \in StoreType /\ StepsTaken(Snapped(oldLedger))
    <2>1. <<>> \in Seq(0..4) /\ Len(<<>>) = 0
      OBVIOUS
    <2>2. QED
      BY <1>2, <2>1 DEF Snapped, Store, StoreType, StepsTaken
  <1>4. Unused(i)' /\ Unused(<<p, "new">>)' /\ Copying(p)
    BY <1>1, <1>2 DEF Unused, Copying
  <1>5. CASE stores' = [stores EXCEPT ![i] = Snapped(oldLedger)] /\ OpenStep(p, "snapshot", "link")
    <2>1. stores'[i] = Snapped(oldLedger) /\ \A j \in Inodes \ {i} : stores'[j] = stores[j]
      BY <1>1, <1>5 DEF OpenTypeOK
    <2>2. OpenTypeOK' /\ openPc'[p] = "link"
      BY <1>1, <1>3, <1>5 DEF OpenTypeOK, OpenPlaces, Before, OpenStep, historyOfOpens
    <2>3. Moved(p)
      <3>1. \A j \in Inodes : ~OwnUnused(p, j) => Grown(stores[j], stores'[j])
        BY <1>1, <1>2, <2>1, SameGrown DEF OwnUnused
      <3>2. \A j \in Inodes : stores'[j] \in StoreType => StepsTaken(stores'[j])
        BY <1>3, <2>1 DEF OpenInv, SchemaOrdered
      <3>3. QED
        BY <1>1, <3>1, <3>2 DEF Moved, historyOfOpens
    <2>4. Lands(p)
      <3>1. storeAt # NoStore => stores'[storeAt] = stores[storeAt] /\ stores[storeAt] \in StoreType
        BY <1>1, <1>2, <2>1 DEF Unused, AtStore, OpenTypeOK
      <3>2. openPc'[p] \notin HasOpen \cup {"prepare"} /\ stores'[i] \in StoreType
        BY <1>3, <2>1, <2>2 DEF HasOpen, Migrating, Complete
      <3>3. QED
        BY <1>1, <1>2, <1>4, <2>2, <3>1, <3>2 DEF Lands, historyOfOpens
    <2>5. QED
      BY <2>2, <2>3, <2>4, MovedKeeps
  <1>6. CASE UNCHANGED stores /\ OpenStep(p, "snapshot", "failed")
    <2>1. OpenTypeOK' /\ openPc'[p] = "failed"
      BY <1>1, <1>6 DEF OpenTypeOK, OpenPlaces, OpenStep, historyOfOpens
    <2>2. Moved(p)
      BY <1>1, <1>6, SameStores DEF Moved, historyOfOpens
    <2>3. Lands(p)
      BY <1>1, <1>4, <1>6, <2>1
         DEF Lands, historyOfOpens, AtStore, HasOpen, Migrating, Complete, Before
    <2>4. QED
      BY <2>1, <2>2, <2>3, MovedKeeps
  <1>7. QED
    BY <1>5, <1>6 DEF Snapshot

LEMMA PrepareFileKeeps ==
  ASSUME NEW p \in Openers, OpenInv, PrepareFile(p)
  PROVE  OpenInv'
  <1> USE InodesOfRuns, Steps
  <1> DEFINE i == <<p, "new">>
  <1>1. /\ OpenTypeOK /\ OwnInodes /\ AtStore /\ openPc[p] = "prepare" /\ openPc'[p] = "assert"
        /\ UNCHANGED <<copyMarker, oldLedger, missing, resets, deaths, revivable>>
        /\ \A q \in Openers \ {p} : openPc'[q] = openPc[q] /\ handle'[q] = handle[q]
        /\ storeAt' = IF storeAt = NoStore THEN i ELSE storeAt
        /\ handle'[p] = storeAt' /\ handle' = [handle EXCEPT ![p] = storeAt']
        /\ everOpened' = everOpened \cup {p}
    BY DEF OpenInv, PrepareFile, OpenStep, OpenTypeOK
  <1>2. Unused(i)
    BY <1>1 DEF OwnInodes, Before
  <1>3. /\ stores' \in [Inodes -> StoreType \cup {NoStore}]
        /\ stores'[storeAt'] \in StoreType /\ storeAt' \in Inodes
        /\ storeAt = NoStore => stores'[storeAt'].rows = {}
        /\ storeAt # NoStore => stores'[storeAt'] = stores[storeAt]
        /\ \A j \in Inodes : ~OwnUnused(p, j) => stores'[j] = stores[j]
        /\ \A j \in Inodes : stores'[j] \in StoreType => StepsTaken(stores'[j])
    <2>1. CASE storeAt = NoStore
      <3> DEFINE S == Store(EmptyStore, {}, {})
      <3>1. S \in StoreType /\ StepsTaken(S) /\ S.rows = {}
        <4>1. <<>> \in Seq(0..4) /\ Len(<<>>) = 0
          OBVIOUS
        <4>2. QED
          BY <4>1 DEF Store, StoreType, StepsTaken
      <3>2. stores' = [stores EXCEPT ![i] = S] /\ storeAt' = i
        BY <1>1, <2>1 DEF PrepareFile
      <3> HIDE DEF S
      <3>3. stores'[i] = S /\ \A j \in Inodes \ {i} : stores'[j] = stores[j]
        BY <1>1, <3>2 DEF OpenTypeOK
      <3>4. \A j \in Inodes : ~OwnUnused(p, j) => stores'[j] = stores[j]
        BY <1>2, <3>3 DEF OwnUnused
      <3>5. \A j \in Inodes : stores'[j] \in StoreType => StepsTaken(stores'[j])
        BY <3>1, <3>3 DEF OpenInv, SchemaOrdered
      <3>6. QED
        BY <1>1, <2>1, <3>1, <3>2, <3>3, <3>4, <3>5 DEF OpenTypeOK
    <2>2. CASE storeAt # NoStore
      BY <1>1, <2>2 DEF PrepareFile, AtStore, OpenTypeOK, OpenInv, SchemaOrdered
    <2>3. QED
      BY <2>1, <2>2
  <1>4. OpenTypeOK'
    BY <1>1, <1>3 DEF OpenTypeOK, OpenPlaces, HasOpen, PrepareFile, OpenStep
  <1>5. Moved(p)
    BY <1>1, <1>3, SameGrown DEF Moved
  <1>6. Lands(p)
    <2>1. Settled'
      BY <1>1 DEF OpenInv, SettledFirst, Settled
    <2>2. Holds("assert", stores'[storeAt'], missing'[p])
      BY <1>3 DEF Holds, Complete
    <2>3. openPc'[p] \notin Before \cup {"target", "snapshot", "link", "start"}
      BY <1>1 DEF Before
    <2>4. QED
      BY <1>1, <1>3, <2>1, <2>2, <2>3 DEF Lands, Before
  <1>7. QED
    BY <1>4, <1>5, <1>6, MovedKeeps

(* A step of a run on the store it holds.                                      *)
LEMMA HeldStepKeeps ==
  ASSUME NEW p \in Openers, OpenInv, openPc[p] \in HasOpen,
         NEW from \in HasOpen, NEW to \in HasOpen \cup {"ended", "failed"}, OpenStep(p, from, to),
         UNCHANGED <<storeAt, copyMarker, oldLedger, handle, historyOfOpens>>,
         stores' \in [Inodes -> StoreType \cup {NoStore}],
         \A i \in Inodes \ {handle[p]} : stores'[i] = stores[i],
         Grown(stores[handle[p]], stores'[handle[p]]),
         stores'[handle[p]] \in StoreType => StepsTaken(stores'[handle[p]]),
         OldUsage \in stores'[handle[p]].rows => OldUsage \in stores[handle[p]].rows,
         missing' \in [Openers -> SUBSET AddedTables],
         \A q \in Openers \ {p} : missing'[q] = missing[q],
         to \in HasOpen => Holds(to, stores'[handle[p]], missing'[p])
  PROVE  OpenInv'
  <1>1. /\ OpenTypeOK /\ AtStore /\ SchemaOrdered /\ handle[p] \in Inodes
        /\ openPc' = [openPc EXCEPT ![p] = to]
        /\ stores[handle[p]] \in StoreType
    BY DEF OpenInv, OpenStep, HandlesHold, Holds
  <1>2. openPc'[p] = to /\ \A q \in Openers \ {p} : openPc'[q] = openPc[q]
    BY <1>1 DEF OpenTypeOK
  <1>3. OpenTypeOK'
    BY <1>1 DEF OpenTypeOK, OpenPlaces, historyOfOpens
  <1>4. Moved(p)
    <2>1. \A i \in Inodes \ {handle[p]} : Grown(stores[i], stores'[i])
      BY DEF Grown, StoreType
    <2>2. \A i \in Inodes : stores'[i] \in StoreType => StepsTaken(stores'[i])
      BY <1>1 DEF SchemaOrdered
    <2>3. QED
      BY <1>2, <2>1, <2>2 DEF Moved, historyOfOpens
  <1>5. Lands(p)
    <2>1. storeAt # NoStore =>
            /\ stores'[storeAt] \in StoreType
            /\ OldUsage \in stores'[storeAt].rows => OldUsage \in stores[storeAt].rows
      BY <1>1 DEF AtStore, Grown, OpenTypeOK
    <2>2. to \notin Before
      BY DEF HasOpen, Before, Migrating, Complete
    <2>3. QED
      BY <1>1, <1>2, <2>1, <2>2 DEF Lands, Before, historyOfOpens
  <1>6. QED
    BY <1>3, <1>4, <1>5, MovedKeeps

LEMMA LooksKeep ==
  ASSUME NEW p \in Openers, OpenInv,
         AssertSupported(p) \/ LookForTables(p) \/ ReadVersion(p) \/ ListTables(p)
  PROVE  OpenInv'
  <1> USE Steps
  <1> DEFINE S == stores[handle[p]]
  <1>1. openPc[p] \in {"assert", "tables", "version", "added"}
    BY DEF AssertSupported, LookForTables, ReadVersion, ListTables, OpenStep
  <1>2. /\ OpenTypeOK /\ handle[p] \in Inodes /\ Holds(openPc[p], S, missing[p])
        /\ UNCHANGED <<storeAt, copyMarker, oldLedger, handle, historyOfOpens, stores>>
        /\ S \in StoreType /\ S.version \in 0..6
    BY <1>1 DEF OpenInv, HandlesHold, HasOpen, Holds, StoreType, Complete,
                AssertSupported, LookForTables, ReadVersion, ListTables, UNCHANGEDbutStores
  <1>3. Grown(S, S) /\ (S \in StoreType => StepsTaken(S))
    BY <1>2 DEF Grown, OpenInv, SchemaOrdered
  <1>4. ASSUME NEW from \in HasOpen, NEW to \in HasOpen \cup {"ended", "failed"},
               OpenStep(p, from, to), UNCHANGED missing, to \in HasOpen => Holds(to, S, missing[p])
        PROVE  OpenInv'
    <2>1. openPc[p] \in HasOpen
      BY <1>4 DEF OpenStep
    <2>2. missing \in [Openers -> SUBSET AddedTables]
      BY <1>2 DEF OpenTypeOK
    <2> HIDE DEF S
    <2>3. S' = S
      BY <1>2 DEF S
    <2>4. QED
      BY <1>2, <1>3, <1>4, <2>1, <2>2, <2>3, HeldStepKeeps DEF OpenTypeOK, S
  <1>5. CASE AssertSupported(p)
    <2>1. Holds("tables", S, missing[p]) /\ "assert" \in HasOpen /\ "tables" \in HasOpen
      BY <1>2 DEF Holds, Complete, HasOpen
    <2>2. CASE VersionOf(p) = Newer
      <3>1. OpenStep(p, "assert", "failed") /\ UNCHANGED missing
        BY <1>5, <2>2 DEF AssertSupported
      <3>2. "failed" \notin HasOpen
        BY DEF HasOpen, Complete, Migrating
      <3>3. QED
        BY <1>4, <2>1, <3>1, <3>2
    <2>3. CASE VersionOf(p) # Newer
      <3>1. OpenStep(p, "assert", "tables") /\ UNCHANGED missing
        BY <1>5, <2>3 DEF AssertSupported
      <3>2. QED
        BY <1>4, <2>1, <3>1
    <2>4. QED
      BY <2>2, <2>3
  <1>6. CASE LookForTables(p)
    <2>1. /\ "tables" \in HasOpen /\ "create" \in HasOpen /\ "version" \in HasOpen
          /\ Holds("create", S, missing[p]) /\ (S.version # 0 => Holds("version", S, missing[p]))
      BY <1>2 DEF Holds, Complete, HasOpen
    <2>2. QED
      BY <1>4, <1>6, <2>1 DEF LookForTables, VersionOf
  <1>7. CASE ReadVersion(p)
    <2>1. /\ "version" \in HasOpen /\ "added" \in HasOpen /\ "v1_v2" \in HasOpen
      BY DEF HasOpen, Complete, Migrating
    <2>2. openPc[p] = "version" /\ 1 <= S.version
      BY <1>2, <1>7 DEF ReadVersion, OpenStep, Holds
    <2>3. S.version = Latest => Holds("added", S, missing[p])
      BY <1>2 DEF Holds, Complete
    <2>4. Holds("v1_v2", S, missing[p])
      BY <1>2, <2>2 DEF Holds, Complete
    <2>5. UNCHANGED missing
      BY <1>7 DEF ReadVersion
    <2>6. CASE S.version = Latest
      <3>1. OpenStep(p, "version", "added")
        BY <1>7, <2>6 DEF ReadVersion, VersionOf
      <3>2. QED
        BY <1>4, <2>1, <2>3, <2>5, <2>6, <3>1
    <2>7. CASE S.version \in 1..(Latest - 1)
      <3>1. OpenStep(p, "version", "v1_v2")
        BY <1>7, <2>7 DEF ReadVersion, VersionOf
      <3>2. QED
        BY <1>4, <2>1, <2>4, <2>5, <3>1
    <2>8. CASE S.version # Latest /\ S.version \notin 1..(Latest - 1)
      <3>1. OpenStep(p, "version", "failed")
        BY <1>7, <2>8 DEF ReadVersion, VersionOf
      <3>2. QED
        BY <1>4, <2>1, <2>5, <3>1 DEF HasOpen, Complete, Migrating
    <2>9. QED
      BY <2>6, <2>7, <2>8
  <1>8. CASE ListTables(p)
    <2>1. /\ OpenStep(p, "added", "add") /\ openPc[p] \in HasOpen
          /\ "added" \in HasOpen /\ "add" \in HasOpen
          /\ missing' = [missing EXCEPT ![p] = AddedTables \ S.tables]
      BY <1>8 DEF ListTables, OpenStep, HasOpen, Complete
    <2>2. /\ missing' \in [Openers -> SUBSET AddedTables]
          /\ \A q \in Openers \ {p} : missing'[q] = missing[q]
          /\ missing'[p] = AddedTables \ S.tables
      BY <1>2, <2>1 DEF OpenTypeOK
    <2>3. Latest <= S.version
      BY <1>2, <1>8 DEF ListTables, OpenStep, Holds, Complete
    <2>4. Holds("add", S, missing'[p])
      BY <1>2, <2>2, <2>3 DEF Holds
    <2>5. stores' \in [Inodes -> StoreType \cup {NoStore}]
      BY <1>2 DEF OpenTypeOK
    <2> HIDE DEF S
    <2>6. S' = S
      BY <1>2 DEF S
    <2>7. QED
      BY <1>2, <1>3, <2>1, <2>2, <2>4, <2>5, <2>6, HeldStepKeeps DEF S
  <1>9. QED
    BY <1>5, <1>6, <1>7, <1>8

(* A schema step on a store behind it.                                         *)
LEMMA StepTaken ==
  ASSUME NEW S \in StoreType, StepsTaken(S), S.version < Latest,
         NEW T \in StoreType, T.version \in {S.version + 1, Latest}, S.version < T.version,
         S.version = 0 => T.version = Latest,
         T.steps = Append(S.steps, S.version)
  PROVE  StepsTaken(T)
  <1> USE Steps
  <1>1. S.steps \in Seq(0..4) /\ S.version \in 0..4 /\ Len(S.steps) \in Nat
    BY DEF StoreType
  <1>2. /\ Len(T.steps) = Len(S.steps) + 1 /\ T.steps[Len(S.steps) + 1] = S.version
        /\ \A j \in 1..Len(S.steps) : T.steps[j] = S.steps[j]
    BY <1>1
  <1>3. \A j \in 1..Len(S.steps) : S.steps[j] \in 0..4 /\ S.steps[j] < S.version /\ 0 < S.steps[j]
    BY <1>1 DEF StepsTaken
  <1>4. T.version \in 0..6
    BY DEF StoreType
  <1>5. ASSUME NEW j \in 1..Len(T.steps)
        PROVE  T.steps[j] < T.version /\ (T.version < Latest => 0 < T.steps[j])
    <2>1. CASE j = Len(S.steps) + 1
      <3>1. T.steps[j] = S.version
        BY <1>2, <2>1
      <3>2. S.version = 0 => ~(T.version < Latest)
        BY <1>4
      <3>3. QED
        BY <1>1, <3>1, <3>2
    <2>2. CASE j \in 1..Len(S.steps)
      <3>1. T.steps[j] = S.steps[j]
        BY <1>2, <2>2
      <3>2. S.steps[j] \in 0..4 /\ S.steps[j] < S.version /\ 0 < S.steps[j]
        BY <1>3, <2>2
      <3>3. QED
        BY <1>1, <1>4, <3>1, <3>2
    <2>3. QED
      BY <1>1, <1>2, <2>1, <2>2
  <1>6. ASSUME NEW j \in 1..Len(T.steps), NEW k \in 1..Len(T.steps), j < k
        PROVE  0 < T.steps[j] /\ T.steps[j] < T.steps[k]
    <2>1. j \in 1..Len(S.steps) /\ T.steps[j] = S.steps[j]
      BY <1>1, <1>2, <1>6
    <2>2. CASE k = Len(S.steps) + 1
      BY <1>1, <1>2, <1>3, <2>1, <2>2
    <2>3. CASE k \in 1..Len(S.steps)
      BY <1>1, <1>2, <1>3, <1>6, <2>1, <2>3 DEF StepsTaken
    <2>4. QED
      BY <1>1, <1>2, <2>2, <2>3
  <1>7. QED
    BY <1>5, <1>6 DEF StepsTaken

LEMMA Remade ==
  ASSUME NEW S \in StoreType, NEW v \in 0..Newer, NEW t \in SUBSET AddedTables,
         NEW s \in Seq(0..(Latest - 1))
  PROVE  /\ [S EXCEPT !.version = v, !.tables = t, !.steps = s] \in StoreType
         /\ [S EXCEPT !.version = v, !.steps = s] \in StoreType
  BY DEF StoreType

LEMMA SchemaStepsKeep ==
  ASSUME NEW p \in Openers, OpenInv,
         CreateSchema(p) \/ Migrate(p) \/ AddTables(p) \/ StoreUsage(p)
  PROVE  OpenInv'
  <1> USE Steps
  <1> DEFINE h == handle[p]
             S == stores[h]
  <1>1. openPc[p] \in {"create", "add", "open"} \cup Migrating
    <2>1. CASE CreateSchema(p)
      BY <2>1 DEF CreateSchema, OpenStep
    <2>2. CASE Migrate(p)
      <3>1. PICK v \in 1..(Latest - 1) : openPc[p] = StepFrom[v]
        BY <2>2 DEF Migrate, OpenStep
      <3>2. QED
        BY <3>1 DEF Migrating
    <2>3. CASE AddTables(p) \/ StoreUsage(p)
      BY <2>3 DEF AddTables, StoreUsage, OpenStep
    <2>4. QED
      BY <2>1, <2>2, <2>3
  <1>2. /\ OpenTypeOK /\ h \in Inodes /\ Holds(openPc[p], S, missing[p]) /\ openPc[p] \in HasOpen
        /\ UNCHANGED <<storeAt, copyMarker, oldLedger, handle, historyOfOpens>>
        /\ S \in StoreType /\ S.version \in 0..6 /\ S.steps \in Seq(0..4)
    <2>1. openPc[p] \in HasOpen
      BY <1>1 DEF HasOpen, Complete
    <2>2. OpenTypeOK /\ h \in Inodes /\ Holds(openPc[p], S, missing[p]) /\ S \in StoreType
      BY <2>1 DEF OpenInv, HandlesHold, Holds
    <2>3. S.version \in 0..6 /\ S.steps \in Seq(0..4)
      BY <2>2 DEF StoreType
    <2>4. UNCHANGED <<storeAt, copyMarker, oldLedger, handle, historyOfOpens>>
      BY DEF CreateSchema, Migrate, AddTables, StoreUsage, UNCHANGEDbutStores
    <2>5. QED
      BY <2>1, <2>2, <2>3, <2>4
  <1>3. StepsTaken(S)
    BY <1>2 DEF OpenInv, SchemaOrdered
  <1>4. ASSUME NEW from \in HasOpen, NEW to \in HasOpen \cup {"ended", "failed"},
               NEW T \in StoreType,
               OpenStep(p, from, to), stores'[h] = T,
               stores' \in [Inodes -> StoreType \cup {NoStore}],
               \A i \in Inodes \ {h} : stores'[i] = stores[i],
               Grown(S, T), StepsTaken(T), OldUsage \in T.rows => OldUsage \in S.rows,
               missing' \in [Openers -> SUBSET AddedTables],
               \A q \in Openers \ {p} : missing'[q] = missing[q],
               to \in HasOpen => Holds(to, T, missing'[p])
        PROVE  OpenInv'
    BY <1>2, <1>4, HeldStepKeeps
  <1>5. missing \in [Openers -> SUBSET AddedTables] /\ stores \in [Inodes -> StoreType \cup {NoStore}]
    BY <1>2 DEF OpenTypeOK
  <1>6. CASE CreateSchema(p) /\ ~Creates(p)
    <2>1. stores'[h] = S /\ UNCHANGED <<stores, missing>> /\ OpenStep(p, "create", "version")
      BY <1>2, <1>6 DEF CreateSchema
    <2>2. Holds("version", S, missing[p]) /\ "create" \in HasOpen /\ "version" \in HasOpen
      BY <1>2, <1>6 DEF Holds, Creates, VersionOf, Complete, HasOpen
    <2> HIDE DEF S, h
    <2>3. QED
      BY <1>2, <1>3, <1>4, <1>5, <2>1, <2>2, SameGrown
  <1>7. CASE CreateSchema(p) /\ Creates(p)
    <2> DEFINE T == stores'[h]
    <2>1. /\ S.version = 0
          /\ stores' = [stores EXCEPT ![h].version = Latest, ![h].tables = AddedTables,
                                      ![h].steps = Append(@, 0)]
          /\ OpenStep(p, "create", "added") /\ missing' = missing
      BY <1>7 DEF CreateSchema, Creates, VersionOf
    <2>2. /\ T = [S EXCEPT !.version = Latest, !.tables = AddedTables, !.steps = Append(@, 0)]
          /\ \A i \in Inodes \ {h} : stores'[i] = stores[i]
          /\ stores' \in [Inodes -> StoreType \cup {NoStore}] \/ T \notin StoreType
      BY <1>2, <1>5, <2>1
    <2>3. /\ T.version = Latest /\ T.tables = AddedTables /\ T.steps = Append(S.steps, 0)
          /\ T.rows = S.rows
      BY <1>2, <2>2 DEF StoreType
    <2>4. T \in StoreType
      <3>1. Append(S.steps, 0) \in Seq(0..(Latest - 1))
        BY <1>2
      <3> DEFINE s == Append(S.steps, 0)
      <3>2. T = [S EXCEPT !.version = Latest, !.tables = AddedTables, !.steps = s]
        BY <2>2
      <3> HIDE DEF S, T, s
      <3>3. Latest \in 0..Newer /\ AddedTables \in SUBSET AddedTables
        OBVIOUS
      <3>4. s \in Seq(0..(Latest - 1))
        BY <3>1 DEF s
      <3>5. QED
        BY <1>2, <3>2, <3>3, <3>4, Remade
    <2>5. Grown(S, T)
      <3>1. S.tables \subseteq AddedTables
        BY <1>2 DEF StoreType
      <3> HIDE DEF S, T
      <3>2. S.version <= T.version /\ S.tables \subseteq T.tables
        BY <2>1, <2>3, <3>1
      <3>3. QED
        BY <2>3, <2>4, <3>2 DEF Grown
    <2> HIDE DEF S, T, h
    <2>6. StepsTaken(T)
      <3>1. T.version \in {S.version + 1, Latest} /\ S.version < Latest /\ S.version < T.version
        BY <2>1, <2>3
      <3>2. QED
        BY <1>2, <1>3, <2>1, <2>3, <2>4, <3>1, StepTaken
    <2>7. Holds("added", T, missing[p]) /\ "create" \in HasOpen /\ "added" \in HasOpen
      BY <2>3, <2>4 DEF Holds, Complete, HasOpen
    <2>8. QED
      BY <1>4, <1>5, <2>1, <2>2, <2>3, <2>4, <2>5, <2>6, <2>7 DEF T
  <1>8. CASE Migrate(p)
    <2>1. PICK v \in 1..(Latest - 1) :
            /\ OpenStep(p, StepFrom[v], IF v + 1 < Latest THEN StepFrom[v + 1] ELSE "added")
            /\ stores' = IF IsAt(p, v)
                         THEN [stores EXCEPT ![h].version = v + 1, ![h].steps = Append(@, v)]
                         ELSE stores
            /\ missing' = missing
      BY <1>8 DEF Migrate
    <2> DEFINE to == IF v + 1 < Latest THEN StepFrom[v + 1] ELSE "added"
               T == stores'[h]
    <2>2. v \in {1, 2, 3, 4} /\ openPc[p] = StepFrom[v] /\ v <= S.version
      BY <1>2, <2>1 DEF OpenStep, Holds
    <2>3. /\ StepFrom[v] \in HasOpen /\ to \in HasOpen
          /\ \A R \in StoreType : v + 1 <= R.version => Holds(to, R, missing[p])
      BY <2>2 DEF HasOpen, Migrating, Complete, Holds
    <2>4. CASE ~IsAt(p, v)
      <3>1. T = S /\ stores' = stores /\ v + 1 <= S.version
        BY <1>2, <2>1, <2>2, <2>4 DEF IsAt, VersionOf
      <3> HIDE DEF S, T, h, to
      <3>2. QED
        BY <1>2, <1>3, <1>4, <1>5, <2>1, <2>3, <3>1, SameGrown DEF to, T
    <2>5. CASE IsAt(p, v)
      <3>1. S.version = v /\ stores' = [stores EXCEPT ![h].version = v + 1, ![h].steps = Append(@, v)]
        BY <2>1, <2>5 DEF IsAt, VersionOf
      <3>2. /\ T = [S EXCEPT !.version = v + 1, !.steps = Append(@, v)]
            /\ \A i \in Inodes \ {h} : stores'[i] = stores[i]
            /\ stores' \in [Inodes -> StoreType \cup {NoStore}] \/ T \notin StoreType
        BY <1>2, <1>5, <3>1
      <3>3. /\ T.version = v + 1 /\ T.tables = S.tables /\ T.steps = Append(S.steps, v)
            /\ T.rows = S.rows
        BY <1>2, <3>2 DEF StoreType
      <3>4. T \in StoreType
        <4>1. Append(S.steps, v) \in Seq(0..(Latest - 1))
          BY <1>2, <2>2
        <4>2. v + 1 \in 0..Newer
          BY <2>2
        <4> DEFINE s == Append(S.steps, v)
        <4>3. T = [S EXCEPT !.version = v + 1, !.steps = s]
          BY <3>2
        <4>4. s \in Seq(0..(Latest - 1))
          BY <4>1
        <4> HIDE DEF S, T, s
        <4>5. QED
          BY <1>2, <4>2, <4>3, <4>4, Remade
      <3>5. Grown(S, T)
        <4> HIDE DEF S, T
        <4>1. S.version <= T.version
          BY <2>2, <3>1, <3>3
        <4>2. QED
          BY <3>3, <3>4, <4>1 DEF Grown
      <3> HIDE DEF S, T, h, to
      <3>6. StepsTaken(T)
        <4>1. S \in StoreType /\ T \in StoreType /\ StepsTaken(S)
          BY <1>2, <1>3, <3>4
        <4>2. /\ S.version < Latest /\ S.version < T.version /\ S.version # 0
              /\ T.version \in {S.version + 1, Latest} /\ T.steps = Append(S.steps, S.version)
          BY <1>2, <2>2, <3>1, <3>3
        <4>3. QED
          BY <4>1, <4>2, StepTaken
      <3>7. Holds(to, T, missing[p])
        BY <2>2, <2>3, <3>3, <3>4
      <3>8. QED
        BY <1>4, <1>5, <2>1, <2>3, <3>2, <3>3, <3>4, <3>5, <3>6, <3>7 DEF to, T
    <2>6. QED
      BY <2>4, <2>5
  <1>9. CASE AddTables(p)
    <2> DEFINE T == stores'[h]
    <2>1. /\ OpenStep(p, "add", "open") /\ openPc[p] = "add"
          /\ stores' = [stores EXCEPT ![h].tables = @ \cup missing[p]]
          /\ missing' = [missing EXCEPT ![p] = {}]
      BY <1>9 DEF AddTables, OpenStep
    <2>2. missing[p] \subseteq AddedTables
      BY <1>5
    <2>3. /\ T = [S EXCEPT !.tables = @ \cup missing[p]]
          /\ \A i \in Inodes \ {h} : stores'[i] = stores[i]
          /\ stores' \in [Inodes -> StoreType \cup {NoStore}] \/ T \notin StoreType
          /\ missing' \in [Openers -> SUBSET AddedTables]
          /\ \A q \in Openers \ {p} : missing'[q] = missing[q]
      BY <1>2, <1>5, <2>1
    <2>4. /\ T.version = S.version /\ T.tables = S.tables \cup missing[p] /\ T.steps = S.steps
          /\ T.rows = S.rows
      BY <1>2, <2>3 DEF StoreType
    <2>5. T \in StoreType
      BY <1>2, <2>2, <2>3 DEF StoreType
    <2>6. Grown(S, T) /\ StepsTaken(T)
      BY <1>2, <1>3, <2>4, <2>5 DEF Grown, StoreType, StepsTaken
    <2>7. S.tables \subseteq AddedTables
      BY <1>2 DEF StoreType
    <2>8. Latest <= T.version /\ (T.version = Latest => T.tables = AddedTables)
      BY <1>2, <2>1, <2>2, <2>4, <2>7 DEF Holds, Complete
    <2>9. Holds("open", T, missing'[p]) /\ "open" \in HasOpen /\ "add" \in HasOpen
      BY <2>5, <2>8 DEF Holds, Complete, HasOpen
    <2> HIDE DEF S, T, h
    <2>10. QED
      BY <1>4, <2>1, <2>3, <2>4, <2>5, <2>6, <2>9 DEF T
  <1>10. CASE StoreUsage(p)
    <2> DEFINE T == stores'[h]
    <2>1. /\ OpenStep(p, "open", "ended")
          /\ stores' = [stores EXCEPT ![h].rows = @ \cup {p}] /\ missing' = missing
      BY <1>10 DEF StoreUsage
    <2>2. /\ T = [S EXCEPT !.rows = @ \cup {p}]
          /\ \A i \in Inodes \ {h} : stores'[i] = stores[i]
          /\ stores' \in [Inodes -> StoreType \cup {NoStore}] \/ T \notin StoreType
      BY <1>2, <1>5, <2>1
    <2>3. /\ T.version = S.version /\ T.tables = S.tables /\ T.steps = S.steps
          /\ T.rows = S.rows \cup {p}
      BY <1>2, <2>2 DEF StoreType
    <2>4. T \in StoreType
      BY <1>2, <2>2 DEF StoreType
    <2>5. Grown(S, T) /\ StepsTaken(T)
      BY <1>2, <1>3, <2>3, <2>4 DEF Grown, StoreType, StepsTaken
    <2>6. "open" \in HasOpen /\ "ended" \notin HasOpen /\ p # OldUsage
      BY InodesOfRuns DEF HasOpen, Complete, Migrating
    <2> HIDE DEF S, T, h
    <2>7. QED
      BY <1>4, <1>5, <2>1, <2>2, <2>3, <2>4, <2>5, <2>6 DEF T
  <1>11. QED
    BY <1>6, <1>7, <1>8, <1>9, <1>10

LEMMA DieKeeps ==
  ASSUME NEW p \in Openers, OpenInv, Die(p)
  PROVE  OpenInv'
  <1>1. /\ OpenTypeOK /\ AtStore /\ openPc' = [openPc EXCEPT ![p] = "failed"]
        /\ UNCHANGED <<storeAt, stores, copyMarker, oldLedger, handle, missing, resets, everOpened,
                       revivable>>
        /\ deaths' = deaths + 1
    BY DEF OpenInv, Die
  <1>2. OpenTypeOK'
    BY <1>1 DEF OpenTypeOK, OpenPlaces
  <1>3. openPc'[p] = "failed" /\ \A q \in Openers \ {p} : openPc'[q] = openPc[q]
    BY <1>1 DEF OpenTypeOK
  <1>4. Moved(p)
    BY <1>1, <1>3, SameStores DEF Moved
  <1>5. Lands(p)
    BY <1>1, <1>3 DEF Lands, AtStore, HasOpen, Migrating, Complete, Before
  <1>6. QED
    BY <1>2, <1>4, <1>5, MovedKeeps

(* The user deletes the ledger; the runs keep the inode they opened.           *)
LEMMA DeleteKeeps ==
  ASSUME OpenInv, DeleteLedger
  PROVE  OpenInv'
  <1>1. /\ storeAt' = NoStore /\ resets' = resets + 1
        /\ revivable' = (revivable \/ everOpened = {} \/ \E p \in Openers : Copying(p))
        /\ UNCHANGED <<stores, copyMarker, oldLedger, openPc, handle, missing, deaths, everOpened>>
    BY DEF DeleteLedger
  <1>2. OpenTypeOK'
    BY <1>1 DEF OpenInv, OpenTypeOK
  <1>3. SchemaOrdered' /\ AtStore' /\ HandlesHold' /\ SettledFirst'
    BY <1>1 DEF OpenInv, SchemaOrdered, AtStore, HandlesHold, SettledFirst, Settled
  <1>4. OwnInodes'
    BY <1>1, InodesOfRuns DEF OpenInv, OwnInodes, Unused, Copying
  <1>5. NotImported'
    BY <1>1 DEF OpenInv, NotImported, SettledFirst, Settled, Copying
  <1>6. QED
    BY <1>2, <1>3, <1>4, <1>5 DEF OpenInv

LEMMA NewerBuildKeeps ==
  ASSUME OpenInv, NewerBuildMigrates
  PROVE  OpenInv'
  <1> USE Steps
  <1> DEFINE S == stores[storeAt]
             T == stores'[storeAt]
  <1>1. /\ OpenTypeOK /\ storeAt # NoStore /\ S.version \in 1..Latest
        /\ stores' = [stores EXCEPT ![storeAt].version = Newer]
        /\ UNCHANGED <<openPc, missing, storeAt, copyMarker, oldLedger, handle, historyOfOpens>>
    BY DEF OpenInv, NewerBuildMigrates, UNCHANGEDbutStores
  <1>2. S \in StoreType /\ storeAt \in Inodes /\ StepsTaken(S)
    BY <1>1 DEF OpenInv, AtStore, OpenTypeOK, SchemaOrdered
  <1>3. T = [S EXCEPT !.version = Newer] /\ \A i \in Inodes \ {storeAt} : stores'[i] = stores[i]
    BY <1>1, <1>2 DEF OpenTypeOK
  <1>4. T.version = Newer /\ T.tables = S.tables /\ T.rows = S.rows /\ T.steps = S.steps
    BY <1>2, <1>3 DEF StoreType
  <1>5. T \in StoreType
    BY SMTT(60), <1>2, <1>3 DEF StoreType
  <1>6. S.steps \in Seq(0..(Latest - 1)) /\ S.version \in 1..5
    BY <1>1, <1>2 DEF StoreType
  <1>7. Grown(S, T)
    BY <1>4, <1>5, <1>6 DEF Grown
  <1>8. StepsTaken(T)
    <2>1. \A j \in 1..Len(S.steps) : S.steps[j] \in 0..4
      BY <1>6
    <2>2. QED
      BY SMTT(60), <1>2, <1>4, <2>1 DEF StepsTaken
  <1> HIDE DEF S, T
  <1>9. \A i \in Inodes : Grown(stores[i], stores'[i])
    BY <1>3, <1>7, SameGrown DEF S, T
  <1>10. OpenTypeOK'
    BY <1>1, <1>2, <1>5 DEF OpenTypeOK, historyOfOpens, T
  <1>11. SchemaOrdered' /\ AtStore'
    BY <1>1, <1>2, <1>3, <1>5, <1>8 DEF OpenInv, SchemaOrdered, AtStore, T
  <1>12. HandlesHold'
    <2> SUFFICES ASSUME NEW q \in Openers, openPc[q] \in HasOpen
                 PROVE  handle[q] \in Inodes /\ Holds(openPc[q], stores'[handle[q]], missing[q])
      BY <1>1 DEF HandlesHold
    <2>1. handle[q] \in Inodes /\ Holds(openPc[q], stores[handle[q]], missing[q])
      BY DEF OpenInv, HandlesHold
    <2>2. openPc[q] \in OpenPlaces
      BY <1>1 DEF OpenTypeOK
    <2>3. QED
      BY <1>9, <2>1, <2>2, StillHolds
  <1>13. OwnInodes'
    BY <1>1, <1>9, InodesOfRuns DEF OpenInv, OwnInodes, Unused, Copying, Grown
  <1>14. SettledFirst' /\ NotImported'
    BY <1>1, <1>4 DEF OpenInv, SettledFirst, NotImported, Settled, Copying, historyOfOpens, S, T
  <1>15. QED
    BY <1>10, <1>11, <1>12, <1>13, <1>14 DEF OpenInv

LEMMA OpenNextKeeps ==
  ASSUME OpenInv, [OpenNext]_openVars
  PROVE  OpenInv'
  <1>1. CASE UNCHANGED openVars
    BY <1>1 DEF openVars, OpenInv, OpenTypeOK, SchemaOrdered, AtStore, HandlesHold, Holds, OwnInodes,
                Unused, Copying, SettledFirst, NotImported, Settled
  <1>2. ASSUME NEW p \in Openers,
               \/ CheckMarker(p) \/ CheckTarget(p) \/ Snapshot(p) \/ LinkSnapshot(p) \/ MarkCopied(p)
               \/ PrepareFile(p) \/ AssertSupported(p) \/ LookForTables(p) \/ CreateSchema(p)
               \/ ReadVersion(p) \/ Migrate(p) \/ ListTables(p) \/ AddTables(p) \/ StoreUsage(p)
               \/ Die(p)
        PROVE  OpenInv'
    BY <1>2, CopyStepsKeep, SnapshotKeeps, PrepareFileKeeps, LooksKeep, SchemaStepsKeep, DieKeeps
  <1>3. QED
    BY <1>1, <1>2, DeleteKeeps, NewerBuildKeeps DEF OpenNext

(* Concurrent first runs never replace one another's ledger
   (copyLegacyEventStore links its snapshot and does not rename it;
   prepareEventStoreFile creates a file only where there is none): for any
   number of runs, dying anywhere, what is at the path and the usage in it stay
   until the user deletes it.                                                  *)
THEOREM LedgerIsKept == OpenSpec => LedgerKept
  <1>1. ASSUME OpenInv, [OpenNext]_openVars, storeAt # NoStore, resets' = resets
        PROVE  storeAt' = storeAt /\ stores[storeAt].rows \subseteq stores'[storeAt].rows
    <2>1. OpenTypeOK /\ AtStore /\ OwnInodes /\ storeAt \in Inodes /\ stores[storeAt] \in StoreType
      BY <1>1 DEF OpenInv, AtStore, OpenTypeOK
    <2>2. CASE UNCHANGED openVars
      BY <2>2 DEF openVars
    <2>3. ASSUME NEW p \in Openers, CheckMarker(p) \/ CheckTarget(p) \/ LinkSnapshot(p) \/ MarkCopied(p) \/ Die(p)
                     \/ AssertSupported(p) \/ LookForTables(p) \/ ReadVersion(p) \/ ListTables(p)
          PROVE  storeAt' = storeAt /\ stores' = stores
      BY <1>1, <2>3 DEF CheckMarker, CheckTarget, LinkSnapshot, Linked, MarkCopied, Die, AssertSupported,
           LookForTables, ReadVersion, ListTables, UNCHANGEDbutStores
    <2>4. ASSUME NEW p \in Openers, Snapshot(p) \/ PrepareFile(p)
          PROVE  storeAt' = storeAt /\ stores'[storeAt] = stores[storeAt]
      <3>1. CASE PrepareFile(p)
        BY <1>1, <3>1 DEF PrepareFile
      <3>2. CASE Snapshot(p)
        <4>1. storeAt # <<p, "copy">>
          BY <2>1, <3>2 DEF Snapshot, OpenStep, OwnInodes, Unused
        <4>2. QED
          BY <2>1, <3>2, <4>1 DEF Snapshot, OpenTypeOK
      <3>3. QED
        BY <2>4, <3>1, <3>2
    <2>5. ASSUME NEW p \in Openers, CreateSchema(p) \/ Migrate(p) \/ AddTables(p) \/ StoreUsage(p)
          PROVE  storeAt' = storeAt /\ stores[storeAt].rows \subseteq stores'[storeAt].rows
      <3>1. UNCHANGED storeAt
        BY <2>5 DEF CreateSchema, Migrate, AddTables, StoreUsage, UNCHANGEDbutStores
      <3>2. stores[storeAt].rows \subseteq stores'[storeAt].rows
        <4>1. CASE CreateSchema(p)
          BY <2>1, <4>1 DEF CreateSchema, OpenTypeOK, StoreType
        <4>2. CASE Migrate(p)
          BY <2>1, <4>2 DEF Migrate, OpenTypeOK, StoreType
        <4>3. CASE AddTables(p)
          BY <2>1, <4>3 DEF AddTables, OpenTypeOK, StoreType
        <4>4. CASE StoreUsage(p)
          BY <2>1, <4>4 DEF StoreUsage, OpenTypeOK, StoreType
        <4>5. QED
          BY <2>5, <4>1, <4>2, <4>3, <4>4
      <3>3. QED
        BY <3>1, <3>2
    <2>6. CASE DeleteLedger
      BY <1>1, <2>1, <2>6 DEF DeleteLedger, OpenTypeOK
    <2>7. CASE NewerBuildMigrates
      BY <2>1, <2>7 DEF NewerBuildMigrates, UNCHANGEDbutStores, OpenTypeOK, StoreType
    <2>8. QED
      BY <1>1, <2>2, <2>3, <2>4, <2>5, <2>6, <2>7 DEF OpenNext
  <1>2. QED
    BY <1>1, OpenInitHolds, OpenNextKeeps, PTL DEF OpenSpec, LedgerKept

(* createOrMigrateSchema under any interleaving of runs and of a newer build:
   each schema step is taken once, in order, and an open store is complete.    *)
THEOREM SchemaIsSound == OpenSpec => []SchemaSound
  <1>1. ASSUME OpenInv PROVE SchemaSound
    <2> SUFFICES ASSUME NEW i \in Inodes, stores[i] # NoStore
                 PROVE  /\ \A j, k \in 1..Len(stores[i].steps) : j < k =>
                              0 < stores[i].steps[j] /\ stores[i].steps[j] < stores[i].steps[k]
                        /\ \A p \in Openers : openPc[p] = "open" /\ handle[p] = i =>
                              /\ stores[i].version \in {Latest, Newer}
                              /\ stores[i].version = Latest => stores[i].tables = AddedTables
      BY DEF SchemaSound
    <2>1. stores[i] \in StoreType /\ StepsTaken(stores[i])
      BY <1>1 DEF OpenInv, OpenTypeOK, SchemaOrdered
    <2>2. ASSUME NEW p \in Openers, openPc[p] = "open", handle[p] = i
          PROVE  /\ stores[i].version \in {Latest, Newer}
                 /\ stores[i].version = Latest => stores[i].tables = AddedTables
      <3>1. Holds("open", stores[i], missing[p])
        BY <1>1, <2>2 DEF OpenInv, HandlesHold, HasOpen, Complete
      <3>2. stores[i].version \in 0..6
        BY <2>1, Steps DEF StoreType
      <3>3. QED
        BY <3>1, <3>2, Steps DEF Holds, Complete
    <2>3. QED
      BY <2>1, <2>2 DEF StepsTaken
  <1>2. QED
    BY <1>1, OpenInitHolds, OpenNextKeeps, PTL DEF OpenSpec

(* The marker legacy-ledger-copied: a ledger that was in use and then deleted
   stays empty, although runs die between the copy and the marker.             *)
THEOREM OldIsNotRevived == OpenSpec => []OldNotRevived
  <1>1. OpenInv => OldNotRevived
    BY DEF OpenInv, NotImported, OldNotRevived
  <1>2. QED
    BY <1>1, OpenInitHolds, OpenNextKeeps, PTL DEF OpenSpec

----------------------------------------------------------------------------
(* MachineSync, for any number of runs, destinations and session files: a     *)
(* cache of a machine is one export, and reports claim its sync once per      *)
(* interval.                                                                  *)

Revisions == {Nothing} \cup (Dests \X Nat)
Contents == [SessionFiles -> Revisions]
CacheType == [files : Contents, kept : BOOLEAN, last : Int, claimed : Int]
CommandPlaces == {"idle", "look", "claim", "open", "known", "fetch", "apply", "fail", "delete", "undo",
           "drop", "list", "unlist"}
Roles == {"none", "report", "sync", "remove", "add"}
RunType == [at : CommandPlaces, role : Roles, dest : Dests \cup {Nothing}, read : Nat, cache : Nat]
BundleType == [listed : Contents, sent : SUBSET SessionFiles]

MachineTypeOK ==
    /\ time \in Nat /\ edits \in Nat
    /\ remote \in [Dests -> Contents]
    /\ past \in [Dests -> SUBSET Contents]
    /\ entry \in Dests \cup {Nothing}
    /\ caches \in Seq(CacheType)
    /\ cacheAt \in 0 .. Len(caches)
    /\ cmd \in [Commands -> RunType]
    /\ bundle \in [Commands -> BundleType]

(* A destination's state is one of those it was in.                           *)
PastHasRemote == \A d \in Dests : remote[d] \in past[d]

(* A run has a destination, a cache that exists once it opened one, and the
   listing of an export its destination once gave.                            *)
RunsFit ==
    \A p \in Commands :
        /\ cmd[p].at # "idle" => cmd[p].dest \in Dests
        /\ cmd[p].at \in {"known", "fetch", "apply", "fail"} => cmd[p].cache \in 1 .. Len(caches)
        /\ cmd[p].at = "apply" => bundle[p].listed \in past[cmd[p].dest]
        /\ cmd[p].read <= time

(* A cache was synced, or tried, no earlier than it was claimed last; and it
   holds one export.                                                          *)
IsExport(files) == files = NoFiles \/ \E d \in Dests : files \in past[d]
GoodCache(cache) == cache.claimed <= cache.last /\ cache.claimed <= time /\ IsExport(cache.files)
CachesGood == \A c \in 1 .. Len(caches) : GoodCache(caches[c])

SyncInv == MachineTypeOK /\ PastHasRemote /\ RunsFit /\ CachesGood

LEMMA NoFilesTyped == NoFiles \in Contents
  BY DEF NoFiles, Contents, Revisions

LEMMA NewCacheGood == time \in Nat => NewCache \in CacheType /\ GoodCache(NewCache)
  BY NoFilesTyped, MachineAssumption DEF NewCache, CacheType, GoodCache, IsExport

LEMMA IdleRunTyped == IdleRun \in RunType
  BY DEF IdleRun, RunType, CommandPlaces, Roles

LEMMA SyncInitHolds == MachineInit => SyncInv
  <1> SUFFICES ASSUME MachineInit PROVE SyncInv
    OBVIOUS
  <1>1. /\ time = Interval /\ time \in Nat /\ edits = 0
        /\ cmd = [p \in Commands |-> IdleRun]
        /\ bundle = [p \in Commands |-> [listed |-> NoFiles, sent |-> {}]]
    BY MachineAssumption DEF MachineInit
  <1>2. /\ remote \in [Dests -> Contents]
        /\ past \in [Dests -> SUBSET Contents]
        /\ \A d \in Dests : remote[d] \in past[d]
    <2>1. remote = [d \in Dests |-> [f \in SessionFiles |-> Revision(d, 0)]]
      BY DEF MachineInit
    <2>2. remote \in [Dests -> Contents]
      BY <2>1 DEF Contents, Revisions, Revision
    <2>3. past = [d \in Dests |-> {remote[d]}]
      BY DEF MachineInit
    <2>4. QED
      BY <2>2, <2>3
  <1>3. /\ entry \in Dests \cup {Nothing}
        /\ caches \in Seq(CacheType) /\ cacheAt \in 0 .. Len(caches)
        /\ CachesGood
    <2>1. CASE entry = Nothing /\ cacheAt = 0 /\ caches = <<>>
      BY <2>1 DEF CachesGood
    <2>2. ASSUME NEW d \in Dests, NEW kept \in BOOLEAN, entry = d, cacheAt = 1,
                 caches = << [NewCache EXCEPT !.files = remote[d], !.kept = kept] >>
          PROVE  /\ entry \in Dests \cup {Nothing}
                 /\ caches \in Seq(CacheType) /\ cacheAt \in 0 .. Len(caches)
                 /\ CachesGood
      <3> DEFINE cache == [NewCache EXCEPT !.files = remote[d], !.kept = kept]
      <3>1. cache \in CacheType /\ GoodCache(cache)
        BY <1>1, <1>2, NewCacheGood DEF CacheType, GoodCache, IsExport
      <3> HIDE DEF cache
      <3>2. caches = <<cache>>
        BY <2>2 DEF cache
      <3>3. QED
        BY <3>1, <3>2, <2>2 DEF CachesGood
    <2>3. (CHOOSE d \in Dests : TRUE) \in Dests
      BY MachineAssumption
    <2>4. QED
      BY <2>1, <2>2, <2>3 DEF MachineInit
  <1>4. MachineTypeOK /\ PastHasRemote
    BY <1>1, <1>2, <1>3, IdleRunTyped, NoFilesTyped DEF MachineTypeOK, PastHasRemote, BundleType
  <1>5. RunsFit
    BY <1>1 DEF RunsFit, IdleRun
  <1>6. QED
    BY <1>3, <1>4, <1>5 DEF SyncInv

(* What a step of one run must establish: its next state fits its export and
   the number of caches, and the caches and the path are in order.            *)
Fits(run, export, n) ==
    /\ run.at # "idle" => run.dest \in Dests
    /\ run.at \in {"known", "fetch", "apply", "fail"} => run.cache \in 1 .. n
    /\ run.at = "apply" => export.listed \in past[run.dest]
    /\ run.read <= time
InOrder(S, at) ==
    /\ S \in Seq(CacheType) /\ at \in 0 .. Len(S) /\ Len(S) >= Len(caches)
    /\ \A c \in 1 .. Len(S) : GoodCache(S[c])

(* A run that is done fits whatever there is.                                 *)
LEMMA IdleFits ==
  ASSUME SyncInv
  PROVE  IdleRun \in RunType /\ \A export, n : Fits(IdleRun, export, n)
  <1>1. IdleRun.at = "idle" /\ IdleRun.read = 0 /\ time \in Nat
    BY DEF IdleRun, SyncInv, MachineTypeOK
  <1>2. QED
    BY <1>1, IdleRunTyped DEF Fits

(* openMachineCache leaves the caches there are, and may add a new one.        *)
LEMMA OpenedInOrder ==
  ASSUME SyncInv
  PROVE  /\ Opened \in Seq(CacheType) /\ OpenedAt \in 1 .. Len(Opened)
         /\ Len(Opened) \in Nat /\ Len(caches) \in Nat /\ Len(Opened) >= Len(caches)
         /\ \A c \in 1 .. Len(caches) : Opened[c] = caches[c]
         /\ \A c \in 1 .. Len(Opened) : GoodCache(Opened[c])
         /\ OpenedAt \in 1 .. Len(caches) => cacheAt = OpenedAt
  <1>1. /\ caches \in Seq(CacheType) /\ cacheAt \in 0 .. Len(caches) /\ Len(caches) \in Nat
        /\ time \in Nat
    BY DEF SyncInv, MachineTypeOK
  <1>2. CASE cacheAt = 0
    <2>1. Opened = Append(caches, NewCache) /\ OpenedAt = Len(caches) + 1
      BY <1>2 DEF Opened, OpenedAt
    <2>2. NewCache \in CacheType /\ GoodCache(NewCache)
      BY <1>1, NewCacheGood
    <2>3. /\ Opened \in Seq(CacheType) /\ Len(Opened) = Len(caches) + 1
          /\ \A c \in 1 .. Len(caches) : Opened[c] = caches[c]
          /\ Opened[Len(caches) + 1] = NewCache
      BY <1>1, <2>1, <2>2
    <2>4. \A c \in 1 .. Len(Opened) : GoodCache(Opened[c])
      BY <1>1, <2>2, <2>3 DEF SyncInv, CachesGood
    <2>5. QED
      BY <1>1, <2>1, <2>3, <2>4
  <1>3. CASE cacheAt # 0
    BY <1>1, <1>3 DEF Opened, OpenedAt, SyncInv, CachesGood
  <1>4. QED
    BY <1>2, <1>3

LEMMA OpenedGood ==
  ASSUME SyncInv
  PROVE  /\ Opened \in Seq(CacheType) /\ OpenedAt \in 1 .. Len(Opened) /\ OpenedAt \in Nat
         /\ Len(Opened) \in Nat /\ Len(caches) \in Nat /\ Len(Opened) >= Len(caches)
         /\ \A c \in 1 .. Len(caches) : Opened[c] = caches[c]
         /\ \A c \in 1 .. Len(Opened) : Opened[c] \in CacheType /\ GoodCache(Opened[c])
         /\ Opened[OpenedAt] \in CacheType /\ GoodCache(Opened[OpenedAt])
         /\ OpenedAt \in 1 .. Len(caches) => cacheAt = OpenedAt
  <1>1. /\ Opened \in Seq(CacheType) /\ OpenedAt \in 1 .. Len(Opened) /\ Len(Opened) \in Nat
        /\ \A c \in 1 .. Len(Opened) : GoodCache(Opened[c])
    BY OpenedInOrder
  <1>2. \A c \in 1 .. Len(Opened) : Opened[c] \in CacheType
    BY <1>1
  <1>3. OpenedAt \in Nat
    BY <1>1
  <1>4. QED
    BY <1>1, <1>2, <1>3, OpenedInOrder

(* One cache of a sequence of good ones is written.                           *)
LEMMA WriteGood ==
  ASSUME NEW S \in Seq(CacheType), NEW k \in 1 .. Len(S), NEW cache \in CacheType, GoodCache(cache),
         \A c \in 1 .. Len(S) : GoodCache(S[c])
  PROVE  /\ [S EXCEPT ![k] = cache] \in Seq(CacheType) /\ Len([S EXCEPT ![k] = cache]) = Len(S)
         /\ [S EXCEPT ![k] = cache][k] = cache
         /\ \A c \in 1 .. Len(S) : c # k => [S EXCEPT ![k] = cache][c] = S[c]
         /\ \A c \in 1 .. Len(S) : GoodCache([S EXCEPT ![k] = cache][c])
  <1> DEFINE T == [S EXCEPT ![k] = cache]
  <1>1. T \in Seq(CacheType) /\ Len(T) = Len(S)
    OBVIOUS
  <1>2. \A c \in 1 .. Len(S) : T[c] = IF c = k THEN cache ELSE S[c]
    OBVIOUS
  <1> HIDE DEF T
  <1>3. /\ T[k] = cache /\ \A c \in 1 .. Len(S) : c # k => T[c] = S[c]
        /\ \A c \in 1 .. Len(S) : GoodCache(T[c])
    BY <1>2
  <1>4. QED
    BY <1>1, <1>3 DEF T

(* The moves of a run, where what it becomes is well formed.                  *)
LEMMA MovesTyped ==
  ASSUME SyncInv, NEW p \in Commands
  PROVE  /\ cmd[p] \in RunType /\ cmd[p].read <= time
         /\ \A to \in CommandPlaces : [cmd[p] EXCEPT !.at = to] \in RunType
         /\ \A to \in CommandPlaces : /\ [cmd[p] EXCEPT !.at = to].at = to
                               /\ [cmd[p] EXCEPT !.at = to].dest = cmd[p].dest
                               /\ [cmd[p] EXCEPT !.at = to].cache = cmd[p].cache
                               /\ [cmd[p] EXCEPT !.at = to].read = cmd[p].read
         /\ IdleRun \in RunType /\ IdleRun.at = "idle" /\ IdleRun.read = 0
         /\ time \in Nat
  <1>1. cmd[p] \in RunType /\ cmd[p].read <= time /\ time \in Nat
    BY DEF SyncInv, MachineTypeOK, RunsFit
  <1>2. ASSUME NEW to \in CommandPlaces
        PROVE  /\ [cmd[p] EXCEPT !.at = to] \in RunType
               /\ [cmd[p] EXCEPT !.at = to].at = to
               /\ [cmd[p] EXCEPT !.at = to].dest = cmd[p].dest
               /\ [cmd[p] EXCEPT !.at = to].cache = cmd[p].cache
               /\ [cmd[p] EXCEPT !.at = to].read = cmd[p].read
    BY <1>1 DEF RunType
  <1>3. IdleRun.at = "idle" /\ IdleRun.read = 0
    BY DEF IdleRun
  <1>4. QED
    BY <1>1, <1>2, <1>3, IdleRunTyped

(* The invariant after a step of one run that leaves the machines alone.      *)
LEMMA RunStepKeepsInv ==
  ASSUME SyncInv, worldVars' = worldVars, NEW p \in Commands, NEW next \in RunType,
         cmd' = [cmd EXCEPT ![p] = next],
         bundle' \in [Commands -> BundleType],
         \A q \in Commands : q # p => bundle'[q] = bundle[q],
         Fits(next, bundle'[p], Len(caches')),
         entry' \in Dests \cup {Nothing},
         InOrder(caches', cacheAt')
  PROVE  SyncInv'
  <1>1. time' = time /\ edits' = edits /\ remote' = remote /\ past' = past
    BY DEF worldVars
  <1>2. MachineTypeOK'
    BY <1>1 DEF SyncInv, MachineTypeOK, InOrder
  <1>3. PastHasRemote'
    BY <1>1 DEF SyncInv, PastHasRemote
  <1>4. \A q \in Commands : cmd'[q] = IF q = p THEN next ELSE cmd[q]
    BY DEF SyncInv, MachineTypeOK
  <1>5. Len(caches) \in Nat /\ Len(caches') \in Nat /\ Len(caches') >= Len(caches)
    BY <1>2 DEF SyncInv, MachineTypeOK, InOrder
  <1>6. RunsFit'
    <2>1. ASSUME NEW q \in Commands
          PROVE  /\ cmd'[q].at # "idle" => cmd'[q].dest \in Dests
                 /\ cmd'[q].at \in {"known", "fetch", "apply", "fail"} => cmd'[q].cache \in 1 .. Len(caches')
                 /\ cmd'[q].at = "apply" => bundle'[q].listed \in past'[cmd'[q].dest]
                 /\ cmd'[q].read <= time'
      <3>1. CASE q = p
        BY <3>1, <1>1, <1>4 DEF Fits
      <3>2. CASE q # p
        BY <3>2, <1>1, <1>4, <1>5 DEF SyncInv, RunsFit
      <3>3. QED
        BY <3>1, <3>2
    <2>2. QED
      BY <2>1 DEF RunsFit
  <1>7. CachesGood'
    BY <1>1 DEF CachesGood, GoodCache, IsExport, InOrder
  <1>8. QED
    BY <1>2, <1>3, <1>6, <1>7 DEF SyncInv

(* What is there when nothing of it changes.                                  *)
LEMMA NowGood ==
  ASSUME SyncInv
  PROVE  /\ entry \in Dests \cup {Nothing} /\ caches \in Seq(CacheType)
         /\ cacheAt \in 0 .. Len(caches) /\ Len(caches) \in Nat
         /\ bundle \in [Commands -> BundleType]
         /\ \A c \in 1 .. Len(caches) : caches[c] \in CacheType /\ GoodCache(caches[c])
         /\ time \in Nat /\ InOrder(caches, cacheAt)
  BY DEF SyncInv, MachineTypeOK, CachesGood, InOrder

(* A run that goes from where it is to another place.                         *)
LEMMA GoesKeepsInv ==
  ASSUME SyncInv, worldVars' = worldVars, NEW p \in Commands, NEW from, NEW to \in CommandPlaces,
         Goes(p, from, to), from # "idle",
         bundle' \in [Commands -> BundleType],
         \A q \in Commands : q # p => bundle'[q] = bundle[q],
         to \in {"known", "fetch", "apply", "fail"} => cmd[p].cache \in 1 .. Len(caches'),
         to = "apply" => bundle'[p].listed \in past[cmd[p].dest],
         entry' \in Dests \cup {Nothing},
         InOrder(caches', cacheAt')
  PROVE  SyncInv'
  <1>1. cmd[p].at = from /\ cmd[p].dest \in Dests
    BY DEF Goes, GoesAs, SyncInv, RunsFit
  <1>2. CASE to = "idle"
    <2>1. cmd' = [cmd EXCEPT ![p] = IdleRun]
      BY <1>2 DEF Goes, GoesAs
    <2>2. IdleRun \in RunType /\ IdleRun.at = "idle" /\ IdleRun.read <= time
      BY MovesTyped
    <2>3. Fits(IdleRun, bundle'[p], Len(caches'))
      BY <2>2 DEF Fits
    <2>4. QED
      BY <2>1, <2>2, <2>3, RunStepKeepsInv
  <1>3. CASE to # "idle"
    <2> DEFINE next == [cmd[p] EXCEPT !.at = to]
    <2>1. cmd' = [cmd EXCEPT ![p] = next]
      BY <1>3 DEF Goes, GoesAs
    <2>2. /\ next \in RunType /\ next.at = to /\ next.dest = cmd[p].dest
          /\ next.cache = cmd[p].cache /\ next.read <= time
      BY MovesTyped
    <2> HIDE DEF next
    <2>3. Fits(next, bundle'[p], Len(caches'))
      BY <1>1, <2>2 DEF Fits
    <2>4. QED
      BY <2>1, <2>2, <2>3, RunStepKeepsInv
  <1>4. QED
    BY <1>2, <1>3

(* One cache of those in order is written.                                    *)
LEMMA WriteInOrder ==
  ASSUME SyncInv, NEW S, NEW at, InOrder(S, at), NEW k \in 1 .. Len(S),
         NEW cache \in CacheType, GoodCache(cache)
  PROVE  InOrder([S EXCEPT ![k] = cache], at) /\ Len([S EXCEPT ![k] = cache]) = Len(S)
  <1>1. S \in Seq(CacheType) /\ \A c \in 1 .. Len(S) : GoodCache(S[c])
    BY DEF InOrder
  <1>2. /\ [S EXCEPT ![k] = cache] \in Seq(CacheType) /\ Len([S EXCEPT ![k] = cache]) = Len(S)
        /\ \A c \in 1 .. Len(S) : GoodCache([S EXCEPT ![k] = cache][c])
    BY <1>1, WriteGood
  <1>3. QED
    BY <1>2 DEF InOrder

(* The entry, the exports and the caches stay in order when untouched.        *)
LEMMA Untouched ==
  ASSUME SyncInv
  PROVE  /\ entry' = entry => entry' \in Dests \cup {Nothing}
         /\ bundle' = bundle => bundle' \in [Commands -> BundleType]
         /\ bundle' = bundle => \A q \in Commands : bundle'[q] = bundle[q]
         /\ caches' = caches /\ cacheAt' = cacheAt => InOrder(caches', cacheAt')
  BY NowGood

(* A cache whose last attempt is now is a good one.                           *)
LEMMA TriedNowGood ==
  ASSUME SyncInv, NEW cache \in CacheType, GoodCache(cache)
  PROVE  /\ [cache EXCEPT !.last = time] \in CacheType
         /\ GoodCache([cache EXCEPT !.last = time])
         /\ [cache EXCEPT !.last = time].claimed = cache.claimed
  <1> DEFINE new == [cache EXCEPT !.last = time]
  <1>1. time \in Int /\ time \in Nat
    BY NowGood
  <1>2. new \in CacheType
    BY <1>1 DEF CacheType
  <1>3. new.last = time /\ new.claimed = cache.claimed /\ new.files = cache.files
    BY DEF CacheType
  <1> HIDE DEF new
  <1>4. GoodCache(new)
    BY <1>3 DEF GoodCache
  <1>5. QED
    BY <1>2, <1>3, <1>4 DEF new

----------------------------------------------------------------------------
(* Each operation keeps the invariant.                                        *)

LEMMA BeginKeepsInv ==
  ASSUME SyncInv, NEW p \in Commands, NEW role \in Roles, NEW first \in CommandPlaces, NEW d \in Dests,
         first \notin {"known", "fetch", "apply", "fail"},
         Begin(p, role, first, d)
  PROVE  SyncInv'
  <1> DEFINE next == [IdleRun EXCEPT !.at = first, !.role = role, !.dest = d]
  <1>1. /\ cmd' = [cmd EXCEPT ![p] = next]
        /\ worldVars' = worldVars /\ entry' = entry /\ bundle' = bundle
        /\ caches' = caches /\ cacheAt' = cacheAt
    BY DEF Begin, GoesAs
  <1>2. next \in RunType /\ next.at = first /\ next.dest = d /\ next.read = 0
    <2>1. IdleRun \in RunType /\ d \in Dests \cup {Nothing} /\ IdleRun.read = 0
      BY MovesTyped
    <2>2. QED
      BY <2>1 DEF RunType
  <1> HIDE DEF next
  <1>3. Fits(next, bundle'[p], Len(caches'))
    BY <1>2, NowGood DEF Fits
  <1>4. QED
    BY <1>1, <1>2, <1>3, Untouched, RunStepKeepsInv

LEMMA BeginListedKeepsInv ==
  ASSUME SyncInv, NEW p \in Commands, BeginListed(p) PROVE SyncInv'
  <1>1. entry \in Dests
    BY DEF BeginListed, SyncInv, MachineTypeOK
  <1>2. QED
    BY <1>1, BeginKeepsInv DEF BeginListed, Roles, CommandPlaces

LEMMA BeginAddKeepsInv ==
  ASSUME SyncInv, NEW p \in Commands, BeginAdd(p) PROVE SyncInv'
  BY BeginKeepsInv DEF BeginAdd, Roles, CommandPlaces

LEMMA LookWhetherDueKeepsInv ==
  ASSUME SyncInv, NEW p \in Commands, LookWhetherDue(p) PROVE SyncInv'
  <1> DEFINE next == [cmd[p] EXCEPT !.at = "claim", !.read = time]
  <1>1. /\ cmd[p].at = "look" /\ (cmd' = [cmd EXCEPT ![p] = next] \/ cmd' = [cmd EXCEPT ![p] = IdleRun])
        /\ worldVars' = worldVars /\ entry' = entry /\ bundle' = bundle
        /\ caches' = caches /\ cacheAt' = cacheAt
    BY DEF LookWhetherDue, GoesAs, runVars
  <1>2. cmd[p] \in RunType /\ cmd[p].dest \in Dests /\ "claim" \in CommandPlaces /\ time \in Nat
    BY <1>1, MovesTyped DEF SyncInv, RunsFit, CommandPlaces
  <1>3. next \in RunType /\ next.at = "claim" /\ next.dest = cmd[p].dest /\ next.read = time
    BY <1>2 DEF RunType
  <1> HIDE DEF next
  <1>4. CASE cmd' = [cmd EXCEPT ![p] = next]
    <2>1. Fits(next, bundle'[p], Len(caches'))
      BY <1>2, <1>3 DEF Fits
    <2>2. QED
      BY <1>1, <1>3, <1>4, <2>1, Untouched, RunStepKeepsInv
  <1>5. CASE cmd' = [cmd EXCEPT ![p] = IdleRun]
    BY <1>1, <1>5, IdleFits, Untouched, RunStepKeepsInv
  <1>6. QED
    BY <1>1, <1>4, <1>5

(* The claim raises the last attempt to the time it was made with
   (claimMachineSync).                                                        *)
LEMMA ClaimedGood ==
  ASSUME SyncInv, NEW cache \in CacheType, GoodCache(cache), NEW read \in Nat, read <= time
  PROVE  LET new == [cache EXCEPT !.last = Later(@, read), !.claimed = read]
         IN  new \in CacheType /\ GoodCache(new) /\ new.claimed = read
  <1> DEFINE later == Later(cache.last, read)
             new == [cache EXCEPT !.last = later, !.claimed = read]
  <1>1. cache.last \in Int /\ read \in Int
    BY DEF CacheType
  <1>2. later \in Int /\ later >= read
    BY <1>1 DEF Later
  <1> HIDE DEF later
  <1>3. new \in CacheType
    BY <1>1, <1>2 DEF CacheType
  <1>4. new.last = later /\ new.claimed = read /\ new.files = cache.files
    BY DEF CacheType
  <1> HIDE DEF new
  <1>5. GoodCache(new)
    BY <1>1, <1>2, <1>4 DEF GoodCache
  <1>6. QED
    BY <1>3, <1>4, <1>5 DEF new, later

LEMMA ClaimSyncKeepsInv ==
  ASSUME SyncInv, NEW p \in Commands, ClaimSync(p) PROVE SyncInv'
  <1> DEFINE next == [cmd[p] EXCEPT !.at = "open", !.read = 0]
             cache == [Opened[OpenedAt] EXCEPT !.last = Later(@, cmd[p].read), !.claimed = cmd[p].read]
  <1>1. /\ cmd[p].at = "claim" /\ cacheAt' = OpenedAt
        /\ \/ cmd' = [cmd EXCEPT ![p] = next] /\ caches' = [Opened EXCEPT ![OpenedAt] = cache]
           \/ cmd' = [cmd EXCEPT ![p] = IdleRun] /\ caches' = Opened
        /\ worldVars' = worldVars /\ entry' = entry /\ bundle' = bundle
    BY DEF ClaimSync, GoesAs, Goes, runVars
  <1>2. cmd[p] \in RunType /\ cmd[p].dest \in Dests /\ "open" \in CommandPlaces /\ 0 \in Nat
    BY <1>1, MovesTyped DEF SyncInv, RunsFit, CommandPlaces
  <1>3. next \in RunType /\ next.at = "open" /\ next.dest = cmd[p].dest /\ next.read = 0
    BY <1>2 DEF RunType
  <1>4. cmd[p].read \in Nat /\ cmd[p].read <= time
    BY MovesTyped DEF RunType
  <1>5. cache \in CacheType /\ GoodCache(cache)
    <2>1. Opened[OpenedAt] \in CacheType /\ GoodCache(Opened[OpenedAt])
      BY OpenedGood
    <2>2. QED
      BY <1>4, <2>1, ClaimedGood
  <1> HIDE DEF next, cache
  <1>6. InOrder(Opened, OpenedAt)
    BY OpenedGood DEF InOrder
  <1>7. CASE cmd' = [cmd EXCEPT ![p] = next] /\ caches' = [Opened EXCEPT ![OpenedAt] = cache]
    <2>1. InOrder(caches', cacheAt')
      BY <1>1, <1>5, <1>6, <1>7, OpenedGood, WriteInOrder
    <2>2. Fits(next, bundle'[p], Len(caches'))
      BY <1>2, <1>3, NowGood DEF Fits
    <2>3. QED
      BY <1>1, <1>3, <1>7, <2>1, <2>2, Untouched, RunStepKeepsInv
  <1>8. CASE cmd' = [cmd EXCEPT ![p] = IdleRun] /\ caches' = Opened
    <2>1. InOrder(caches', cacheAt')
      BY <1>1, <1>6, <1>8
    <2>2. QED
      BY <1>1, <1>8, <2>1, IdleFits, Untouched, RunStepKeepsInv
  <1>9. QED
    BY <1>1, <1>7, <1>8

LEMMA OpenCacheKeepsInv ==
  ASSUME SyncInv, NEW p \in Commands, OpenCache(p) PROVE SyncInv'
  <1> DEFINE next == [cmd[p] EXCEPT !.at = "known", !.cache = OpenedAt]
             cache == [Opened[OpenedAt] EXCEPT !.last = time]
  <1>1. /\ cmd[p].at = "open" /\ cacheAt' = OpenedAt /\ cmd' = [cmd EXCEPT ![p] = next]
        /\ caches' = Opened \/ caches' = [Opened EXCEPT ![OpenedAt] = cache]
        /\ worldVars' = worldVars /\ entry' = entry /\ bundle' = bundle
    BY DEF OpenCache, GoesAs, runVars
  <1>2. cmd[p] \in RunType /\ cmd[p].dest \in Dests /\ "known" \in CommandPlaces /\ OpenedAt \in Nat
    <2>1. cmd[p].dest \in Dests /\ "known" \in CommandPlaces
      BY <1>1 DEF SyncInv, RunsFit, CommandPlaces
    <2>2. QED
      BY <2>1, MovesTyped, OpenedGood
  <1>3. /\ next \in RunType /\ next.at = "known" /\ next.dest = cmd[p].dest
        /\ next.cache = OpenedAt /\ next.read = cmd[p].read
    BY <1>2 DEF RunType
  <1>4. cache \in CacheType /\ GoodCache(cache)
    BY OpenedGood, TriedNowGood
  <1> HIDE DEF next, cache
  <1>5. InOrder(Opened, OpenedAt)
    BY OpenedGood DEF InOrder
  <1>6. InOrder(caches', cacheAt') /\ Len(caches') = Len(Opened)
    BY <1>1, <1>4, <1>5, OpenedGood, WriteInOrder
  <1>7. Fits(next, bundle'[p], Len(caches'))
    BY <1>2, <1>3, <1>6, OpenedGood, MovesTyped DEF Fits
  <1>8. QED
    BY <1>1, <1>3, <1>6, <1>7, Untouched, RunStepKeepsInv

LEMMA ReadKnownKeepsInv ==
  ASSUME SyncInv, NEW p \in Commands, ReadKnown(p) PROVE SyncInv'
  <1>1. /\ Goes(p, "known", "fetch") /\ cmd[p].at = "known"
        /\ worldVars' = worldVars /\ entry' = entry /\ bundle' = bundle
        /\ caches' = caches /\ cacheAt' = cacheAt
    BY DEF ReadKnown, Goes, GoesAs
  <1>2. cmd[p].cache \in 1 .. Len(caches')
    BY <1>1 DEF SyncInv, RunsFit
  <1>3. "fetch" \in CommandPlaces
    BY DEF CommandPlaces
  <1>4. QED
    BY <1>1, <1>2, <1>3, Untouched, GoesKeepsInv

(* The listing is what the destination has at that moment (fetchMachineExport). *)
LEMMA FetchKeepsInv ==
  ASSUME SyncInv, NEW p \in Commands, Fetch(p) PROVE SyncInv'
  <1> DEFINE export == [listed |-> remote[cmd[p].dest],
                        sent |-> {f \in SessionFiles :
                                    remote[cmd[p].dest][f] \notin {Nothing, known[p][f]}}]
  <1>1. /\ cmd[p].at = "fetch"
        /\ \/ Goes(p, "fetch", "apply") /\ bundle' = [bundle EXCEPT ![p] = export]
           \/ Goes(p, "fetch", "fail") /\ bundle' = bundle
        /\ worldVars' = worldVars /\ entry' = entry
        /\ caches' = caches /\ cacheAt' = cacheAt
    BY DEF Fetch, Goes, GoesAs
  <1>2. cmd[p].cache \in 1 .. Len(caches') /\ cmd[p].dest \in Dests
    BY <1>1 DEF SyncInv, RunsFit
  <1>3. export \in BundleType /\ export.listed \in past[cmd[p].dest]
    BY <1>2 DEF SyncInv, MachineTypeOK, PastHasRemote, BundleType
  <1> HIDE DEF export
  <1>4. "apply" \in CommandPlaces /\ "fail" \in CommandPlaces
    BY DEF CommandPlaces
  <1>5. CASE Goes(p, "fetch", "apply") /\ bundle' = [bundle EXCEPT ![p] = export]
    <2>1. /\ bundle' \in [Commands -> BundleType] /\ bundle'[p] = export
          /\ \A q \in Commands : q # p => bundle'[q] = bundle[q]
      BY <1>3, <1>5, NowGood
    <2>2. QED
      BY <1>1, <1>2, <1>3, <1>4, <1>5, <2>1, Untouched, GoesKeepsInv
  <1>6. CASE Goes(p, "fetch", "fail") /\ bundle' = bundle
    BY <1>1, <1>2, <1>4, <1>6, Untouched, GoesKeepsInv
  <1>7. QED
    BY <1>1, <1>5, <1>6

(* What is stored equals the listing, an export (applyMachineExport).         *)
LEMMA ApplyExportKeepsInv ==
  ASSUME SyncInv, NEW p \in Commands, ApplyExport(p) PROVE SyncInv'
  <1> DEFINE k == cmd[p].cache
             cache == [caches[k] EXCEPT !.files = Merged(p), !.kept = TRUE, !.last = time]
             to == IF cmd[p].role = "add" THEN "list" ELSE "idle"
             none == [listed |-> NoFiles, sent |-> {}]
  <1>1. /\ cmd[p].at = "apply"
        /\ \/ Goes(p, "apply", to) /\ Applies(p) /\ caches' = [caches EXCEPT ![k] = cache]
           \/ Goes(p, "apply", "fail") /\ caches' = caches
        /\ bundle' = [bundle EXCEPT ![p] = none]
        /\ worldVars' = worldVars /\ entry' = entry /\ cacheAt' = cacheAt
    BY DEF ApplyExport, Goes, GoesAs
  <1>2. /\ k \in 1 .. Len(caches) /\ cmd[p].dest \in Dests
        /\ bundle[p].listed \in past[cmd[p].dest] /\ bundle[p].listed \in Contents
    BY <1>1 DEF SyncInv, RunsFit, MachineTypeOK, BundleType
  <1>3. "fail" \in CommandPlaces /\ to \in CommandPlaces /\ to \notin {"known", "fetch", "apply", "fail"}
    BY DEF CommandPlaces
  <1>4. /\ bundle' \in [Commands -> BundleType]
        /\ \A q \in Commands : q # p => bundle'[q] = bundle[q]
    <2>1. none \in BundleType
      BY NoFilesTyped DEF BundleType
    <2> HIDE DEF none
    <2>2. QED
      BY <1>1, <2>1, NowGood
  <1> HIDE DEF to, none
  <1>5. CASE Goes(p, "apply", to) /\ Applies(p) /\ caches' = [caches EXCEPT ![k] = cache]
    <2>1. Merged(p) \in Contents /\ Merged(p) \in past[cmd[p].dest]
      BY <1>2, <1>5 DEF Applies
    <2>2. caches[k] \in CacheType /\ GoodCache(caches[k]) /\ time \in Nat /\ time \in Int
      BY <1>2, NowGood
    <2>3. cache \in CacheType
      BY <2>1, <2>2 DEF CacheType
    <2>4. cache.last = time /\ cache.claimed = caches[k].claimed /\ cache.files = Merged(p)
      BY <2>2 DEF CacheType
    <2> HIDE DEF cache
    <2>5. GoodCache(cache)
      BY <1>2, <2>1, <2>2, <2>4 DEF GoodCache, IsExport
    <2>6. InOrder(caches', cacheAt')
      BY <1>1, <1>2, <1>5, <2>3, <2>5, NowGood, WriteInOrder
    <2>7. QED
      BY <1>1, <1>3, <1>4, <1>5, <2>6, Untouched, GoesKeepsInv
  <1>6. CASE Goes(p, "apply", "fail") /\ caches' = caches
    <2>1. cmd[p].cache \in 1 .. Len(caches')
      BY <1>2, <1>6
    <2>2. QED
      BY <1>1, <1>3, <1>4, <1>6, <2>1, Untouched, GoesKeepsInv
  <1>7. QED
    BY <1>1, <1>5, <1>6

LEMMA FailSyncKeepsInv ==
  ASSUME SyncInv, NEW p \in Commands, FailSync(p) PROVE SyncInv'
  <1> DEFINE k == cmd[p].cache
             cache == [caches[k] EXCEPT !.last = time]
             to == IF cmd[p].role = "add" THEN "undo" ELSE "idle"
  <1>1. /\ Goes(p, "fail", to) /\ cmd[p].at = "fail"
        /\ caches' = [caches EXCEPT ![k] = cache] \/ caches' = caches
        /\ worldVars' = worldVars /\ entry' = entry /\ bundle' = bundle /\ cacheAt' = cacheAt
    BY DEF FailSync, Goes, GoesAs, runVars
  <1>2. k \in 1 .. Len(caches)
    BY <1>1 DEF SyncInv, RunsFit
  <1>3. to \in CommandPlaces /\ to \notin {"known", "fetch", "apply", "fail"}
    BY DEF CommandPlaces
  <1>4. cache \in CacheType /\ GoodCache(cache)
    BY <1>2, NowGood, TriedNowGood
  <1> HIDE DEF cache, to
  <1>5. InOrder(caches', cacheAt')
    BY <1>1, <1>2, <1>4, NowGood, WriteInOrder
  <1>6. QED
    BY <1>1, <1>3, <1>5, Untouched, GoesKeepsInv

LEMMA DeleteCacheKeepsInv ==
  ASSUME SyncInv, NEW p \in Commands, DeleteCache(p) PROVE SyncInv'
  <1>1. /\ Goes(p, "delete", "open") \/ Goes(p, "undo", "idle") \/ Goes(p, "drop", "idle")
        /\ cacheAt' = 0 /\ caches' = caches
        /\ worldVars' = worldVars /\ entry' = entry /\ bundle' = bundle
    BY DEF DeleteCache, runVars
  <1>2. "open" \in CommandPlaces /\ "idle" \in CommandPlaces
    BY DEF CommandPlaces
  <1>3. InOrder(caches', cacheAt')
    BY <1>1, NowGood DEF InOrder
  <1>4. QED
    BY <1>1, <1>2, <1>3, Untouched, GoesKeepsInv

LEMMA ListMachineKeepsInv ==
  ASSUME SyncInv, NEW p \in Commands, ListMachine(p) PROVE SyncInv'
  <1>1. /\ Goes(p, "list", "idle") /\ cmd[p].at = "list"
        /\ entry' = entry \/ entry' = cmd[p].dest
        /\ worldVars' = worldVars /\ bundle' = bundle /\ caches' = caches /\ cacheAt' = cacheAt
    BY DEF ListMachine, Goes, GoesAs, runVars
  <1>2. cmd[p].dest \in Dests /\ "idle" \in CommandPlaces
    BY <1>1 DEF SyncInv, RunsFit, CommandPlaces
  <1>3. entry' \in Dests \cup {Nothing}
    BY <1>1, <1>2, NowGood
  <1>4. QED
    BY <1>1, <1>2, <1>3, Untouched, GoesKeepsInv

LEMMA UnlistMachineKeepsInv ==
  ASSUME SyncInv, NEW p \in Commands, UnlistMachine(p) PROVE SyncInv'
  <1> DEFINE to == IF entry = Nothing THEN "idle" ELSE "drop"
  <1>1. /\ Goes(p, "unlist", to) /\ entry' = Nothing
        /\ worldVars' = worldVars /\ bundle' = bundle /\ caches' = caches /\ cacheAt' = cacheAt
    BY DEF UnlistMachine, runVars
  <1>2. to \in CommandPlaces /\ to \notin {"known", "fetch", "apply", "fail"}
    BY DEF CommandPlaces
  <1> HIDE DEF to
  <1>3. QED
    BY <1>1, <1>2, Untouched, GoesKeepsInv

LEMMA TickKeepsInv ==
  ASSUME SyncInv, Tick PROVE SyncInv'
  <1>1. /\ time' = time + 1 /\ time \in Nat
        /\ UNCHANGED <<edits, remote, past, entry, cacheAt, caches, cmd, bundle>>
    BY DEF Tick, runVars, SyncInv, MachineTypeOK
  <1>2. MachineTypeOK' /\ PastHasRemote'
    BY <1>1 DEF SyncInv, MachineTypeOK, PastHasRemote
  <1>3. RunsFit'
    BY <1>1 DEF SyncInv, RunsFit, MachineTypeOK, RunType
  <1>4. CachesGood'
    <2>1. ASSUME NEW c \in 1 .. Len(caches)
          PROVE  /\ caches[c].claimed <= caches[c].last /\ caches[c].claimed <= time + 1
                 /\ IsExport(caches[c].files)
      BY <2>1, <1>1, NowGood DEF GoodCache, CacheType
    <2>2. QED
      BY <1>1, <2>1 DEF CachesGood, GoodCache, IsExport
  <1>5. QED
    BY <1>2, <1>3, <1>4 DEF SyncInv

(* What a destination has becomes one more of the states it was in, and the
   exports there were stay exports.                                           *)
LEMMA RemoteEditsKeepsInv ==
  ASSUME SyncInv, RemoteEdits PROVE SyncInv'
  <1>1. PICK d \in Dests, f \in SessionFiles, gone \in BOOLEAN :
          /\ remote' = [remote EXCEPT ![d][f] = IF gone THEN Nothing ELSE Revision(d, edits + 1)]
          /\ past' = [past EXCEPT ![d] = @ \cup {remote'[d]}]
    BY DEF RemoteEdits
  <1>2. /\ edits' = edits + 1
        /\ UNCHANGED <<time, entry, cacheAt, caches, cmd, bundle>>
    BY DEF RemoteEdits, runVars
  <1>3. remote \in [Dests -> Contents] /\ past \in [Dests -> SUBSET Contents] /\ edits \in Nat
    BY DEF SyncInv, MachineTypeOK
  <1>4. remote' \in [Dests -> Contents]
    <2>1. (IF gone THEN Nothing ELSE Revision(d, edits + 1)) \in Revisions
      BY <1>3 DEF Revisions, Revision
    <2>2. [remote[d] EXCEPT ![f] = IF gone THEN Nothing ELSE Revision(d, edits + 1)] \in Contents
      BY <1>3, <2>1 DEF Contents
    <2>3. QED
      BY <1>1, <1>3, <2>2
  <1>5. /\ past' \in [Dests -> SUBSET Contents]
        /\ \A e \in Dests : past[e] \subseteq past'[e] /\ remote'[e] \in past'[e]
    <2>1. ASSUME NEW e \in Dests
          PROVE  past[e] \subseteq past'[e] /\ remote'[e] \in past'[e]
      <3>1. CASE e = d
        BY <3>1, <1>1, <1>3
      <3>2. CASE e # d
        BY <3>2, <1>1, <1>3 DEF SyncInv, PastHasRemote
      <3>3. QED
        BY <3>1, <3>2
    <2>2. past' \in [Dests -> SUBSET Contents]
      BY ZenonT(60), <1>1, <1>3, <1>4
    <2>3. QED
      BY <2>1, <2>2
  <1>6. MachineTypeOK' /\ PastHasRemote'
    BY <1>2, <1>3, <1>4, <1>5 DEF SyncInv, MachineTypeOK, PastHasRemote
  <1>7. RunsFit'
    BY <1>2, <1>5 DEF SyncInv, RunsFit
  <1>8. CachesGood'
    <2>1. ASSUME NEW c \in 1 .. Len(caches)
          PROVE  /\ caches[c].claimed <= caches[c].last /\ caches[c].claimed <= time
                 /\ caches[c].files = NoFiles \/ \E e \in Dests : caches[c].files \in past'[e]
      BY <2>1, <1>5, NowGood DEF GoodCache, IsExport
    <2>2. QED
      BY <1>2, <2>1 DEF CachesGood, GoodCache, IsExport
  <1>9. QED
    BY <1>6, <1>7, <1>8 DEF SyncInv

LEMMA SyncStepKeepsInv == SyncInv /\ [MachineNext]_machineVars => SyncInv'
  <1> SUFFICES ASSUME SyncInv, [MachineNext]_machineVars PROVE SyncInv'
    OBVIOUS
  <1>1. CASE UNCHANGED machineVars
    BY <1>1 DEF machineVars, SyncInv, MachineTypeOK, PastHasRemote, RunsFit, CachesGood, GoodCache, IsExport
  <1>2. CASE MachineNext
    BY <1>2, TickKeepsInv, RemoteEditsKeepsInv, BeginListedKeepsInv, BeginAddKeepsInv,
       LookWhetherDueKeepsInv, ClaimSyncKeepsInv, OpenCacheKeepsInv, ReadKnownKeepsInv,
       FetchKeepsInv, ApplyExportKeepsInv, FailSyncKeepsInv, DeleteCacheKeepsInv,
       ListMachineKeepsInv, UnlistMachineKeepsInv
    DEF MachineNext
  <1>3. QED
    BY <1>1, <1>2

(* The types, and what every cache is: claimed no later than it was last
   tried, and one export.                                                     *)
THEOREM SyncInvariant == MachineSpec => []SyncInv
  BY SyncInitHolds, SyncStepKeepsInv, PTL DEF MachineSpec

(* A cache holds what one machine had at one time, never a mix, however syncs
   overtake each other (applyMachineExport).                                  *)
THEOREM CachesAreExports == MachineSpec => []CacheIsOneExport
  <1>1. SyncInv => CacheIsOneExport
    BY DEF SyncInv, CachesGood, GoodCache, IsExport, CacheIsOneExport
  <1>2. QED
    BY <1>1, SyncInvariant, PTL

(* Only a claim changes the time of the last one, and it found that time an
   interval old.                                                              *)
LEMMA ClaimsApart ==
  ASSUME SyncInv, [MachineNext]_machineVars, NEW c \in 1 .. Len(caches),
         caches'[c].claimed # caches[c].claimed
  PROVE  caches'[c].claimed - caches[c].claimed >= Interval
  <1>1. PICK p \in Commands : ClaimSync(p)
    <2>1. ASSUME NEW p \in Commands, OpenCache(p) PROVE FALSE
      <3> DEFINE cache == [Opened[OpenedAt] EXCEPT !.last = time]
      <3>1. caches' = Opened \/ caches' = [Opened EXCEPT ![OpenedAt] = cache]
        BY <2>1 DEF OpenCache
      <3>2. Opened[OpenedAt] \in CacheType /\ cache.claimed = Opened[OpenedAt].claimed
        BY OpenedGood, TriedNowGood
      <3> HIDE DEF cache
      <3>3. caches'[c].claimed = Opened[c].claimed
        BY <3>1, <3>2, OpenedGood
      <3>4. QED
        BY <3>3, OpenedGood
    <2>2. ASSUME NEW p \in Commands, ApplyExport(p) PROVE FALSE
      <3> DEFINE k == cmd[p].cache
                 cache == [caches[k] EXCEPT !.files = Merged(p), !.kept = TRUE, !.last = time]
      <3>1. caches' = caches \/ caches' = [caches EXCEPT ![k] = cache]
        BY <2>2 DEF ApplyExport
      <3>2. c = k => cache.claimed = caches[c].claimed
        BY NowGood DEF CacheType
      <3> HIDE DEF cache, k
      <3>3. QED
        BY <3>1, <3>2, NowGood
    <2>3. ASSUME NEW p \in Commands, FailSync(p) PROVE FALSE
      <3> DEFINE k == cmd[p].cache
                 cache == [caches[k] EXCEPT !.last = time]
      <3>1. caches' = caches \/ caches' = [caches EXCEPT ![k] = cache]
        BY <2>3 DEF FailSync
      <3>2. c = k => cache.claimed = caches[c].claimed
        BY NowGood DEF CacheType
      <3> HIDE DEF cache, k
      <3>3. QED
        BY <3>1, <3>2, NowGood
    <2>4. caches' # caches
      OBVIOUS
    <2>5. QED
      BY <2>1, <2>2, <2>3, <2>4
      DEF MachineNext, machineVars, Tick, RemoteEdits, BeginListed, BeginAdd, Begin, LookWhetherDue,
          ReadKnown, Fetch, DeleteCache, ListMachine, UnlistMachine
  <1> DEFINE cache == [Opened[OpenedAt] EXCEPT !.last = Later(@, cmd[p].read), !.claimed = cmd[p].read]
  <1>2. \/ caches' = Opened
        \/ caches' = [Opened EXCEPT ![OpenedAt] = cache] /\ Claims(Opened[OpenedAt], cmd[p].read)
    BY <1>1 DEF ClaimSync
  <1>3. Opened[OpenedAt] \in CacheType /\ cache.claimed = cmd[p].read
    <2>1. Opened[OpenedAt] \in CacheType
      BY OpenedGood
    <2>2. QED
      BY <2>1 DEF CacheType
  <1> HIDE DEF cache
  <1>4. c = OpenedAt /\ caches'[c] = cache /\ Claims(Opened[OpenedAt], cmd[p].read)
    BY <1>2, <1>3, OpenedGood
  <1>5. cmd[p].read - caches[c].last >= Interval /\ caches[c].claimed <= caches[c].last
    BY <1>4, OpenedGood, NowGood DEF Claims, IsDue, GoodCache
  <1>6. /\ cmd[p].read \in Int /\ caches[c].last \in Int /\ caches[c].claimed \in Int
        /\ Interval \in Int
    BY SMTT(60), NowGood, MovesTyped, MachineAssumption DEF CacheType, RunType
  <1>7. QED
    BY <1>3, <1>4, <1>5, <1>6

(* Two claims of one cache are an interval apart: of the reports that find it
   stale one syncs it (claimMachineSync).                                     *)
THEOREM SyncsAreApart == MachineSpec => OneSyncPerInterval
  <1>1. SyncInv /\ [MachineNext]_machineVars =>
          [\A c \in 1..Len(caches) : caches'[c].claimed # caches[c].claimed =>
             caches'[c].claimed - caches[c].claimed >= Interval]_machineVars
    BY ClaimsApart
  <1>2. QED
    BY <1>1, SyncInvariant, PTL DEF MachineSpec, OneSyncPerInterval

----------------------------------------------------------------------------
(* StatuslineLock, for any number of ticks, crashes, failing calls and locks that
   grow old.

   The argument: a lock that is judged stale is old or its tick is gone, and
   neither ever changes back.  While every tick that reclaims gets the lock it
   judged, and no running tick's lock grows old, no lock of a tick that still
   runs is ever renamed away; so the one path holds the lock of every tick that
   is between creating its lock and removing it, and there is only one such
   tick.                                                                      *)


Waiting == {"start", "open", "read", "reread", "judge", "rename", "claimed", "remove",
            "restore"}
AfterBare == {"locked", "build", "release", "print", "exited", "crashed"}

\* The ticks between creating their lock and removing it.
Active == {t \in Ticks : t \notin bare /\ pc[t] \in {"write", "locked", "build", "release",
                                                    "unlink"}}

\* A tick that waits has no lock of its own yet; one that reclaims has one it
\* took; one that goes on without a lock never waits for it again.
NoFileYet ==
    \A t \in Ticks : pc[t] \in Waiting =>
        path # t /\ t \notin written /\ \A u \in Ticks : claim[u] # t
ClaimsHold == \A t \in Ticks : pc[t] \in {"claimed", "remove", "restore"} => claim[t] # None
BareGoesOn == \A t \in bare : pc[t] \in AfterBare
LockPlaces == OnePlace /\ NoFileYet /\ ClaimsHold /\ BareGoesOn

\* What a tick judged stale is stale for good.
JudgedStale == \A t \in Ticks : pc[t] \in {"rename", "claimed"} => Stale(seen[t])
StaleInv == JudgedStale /\ ReclaimsOnlyStale

LineOfBuilt == built # {} => line

OldGone == \A m \in old : Ended(m[1])
ClaimIsJudged == \A t \in Ticks : pc[t] = "claimed" => Lock(claim[t]) = seen[t]
NonePutBack == \A t \in Ticks : pc[t] # "restore"
ActiveHolds == \A t \in Active : path = t
CalmInv == Calm => OldGone /\ ClaimIsJudged /\ NonePutBack /\ ActiveHolds
OneBuild ==
    /\ \A t \in Ticks : pc[t] = "build" => ~line
    /\ \A t, u \in built : t = u
BuildInv == Calm /\ bare = {} => OneBuild

\* A tick that is gone stays gone, and an old lock stays old.
GoneStays == (\A u \in Ticks : Ended(u) => Ended(u)') /\ old \subseteq old'

JudgedFrom ==
    \A u \in Ticks :
        /\ pc'[u] \in {"rename", "claimed"} => seen'[u] = seen[u] /\ Stale(seen[u])
        /\ pc'[u] = "remove" =>
             /\ claim'[u] = claim[u]
             /\ pc[u] = "remove" \/ (pc[u] = "claimed" /\ Lock(claim[u]) = seen[u])

LockInv == TypeOK /\ LockPlaces /\ StaleInv /\ LineOfBuilt /\ CalmInv /\ BuildInv

----------------------------------------------------------------------------
(* Type correctness.                                                       *)

\* Every step keeps the types.
LEMMA TypeStep ==
  ASSUME TypeOK, [Next]_vars
  PROVE  TypeOK'
<1>. USE TickAssumption DEF TypeOK, Files, Mtimes, Content, Mtime, NoLock, NoTime
<1>1. CASE UNCHANGED vars
  BY <1>1 DEF vars, fileVars, history
<1>2. ASSUME NEW t \in Ticks, Start(t) PROVE TypeOK'
  BY <1>2 DEF Start, Goto, fileVars, history
<1>3. ASSUME NEW t \in Ticks, Open(t) PROVE TypeOK'
  BY <1>3 DEF Open, Goto, fileVars, history
<1>4. ASSUME NEW t \in Ticks, WriteToken(t) PROVE TypeOK'
  BY <1>4 DEF WriteToken, Goto, fileVars, history
<1>5. ASSUME NEW t \in Ticks, ReadFirst(t) PROVE TypeOK'
  BY <1>5 DEF ReadFirst, Goto, fileVars, history
<1>6. ASSUME NEW t \in Ticks, ReadSecond(t) PROVE TypeOK'
  BY <1>6 DEF ReadSecond, Goto, fileVars, history
<1>7. ASSUME NEW t \in Ticks, Judge(t) PROVE TypeOK'
  BY <1>7 DEF Judge, Goto, fileVars, history
<1>8. ASSUME NEW t \in Ticks, GiveUp(t) PROVE TypeOK'
  BY <1>8 DEF GiveUp, Goto, fileVars, history
<1>9. ASSUME NEW t \in Ticks, Rename(t) PROVE TypeOK'
  BY <1>9 DEF Rename, Goto, fileVars, history
<1>10. ASSUME NEW t \in Ticks, Compare(t) PROVE TypeOK'
  BY <1>10 DEF Compare, Goto, fileVars, history
<1>11. ASSUME NEW t \in Ticks, Remove(t) PROVE TypeOK'
  BY <1>11 DEF Remove, Goto, fileVars, history
<1>12. ASSUME NEW t \in Ticks, PutBack(t) PROVE TypeOK'
  BY <1>12 DEF PutBack, Goto, fileVars, history
<1>13. ASSUME NEW t \in Ticks, LookAgain(t) PROVE TypeOK'
  BY <1>13 DEF LookAgain, Goto, fileVars, history
<1>14. ASSUME NEW t \in Ticks, Build(t) PROVE TypeOK'
  BY <1>14 DEF Build, Goto, fileVars, history
<1>15. ASSUME NEW t \in Ticks, Release(t) PROVE TypeOK'
  BY <1>15 DEF Release, Goto, fileVars, history
<1>16. ASSUME NEW t \in Ticks, Unlink(t) PROVE TypeOK'
  BY <1>16 DEF Unlink, Goto, fileVars, history
<1>17. ASSUME NEW t \in Ticks, PrintLine(t) PROVE TypeOK'
  BY <1>17 DEF PrintLine, Goto, fileVars, history
<1>18. ASSUME NEW t \in Ticks, Crash(t) PROVE TypeOK'
  BY <1>18 DEF Crash, Goto, fileVars, history
<1>19. ASSUME NEW t \in Ticks, CallFails(t) PROVE TypeOK'
  BY <1>19 DEF CallFails, Goto, fileVars, history
<1>20. ASSUME NEW t \in Ticks, Age(t) PROVE TypeOK'
  BY <1>20 DEF Age, Goto, fileVars, history
<1>. QED
  BY <1>1, <1>2, <1>3, <1>4, <1>5, <1>6, <1>7, <1>8, <1>9, <1>10, <1>11, <1>12,
     <1>13, <1>14, <1>15, <1>16, <1>17, <1>18, <1>19, <1>20 DEF Next, Step

----------------------------------------------------------------------------
(* Where the lock files are.                                               *)

\* A lock file moves, and is never copied.
LEMMA PlacesStep ==
  ASSUME TypeOK, LockPlaces, [Next]_vars
  PROVE  LockPlaces'
<1>. USE TickAssumption DEF TypeOK, Files, LockPlaces, OnePlace, NoFileYet, ClaimsHold, BareGoesOn, Waiting,
              AfterBare
<1>1. CASE UNCHANGED vars
  BY <1>1 DEF vars, fileVars, history
<1>2. ASSUME NEW t \in Ticks, Start(t) PROVE LockPlaces'
  BY <1>2 DEF Start, Goto, fileVars, history
<1>3. ASSUME NEW t \in Ticks, Open(t) PROVE LockPlaces'
  BY <1>3 DEF Open, Goto, fileVars, history
<1>4. ASSUME NEW t \in Ticks, WriteToken(t) PROVE LockPlaces'
  BY <1>4 DEF WriteToken, Goto, fileVars, history
<1>5. ASSUME NEW t \in Ticks, ReadFirst(t) PROVE LockPlaces'
  BY <1>5 DEF ReadFirst, Goto, fileVars, history
<1>6. ASSUME NEW t \in Ticks, ReadSecond(t) PROVE LockPlaces'
  BY <1>6 DEF ReadSecond, Goto, fileVars, history
<1>7. ASSUME NEW t \in Ticks, Judge(t) PROVE LockPlaces'
  BY <1>7 DEF Judge, Goto, fileVars, history
<1>8. ASSUME NEW t \in Ticks, GiveUp(t) PROVE LockPlaces'
  BY <1>8 DEF GiveUp, Goto, fileVars, history
<1>9. ASSUME NEW t \in Ticks, Rename(t) PROVE LockPlaces'
  BY <1>9 DEF Rename, Goto, fileVars, history
<1>10. ASSUME NEW t \in Ticks, Compare(t) PROVE LockPlaces'
  BY <1>10 DEF Compare, Goto, fileVars, history
<1>11. ASSUME NEW t \in Ticks, Remove(t) PROVE LockPlaces'
  BY <1>11 DEF Remove, Goto, fileVars, history
<1>12. ASSUME NEW t \in Ticks, PutBack(t) PROVE LockPlaces'
  BY <1>12 DEF PutBack, Goto, fileVars, history
<1>13. ASSUME NEW t \in Ticks, LookAgain(t) PROVE LockPlaces'
  BY <1>13 DEF LookAgain, Goto, fileVars, history
<1>14. ASSUME NEW t \in Ticks, Build(t) PROVE LockPlaces'
  BY <1>14 DEF Build, Goto, fileVars, history
<1>15. ASSUME NEW t \in Ticks, Release(t) PROVE LockPlaces'
  BY <1>15 DEF Release, HoldsPath, Goto, fileVars, history
<1>16. ASSUME NEW t \in Ticks, Unlink(t) PROVE LockPlaces'
  BY <1>16 DEF Unlink, Goto, fileVars, history
<1>17. ASSUME NEW t \in Ticks, PrintLine(t) PROVE LockPlaces'
  BY <1>17 DEF PrintLine, Goto, fileVars, history
<1>18. ASSUME NEW t \in Ticks, Crash(t) PROVE LockPlaces'
  BY <1>18 DEF Crash, Goto, fileVars, history
<1>19. ASSUME NEW t \in Ticks, CallFails(t) PROVE LockPlaces'
  BY <1>19 DEF CallFails, Goto, fileVars, history
<1>20. ASSUME NEW t \in Ticks, Age(t) PROVE LockPlaces'
  BY <1>20 DEF Age, Goto, fileVars, history
<1>. QED
  BY <1>1, <1>2, <1>3, <1>4, <1>5, <1>6, <1>7, <1>8, <1>9, <1>10, <1>11, <1>12,
     <1>13, <1>14, <1>15, <1>16, <1>17, <1>18, <1>19, <1>20
     DEF Next, Step

----------------------------------------------------------------------------
(* Stale locks.                                                            *)

\* Nothing a step does makes a stale lock good again.
LEMMA StaleStep ==
  ASSUME TypeOK, [Next]_vars
  PROVE  GoneStays
<1>. USE TickAssumption DEF TypeOK, GoneStays, Ended
<1>1. CASE UNCHANGED vars
  BY <1>1 DEF vars, fileVars, history
<1>2. ASSUME NEW t \in Ticks, Start(t) PROVE GoneStays
  BY <1>2 DEF Start, Goto, fileVars, history
<1>3. ASSUME NEW t \in Ticks, Open(t) PROVE GoneStays
  BY <1>3 DEF Open, Goto, fileVars, history
<1>4. ASSUME NEW t \in Ticks, WriteToken(t) PROVE GoneStays
  BY <1>4 DEF WriteToken, Goto, fileVars, history
<1>5. ASSUME NEW t \in Ticks, ReadFirst(t) PROVE GoneStays
  BY <1>5 DEF ReadFirst, Goto, fileVars, history
<1>6. ASSUME NEW t \in Ticks, ReadSecond(t) PROVE GoneStays
  BY <1>6 DEF ReadSecond, Goto, fileVars, history
<1>7. ASSUME NEW t \in Ticks, Judge(t) PROVE GoneStays
  BY <1>7 DEF Judge, Goto, fileVars, history
<1>8. ASSUME NEW t \in Ticks, GiveUp(t) PROVE GoneStays
  BY <1>8 DEF GiveUp, Goto, fileVars, history
<1>9. ASSUME NEW t \in Ticks, Rename(t) PROVE GoneStays
  BY <1>9 DEF Rename, Goto, fileVars, history
<1>10. ASSUME NEW t \in Ticks, Compare(t) PROVE GoneStays
  BY <1>10 DEF Compare, Goto, fileVars, history
<1>11. ASSUME NEW t \in Ticks, Remove(t) PROVE GoneStays
  BY <1>11 DEF Remove, Goto, fileVars, history
<1>12. ASSUME NEW t \in Ticks, PutBack(t) PROVE GoneStays
  BY <1>12 DEF PutBack, Goto, fileVars, history
<1>13. ASSUME NEW t \in Ticks, LookAgain(t) PROVE GoneStays
  BY <1>13 DEF LookAgain, Goto, fileVars, history
<1>14. ASSUME NEW t \in Ticks, Build(t) PROVE GoneStays
  BY <1>14 DEF Build, Goto, fileVars, history
<1>15. ASSUME NEW t \in Ticks, Release(t) PROVE GoneStays
  BY <1>15 DEF Release, Goto, fileVars, history
<1>16. ASSUME NEW t \in Ticks, Unlink(t) PROVE GoneStays
  BY <1>16 DEF Unlink, Goto, fileVars, history
<1>17. ASSUME NEW t \in Ticks, PrintLine(t) PROVE GoneStays
  BY <1>17 DEF PrintLine, Goto, fileVars, history
<1>18. ASSUME NEW t \in Ticks, Crash(t) PROVE GoneStays
  BY <1>18 DEF Crash, Goto, fileVars, history
<1>19. ASSUME NEW t \in Ticks, CallFails(t) PROVE GoneStays
  BY <1>19 DEF CallFails, Goto, fileVars, history
<1>20. ASSUME NEW t \in Ticks, Age(t) PROVE GoneStays
  BY <1>20 DEF Age, Goto, fileVars, history
<1>. QED
  BY <1>1, <1>2, <1>3, <1>4, <1>5, <1>6, <1>7, <1>8, <1>9, <1>10, <1>11, <1>12,
     <1>13, <1>14, <1>15, <1>16, <1>17, <1>18, <1>19, <1>20
     DEF Next, Step

\* A tick renames, and looks at, only what it judged stale, and removes only what
\* it judged.
LEMMA JudgedFromStep ==
  ASSUME TypeOK, JudgedStale, [Next]_vars
  PROVE  JudgedFrom
<1>. USE TickAssumption DEF TypeOK, JudgedStale, JudgedFrom
<1>1. CASE UNCHANGED vars
  BY <1>1 DEF vars, fileVars, history
<1>2. ASSUME NEW t \in Ticks, Start(t) PROVE JudgedFrom
  BY <1>2 DEF Start, Goto, fileVars, history
<1>3. ASSUME NEW t \in Ticks, Open(t) PROVE JudgedFrom
  BY <1>3 DEF Open, Goto, fileVars, history
<1>4. ASSUME NEW t \in Ticks, WriteToken(t) PROVE JudgedFrom
  BY <1>4 DEF WriteToken, Goto, fileVars, history
<1>5. ASSUME NEW t \in Ticks, ReadFirst(t) PROVE JudgedFrom
  BY <1>5 DEF ReadFirst, Goto, fileVars, history
<1>6. ASSUME NEW t \in Ticks, ReadSecond(t) PROVE JudgedFrom
  BY <1>6 DEF ReadSecond, Goto, fileVars, history
<1>7. ASSUME NEW t \in Ticks, Judge(t) PROVE JudgedFrom
  BY <1>7 DEF Judge, Goto, fileVars, history
<1>8. ASSUME NEW t \in Ticks, GiveUp(t) PROVE JudgedFrom
  BY <1>8 DEF GiveUp, Goto, fileVars, history
<1>9. ASSUME NEW t \in Ticks, Rename(t) PROVE JudgedFrom
  BY <1>9 DEF Rename, Goto, fileVars, history
<1>10. ASSUME NEW t \in Ticks, Compare(t) PROVE JudgedFrom
  BY <1>10 DEF Compare, SameLock, Goto, fileVars, history
<1>11. ASSUME NEW t \in Ticks, Remove(t) PROVE JudgedFrom
  BY <1>11 DEF Remove, Goto, fileVars, history
<1>12. ASSUME NEW t \in Ticks, PutBack(t) PROVE JudgedFrom
  BY <1>12 DEF PutBack, Goto, fileVars, history
<1>13. ASSUME NEW t \in Ticks, LookAgain(t) PROVE JudgedFrom
  BY <1>13 DEF LookAgain, Goto, fileVars, history
<1>14. ASSUME NEW t \in Ticks, Build(t) PROVE JudgedFrom
  BY <1>14 DEF Build, Goto, fileVars, history
<1>15. ASSUME NEW t \in Ticks, Release(t) PROVE JudgedFrom
  BY <1>15 DEF Release, Goto, fileVars, history
<1>16. ASSUME NEW t \in Ticks, Unlink(t) PROVE JudgedFrom
  BY <1>16 DEF Unlink, Goto, fileVars, history
<1>17. ASSUME NEW t \in Ticks, PrintLine(t) PROVE JudgedFrom
  BY <1>17 DEF PrintLine, Goto, fileVars, history
<1>18. ASSUME NEW t \in Ticks, Crash(t) PROVE JudgedFrom
  BY <1>18 DEF Crash, Goto, fileVars, history
<1>19. ASSUME NEW t \in Ticks, CallFails(t) PROVE JudgedFrom
  BY <1>19 DEF CallFails, Goto, fileVars, history
<1>20. ASSUME NEW t \in Ticks, Age(t) PROVE JudgedFrom
  BY <1>20 DEF Age, Goto, fileVars, history
<1>. QED
  BY <1>1, <1>2, <1>3, <1>4, <1>5, <1>6, <1>7, <1>8, <1>9, <1>10, <1>11, <1>12,
     <1>13, <1>14, <1>15, <1>16, <1>17, <1>18, <1>19, <1>20
     DEF Next, Step

\* So what was judged stale is so when it is renamed, and when it is removed.
LEMMA JudgedStep ==
  ASSUME TypeOK, LockPlaces, StaleInv, [Next]_vars
  PROVE  StaleInv'
<1>1. GoneStays
  BY StaleStep
<1>2. JudgedFrom
  BY JudgedFromStep DEF StaleInv
<1>3. JudgedStale'
  BY <1>1, <1>2 DEF JudgedStale, JudgedFrom, GoneStays, Stale, NoLock, NoTime
<1>4. ASSUME NEW u \in Ticks, pc'[u] = "remove"
      PROVE  \/ Ended(claim[u])'
             \/ \E w \in {"created", "written"} : <<claim'[u], w>> \in old'
  <2>1. claim'[u] = claim[u]
    BY <1>2, <1>4 DEF JudgedFrom
  <2>2. CASE pc[u] = "remove"
    <3>1. claim[u] \in Ticks
      BY <2>2 DEF LockPlaces, ClaimsHold, TypeOK, Files
    <3>. QED
      BY <1>1, <2>1, <2>2, <3>1 DEF StaleInv, ReclaimsOnlyStale, GoneStays
  <2>3. CASE pc[u] = "claimed" /\ Lock(claim[u]) = seen[u]
    <3>1. Stale(seen[u])
      BY <2>3 DEF StaleInv, JudgedStale
    <3>2. seen[u].content = Content(claim[u]) /\ seen[u].mtime = Mtime(claim[u])
      BY <2>3 DEF Lock
    <3>3. CASE seen[u].mtime \in old
      BY <1>1, <2>1, <3>2, <3>3 DEF GoneStays, Mtime
    <3>4. CASE seen[u].content \in Ticks /\ Ended(seen[u].content)
      <4>1. claim[u] \in Ticks /\ Ended(claim[u])
        BY <3>2, <3>4, TickAssumption DEF Content
      <4>. QED
        BY <1>1, <2>1, <4>1 DEF GoneStays
    <3>. QED
      BY <3>1, <3>3, <3>4 DEF Stale
  <2>. QED
    BY <1>2, <1>4, <2>2, <2>3 DEF JudgedFrom
<1>. QED
  BY <1>3, <1>4 DEF StaleInv, ReclaimsOnlyStale, Ended

----------------------------------------------------------------------------
(* One tick at a time.                                                     *)

\* A lock that is judged stale is not the lock of a tick that still runs.
LEMMA StaleIsGone ==
  ASSUME TypeOK, \A m \in old : Ended(m[1]), NEW f \in Ticks, NEW lock,
         Stale(lock), Lock(f) = lock
  PROVE  Ended(f)
<1>1. lock.mtime = Mtime(f) /\ lock.content = Content(f)
  BY DEF Lock
<1>2. CASE lock.mtime \in old
  BY <1>1, <1>2 DEF Mtime
<1>3. CASE lock.content \in Ticks /\ Ended(lock.content)
  BY <1>1, <1>3, TickAssumption DEF Content
<1>. QED
  BY <1>2, <1>3 DEF Stale

\* Calm times do not begin again.
LEMMA CalmBefore ==
  ASSUME TypeOK, [Next]_vars, Calm'
  PROVE  Calm
<1>. USE DEF TypeOK, Calm
<1>1. CASE UNCHANGED vars
  BY <1>1 DEF vars, history
<1>2. ASSUME NEW t \in Ticks, Rename(t) PROVE Calm
  BY <1>2 DEF Rename
<1>3. ASSUME NEW t \in Ticks, Age(t) PROVE Calm
  BY <1>3 DEF Age
<1>4. ASSUME NEW t \in Ticks,
             Start(t) \/ Open(t) \/ WriteToken(t) \/ ReadFirst(t) \/ ReadSecond(t) \/ Judge(t)
             \/ GiveUp(t) \/ Compare(t) \/ Remove(t) \/ PutBack(t) \/ LookAgain(t) \/ Build(t)
             \/ Release(t) \/ Unlink(t) \/ PrintLine(t) \/ Crash(t) \/ CallFails(t)
      PROVE  Calm
  BY <1>4
  DEF Start, Open, WriteToken, ReadFirst, ReadSecond, Judge, GiveUp, Compare,
      Remove, PutBack, LookAgain, Build, Release, Unlink, PrintLine, Crash,
      CallFails, history
<1>. QED
  BY <1>1, <1>2, <1>3, <1>4 DEF Next, Step

\* Only the locks of ticks that are gone grow old.
LEMMA OldGoneStep ==
  ASSUME TypeOK, LockPlaces, StaleInv, Calm', OldGone, ClaimIsJudged, NonePutBack,
         ActiveHolds, [Next]_vars
  PROVE  OldGone'
<1>. USE TickAssumption DEF TypeOK, OldGone, Mtimes, Ended
<1>1. CASE UNCHANGED vars
  BY <1>1 DEF vars, fileVars, history
<1>2. ASSUME NEW t \in Ticks, Start(t) PROVE OldGone'
  BY <1>2 DEF Start, Goto, fileVars, history
<1>3. ASSUME NEW t \in Ticks, Open(t) PROVE OldGone'
  BY <1>3 DEF Open, Goto, fileVars, history
<1>4. ASSUME NEW t \in Ticks, WriteToken(t) PROVE OldGone'
  BY <1>4 DEF WriteToken, Goto, fileVars, history
<1>5. ASSUME NEW t \in Ticks, ReadFirst(t) PROVE OldGone'
  BY <1>5 DEF ReadFirst, Goto, fileVars, history
<1>6. ASSUME NEW t \in Ticks, ReadSecond(t) PROVE OldGone'
  BY <1>6 DEF ReadSecond, Goto, fileVars, history
<1>7. ASSUME NEW t \in Ticks, Judge(t) PROVE OldGone'
  BY <1>7 DEF Judge, Goto, fileVars, history
<1>8. ASSUME NEW t \in Ticks, GiveUp(t) PROVE OldGone'
  BY <1>8 DEF GiveUp, Goto, fileVars, history
<1>9. ASSUME NEW t \in Ticks, Rename(t) PROVE OldGone'
  BY <1>9 DEF Rename, Goto, fileVars, history
<1>10. ASSUME NEW t \in Ticks, Compare(t) PROVE OldGone'
  BY <1>10 DEF Compare, Goto, fileVars, history
<1>11. ASSUME NEW t \in Ticks, Remove(t) PROVE OldGone'
  BY <1>11 DEF Remove, Goto, fileVars, history
<1>12. ASSUME NEW t \in Ticks, PutBack(t) PROVE OldGone'
  BY <1>12 DEF PutBack, Goto, fileVars, history
<1>13. ASSUME NEW t \in Ticks, LookAgain(t) PROVE OldGone'
  BY <1>13 DEF LookAgain, Goto, fileVars, history
<1>14. ASSUME NEW t \in Ticks, Build(t) PROVE OldGone'
  BY <1>14 DEF Build, Goto, fileVars, history
<1>15. ASSUME NEW t \in Ticks, Release(t) PROVE OldGone'
  BY <1>15 DEF Release, Goto, fileVars, history
<1>16. ASSUME NEW t \in Ticks, Unlink(t) PROVE OldGone'
  BY <1>16 DEF Unlink, Goto, fileVars, history
<1>17. ASSUME NEW t \in Ticks, PrintLine(t) PROVE OldGone'
  BY <1>17 DEF PrintLine, Goto, fileVars, history
<1>18. ASSUME NEW t \in Ticks, Crash(t) PROVE OldGone'
  BY <1>18 DEF Crash, Goto, fileVars, history
<1>19. ASSUME NEW t \in Ticks, CallFails(t) PROVE OldGone'
  BY <1>19 DEF CallFails, Goto, fileVars, history
<1>20. ASSUME NEW t \in Ticks, Age(t) PROVE OldGone'
  BY <1>20 DEF Age, Calm, Mtime, Goto, fileVars, history
<1>. QED
  BY <1>1, <1>2, <1>3, <1>4, <1>5, <1>6, <1>7, <1>8, <1>9, <1>10, <1>11, <1>12,
     <1>13, <1>14, <1>15, <1>16, <1>17, <1>18, <1>19, <1>20
     DEF Next, Step

\* A lock that was claimed is not written to.
LEMMA ClaimIsJudgedStep ==
  ASSUME TypeOK, LockPlaces, StaleInv, Calm', OldGone, ClaimIsJudged, NonePutBack,
         ActiveHolds, [Next]_vars
  PROVE  ClaimIsJudged'
<1>. USE TickAssumption DEF TypeOK, Files, ClaimIsJudged, Lock, Content, Mtime
<1>1. CASE UNCHANGED vars
  BY <1>1 DEF vars, fileVars, history
<1>2. ASSUME NEW t \in Ticks, Start(t) PROVE ClaimIsJudged'
  BY <1>2 DEF Start, Goto, fileVars, history
<1>3. ASSUME NEW t \in Ticks, Open(t) PROVE ClaimIsJudged'
  BY <1>3 DEF Open, Goto, fileVars, history
<1>4. ASSUME NEW t \in Ticks, WriteToken(t) PROVE ClaimIsJudged'
  BY <1>4 DEF WriteToken, ActiveHolds, Active, LockPlaces, OnePlace, BareGoesOn, AfterBare,
     Goto, fileVars, history
<1>5. ASSUME NEW t \in Ticks, ReadFirst(t) PROVE ClaimIsJudged'
  BY <1>5 DEF ReadFirst, Goto, fileVars, history
<1>6. ASSUME NEW t \in Ticks, ReadSecond(t) PROVE ClaimIsJudged'
  BY <1>6 DEF ReadSecond, Goto, fileVars, history
<1>7. ASSUME NEW t \in Ticks, Judge(t) PROVE ClaimIsJudged'
  BY <1>7 DEF Judge, Goto, fileVars, history
<1>8. ASSUME NEW t \in Ticks, GiveUp(t) PROVE ClaimIsJudged'
  BY <1>8 DEF GiveUp, Goto, fileVars, history
<1>9. ASSUME NEW t \in Ticks, Rename(t) PROVE ClaimIsJudged'
  <2>1. CASE path = None
    BY <1>9, <2>1 DEF Rename, Goto, fileVars, history
  <2>2. CASE path # None
    <3>1. Lock(path) = seen[t] /\ claim' = [claim EXCEPT ![t] = path]
      BY <1>9, <2>2 DEF Rename, Calm
    <3>2. written' = written /\ seen' = seen
      BY <1>9, <2>2 DEF Rename
    <3>3. \A u \in Ticks : u # t => claim'[u] = claim[u] /\ pc'[u] = pc[u]
      BY <1>9, <3>1 DEF Rename, Goto
    <3>4. claim'[t] = path
      BY <3>1
    <3>. QED
      BY <3>1, <3>2, <3>3, <3>4
  <2>. QED
    BY <2>1, <2>2
<1>10. ASSUME NEW t \in Ticks, Compare(t) PROVE ClaimIsJudged'
  BY <1>10 DEF Compare, Goto, fileVars, history
<1>11. ASSUME NEW t \in Ticks, Remove(t) PROVE ClaimIsJudged'
  BY <1>11 DEF Remove, Goto, fileVars, history
<1>12. ASSUME NEW t \in Ticks, PutBack(t) PROVE ClaimIsJudged'
  BY <1>12 DEF PutBack, Goto, fileVars, history
<1>13. ASSUME NEW t \in Ticks, LookAgain(t) PROVE ClaimIsJudged'
  BY <1>13 DEF LookAgain, Goto, fileVars, history
<1>14. ASSUME NEW t \in Ticks, Build(t) PROVE ClaimIsJudged'
  BY <1>14 DEF Build, Goto, fileVars, history
<1>15. ASSUME NEW t \in Ticks, Release(t) PROVE ClaimIsJudged'
  BY <1>15 DEF Release, Goto, fileVars, history
<1>16. ASSUME NEW t \in Ticks, Unlink(t) PROVE ClaimIsJudged'
  BY <1>16 DEF Unlink, Goto, fileVars, history
<1>17. ASSUME NEW t \in Ticks, PrintLine(t) PROVE ClaimIsJudged'
  BY <1>17 DEF PrintLine, Goto, fileVars, history
<1>18. ASSUME NEW t \in Ticks, Crash(t) PROVE ClaimIsJudged'
  BY <1>18 DEF Crash, Goto, fileVars, history
<1>19. ASSUME NEW t \in Ticks, CallFails(t) PROVE ClaimIsJudged'
  BY <1>19 DEF CallFails, Goto, fileVars, history
<1>20. ASSUME NEW t \in Ticks, Age(t) PROVE ClaimIsJudged'
  BY <1>20 DEF Age, Goto, fileVars, history
<1>. QED
  BY <1>1, <1>2, <1>3, <1>4, <1>5, <1>6, <1>7, <1>8, <1>9, <1>10, <1>11, <1>12,
     <1>13, <1>14, <1>15, <1>16, <1>17, <1>18, <1>19, <1>20
     DEF Next, Step

\* So it is the one that was judged, and none is put back.
LEMMA NonePutBackStep ==
  ASSUME TypeOK, LockPlaces, StaleInv, Calm', OldGone, ClaimIsJudged, NonePutBack,
         ActiveHolds, [Next]_vars
  PROVE  NonePutBack'
<1>. USE TickAssumption DEF TypeOK, NonePutBack
<1>1. CASE UNCHANGED vars
  BY <1>1 DEF vars, fileVars, history
<1>2. ASSUME NEW t \in Ticks, Start(t) PROVE NonePutBack'
  BY <1>2 DEF Start, Goto, fileVars, history
<1>3. ASSUME NEW t \in Ticks, Open(t) PROVE NonePutBack'
  BY <1>3 DEF Open, Goto, fileVars, history
<1>4. ASSUME NEW t \in Ticks, WriteToken(t) PROVE NonePutBack'
  BY <1>4 DEF WriteToken, Goto, fileVars, history
<1>5. ASSUME NEW t \in Ticks, ReadFirst(t) PROVE NonePutBack'
  BY <1>5 DEF ReadFirst, Goto, fileVars, history
<1>6. ASSUME NEW t \in Ticks, ReadSecond(t) PROVE NonePutBack'
  BY <1>6 DEF ReadSecond, Goto, fileVars, history
<1>7. ASSUME NEW t \in Ticks, Judge(t) PROVE NonePutBack'
  BY <1>7 DEF Judge, Goto, fileVars, history
<1>8. ASSUME NEW t \in Ticks, GiveUp(t) PROVE NonePutBack'
  BY <1>8 DEF GiveUp, Goto, fileVars, history
<1>9. ASSUME NEW t \in Ticks, Rename(t) PROVE NonePutBack'
  BY <1>9 DEF Rename, Goto, fileVars, history
<1>10. ASSUME NEW t \in Ticks, Compare(t) PROVE NonePutBack'
  BY <1>10 DEF Compare, SameLock, ClaimIsJudged, Goto, fileVars, history
<1>11. ASSUME NEW t \in Ticks, Remove(t) PROVE NonePutBack'
  BY <1>11 DEF Remove, Goto, fileVars, history
<1>12. ASSUME NEW t \in Ticks, PutBack(t) PROVE NonePutBack'
  BY <1>12 DEF PutBack, Goto, fileVars, history
<1>13. ASSUME NEW t \in Ticks, LookAgain(t) PROVE NonePutBack'
  BY <1>13 DEF LookAgain, Goto, fileVars, history
<1>14. ASSUME NEW t \in Ticks, Build(t) PROVE NonePutBack'
  BY <1>14 DEF Build, Goto, fileVars, history
<1>15. ASSUME NEW t \in Ticks, Release(t) PROVE NonePutBack'
  BY <1>15 DEF Release, Goto, fileVars, history
<1>16. ASSUME NEW t \in Ticks, Unlink(t) PROVE NonePutBack'
  BY <1>16 DEF Unlink, Goto, fileVars, history
<1>17. ASSUME NEW t \in Ticks, PrintLine(t) PROVE NonePutBack'
  BY <1>17 DEF PrintLine, Goto, fileVars, history
<1>18. ASSUME NEW t \in Ticks, Crash(t) PROVE NonePutBack'
  BY <1>18 DEF Crash, Goto, fileVars, history
<1>19. ASSUME NEW t \in Ticks, CallFails(t) PROVE NonePutBack'
  BY <1>19 DEF CallFails, Goto, fileVars, history
<1>20. ASSUME NEW t \in Ticks, Age(t) PROVE NonePutBack'
  BY <1>20 DEF Age, Goto, fileVars, history
<1>. QED
  BY <1>1, <1>2, <1>3, <1>4, <1>5, <1>6, <1>7, <1>8, <1>9, <1>10, <1>11, <1>12,
     <1>13, <1>14, <1>15, <1>16, <1>17, <1>18, <1>19, <1>20
     DEF Next, Step

\* No lock of a tick that still runs is renamed away.
LEMMA ActiveHoldsStep ==
  ASSUME TypeOK, LockPlaces, StaleInv, Calm', OldGone, ClaimIsJudged, NonePutBack,
         ActiveHolds, [Next]_vars
  PROVE  ActiveHolds'
<1>. USE TickAssumption DEF TypeOK, Files, ActiveHolds, Active
<1>1. CASE UNCHANGED vars
  BY <1>1 DEF vars, fileVars, history
<1>2. ASSUME NEW t \in Ticks, Start(t) PROVE ActiveHolds'
  BY <1>2 DEF Start, Goto, fileVars, history
<1>3. ASSUME NEW t \in Ticks, Open(t) PROVE ActiveHolds'
  BY <1>3 DEF Open, Goto, fileVars, history
<1>4. ASSUME NEW t \in Ticks, WriteToken(t) PROVE ActiveHolds'
  BY <1>4 DEF WriteToken, Goto, fileVars, history
<1>5. ASSUME NEW t \in Ticks, ReadFirst(t) PROVE ActiveHolds'
  BY <1>5 DEF ReadFirst, Goto, fileVars, history
<1>6. ASSUME NEW t \in Ticks, ReadSecond(t) PROVE ActiveHolds'
  BY <1>6 DEF ReadSecond, Goto, fileVars, history
<1>7. ASSUME NEW t \in Ticks, Judge(t) PROVE ActiveHolds'
  BY <1>7 DEF Judge, Goto, fileVars, history
<1>8. ASSUME NEW t \in Ticks, GiveUp(t) PROVE ActiveHolds'
  BY <1>8 DEF GiveUp, Goto, fileVars, history
<1>9. ASSUME NEW t \in Ticks, Rename(t) PROVE ActiveHolds'
  <2>1. CASE path = None
    BY <1>9, <2>1 DEF Rename, Goto, fileVars, history
  <2>2. CASE path # None
    <3>1. Lock(path) = seen[t] /\ Stale(seen[t])
      BY <1>9, <2>2 DEF Rename, Goto, Calm, StaleInv, JudgedStale
    <3>2. Ended(path)
      BY <2>2, <3>1, StaleIsGone DEF OldGone
    <3>3. Active = {}
      BY <3>2 DEF Ended
    <3>. QED
      BY <1>9, <3>3 DEF Rename, Goto, fileVars, history
  <2>. QED
    BY <2>1, <2>2
<1>10. ASSUME NEW t \in Ticks, Compare(t) PROVE ActiveHolds'
  BY <1>10 DEF Compare, Goto, fileVars, history
<1>11. ASSUME NEW t \in Ticks, Remove(t) PROVE ActiveHolds'
  BY <1>11 DEF Remove, Goto, fileVars, history
<1>12. ASSUME NEW t \in Ticks, PutBack(t) PROVE ActiveHolds'
  BY <1>12 DEF PutBack, NonePutBack, Goto, fileVars, history
<1>13. ASSUME NEW t \in Ticks, LookAgain(t) PROVE ActiveHolds'
  BY <1>13 DEF LookAgain, Goto, fileVars, history
<1>14. ASSUME NEW t \in Ticks, Build(t) PROVE ActiveHolds'
  BY <1>14 DEF Build, Goto, fileVars, history
<1>15. ASSUME NEW t \in Ticks, Release(t) PROVE ActiveHolds'
  BY <1>15 DEF Release, Goto, fileVars, history
<1>16. ASSUME NEW t \in Ticks, Unlink(t) PROVE ActiveHolds'
  BY <1>16 DEF Unlink, LockPlaces, BareGoesOn, AfterBare,
     Goto, fileVars, history
<1>17. ASSUME NEW t \in Ticks, PrintLine(t) PROVE ActiveHolds'
  BY <1>17 DEF PrintLine, Goto, fileVars, history
<1>18. ASSUME NEW t \in Ticks, Crash(t) PROVE ActiveHolds'
  BY <1>18 DEF Crash, Goto, fileVars, history
<1>19. ASSUME NEW t \in Ticks, CallFails(t) PROVE ActiveHolds'
  BY <1>19 DEF CallFails, Goto, fileVars, history
<1>20. ASSUME NEW t \in Ticks, Age(t) PROVE ActiveHolds'
  BY <1>20 DEF Age, Goto, fileVars, history
<1>. QED
  BY <1>1, <1>2, <1>3, <1>4, <1>5, <1>6, <1>7, <1>8, <1>9, <1>10, <1>11, <1>12,
     <1>13, <1>14, <1>15, <1>16, <1>17, <1>18, <1>19, <1>20
     DEF Next, Step

\* In calm times the path keeps the lock of every tick that created one.
LEMMA CalmStep ==
  ASSUME TypeOK, LockPlaces, StaleInv, CalmInv, [Next]_vars
  PROVE  CalmInv'
<1>. SUFFICES ASSUME Calm' PROVE (OldGone /\ ClaimIsJudged /\ NonePutBack /\ ActiveHolds)'
  BY DEF CalmInv
<1>1. OldGone /\ ClaimIsJudged /\ NonePutBack /\ ActiveHolds
  BY CalmBefore DEF CalmInv
<1>. QED
  BY <1>1, OldGoneStep, ClaimIsJudgedStep, NonePutBackStep, ActiveHoldsStep

\* So at most one tick is active.
LEMMA OneActive ==
  ASSUME CalmInv, Calm, NEW t \in Active, NEW u \in Active
  PROVE  t = u
BY DEF CalmInv, ActiveHolds

----------------------------------------------------------------------------
(* The line.                                                               *)

\* Who stores a line stores it for all.
LEMMA LineStep ==
  ASSUME TypeOK, LineOfBuilt, [Next]_vars
  PROVE  LineOfBuilt'
<1>1. ASSUME NEW t \in Ticks, Build(t) PROVE LineOfBuilt'
  BY <1>1 DEF Build, LineOfBuilt
<1>2. CASE ~\E t \in Ticks : Build(t)
  <2>1. UNCHANGED <<line, built>>
    BY <1>2 DEF Next, Step, Start, Open, WriteToken, ReadFirst, ReadSecond, Judge, GiveUp,
       Rename, Compare, Remove, PutBack, LookAgain, Release, Unlink, PrintLine, Crash,
       CallFails, Age, vars
  <2>. QED
    BY <2>1 DEF LineOfBuilt
<1>. QED
  BY <1>1, <1>2

\* The tick that builds found no line, and no other tick stores one meanwhile.
LEMMA OneBuildStep ==
  ASSUME TypeOK, CalmInv, LineOfBuilt, Calm, bare = {}, OneBuild, [Next]_vars, bare' = {}
  PROVE  OneBuild'
<1>. USE TickAssumption DEF TypeOK, OneBuild
<1>1. CASE UNCHANGED vars
  BY <1>1 DEF vars, fileVars, history
<1>2. ASSUME NEW t \in Ticks, Start(t) PROVE OneBuild'
  BY <1>2 DEF Start, Goto, fileVars, history
<1>3. ASSUME NEW t \in Ticks, Open(t) PROVE OneBuild'
  BY <1>3 DEF Open, Goto, fileVars, history
<1>4. ASSUME NEW t \in Ticks, WriteToken(t) PROVE OneBuild'
  BY <1>4 DEF WriteToken, Goto, fileVars, history
<1>5. ASSUME NEW t \in Ticks, ReadFirst(t) PROVE OneBuild'
  BY <1>5 DEF ReadFirst, Goto, fileVars, history
<1>6. ASSUME NEW t \in Ticks, ReadSecond(t) PROVE OneBuild'
  BY <1>6 DEF ReadSecond, Goto, fileVars, history
<1>7. ASSUME NEW t \in Ticks, Judge(t) PROVE OneBuild'
  BY <1>7 DEF Judge, Goto, fileVars, history
<1>8. ASSUME NEW t \in Ticks, GiveUp(t) PROVE OneBuild'
  BY <1>8 DEF GiveUp, Goto, fileVars, history
<1>9. ASSUME NEW t \in Ticks, Rename(t) PROVE OneBuild'
  BY <1>9 DEF Rename, Goto, fileVars, history
<1>10. ASSUME NEW t \in Ticks, Compare(t) PROVE OneBuild'
  BY <1>10 DEF Compare, Goto, fileVars, history
<1>11. ASSUME NEW t \in Ticks, Remove(t) PROVE OneBuild'
  BY <1>11 DEF Remove, Goto, fileVars, history
<1>12. ASSUME NEW t \in Ticks, PutBack(t) PROVE OneBuild'
  BY <1>12 DEF PutBack, Goto, fileVars, history
<1>13. ASSUME NEW t \in Ticks, LookAgain(t) PROVE OneBuild'
  BY <1>13 DEF LookAgain, Goto, fileVars, history
<1>14. ASSUME NEW t \in Ticks, Build(t) PROVE OneBuild'
  <2>1. t \in Active /\ \A u \in Active : u = t
    BY <1>14, OneActive DEF Build, Goto, Active
  <2>2. built = {}
    BY <1>14 DEF Build, Goto, LineOfBuilt
  <2>3. \A u \in Ticks : pc'[u] # "build"
    BY <1>14, <2>1 DEF Build, Goto, Active
  <2>4. built' \subseteq {t}
    BY <1>14, <2>2 DEF Build
  <2>. QED
    BY <2>3, <2>4
<1>15. ASSUME NEW t \in Ticks, Release(t) PROVE OneBuild'
  BY <1>15 DEF Release, Goto, fileVars, history
<1>16. ASSUME NEW t \in Ticks, Unlink(t) PROVE OneBuild'
  BY <1>16 DEF Unlink, Goto, fileVars, history
<1>17. ASSUME NEW t \in Ticks, PrintLine(t) PROVE OneBuild'
  BY <1>17 DEF PrintLine, Goto, fileVars, history
<1>18. ASSUME NEW t \in Ticks, Crash(t) PROVE OneBuild'
  BY <1>18 DEF Crash, Goto, fileVars, history
<1>19. ASSUME NEW t \in Ticks, CallFails(t) PROVE OneBuild'
  BY <1>19 DEF CallFails, Goto, fileVars, history
<1>20. ASSUME NEW t \in Ticks, Age(t) PROVE OneBuild'
  BY <1>20 DEF Age, Goto, fileVars, history
<1>. QED
  BY <1>1, <1>2, <1>3, <1>4, <1>5, <1>6, <1>7, <1>8, <1>9, <1>10, <1>11, <1>12,
     <1>13, <1>14, <1>15, <1>16, <1>17, <1>18, <1>19, <1>20
     DEF Next, Step

\* So in calm times, with no tick that goes on without the lock, one line is built.
LEMMA BuildStep ==
  ASSUME TypeOK, CalmInv, LineOfBuilt, BuildInv, [Next]_vars
  PROVE  BuildInv'
<1>. SUFFICES ASSUME Calm', bare' = {} PROVE OneBuild'
  BY DEF BuildInv
<1>1. Calm
  BY CalmBefore
<1>2. bare \subseteq bare'
  BY DEF Next, Step, Start, Open, WriteToken, ReadFirst, ReadSecond, Judge, GiveUp, Rename,
         Compare, Remove, PutBack, LookAgain, Build, Release, Unlink, PrintLine,
         Crash, CallFails, Age, fileVars, history, vars
<1>. QED
  BY <1>1, <1>2, OneBuildStep DEF BuildInv

----------------------------------------------------------------------------
(* The invariant, and what follows from it.                                *)

\* Nothing is locked at first.
LEMMA InitLock == Init => LockInv
<1>. SUFFICES ASSUME Init PROVE LockInv
  OBVIOUS
<1>. USE TickAssumption DEF Init
<1>1. TypeOK
  BY DEF TypeOK, Files, Mtimes, NoLock
<1>2. LockPlaces
  BY DEF LockPlaces, OnePlace, NoFileYet, ClaimsHold, BareGoesOn
<1>3. StaleInv /\ LineOfBuilt
  BY DEF StaleInv, JudgedStale, ReclaimsOnlyStale, LineOfBuilt
<1>4. CalmInv
  BY DEF CalmInv, OldGone, ClaimIsJudged, NonePutBack, ActiveHolds, Active
<1>5. BuildInv
  BY DEF BuildInv, OneBuild
<1>. QED
  BY <1>1, <1>2, <1>3, <1>4, <1>5 DEF LockInv

(* The inductive invariant, for any number of ticks and faults.            *)
THEOREM LockInvariant == Spec => []LockInv
<1>1. LockInv /\ [Next]_vars => LockInv'
  <2>. SUFFICES ASSUME LockInv, [Next]_vars PROVE LockInv'
    OBVIOUS
  <2>. QED
    BY TypeStep, PlacesStep, JudgedStep, LineStep, CalmStep, BuildStep DEF LockInv
<1>. QED
  BY InitLock, <1>1, PTL DEF Spec

(* A lock file is in one place: renaming is all that is ever done to it, and
   no put-back ever duplicates one.                                         *)
THEOREM LockIsInOnePlace == Spec => [](TypeOK /\ OnePlace)
<1>1. LockInv => TypeOK /\ OnePlace
  BY DEF LockInv, LockPlaces
<1>. QED
  BY LockInvariant, <1>1, PTL

(* reclaimStaleLock never removes a good lock, although it renames it after
   it judged it, and another may be at the path by then.                    *)
THEOREM ReclaimsOnlyStaleLocks == Spec => []ReclaimsOnlyStale
<1>1. LockInv => ReclaimsOnlyStale
  BY DEF LockInv, StaleInv
<1>. QED
  BY LockInvariant, <1>1, PTL

\* A set whose elements are all one has at most one.
LEMMA AtMostOne ==
  ASSUME NEW S, \A x, y \in S : x = y
  PROVE  Cardinality(S) <= 1
<1>1. CASE S = {}
  BY <1>1, FS_EmptySet
<1>2. CASE S # {}
  <2>1. PICK x : S = {x}
    BY <1>2
  <2>. QED
    BY <2>1, FS_Singleton
<1>. QED
  BY <1>1, <1>2

(* One tick at a time holds the lock, as long as every tick that reclaims
   gets the lock it judged and no running tick's lock grows old.            *)
THEOREM OneTickHolds == Spec => []OneHolder
<1>1. LockInv => OneHolder
  <2>. SUFFICES ASSUME LockInv, Calm PROVE Cardinality(Holding) <= 1
    BY DEF OneHolder
  <2>1. Holding \subseteq Active
    BY DEF Holding, Active
  <2>2. \A t, u \in Holding : t = u
    BY <2>1, OneActive DEF LockInv
  <2>. QED
    BY <2>2, AtMostOne
<1>. QED
  BY LockInvariant, <1>1, PTL

(* And the line is built once.                                             *)
THEOREM LineIsBuiltOnce == Spec => []BuiltOnce
<1>1. LockInv => BuiltOnce
  <2>. SUFFICES ASSUME LockInv, Calm, bare = {} PROVE Cardinality(built) <= 1
    BY DEF BuiltOnce
  <2>1. \A t, u \in built : t = u
    BY DEF LockInv, BuildInv, OneBuild
  <2>. QED
    BY <2>1, AtMostOne
<1>. QED
  BY LockInvariant, <1>1, PTL
===============================================================================
