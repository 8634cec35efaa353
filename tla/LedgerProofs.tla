----------------------------- MODULE LedgerProofs -----------------------------
(* For any files, contents, reports and changes by the tools: which stored      *)
(* files are history of the usual directories, and that prune's deletions lose  *)
(* no event and change no report.                                               *)
EXTENDS Ledger, ListLemmas, FiniteSetTheorems, TLAPS

LedgerTypeOK ==
    /\ disk \in [Files -> DiskFiles \cup {None}]
    /\ store \in [Files -> Entries \cup {None}]
    /\ changes \in Nat /\ clock \in Nat
    /\ live \in [Reports -> SUBSET Files]
    /\ got \in [Reports -> [Files -> Contents \cup {None}]]
    /\ readAt \in [Reports -> [Files -> Nat]]
    /\ pruneLive \subseteq UsualDir /\ taken \in [Files -> Nat]

(* Whatever is claimed or marked is stored, and whatever the usual report goes
   on to claim it found itself.                                               *)
Claims ==
    /\ found \subseteq UsualDir /\ marked \subseteq Stored /\ claimed \subseteq Stored
    /\ live["usual"] \subseteq found /\ keys \subseteq found

(* A version of a file has one content, in the store and in what reports read. *)
Fits(f, rows, version) ==
    /\ version < changes + 3
    /\ disk[f] # None /\ disk[f].version = version => disk[f].rows = rows
VersionsFit ==
    \A f \in Files :
        /\ disk[f] # None => disk[f].version < changes + 3
        /\ store[f] # None => Fits(f, store[f].rows, store[f].version)
        /\ \A r \in Reports : got[r][f] # None /\ readAt[r][f] # 0 => Fits(f, got[r][f], readAt[r][f])

(* Until a tool changes a file, what prune saw of them is how they are.        *)
LooksHold ==
    ppc = "looked" /\ "prune" \notin disturbed =>
        /\ pruneLive = {f \in UsualDir : Found(f)}
        /\ \A f \in pruneLive : taken[f] = disk[f].version

LedgerInv == LedgerTypeOK /\ MarksHold /\ Claims /\ VersionsFit /\ LooksHold

LEMMA FilesAre ==
  /\ UsualDir \subseteq Files /\ CustomDir \subseteq Files /\ Files \subseteq Nat /\ IsFiniteSet(Files)
  /\ Reports = {"usual", "custom"} /\ "usual" \in Reports /\ "custom" \in Reports
  BY LedgerAssumption DEF Reports

LEMMA RecordsAre ==
  /\ \A d \in DiskFiles : /\ d # None /\ d.rows \in Contents /\ d.version \in Nat /\ d.seen \in BOOLEAN
                          /\ d.rows # None
  /\ \A e \in Entries : /\ e # None /\ e.rows \in Contents /\ e.version \in Nat /\ e.unhashed = NoRows
                        /\ e.rows # None /\ e.at \in Nat
  /\ \A c \in Contents, v, t \in Nat :
        /\ c # None
        /\ File(c, v) \in DiskFiles /\ File(c, v).rows = c /\ File(c, v).version = v
        /\ Entry(c, v, t) \in Entries /\ Entry(c, v, t).rows = c /\ Entry(c, v, t).version = v
  BY LedgerAssumption DEF DiskFiles, Entries, File, Entry

LEMMA LedgerInit == Init => LedgerInv
  <1> SUFFICES ASSUME Init PROVE LedgerInv
    OBVIOUS
  <1>1. PICK left \in [Files -> Left] :
          disk = [f \in Files |-> left[f][1]] /\ store = [f \in Files |-> left[f][2]]
    BY DEF Init
  <1>2. /\ changes = 0 /\ clock = 1 /\ keys = {} /\ ppc = "idle"
        /\ live = [r \in Reports |-> {}] /\ got = [r \in Reports |-> [f \in Files |-> None]]
        /\ readAt = [r \in Reports |-> [f \in Files |-> 0]]
        /\ taken = [f \in Files |-> 0] /\ pruneLive = {}
        /\ marked \subseteq Stored /\ Stored \subseteq UsualDir \cup marked
        /\ claimed = Stored \ marked /\ found = claimed
    BY DEF Init
  <1>3. ASSUME NEW f \in Files
        PROVE  /\ disk[f] \in DiskFiles \cup {None} /\ store[f] \in Entries \cup {None}
               /\ disk[f] # None => disk[f].version < 3
               /\ store[f] # None => store[f].version < 3
               /\ disk[f] # None /\ store[f] # None /\ disk[f].version = store[f].version
                    => disk[f].rows = store[f].rows
    <2>1. left[f] \in Left /\ disk[f] = left[f][1] /\ store[f] = left[f][2]
      BY <1>1
    <2>2. \A c \in Contents :
            /\ File(c, 1) \in DiskFiles /\ File(c, 1).rows = c /\ File(c, 1).version = 1 /\ File(c, 1) # None
            /\ File(c, 2) \in DiskFiles /\ File(c, 2).rows = c /\ File(c, 2).version = 2 /\ File(c, 2) # None
            /\ Entry(c, 1, 0) \in Entries /\ Entry(c, 1, 0).rows = c /\ Entry(c, 1, 0).version = 1
            /\ Entry(c, 1, 0) # None
      BY RecordsAre
    <2>3. \/ disk[f] = None /\ store[f] = None
          \/ \E c \in Contents : disk[f] = File(c, 1) /\ store[f] = Entry(c, 1, 0)
          \/ \E c, b \in Contents : disk[f] = File(c, 2) /\ store[f] = Entry(b, 1, 0)
          \/ \E c \in Contents : disk[f] = None /\ store[f] = Entry(c, 1, 0)
          \/ \E c \in Contents : disk[f] = File(c, 1) /\ store[f] = None
      BY <2>1 DEF Left
    <2>4. QED
      BY <2>2, <2>3
  <1>4. LedgerTypeOK
    BY <1>1, <1>2, <1>3 DEF LedgerTypeOK
  <1>5. MarksHold
    BY <1>2 DEF MarksHold, OnlyFoundUnmarked, ClaimedForGood
  <1>6. Claims
    BY <1>2, FilesAre DEF Claims
  <1>7. VersionsFit
    BY <1>2, <1>3 DEF VersionsFit, Fits
  <1>8. LooksHold
    BY <1>2 DEF LooksHold
  <1>9. QED
    BY <1>4, <1>5, <1>6, <1>7, <1>8 DEF LedgerInv

----------------------------------------------------------------------------
(* The tools.                                                                 *)

LEMMA ChangeKeeps ==
  ASSUME LedgerInv, NEW f \in Files, NEW file \in DiskFiles \cup {None}, Change(f, file),
         file # None => \/ file.version = changes + 3
                        \/ disk[f] # None /\ file.version = disk[f].version /\ file.rows = disk[f].rows
  PROVE  LedgerInv'
  <1>1. /\ changes' = changes + 1 /\ changes \in Nat /\ disk' = [disk EXCEPT ![f] = file]
        /\ UNCHANGED <<store, marked, clock, live, got, readAt, keys, found, claimed, ppc, pruneLive, taken>>
        /\ disturbed' = disturbed \cup (IF ppc = "looked" THEN {"prune"} ELSE {})
                                  \cup (IF rpc["usual"] # "idle" THEN {"report"} ELSE {})
    BY DEF Change, storeVars, reportVars, historyVars, pruneVars, LedgerInv, LedgerTypeOK
  <1>2. LedgerTypeOK'
    BY <1>1 DEF LedgerInv, LedgerTypeOK
  <1>3. MarksHold' /\ Claims'
    BY <1>1 DEF LedgerInv, MarksHold, OnlyFoundUnmarked, ClaimedForGood, Claims, Stored
  <1>4. ASSUME NEW g \in Files
        PROVE  /\ disk'[g] # None => disk'[g].version < changes' + 3
               /\ \A rows, version : version \in Nat /\ Fits(g, rows, version) => Fits(g, rows, version)'
    <2>1. disk[g] # None => disk[g].version < changes + 3 /\ disk[g].version \in Nat
      BY RecordsAre DEF LedgerInv, LedgerTypeOK, VersionsFit
    <2>2. CASE g = f
      BY <1>1, <2>1, <2>2 DEF LedgerInv, LedgerTypeOK, Fits
    <2>3. CASE g # f
      BY <1>1, <2>1, <2>3 DEF LedgerInv, LedgerTypeOK, Fits
    <2>4. QED
      BY <2>2, <2>3
  <1>5. VersionsFit'
    <2>1. ASSUME NEW g \in Files
          PROVE  /\ store[g] # None => store[g].version \in Nat
                 /\ \A r \in Reports : readAt[r][g] \in Nat
      BY RecordsAre DEF LedgerInv, LedgerTypeOK
    <2>2. QED
      BY <1>1, <1>4, <2>1 DEF LedgerInv, VersionsFit
  <1>6. LooksHold'
    BY <1>1 DEF LooksHold
  <1>7. QED
    BY <1>2, <1>3, <1>5, <1>6 DEF LedgerInv

LEMMA ToolsKeep ==
  ASSUME LedgerInv, NEW f \in Files, WriteFile(f) \/ DeleteFile(f) \/ HideFile(f)
  PROVE  LedgerInv'
  <1>1. CASE WriteFile(f)
    <2>1. PICK c \in Contents : Change(f, File(c, changes + 3))
      BY <1>1 DEF WriteFile
    <2>2. changes + 3 \in Nat
      BY DEF LedgerInv, LedgerTypeOK
    <2>3. QED
      BY <2>1, <2>2, RecordsAre, ChangeKeeps
  <1>2. CASE DeleteFile(f)
    BY <1>2, ChangeKeeps DEF DeleteFile
  <1>3. CASE HideFile(f)
    <2>1. disk[f] \in DiskFiles /\ Change(f, [disk[f] EXCEPT !.seen = FALSE])
      BY <1>3 DEF HideFile, Found, LedgerInv, LedgerTypeOK
    <2>2. ASSUME NEW d \in DiskFiles
          PROVE  /\ [d EXCEPT !.seen = FALSE] \in DiskFiles
                 /\ [d EXCEPT !.seen = FALSE].version = d.version /\ [d EXCEPT !.seen = FALSE].rows = d.rows
      BY DEF DiskFiles
    <2>3. QED
      BY <2>1, <2>2, RecordsAre, ChangeKeeps
  <1>4. QED
    BY <1>1, <1>2, <1>3
----------------------------------------------------------------------------
(* The reports.                                                               *)

LEMMA ReadFilesKeeps ==
  ASSUME LedgerInv, NEW r \in Reports, ReadFiles(r)
  PROVE  LedgerInv'
  <1> DEFINE files == {f \in Dir(r) : Found(f)}
             hits == {f \in files : store[f] # None /\ store[f].version = disk[f].version}
             ReadOf(failed) == [f \in Files |-> IF f \in hits THEN store[f].rows
                                               ELSE IF f \in files \ failed THEN disk[f].rows ELSE None]
             versions == [f \in Files |-> IF f \in files \ hits THEN disk[f].version ELSE 0]
  <1>1. PICK failed : got' = [got EXCEPT ![r] = ReadOf(failed)]
    BY DEF ReadFiles
  <1>2. /\ live' = [live EXCEPT ![r] = files] /\ readAt' = [readAt EXCEPT ![r] = versions]
        /\ found' = IF r = "usual" THEN found \cup files ELSE found
        /\ UNCHANGED <<disk, changes, store, marked, clock, keys, claimed, ppc, pruneLive, taken, disturbed>>
    BY DEF ReadFiles, toolVars, storeVars, pruneVars
  <1>3. files \subseteq Files /\ (r = "usual" => files \subseteq UsualDir)
    BY FilesAre DEF Dir
  <1>4. ASSUME NEW f \in Files
        PROVE  /\ ReadOf(failed)[f] \in Contents \cup {None} /\ versions[f] \in Nat
               /\ ReadOf(failed)[f] # None /\ versions[f] # 0 => Fits(f, ReadOf(failed)[f], versions[f])
    <2>1. /\ f \in files => disk[f] \in DiskFiles
          /\ f \in hits => store[f] \in Entries
      BY DEF LedgerInv, LedgerTypeOK, Found
    <2>2. versions[f] # 0 => f \in files \ hits /\ versions[f] = disk[f].version
      OBVIOUS
    <2>3. f \in files \ hits /\ ReadOf(failed)[f] # None => ReadOf(failed)[f] = disk[f].rows
      OBVIOUS
    <2>4. f \in files => disk[f].version < changes + 3
      BY <2>1, RecordsAre DEF LedgerInv, VersionsFit
    <2>5. ReadOf(failed)[f] \in Contents \cup {None} /\ versions[f] \in Nat
      BY <2>1, RecordsAre
    <2> HIDE DEF files, hits, ReadOf, versions
    <2>6. QED
      BY <2>2, <2>3, <2>4, <2>5 DEF Fits
  <1> HIDE DEF files, hits, ReadOf, versions
  <1>5. ReadOf(failed) \in [Files -> Contents \cup {None}] /\ versions \in [Files -> Nat]
    <2>1. ReadOf(failed) = [f \in Files |-> ReadOf(failed)[f]] /\ versions = [f \in Files |-> versions[f]]
      BY DEF ReadOf, versions
    <2>2. QED
      BY <1>4, <2>1
  <1>6. LedgerTypeOK'
    BY <1>1, <1>2, <1>3, <1>5 DEF LedgerInv, LedgerTypeOK
  <1>7. MarksHold'
    BY <1>2 DEF LedgerInv, MarksHold, OnlyFoundUnmarked, ClaimedForGood, Stored
  <1>8. Claims'
    <2>1. live'["usual"] \subseteq found'
      BY <1>2, FilesAre DEF LedgerInv, LedgerTypeOK, Claims
    <2>2. QED
      BY <1>2, <1>3, <2>1 DEF LedgerInv, Claims, Stored
  <1>9. VersionsFit'
    <2>1. ASSUME NEW f \in Files, NEW q \in Reports, got'[q][f] # None, readAt'[q][f] # 0
          PROVE  Fits(f, got'[q][f], readAt'[q][f])
      <3>1. CASE q = r
        BY <1>1, <1>2, <1>4, <2>1, <3>1 DEF LedgerInv, LedgerTypeOK
      <3>2. CASE q # r
        BY <1>1, <1>2, <2>1, <3>2 DEF LedgerInv, LedgerTypeOK, VersionsFit
      <3>3. QED
        BY <3>1, <3>2
    <2>2. QED
      BY <1>2, <2>1 DEF LedgerInv, VersionsFit, Fits
  <1>10. LooksHold'
    BY <1>2 DEF LedgerInv, LooksHold, Found
  <1>11. QED
    BY <1>6, <1>7, <1>8, <1>9, <1>10 DEF LedgerInv

(* A report that stops forgets what it read.                                  *)
LEMMA ForgetKeeps ==
  ASSUME LedgerInv, NEW r \in Reports, Forget(r) \/ UNCHANGED <<live, got, readAt>>
  PROVE  /\ live' \in [Reports -> SUBSET Files] /\ live'["usual"] \subseteq found
         /\ got' \in [Reports -> [Files -> Contents \cup {None}]]
         /\ readAt' \in [Reports -> [Files -> Nat]]
         /\ \A f \in Files, q \in Reports :
               got'[q][f] # None /\ readAt'[q][f] # 0 => Fits(f, got'[q][f], readAt'[q][f])
  <1>1. CASE Forget(r)
    <2>1. live'["usual"] \subseteq live["usual"]
      BY <1>1, FilesAre DEF Forget, LedgerInv, LedgerTypeOK
    <2>2. QED
      BY <1>1, <2>1 DEF Forget, LedgerInv, LedgerTypeOK, Claims, VersionsFit
  <1>2. CASE UNCHANGED <<live, got, readAt>>
    BY <1>2 DEF LedgerInv, LedgerTypeOK, Claims, VersionsFit
  <1>3. QED
    BY <1>1, <1>2

LEMMA StoreFilesKeeps ==
  ASSUME LedgerInv, NEW r \in Reports, StoreFiles(r)
  PROVE  LedgerInv'
  <1> DEFINE written == {f \in Good(r) : readAt[r][f] # 0}
  <1>1. Forget(r) \/ UNCHANGED <<live, got, readAt>>
    BY DEF StoreFiles
  <1>2. /\ UNCHANGED <<disk, changes, keys, found, claimed, ppc, pruneLive, taken>>
        /\ "prune" \notin disturbed' => "prune" \notin disturbed
    BY DEF StoreFiles, toolVars, historyVars, pruneVars, storeVars
  <1>3. /\ live' \in [Reports -> SUBSET Files] /\ live'["usual"] \subseteq found
        /\ got' \in [Reports -> [Files -> Contents \cup {None}]]
        /\ readAt' \in [Reports -> [Files -> Nat]]
        /\ \A f \in Files, q \in Reports :
              got'[q][f] # None /\ readAt'[q][f] # 0 => Fits(f, got'[q][f], readAt'[q][f])
    BY <1>1, ForgetKeeps
  <1>4. LooksHold'
    BY <1>2 DEF LedgerInv, LooksHold, Found
  <1>5. CASE UNCHANGED storeVars
    <2>1. QED
      BY <1>2, <1>3, <1>4, <1>5 DEF storeVars, LedgerInv, LedgerTypeOK, MarksHold, OnlyFoundUnmarked,
         ClaimedForGood, Claims, Stored, VersionsFit, Fits
  <1>6. CASE /\ store' = [f \in Files |-> IF f \in written
                                          THEN Entry(got[r][f], readAt[r][f], clock) ELSE store[f]]
             /\ marked' = MarkedBy(r, written)
             /\ clock' = clock + 1
    <2>1. ASSUME NEW f \in written
          PROVE  /\ f \in Files /\ f \in live[r] /\ got[r][f] \in Contents /\ readAt[r][f] \in Nat
                 /\ store'[f] \in Entries /\ store'[f] # None
                 /\ Fits(f, store'[f].rows, store'[f].version)
      <3>1. f \in Files /\ f \in live[r] /\ got[r][f] \in Contents /\ readAt[r][f] \in Nat /\ clock \in Nat
        BY DEF Good, LedgerInv, LedgerTypeOK
      <3>2. store'[f] = Entry(got[r][f], readAt[r][f], clock)
        BY <1>6, <3>1
      <3>3. Fits(f, got[r][f], readAt[r][f])
        BY <3>1, RecordsAre DEF LedgerInv, VersionsFit
      <3>4. QED
        BY <3>1, <3>2, <3>3, RecordsAre
    <2>2. \A f \in Files : f \notin written => store'[f] = store[f]
      BY <1>6
    <2>3. store' \in [Files -> Entries \cup {None}]
      <3>1. \A f \in Files : store'[f] \in Entries \cup {None}
        BY <2>1, <2>2 DEF LedgerInv, LedgerTypeOK
      <3>2. QED
        BY <1>6, <3>1
    <2>4. Stored' = Stored \cup written /\ written \subseteq Files
      BY <2>1, <2>2 DEF Stored
    <2>5. r = "usual" => marked' = marked /\ written \subseteq found
      BY <1>6, <2>1 DEF MarkedBy, LedgerInv, Claims
    <2>6. r # "usual" => marked' = marked \cup (written \ Stored)
      BY <1>6, <2>4, FilesAre DEF MarkedBy, Stored
    <2> HIDE DEF written
    <2>7. LedgerTypeOK'
      BY <1>2, <1>3, <1>6, <2>3 DEF LedgerInv, LedgerTypeOK
    <2>8. MarksHold' /\ Claims'
      <3>1. OnlyFoundUnmarked'
        BY <1>2, <2>4, <2>5, <2>6 DEF LedgerInv, MarksHold, OnlyFoundUnmarked
      <3>2. ClaimedForGood'
        BY <1>2, <2>5, <2>6 DEF LedgerInv, MarksHold, ClaimedForGood, Claims
      <3>3. Claims'
        BY <1>2, <1>3, <2>4, <2>5, <2>6 DEF LedgerInv, Claims
      <3>4. QED
        BY <3>1, <3>2, <3>3 DEF MarksHold
    <2>9. VersionsFit'
      <3>1. \A f \in Files : store'[f] # None => Fits(f, store'[f].rows, store'[f].version)
        BY <2>1, <2>2 DEF LedgerInv, VersionsFit
      <3>2. QED
        BY <1>2, <1>3, <3>1 DEF LedgerInv, VersionsFit, Fits
    <2>10. QED
      BY <1>4, <2>7, <2>8, <2>9 DEF LedgerInv
  <1>7. QED
    BY <1>5, <1>6 DEF StoreFiles

LEMMA MarksKeep ==
  ASSUME LedgerInv, ReadMarks \/ Claim
  PROVE  LedgerInv'
  <1>1. /\ UNCHANGED <<disk, store, changes, clock, live, got, readAt, found, ppc, pruneLive, taken, disturbed>>
        /\ \/ /\ keys' = marked \cap live["usual"] /\ marked' = marked
              /\ claimed' = claimed \cup ((live["usual"] \cap Stored) \ marked)
           \/ /\ keys' = keys
              /\ \/ marked' = marked \ keys /\ claimed' = claimed \cup (keys \cap Stored)
                 \/ UNCHANGED <<marked, claimed>>
    BY DEF ReadMarks, Claim, toolVars, storeVars, pruneVars
  <1>2. Stored' = Stored
    BY <1>1 DEF Stored
  <1>3. MarksHold' /\ Claims'
    BY <1>1, <1>2 DEF LedgerInv, MarksHold, OnlyFoundUnmarked, ClaimedForGood, Claims
  <1>4. QED
    BY <1>1, <1>3 DEF LedgerInv, LedgerTypeOK, VersionsFit, Fits, LooksHold, Found

LEMMA HistoryKeeps ==
  ASSUME LedgerInv, History
  PROVE  LedgerInv'
  <1>1. /\ UNCHANGED <<disk, store, changes, clock, marked, keys, claimed, found, ppc, pruneLive, taken, disturbed>>
        /\ Forget("usual") \/ UNCHANGED <<live, got, readAt>>
    BY DEF History, LookAtDisk, SelectDeparted, ClassifyDeparted, LoadServed,
           toolVars, storeVars, historyVars, pruneVars
  <1>2. /\ live' \in [Reports -> SUBSET Files] /\ live'["usual"] \subseteq found
        /\ got' \in [Reports -> [Files -> Contents \cup {None}]]
        /\ readAt' \in [Reports -> [Files -> Nat]]
        /\ \A f \in Files, q \in Reports :
              got'[q][f] # None /\ readAt'[q][f] # 0 => Fits(f, got'[q][f], readAt'[q][f])
    BY <1>1, FilesAre, ForgetKeeps
  <1>3. QED
    BY <1>1, <1>2 DEF LedgerInv, LedgerTypeOK, MarksHold, OnlyFoundUnmarked, ClaimedForGood, Claims, Stored,
       VersionsFit, Fits, LooksHold, Found

----------------------------------------------------------------------------
(* Prune.                                                                     *)

LEMMA PruneLooksKeeps ==
  ASSUME LedgerInv, PruneLooks
  PROVE  LedgerInv'
  <1>1. /\ ppc' = "looked" /\ pruneLive' = {f \in UsualDir : Found(f)}
        /\ taken' = [f \in Files |-> IF f \in UsualDir /\ Found(f) THEN disk[f].version ELSE 0]
        /\ UNCHANGED <<disk, store, changes, clock, marked, keys, claimed, found, live, got, readAt, disturbed>>
    BY DEF PruneLooks, toolVars, storeVars, historyVars, reportVars
  <1>2. taken' \in [Files -> Nat] /\ \A f \in pruneLive' : taken'[f] = disk[f].version
    BY <1>1, FilesAre, RecordsAre DEF LedgerInv, LedgerTypeOK, Found
  <1>3. QED
    BY <1>1, <1>2 DEF LedgerInv, LedgerTypeOK, MarksHold, OnlyFoundUnmarked, ClaimedForGood, Claims, Stored,
       VersionsFit, Fits, LooksHold, Found

LEMMA PruneAppliesKeeps ==
  ASSUME LedgerInv, PruneApplies
  PROVE  LedgerInv'
  <1>1. PICK deleted :
          /\ store' = [f \in Files |-> IF f \in deleted THEN None ELSE store[f]]
          /\ marked' = marked \ deleted /\ claimed' = claimed \ deleted
          /\ ppc' \in {"aged", "suppressed"}
    BY DEF PruneApplies
  <1>2. /\ taken' = [f \in Files |-> 0] /\ pruneLive' = {}
        /\ UNCHANGED <<disk, changes, clock, keys, found, live, got, readAt>>
    BY DEF PruneApplies, toolVars, reportVars
  <1>3. Stored' = Stored \ deleted /\ \A f \in Files : store'[f] # None => store'[f] = store[f]
    BY <1>1 DEF Stored
  <1>4. LedgerTypeOK'
    BY <1>1, <1>2 DEF LedgerInv, LedgerTypeOK
  <1>5. MarksHold' /\ Claims'
    BY <1>1, <1>2, <1>3 DEF LedgerInv, MarksHold, OnlyFoundUnmarked, ClaimedForGood, Claims
  <1>6. VersionsFit' /\ LooksHold'
    BY <1>1, <1>2, <1>3 DEF LedgerInv, VersionsFit, Fits, LooksHold
  <1>7. QED
    BY <1>4, <1>5, <1>6 DEF LedgerInv

LEMMA LedgerStep ==
  ASSUME LedgerInv, [Next]_vars
  PROVE  LedgerInv'
  <1>1. CASE \E f \in Files : WriteFile(f) \/ DeleteFile(f) \/ HideFile(f)
    BY <1>1, ToolsKeep
  <1>2. CASE \E r \in Reports : ReadFiles(r) \/ StoreFiles(r)
    BY <1>2, ReadFilesKeeps, StoreFilesKeeps
  <1>3. CASE ReadMarks \/ Claim \/ History \/ PruneLooks \/ PruneApplies
    BY <1>3, MarksKeep, HistoryKeeps, PruneLooksKeeps, PruneAppliesKeeps
  <1>4. CASE UNCHANGED vars
    <2>1. UNCHANGED <<disk, store, changes, clock, marked, keys, claimed, found, live, got, readAt, ppc,
                      pruneLive, taken, disturbed>>
      BY <1>4 DEF vars, toolVars, storeVars, reportVars, historyVars, pruneVars
    <2>2. QED
      BY <2>1 DEF LedgerInv, LedgerTypeOK, MarksHold, OnlyFoundUnmarked, ClaimedForGood, Claims, Stored,
         VersionsFit, Fits, LooksHold, Found
  <1>5. QED
    BY <1>1, <1>2, <1>3, <1>4 DEF Next

(* What the store, the marks, the reports and prune know of the files fits at
   every moment.                                                              *)
THEOREM LedgerInvariant == Spec => []LedgerInv
  BY LedgerInit, LedgerStep, PTL DEF Spec

(* Every stored file is history of the usual directories unless it is marked,
   and one that a usual report claimed is never marked again, though its marks
   are read before the transaction that takes them off (claimOverrideOnlyFiles). *)
THEOREM MarksAreKept == Spec => []MarksHold
  <1>1. LedgerInv => MarksHold
    BY DEF LedgerInv
  <1>2. QED
    BY <1>1, LedgerInvariant, PTL

----------------------------------------------------------------------------
(* Counting.                                                                  *)

(* Steps from a first value lead to a last one.                               *)
StepTo(k, g, first, step) == g[0] = first /\ \A i \in 1..k : g[i] = step[i][g[i - 1]]
LEMMA FoldExists ==
  ASSUME NEW X, NEW first \in X, NEW n \in Nat, NEW step \in [1..n -> [X -> X]]
  PROVE  \E g \in [0..n -> X] : StepTo(n, g, first, step)
  <1> DEFINE each == [p \in X \X (1..n) |-> step[p[2]][p[1]]]
  <1>1. each \in [X \X (1..n) -> X] /\ \A x \in X, i \in 1..n : each[<<x, i>>] = step[i][x]
    OBVIOUS
  <1> HIDE DEF each
  <1>2. PICK g \in [0..n -> X] : StepsTo(g, n, first, each)
    BY <1>1, StepsExist
  <1>3. \A i \in 1..n : g[i - 1] \in X
    OBVIOUS
  <1>4. ASSUME NEW i \in 1..n PROVE g[i] = step[i][g[i - 1]]
    <2>1. g[i] = each[<<g[i - 1], i>>]
      BY <1>2 DEF StepsTo
    <2>2. QED
      BY <1>1, <1>3, <2>1
  <1>5. g[0] = first
    BY <1>2 DEF StepsTo
  <1>6. StepTo(n, g, first, step)
    BY <1>4, <1>5 DEF StepTo
  <1>7. QED
    BY <1>6

(* Finitely many naturals have a bound.                                       *)
LEMMA Bounded ==
  ASSUME NEW T, T \subseteq Nat, IsFiniteSet(T)
  PROVE  \E b \in Nat : \A x \in T : x <= b
  <1>1. PICK n \in Nat : n = Cardinality(T) /\ ExistsBijection(1..n, T)
    BY FS_CardinalityType
  <1>2. PICK f \in [1..n -> T] : \A x \in T : \E i \in 1..n : f[i] = x
    BY <1>1 DEF ExistsBijection, Bijection, Surjection, Injection
  <1> DEFINE S == {k \in 0..n : \E b \in Nat : \A i \in 1..k : f[i] <= b}
  <1>3. 0 \in S
    <2>1. 0 \in Nat /\ 0 \in 0..n /\ \A i \in 1..0 : f[i] <= 0
      OBVIOUS
    <2>2. QED
      BY <2>1
  <1>4. ASSUME NEW k \in 1..n, k - 1 \in S PROVE k \in S
    <2>1. PICK b \in Nat : \A i \in 1..(k - 1) : f[i] <= b
      BY <1>4
    <2>2. f[k] \in Nat
      OBVIOUS
    <2>3. ASSUME NEW i \in 1..k PROVE f[i] <= b + f[k]
      <3>1. i \in 1..n /\ (i = k \/ i \in 1..(k - 1))
        OBVIOUS
      <3>2. f[i] \in Nat
        BY <3>1
      <3>3. QED
        BY <3>1, <3>2, <2>1, <2>2
    <2>4. b + f[k] \in Nat /\ k \in 0..n
      BY <2>2
    <2>5. QED
      BY <2>3, <2>4
  <1> HIDE DEF S
  <1>5. n \in S
    <2>1. \A i \in 0..n : i \in S
      BY <1>3, <1>4, CountUp
    <2>2. QED
      BY <2>1
  <1>6. PICK b \in Nat : \A i \in 1..n : f[i] <= b
    BY <1>5 DEF S
  <1>7. QED
    BY <1>2, <1>6

(* The greatest of finitely many naturals.                                    *)
LEMMA MaxIs ==
  ASSUME NEW T, T \subseteq Nat, IsFiniteSet(T), T # {}
  PROVE  Max(T) \in T /\ \A x \in T : x <= Max(T)
  <1>1. PICK b \in Nat : \A x \in T : x <= b
    BY Bounded
  <1> DEFINE D == {b - x : x \in T}
  <1>2. D \subseteq Nat /\ D # {}
    <2>1. \A x \in T : x \in Nat /\ x <= b
      BY <1>1
    <2>2. \A x \in T : b - x \in Nat
      BY <2>1
    <2>3. QED
      BY <2>2
  <1>3. PICK d \in D : \A e \in D : d <= e
    BY <1>2, LeastNatural
  <1>4. PICK m \in T : d = b - m
    BY <1>3
  <1>5. ASSUME NEW x \in T PROVE m >= x
    <2>1. b - m <= b - x
      BY <1>3, <1>4
    <2>2. m \in Nat /\ x \in Nat
      OBVIOUS
    <2>3. QED
      BY <2>1, <2>2
  <1>6. \E y \in T : \A x \in T : y >= x
    BY <1>5
  <1>7. Max(T) \in T /\ \A x \in T : Max(T) >= x
    BY <1>6 DEF Max
  <1>8. QED
    BY <1>7

----------------------------------------------------------------------------
(* The order of the departed files (compareDepartedFiles) lists each once.    *)

Rank(files, D, f) == Cardinality(Preceding(files, D, f))
Dated(files, D) == \A f \in D : files[f].at \in Nat
LEMMA RanksAre ==
  ASSUME NEW files, NEW D, D \subseteq Nat, IsFiniteSet(D), Dated(files, D)
  PROVE  /\ \A f \in D : Rank(files, D, f) \in Nat /\ Rank(files, D, f) < Cardinality(D)
         /\ \A f, g \in D : Precedes(files, f, g) => Rank(files, D, f) < Rank(files, D, g)
         /\ \A f, g \in D : f # g => Precedes(files, f, g) \/ Precedes(files, g, f)
         /\ \A f, g \in D : f # g => Rank(files, D, f) # Rank(files, D, g)
  <1>0. /\ \A f \in D : ~Precedes(files, f, f)
        /\ \A f, g \in D : f # g => Precedes(files, f, g) \/ Precedes(files, g, f)
        /\ \A e, f, g \in D : Precedes(files, e, f) /\ Precedes(files, f, g) => Precedes(files, e, g)
    <2>1. \A f \in D : f \in Nat /\ files[f].at \in Nat
      BY DEF Dated
    <2>2. QED
      BY <2>1 DEF Precedes
  <1>1. PICK n \in Nat : n = Cardinality(D)
    BY FS_CardinalityType
  <1>2. ASSUME NEW f \in D
        PROVE  /\ IsFiniteSet(Preceding(files, D, f))
               /\ Rank(files, D, f) \in Nat /\ Rank(files, D, f) < n
    <2>1. Preceding(files, D, f) \in SUBSET D /\ f \notin Preceding(files, D, f)
      BY <1>0 DEF Preceding
    <2>2. /\ IsFiniteSet(Preceding(files, D, f)) /\ Rank(files, D, f) <= n
          /\ n # Rank(files, D, f)
      BY <1>1, <2>1, FS_Subset DEF Rank
    <2>3. Rank(files, D, f) \in Nat
      BY <2>2, FS_CardinalityType DEF Rank
    <2>4. QED
      BY <1>1, <2>2, <2>3
  <1>3. ASSUME NEW f \in D, NEW g \in D, Precedes(files, f, g)
        PROVE  Rank(files, D, f) < Rank(files, D, g)
    <2>1. Preceding(files, D, f) \in SUBSET Preceding(files, D, g)
      <3>1. \A e \in D : Precedes(files, e, f) => Precedes(files, e, g)
        BY <1>0, <1>3
      <3>2. QED
        BY <3>1 DEF Preceding
    <2>2. f \in Preceding(files, D, g) /\ f \notin Preceding(files, D, f)
      BY <1>0, <1>3 DEF Preceding
    <2>3. Rank(files, D, f) <= Rank(files, D, g) /\ Rank(files, D, f) # Rank(files, D, g)
      BY <1>2, <2>1, <2>2, FS_Subset DEF Rank
    <2>4. QED
      BY <1>2, <2>3
  <1>4. \A f, g \in D : f # g => Precedes(files, f, g) \/ Precedes(files, g, f)
    BY <1>0
  <1>5. ASSUME NEW f \in D, NEW g \in D, f # g
        PROVE  Rank(files, D, f) # Rank(files, D, g)
    <2>1. Rank(files, D, f) < Rank(files, D, g) \/ Rank(files, D, g) < Rank(files, D, f)
      BY <1>3, <1>4, <1>5
    <2>2. Rank(files, D, f) \in Nat /\ Rank(files, D, g) \in Nat
      BY <1>2
    <2>3. QED
      BY <2>1, <2>2
  <1>6. QED
    BY <1>1, <1>2, <1>3, <1>4, <1>5

Distinct(queue, n) == \A i, j \in 1..n : queue[i] = queue[j] => i = j
ListsOnce(files, D, queue, n) ==
    /\ n \in Nat /\ queue \in [1..n -> D]
    /\ Distinct(queue, n)
    /\ \A i, j \in 1..n : i < j => Precedes(files, queue[i], queue[j])
    /\ \A f \in D : \E i \in 1..n : queue[i] = f
LEMMA OrderListsEach ==
  ASSUME NEW files, NEW D, D \subseteq Nat, IsFiniteSet(D), Dated(files, D)
  PROVE  ListsOnce(files, D, DepartedOrder(files, D), Cardinality(D))
  <1>1. PICK n : n = Cardinality(D)
    OBVIOUS
  <1>2. PICK queue : queue = DepartedOrder(files, D)
    OBVIOUS
  <1> DEFINE rank == [f \in D |-> Rank(files, D, f) + 1]
  <1>3. n \in Nat
    BY <1>1, FS_CardinalityType
  <1>4. \A f \in D : Rank(files, D, f) \in Nat /\ Rank(files, D, f) < n
    BY <1>1, RanksAre
  <1>5. \A f, g \in D : f # g => Rank(files, D, f) # Rank(files, D, g)
    BY RanksAre
  <1>6. /\ \A f, g \in D : Precedes(files, f, g) => Rank(files, D, f) < Rank(files, D, g)
        /\ \A f, g \in D : f # g => Precedes(files, f, g) \/ Precedes(files, g, f)
    BY RanksAre
  <1>7. rank \in Injection(D, 1..n)
    <2>1. \A f \in D : rank[f] \in 1..n
      BY <1>3, <1>4
    <2>2. \A f, g \in D : rank[f] = rank[g] => f = g
      BY <1>4, <1>5
    <2> HIDE DEF rank
    <2>3. rank = [f \in D |-> rank[f]]
      BY DEF rank
    <2>4. QED
      BY <2>1, <2>2, <2>3 DEF Injection, IsInjective
  <1>8. rank \in Surjection(D, 1..n)
    <2>1. IsFiniteSet(1..n) /\ Cardinality(1..n) = n
      BY <1>3, FS_Interval
    <2> HIDE DEF rank
    <2>2. QED
      BY <1>1, <1>7, <2>1, FS_Injection
  <1>9. ASSUME NEW i \in 1..n
        PROVE  queue[i] \in D /\ Rank(files, D, queue[i]) = i - 1
    <2>1. PICK f \in D : rank[f] = i
      <3> HIDE DEF rank
      <3>1. QED
        BY <1>8 DEF Surjection
    <2>2. Rank(files, D, f) = i - 1
      <3>1. Rank(files, D, f) + 1 = i /\ Rank(files, D, f) \in Nat
        BY <1>4, <2>1
      <3>2. QED
        BY <3>1
    <2>3. queue[i] = CHOOSE g \in D : Rank(files, D, g) = i - 1
      BY <1>1, <1>2 DEF DepartedOrder, Rank
    <2>4. QED
      BY <2>2, <2>3
  <1>10. queue \in [1..n -> D]
    BY <1>1, <1>2, <1>9 DEF DepartedOrder
  <1>11. Distinct(queue, n)
    BY <1>3, <1>9 DEF Distinct
  <1>12. ASSUME NEW i \in 1..n, NEW j \in 1..n, i < j PROVE Precedes(files, queue[i], queue[j])
    <2>1. /\ queue[i] \in D /\ queue[j] \in D
          /\ Rank(files, D, queue[i]) = i - 1 /\ Rank(files, D, queue[j]) = j - 1
      BY <1>9
    <2>2. ~(j - 1 < i - 1) /\ i - 1 # j - 1
      BY <1>3, <1>12
    <2>3. QED
      BY <1>6, <2>1, <2>2
  <1>13. ASSUME NEW f \in D PROVE \E i \in 1..n : queue[i] = f
    <2>1. PICK r \in Nat : r = Rank(files, D, f) /\ r < n
      BY <1>4
    <2>2. r + 1 \in 1..n /\ (r + 1) - 1 = r
      BY <1>3, <2>1
    <2>3. queue[r + 1] \in D /\ Rank(files, D, queue[r + 1]) = r
      BY <1>9, <2>2
    <2>4. QED
      BY <1>5, <2>1, <2>2, <2>3
  <1>14. QED
    BY <1>1, <1>2, <1>3, <1>10, <1>11, <1>12, <1>13 DEF ListsOnce

----------------------------------------------------------------------------
(* The loop over the departed files (classifyAgainstLiveFiles).               *)

Sums(F) == [served : Seq(F), suppressed : SUBSET F, counts : [Hashes -> Nat]]
RowsKnown(F, files) == \A f \in F : files[f].rows \in [Hashes -> Nat]
Nothing(base) == [served |-> <<>>, suppressed |-> {}, counts |-> base]

WeighedAs(files, acc, f, w) ==
    /\ Covered(files[f], acc.counts) =>
         /\ w.suppressed = acc.suppressed \cup {f}
         /\ w.counts = acc.counts /\ w.served = acc.served
    /\ ~Covered(files[f], acc.counts) =>
         /\ w.suppressed = acc.suppressed
         /\ w.counts = AddServed(acc.counts, files[f]) /\ w.served = Append(acc.served, f)

LEMMA WeighedIs ==
  ASSUME NEW F, NEW files, NEW acc \in Sums(F), NEW f \in F, files[f].rows \in [Hashes -> Nat]
  PROVE  /\ Weighed(files, acc, f) \in Sums(F)
         /\ WeighedAs(files, acc, f, Weighed(files, acc, f))
  <1>0. PICK w : w = Weighed(files, acc, f)
    OBVIOUS
  <1>1. CASE Covered(files[f], acc.counts)
    <2>1. w = [acc EXCEPT !.suppressed = @ \cup {f}]
      BY <1>0, <1>1 DEF Weighed
    <2>2. w \in Sums(F) /\ WeighedAs(files, acc, f, w)
      BY <1>1, <2>1 DEF Sums, WeighedAs
    <2>3. QED
      BY <1>0, <2>2
  <1>2. CASE ~Covered(files[f], acc.counts)
    <2>1. w = [acc EXCEPT !.served = Append(@, f), !.counts = AddServed(@, files[f])]
      BY <1>0, <1>2 DEF Weighed
    <2>2. AddServed(acc.counts, files[f]) \in [Hashes -> Nat]
      BY DEF AddServed, MoreOf, Sums
    <2>3. Append(acc.served, f) \in Seq(F)
      BY DEF Sums
    <2>4. w \in Sums(F) /\ WeighedAs(files, acc, f, w)
      BY <1>2, <2>1, <2>2, <2>3 DEF Sums, WeighedAs
    <2>5. QED
      BY <1>0, <2>4
  <1>3. QED
    BY <1>1, <1>2

(* What each file of the order adds.                                          *)
WeighTo(k, g, files, queue, base) ==
    /\ g[0] = Nothing(base)
    /\ \A i \in 1..k : g[i] = Weighed(files, g[i - 1], queue[i])

LEMMA WeighExists ==
  ASSUME NEW F, NEW files, RowsKnown(F, files),
         NEW base \in [Hashes -> Nat], NEW n \in Nat, NEW queue \in [1..n -> F]
  PROVE  \E g \in [0..n -> Sums(F)] : WeighTo(n, g, files, queue, base)
  <1> DEFINE step == [i \in 1..n |-> [x \in Sums(F) |-> Weighed(files, x, queue[i])]]
  <1>1. step \in [1..n -> [Sums(F) -> Sums(F)]]
    <2>1. ASSUME NEW i \in 1..n, NEW x \in Sums(F) PROVE Weighed(files, x, queue[i]) \in Sums(F)
      <3>1. queue[i] \in F /\ files[queue[i]].rows \in [Hashes -> Nat]
        BY DEF RowsKnown
      <3>2. QED
        BY <3>1, WeighedIs
    <2>2. QED
      BY <2>1
  <1>2. Nothing(base) \in Sums(F)
    BY DEF Nothing, Sums
  <1>3. \A i \in 1..n, x \in Sums(F) : step[i][x] = Weighed(files, x, queue[i])
    OBVIOUS
  <1> HIDE DEF step
  <1>4. PICK g \in [0..n -> Sums(F)] : StepTo(n, g, Nothing(base), step)
    BY <1>1, <1>2, FoldExists
  <1>5. \A i \in 1..n : i - 1 \in 0..n /\ g[i - 1] \in Sums(F)
    OBVIOUS
  <1>6. WeighTo(n, g, files, queue, base)
    BY <1>3, <1>4, <1>5 DEF WeighTo, StepTo
  <1>7. QED
    BY <1>6

Weighs(n, F, g, files, queue, base) ==
    (\A i \in 0..n : g[i] \in Sums(F)) /\ WeighTo(n, g, files, queue, base)
LEMMA ClassifyWeighs ==
  ASSUME NEW F, NEW files, RowsKnown(F, files),
         NEW base \in [Hashes -> Nat], NEW n \in Nat, NEW queue \in [1..n -> F]
  PROVE  \E g : Weighs(n, F, g, files, queue, base) /\ Classify(files, queue, base) = g[n]
  <1> DEFINE After(g) == [i \in 0..Len(queue) |->
                            IF i = 0 THEN [served |-> <<>>, suppressed |-> {}, counts |-> base]
                            ELSE Weighed(files, g[i - 1], queue[i])]
             after == CHOOSE g : g = After(g)
  <1>1. Len(queue) = n
    OBVIOUS
  <1>2. Classify(files, queue, base) = after[n]
    BY <1>1 DEF Classify
  <1>3. \E g : g = After(g)
    <2>1. PICK h \in [0..n -> Sums(F)] : WeighTo(n, h, files, queue, base)
      BY WeighExists
    <2>2. \A i \in 0..n : h[i] = IF i = 0 THEN [served |-> <<>>, suppressed |-> {}, counts |-> base]
                                 ELSE Weighed(files, h[i - 1], queue[i])
      BY <2>1 DEF WeighTo, Nothing
    <2>3. h = After(h)
      BY <2>2, <1>1
    <2>4. QED
      BY <2>3
  <1>4. after = After(after)
    BY <1>3
  <1> HIDE DEF after
  <1>5. WeighTo(n, after, files, queue, base)
    <2>1. PICK g : g = after /\ g = After(after)
      BY <1>4
    <2>2. ASSUME NEW i \in 0..n
          PROVE  g[i] = IF i = 0 THEN Nothing(base) ELSE Weighed(files, after[i - 1], queue[i])
      BY <2>1, <1>1 DEF Nothing
    <2> HIDE DEF After
    <2>3. after[0] = Nothing(base)
      <3>1. 0 \in 0..n
        OBVIOUS
      <3>2. QED
        BY <2>1, <2>2, <3>1
    <2>4. \A i \in 1..n : after[i] = Weighed(files, after[i - 1], queue[i])
      <3>1. \A i \in 1..n : i \in 0..n /\ i # 0
        OBVIOUS
      <3>2. QED
        BY <2>1, <2>2, <3>1
    <2>5. QED
      BY <2>3, <2>4 DEF WeighTo
  <1>6. \A i \in 0..n : after[i] \in Sums(F)
    <2> DEFINE S == {i \in 0..n : after[i] \in Sums(F)}
    <2>1. 0 \in S
      <3>1. Nothing(base) \in Sums(F)
        BY DEF Nothing, Sums
      <3>2. QED
        BY <1>5, <3>1 DEF WeighTo
    <2>2. ASSUME NEW i \in 1..n, i - 1 \in S PROVE i \in S
      <3>1. after[i - 1] \in Sums(F) /\ queue[i] \in F /\ after[i] = Weighed(files, after[i - 1], queue[i])
        BY <2>2, <1>5 DEF WeighTo
      <3>2. after[i] \in Sums(F)
        BY <3>1, WeighedIs DEF RowsKnown
      <3>3. QED
        BY <3>2
    <2> HIDE DEF S
    <2>3. \A i \in 0..n : i \in S
      BY <2>1, <2>2, CountUp
    <2>4. QED
      BY <2>3 DEF S
  <1>7. QED
    BY <1>2, <1>5, <1>6 DEF Weighs

(* A file is suppressed only if what is live, or a served file before it, has as
   many of each of its events; the others are served.                         *)
SplitAs(F, files, queue, n, base, split) ==
    /\ split.suppressed \subseteq {queue[i] : i \in 1..n}
    /\ \A j \in 1..n, h \in Hashes :
          queue[j] \in split.suppressed =>
            \/ files[queue[j]].rows[h] <= base[h]
            \/ \E i \in 1..(j - 1) : /\ queue[i] \notin split.suppressed
                                    /\ files[queue[j]].rows[h] <= files[queue[i]].rows[h]
    /\ split.served \in Seq(F)
    /\ {split.served[i] : i \in 1..Len(split.served)} = {queue[i] : i \in 1..n} \ split.suppressed

LEMMA SuppressedIsCovered ==
  ASSUME NEW F, NEW files, RowsKnown(F, files),
         NEW base \in [Hashes -> Nat], NEW n \in Nat, NEW queue \in [1..n -> F],
         Distinct(queue, n)
  PROVE  SplitAs(F, files, queue, n, base, Classify(files, queue, base))
  <1>1. PICK g : Weighs(n, F, g, files, queue, base) /\ Classify(files, queue, base) = g[n]
    BY ClassifyWeighs
  <1> DEFINE Listed(k) == {queue[i] : i \in 1..k}
             Before(j, k, m, h) == \/ m <= base[h]
                                   \/ \E i \in 1..j : /\ queue[i] \notin g[k].suppressed
                                                     /\ m <= files[queue[i]].rows[h]
             Fine(k) == /\ g[k].suppressed \subseteq Listed(k)
                        /\ \A h \in Hashes : Before(k, k, g[k].counts[h], h)
                        /\ \A j \in 1..k, h \in Hashes :
                              queue[j] \in g[k].suppressed => Before(j - 1, k, files[queue[j]].rows[h], h)
                        /\ {g[k].served[i] : i \in 1..Len(g[k].served)} = Listed(k) \ g[k].suppressed
             S == {k \in 0..n : Fine(k)}
  <1>2. 0 \in S
    <2>1. g[0].suppressed = {} /\ g[0].counts = base /\ g[0].served = <<>>
      BY <1>1 DEF Weighs, WeighTo, Nothing
    <2>2. \A h \in Hashes : Before(0, 0, g[0].counts[h], h)
      BY <2>1
    <2>3. {g[0].served[i] : i \in 1..Len(g[0].served)} = {} /\ Listed(0) = {}
      BY <2>1
    <2> HIDE DEF Before, Listed
    <2>4. QED
      BY <2>1, <2>2, <2>3
  <1>3. ASSUME NEW k \in 1..n, k - 1 \in S PROVE k \in S
    <2> DEFINE f == queue[k]
    <2>0. k \in 0..n /\ k - 1 \in 0..n /\ f \in F /\ files[f].rows \in [Hashes -> Nat]
      BY DEF RowsKnown
    <2>1. /\ g[k - 1] \in Sums(F) /\ g[k] \in Sums(F) /\ f \in F /\ Fine(k - 1) /\ k \in 0..n
          /\ g[k] = Weighed(files, g[k - 1], f) /\ files[f].rows \in [Hashes -> Nat]
      <3> HIDE DEF Fine
      <3>1. Fine(k - 1)
        BY <1>3
      <3>2. g[k - 1] \in Sums(F) /\ g[k] \in Sums(F) /\ g[k] = Weighed(files, g[k - 1], f)
        BY <1>1, <2>0 DEF Weighs, WeighTo
      <3>3. QED
        BY <2>0, <3>1, <3>2
    <2>2. Listed(k) = Listed(k - 1) \cup {f} /\ f \notin Listed(k - 1)
      <3>1. \A i \in 1..k : i = k \/ i \in 1..(k - 1)
        OBVIOUS
      <3>2. \A i \in 1..(k - 1) : i \in 1..n /\ i # k /\ i \in 1..k
        OBVIOUS
      <3>3. QED
        BY <3>1, <3>2 DEF Distinct
    <2>3. /\ Covered(files[f], g[k - 1].counts) =>
              /\ g[k].suppressed = g[k - 1].suppressed \cup {f}
              /\ g[k].counts = g[k - 1].counts /\ g[k].served = g[k - 1].served
          /\ ~Covered(files[f], g[k - 1].counts) =>
              /\ g[k].suppressed = g[k - 1].suppressed
              /\ g[k].counts = AddServed(g[k - 1].counts, files[f])
              /\ g[k].served = Append(g[k - 1].served, f)
      <3> HIDE DEF Fine, f
      <3>1. PICK acc \in Sums(F) : acc = g[k - 1]
        BY <2>1
      <3>2. g[k] = Weighed(files, acc, f) /\ f \in F /\ files[f].rows \in [Hashes -> Nat]
        BY <2>1, <3>1
      <3>3. WeighedAs(files, acc, f, g[k])
        BY <3>2, WeighedIs
      <3>4. QED
        BY <3>1, <3>3 DEF WeighedAs
    <2>4. /\ g[k - 1].counts \in [Hashes -> Nat] /\ g[k - 1].served \in Seq(F)
          /\ \A h \in Hashes : base[h] \in Nat
      BY <2>1 DEF Sums
    <2>5. \A i \in 1..n, h \in Hashes : queue[i] \in F /\ files[queue[i]].rows[h] \in Nat
      BY DEF RowsKnown
    <2>6. \A i \in 1..(k - 1) : queue[i] # f /\ queue[i] \in Listed(k - 1) /\ i \in 1..k /\ i \in 1..n
      <3>1. \A i \in 1..(k - 1) : i \in 1..n /\ i # k /\ i \in 1..k
        OBVIOUS
      <3>2. QED
        BY <3>1 DEF Distinct
    <2>7. f \notin g[k - 1].suppressed
      BY <2>1, <2>2
    <2> HIDE DEF f, Listed
    <2>8. ASSUME NEW j \in 0..(k - 1), NEW m, NEW h, Before(j, k - 1, m, h) PROVE Before(j, k, m, h)
      <3>1. \A i \in 1..j : i \in 1..(k - 1)
        OBVIOUS
      <3>2. \A i \in 1..(k - 1) : queue[i] \notin g[k - 1].suppressed => queue[i] \notin g[k].suppressed
        BY <2>3, <2>6
      <3>3. QED
        BY <2>8, <3>1, <3>2
    <2>9. ASSUME NEW j \in 1..(k - 1), NEW h \in Hashes, queue[j] \in g[k].suppressed
          PROVE  Before(j - 1, k, files[queue[j]].rows[h], h)
      <3>1. queue[j] \in g[k - 1].suppressed
        BY <2>3, <2>6, <2>9
      <3>2. Before(j - 1, k - 1, files[queue[j]].rows[h], h)
        BY <2>1, <3>1
      <3>3. j - 1 \in 0..(k - 1)
        OBVIOUS
      <3> HIDE DEF Before
      <3>4. QED
        BY <2>8, <3>2, <3>3
    <2>10. k - 1 \in 0..(k - 1) /\ \A j \in 1..k : j = k \/ j \in 1..(k - 1)
      OBVIOUS
    <2>11. CASE Covered(files[f], g[k - 1].counts)
      <3>1. ASSUME NEW h \in Hashes
            PROVE  /\ Before(k - 1, k, g[k - 1].counts[h], h)
                   /\ files[f].rows[h] \in Nat /\ g[k - 1].counts[h] \in Nat /\ base[h] \in Nat
                   /\ files[f].rows[h] <= g[k - 1].counts[h]
        <4>1. Before(k - 1, k - 1, g[k - 1].counts[h], h)
          BY <2>1
        <4> HIDE DEF Before
        <4>2. QED
          BY <2>1, <2>4, <2>8, <2>10, <2>11, <4>1 DEF Covered
      <3>2. ASSUME NEW h \in Hashes PROVE Before(k - 1, k, files[f].rows[h], h)
        <4>1. CASE g[k - 1].counts[h] <= base[h]
          BY <3>1, <4>1
        <4>2. CASE \E i \in 1..(k - 1) : /\ queue[i] \notin g[k].suppressed
                                         /\ g[k - 1].counts[h] <= files[queue[i]].rows[h]
          <5>1. PICK i \in 1..(k - 1) : queue[i] \notin g[k].suppressed /\ g[k - 1].counts[h] <= files[queue[i]].rows[h]
            BY <4>2
          <5>2. files[queue[i]].rows[h] \in Nat
            BY <2>5, <2>6
          <5>3. files[f].rows[h] <= files[queue[i]].rows[h]
            BY <3>1, <5>1, <5>2
          <5>4. QED
            BY <5>1, <5>3
        <4>3. QED
          BY <3>1, <4>1, <4>2
      <3>3. ASSUME NEW h \in Hashes PROVE Before(k, k, g[k].counts[h], h)
        <4>1. Before(k - 1, k, g[k].counts[h], h)
          BY <2>3, <2>11, <3>1
        <4>2. QED
          BY <4>1, <2>6
      <3>4. Listed(k) \ g[k].suppressed = Listed(k - 1) \ g[k - 1].suppressed
        BY <2>2, <2>3, <2>11
      <3>5. g[k].suppressed \subseteq Listed(k)
        BY <2>1, <2>2, <2>3, <2>11
      <3> HIDE DEF Before
      <3>6. \A j \in 1..k, h \in Hashes :
              queue[j] \in g[k].suppressed => Before(j - 1, k, files[queue[j]].rows[h], h)
        BY <2>9, <2>10, <3>2 DEF f
      <3>7. {g[k].served[i] : i \in 1..Len(g[k].served)} = Listed(k) \ g[k].suppressed
        BY <2>1, <2>3, <2>11, <3>4
      <3>8. QED
        BY <2>1, <3>3, <3>5, <3>6, <3>7
    <2>12. CASE ~Covered(files[f], g[k - 1].counts)
      <3>1. k \in 1..k /\ queue[k] \notin g[k].suppressed
        BY <2>3, <2>7, <2>12 DEF f
      <3>2. ASSUME NEW h \in Hashes PROVE Before(k, k, g[k].counts[h], h)
        <4>1. g[k].counts[h] \in {g[k - 1].counts[h], files[f].rows[h]}
          BY <2>3, <2>12 DEF AddServed, MoreOf
        <4>2. CASE g[k].counts[h] = files[f].rows[h]
          BY <3>1, <4>2, <2>1, <2>5 DEF f
        <4>3. CASE g[k].counts[h] = g[k - 1].counts[h]
          <5>1. Before(k - 1, k - 1, g[k].counts[h], h)
            BY <2>1, <4>3
          <5>2. Before(k - 1, k, g[k].counts[h], h)
            BY <2>8, <2>10, <5>1
          <5>3. QED
            BY <5>2, <2>6
        <4>4. QED
          BY <4>1, <4>2, <4>3
      <3>3. g[k].suppressed \subseteq Listed(k)
        BY <2>1, <2>2, <2>3, <2>12
      <3> HIDE DEF Before
      <3>4. \A j \in 1..k, h \in Hashes :
              queue[j] \in g[k].suppressed => Before(j - 1, k, files[queue[j]].rows[h], h)
        BY <2>9, <2>10, <3>1
      <3>5. {g[k].served[i] : i \in 1..Len(g[k].served)} = Listed(k) \ g[k].suppressed
        <4>1. PICK m \in Nat : m = Len(g[k - 1].served)
          BY <2>4
        <4>2. /\ Len(g[k].served) = m + 1 /\ g[k].served[m + 1] = f
              /\ \A i \in 1..m : g[k].served[i] = g[k - 1].served[i]
          <5>1. PICK old \in Seq(F) : old = g[k - 1].served
            BY <2>4
          <5>2. g[k].served = Append(old, f) /\ m = Len(old) /\ f \in F
            BY <2>1, <2>3, <2>12, <4>1, <5>1
          <5>3. Len(Append(old, f)) = m + 1 /\ Append(old, f)[m + 1] = f /\ \A i \in 1..m : Append(old, f)[i] = old[i]
            BY <5>2
          <5>4. QED
            BY <5>1, <5>2, <5>3
        <4>3. {g[k - 1].served[i] : i \in 1..m} = Listed(k - 1) \ g[k - 1].suppressed
          BY <2>1, <4>1
        <4>4. \A i \in 1..(m + 1) : i \in 1..m \/ i = m + 1
          OBVIOUS
        <4>5. \A i \in 1..m : i \in 1..(m + 1)
          OBVIOUS
        <4>6. m + 1 \in 1..(m + 1)
          OBVIOUS
        <4>7. {g[k].served[i] : i \in 1..(m + 1)} = {g[k - 1].served[i] : i \in 1..m} \cup {f}
          BY <4>2, <4>4, <4>5, <4>6
        <4>8. QED
          BY <2>2, <2>3, <2>7, <2>12, <4>2, <4>3, <4>7
      <3>6. QED
        BY <2>1, <3>2, <3>3, <3>4, <3>5
    <2>13. QED
      BY <2>11, <2>12
  <1> HIDE DEF S, Fine
  <1>4. \A k \in 0..n : k \in S
    BY <1>2, <1>3, CountUp
  <1>5. Fine(n)
    BY <1>4 DEF S
  <1>6. g[n].served \in Seq(F)
    BY <1>1 DEF Weighs, Sums
  <1>7. SplitAs(F, files, queue, n, base, g[n])
    BY <1>5, <1>6 DEF Fine, SplitAs
  <1>8. QED
    BY <1>1, <1>7

----------------------------------------------------------------------------
(* What counts of the live files (readLiveHashCounts).                        *)

Highs(files, some, h) == {0} \cup {files[f].rows[h] : f \in some}
Pairs(files, some, h) == UNION {{f} \X (1..files[f].rows[h]) : f \in some}

LEMMA ImageIsFinite ==
  ASSUME NEW S, IsFiniteSet(S), NEW g
  PROVE  IsFiniteSet({g[x] : x \in S})
  <1> DEFINE image == [x \in S |-> g[x]]
  <1>1. image \in Surjection(S, {g[x] : x \in S})
    BY DEF Surjection
  <1>2. QED
    BY <1>1, FS_Surjection

LEMMA HighsAre ==
  ASSUME NEW F, IsFiniteSet(F), NEW files, RowsKnown(F, files), NEW some, some \subseteq F, NEW h \in Hashes
  PROVE  /\ Highs(files, some, h) \subseteq Nat /\ IsFiniteSet(Highs(files, some, h))
         /\ Max(Highs(files, some, h)) \in Highs(files, some, h)
         /\ \A x \in Highs(files, some, h) : x <= Max(Highs(files, some, h))
  <1> DEFINE of == [f \in some |-> files[f].rows[h]]
             T == {of[f] : f \in some}
  <1>1. IsFiniteSet(some)
    BY FS_Subset
  <1>2. IsFiniteSet(T)
    <2> HIDE DEF of
    <2>1. QED
      BY <1>1, ImageIsFinite
  <1>3. T \subseteq Nat
    BY DEF RowsKnown
  <1>4. Highs(files, some, h) = {0} \cup T
    BY DEF Highs
  <1> HIDE DEF T
  <1>5. IsFiniteSet({0} \cup T)
    BY <1>2, FS_Union, FS_Singleton
  <1>6. Highs(files, some, h) \subseteq Nat /\ IsFiniteSet(Highs(files, some, h)) /\ Highs(files, some, h) # {}
    BY <1>3, <1>4, <1>5
  <1>7. QED
    BY <1>6, MaxIs

LEMMA PairsAre ==
  ASSUME NEW F, IsFiniteSet(F), NEW files, RowsKnown(F, files), NEW some, some \subseteq F, NEW h \in Hashes
  PROVE  IsFiniteSet(Pairs(files, some, h))
  <1> DEFINE each == [f \in some |-> {f} \X (1..files[f].rows[h])]
             T == {each[f] : f \in some}
  <1>1. IsFiniteSet(some)
    BY FS_Subset
  <1>2. IsFiniteSet(T)
    <2> HIDE DEF each
    <2>1. QED
      BY <1>1, ImageIsFinite
  <1>3. ASSUME NEW f \in some PROVE IsFiniteSet(each[f])
    <2>1. files[f].rows[h] \in Nat
      BY DEF RowsKnown
    <2>2. PICK m \in Int : m = files[f].rows[h]
      BY <2>1
    <2>3. IsFiniteSet(1..m)
      BY FS_Interval
    <2>4. IsFiniteSet({f})
      BY FS_Singleton
    <2>5. IsFiniteSet({f} \X (1..m))
      BY <2>3, <2>4, FS_Product
    <2>6. QED
      BY <2>2, <2>5
  <1>4. Pairs(files, some, h) = UNION T
    BY DEF Pairs
  <1> HIDE DEF each
  <1>5. \A x \in T : IsFiniteSet(x)
    BY <1>3
  <1> HIDE DEF T
  <1>6. QED
    BY <1>2, <1>4, <1>5, FS_UNION

LEMMA LiveHas ==
  ASSUME NEW F, IsFiniteSet(F), NEW files, RowsKnown(F, files), NEW some, some \subseteq F,
         NEW repeats \in BOOLEAN
  PROVE  /\ LiveHashCounts(files, some, repeats) \in [Hashes -> Nat]
         /\ \A h \in Hashes : LiveHashCounts(files, some, repeats)[h] > 0
                                => \E f \in some : files[f].rows[h] > 0
  <1>1. ASSUME NEW h \in Hashes
        PROVE  /\ LiveHashCounts(files, some, repeats)[h] \in Nat
               /\ LiveHashCounts(files, some, repeats)[h] > 0 => \E f \in some : files[f].rows[h] > 0
    <2>1. CASE repeats
      <3>1. LiveHashCounts(files, some, repeats)[h] = Max(Highs(files, some, h))
        BY <2>1 DEF LiveHashCounts, Highs
      <3>2. Max(Highs(files, some, h)) \in Nat /\ Max(Highs(files, some, h)) \in Highs(files, some, h)
        BY HighsAre
      <3>3. QED
        BY <3>1, <3>2 DEF Highs
    <2>2. CASE ~repeats
      <3>1. LiveHashCounts(files, some, repeats)[h] = Cardinality(Pairs(files, some, h))
        BY <2>2 DEF LiveHashCounts, Pairs
      <3>2. Cardinality(Pairs(files, some, h)) \in Nat
        BY PairsAre, FS_CardinalityType
      <3>3. ASSUME \A f \in some : ~(files[f].rows[h] > 0)
            PROVE  Pairs(files, some, h) = {}
        <4>1. \A f \in some : 1..files[f].rows[h] = {}
          BY <3>3 DEF RowsKnown
        <4>2. QED
          BY <4>1 DEF Pairs
      <3>4. Cardinality(Pairs(files, some, h)) > 0 => Pairs(files, some, h) # {}
        <4>1. Cardinality({}) = 0
          BY FS_EmptySet
        <4>2. QED
          BY <4>1
      <3>5. QED
        BY <3>1, <3>2, <3>3, <3>4
    <2>3. QED
      BY <2>1, <2>2
  <1>2. LiveHashCounts(files, some, repeats) = [h \in Hashes |-> LiveHashCounts(files, some, repeats)[h]]
    BY DEF LiveHashCounts
  <1>3. QED
    BY <1>1, <1>2

(* More files count no less.                                                  *)
LEMMA LiveGrows ==
  ASSUME NEW F, IsFiniteSet(F), NEW files, NEW more, RowsKnown(F, more), NEW some, NEW all,
         some \subseteq all, all \subseteq F, \A f \in some : files[f].rows = more[f].rows,
         NEW repeats \in BOOLEAN, NEW h \in Hashes
  PROVE  LiveHashCounts(files, some, repeats)[h] <= LiveHashCounts(more, all, repeats)[h]
  <1>1. CASE repeats
    <2>1. Highs(files, some, h) = Highs(more, some, h)
      BY DEF Highs
    <2>2. /\ LiveHashCounts(files, some, repeats)[h] = Max(Highs(more, some, h))
          /\ LiveHashCounts(more, all, repeats)[h] = Max(Highs(more, all, h))
      BY <1>1, <2>1 DEF LiveHashCounts, Highs
    <2>3. Highs(more, some, h) \subseteq Highs(more, all, h)
      BY DEF Highs
    <2>4. some \subseteq F
      OBVIOUS
    <2>5. Max(Highs(more, some, h)) \in Highs(more, some, h)
      BY <2>4, HighsAre
    <2>6. \A x \in Highs(more, all, h) : x <= Max(Highs(more, all, h))
      BY HighsAre
    <2>7. QED
      BY <2>2, <2>3, <2>5, <2>6
  <1>2. CASE ~repeats
    <2>1. Pairs(files, some, h) = Pairs(more, some, h)
      <3>1. {{f} \X (1..files[f].rows[h]) : f \in some} = {{f} \X (1..more[f].rows[h]) : f \in some}
        OBVIOUS
      <3>2. QED
        BY <3>1 DEF Pairs
    <2>2. /\ LiveHashCounts(files, some, repeats)[h] = Cardinality(Pairs(more, some, h))
          /\ LiveHashCounts(more, all, repeats)[h] = Cardinality(Pairs(more, all, h))
      BY <1>2, <2>1 DEF LiveHashCounts, Pairs
    <2>3. Pairs(more, some, h) \in SUBSET Pairs(more, all, h)
      BY DEF Pairs
    <2>4. IsFiniteSet(Pairs(more, all, h))
      BY PairsAre
    <2>5. QED
      BY <2>2, <2>3, <2>4, FS_Subset
  <1>3. QED
    BY <1>1, <1>2


----------------------------------------------------------------------------
(* What prune deletes.                                                        *)

LEMMA StoredAre ==
  ASSUME LedgerInv
  PROVE  /\ Stored \subseteq Files /\ IsFiniteSet(Stored) /\ RowsKnown(Stored, store)
         /\ \A f \in Stored : store[f].at \in Nat /\ store[f].unhashed = NoRows
  <1>1. Stored \subseteq Files /\ IsFiniteSet(Stored)
    BY FilesAre, FS_Subset DEF Stored
  <1>2. \A f \in Stored : store[f] \in Entries
    BY DEF Stored, LedgerInv, LedgerTypeOK
  <1>3. QED
    BY <1>1, <1>2, RecordsAre, LedgerAssumption DEF RowsKnown

LEMMA CopiesAre ==
  ASSUME LedgerInv
  PROVE  /\ PruneSuppressed \subseteq PruneDeparted /\ PruneDeparted \subseteq Stored
         /\ CountedCurrent \subseteq Stored
         /\ \A f \in PruneSuppressed, h \in Hashes :
               \/ store[f].rows[h] <= LiveHashCounts(store, CountedCurrent, Repeats)[h]
               \/ \E g \in PruneDeparted \ PruneSuppressed :
                     Precedes(store, g, f) /\ store[f].rows[h] <= store[g].rows[h]
  <1> DEFINE current == LiveHashCounts(store, CountedCurrent, Repeats)
             queue == DepartedOrder(store, PruneDeparted)
             n == Cardinality(PruneDeparted)
  <1>1. /\ PruneDeparted \subseteq Stored /\ PruneDeparted \subseteq Nat /\ IsFiniteSet(PruneDeparted)
        /\ CountedCurrent \subseteq Stored
    BY StoredAre, FilesAre, FS_Subset DEF PruneDeparted, CountedCurrent, Stored, LedgerInv, LedgerTypeOK
  <1>2. RowsKnown(PruneDeparted, store) /\ Dated(store, PruneDeparted)
    BY <1>1, StoredAre DEF RowsKnown, Dated
  <1>3. current \in [Hashes -> Nat]
    BY <1>1, StoredAre, LiveHas, LedgerAssumption
  <1>4. /\ n \in Nat /\ queue \in [1..n -> PruneDeparted]
        /\ Distinct(queue, n)
        /\ \A i, j \in 1..n : i < j => Precedes(store, queue[i], queue[j])
    <2>1. ListsOnce(store, PruneDeparted, DepartedOrder(store, PruneDeparted), Cardinality(PruneDeparted))
      BY <1>1, <1>2, OrderListsEach
    <2>2. QED
      BY <2>1 DEF ListsOnce
  <1>5. PruneSuppressed = Classify(store, queue, current).suppressed
    BY DEF PruneSuppressed
  <1> HIDE DEF queue, current, n
  <1>6. /\ PruneSuppressed \subseteq {queue[i] : i \in 1..n}
        /\ \A j \in 1..n, h \in Hashes :
              queue[j] \in PruneSuppressed =>
                \/ store[queue[j]].rows[h] <= current[h]
                \/ \E i \in 1..(j - 1) : /\ queue[i] \notin PruneSuppressed
                                        /\ store[queue[j]].rows[h] <= store[queue[i]].rows[h]
    <2>1. SplitAs(PruneDeparted, store, queue, n, current, Classify(store, queue, current))
      BY <1>2, <1>3, <1>4, SuppressedIsCovered
    <2>2. QED
      BY <1>5, <2>1 DEF SplitAs
  <1>7. PruneSuppressed \subseteq PruneDeparted
    BY <1>4, <1>6
  <1>8. ASSUME NEW f \in PruneSuppressed, NEW h \in Hashes, ~(store[f].rows[h] <= current[h])
        PROVE  \E g \in PruneDeparted \ PruneSuppressed :
                  Precedes(store, g, f) /\ store[f].rows[h] <= store[g].rows[h]
    <2>1. PICK j \in 1..n : queue[j] = f
      BY <1>6
    <2>2. PICK i \in 1..(j - 1) : queue[i] \notin PruneSuppressed /\ store[f].rows[h] <= store[queue[i]].rows[h]
      BY <1>6, <1>8, <2>1
    <2>3. i \in 1..n /\ i < j
      BY <1>4
    <2>4. queue[i] \in PruneDeparted /\ Precedes(store, queue[i], f)
      BY <1>4, <2>1, <2>3
    <2>5. QED
      BY <2>2, <2>4
  <1>9. QED
    BY <1>1, <1>7, <1>8 DEF current

(* The rows that prune deletes, and those it keeps.                           *)
LEMMA PruneDeletes ==
  ASSUME LedgerInv, PruneApplies
  PROVE  \E suppressed, aged \in BOOLEAN, deleted \in SUBSET PruneDeparted :
            /\ \A f \in deleted : \/ suppressed /\ f \in PruneSuppressed
                                  \/ aged /\ Aged(f)
            /\ ~aged => deleted \cap PruneSuppressed = deleted
            /\ ppc' = IF aged THEN "aged" ELSE "suppressed"
            /\ store' = [f \in Files |-> IF f \in deleted THEN None ELSE store[f]]
            /\ marked' = marked \ deleted
  <1>1. PICK suppressed \in BOOLEAN, aged \in BOOLEAN :
          LET selected == (IF suppressed THEN PruneSuppressed ELSE {})
                          \cup (IF aged THEN {f \in PruneDeparted : Aged(f)} ELSE {})
              deleted == StillMissing(selected) IN
          /\ ppc' = IF aged THEN "aged" ELSE "suppressed"
          /\ store' = [f \in Files |-> IF f \in deleted THEN None ELSE store[f]]
          /\ marked' = marked \ deleted
    BY DEF PruneApplies
  <1> DEFINE selected == (IF suppressed THEN PruneSuppressed ELSE {})
                         \cup (IF aged THEN {f \in PruneDeparted : Aged(f)} ELSE {})
             deleted == StillMissing(selected)
  <1>2. /\ deleted \in SUBSET PruneDeparted
        /\ \A f \in deleted : \/ suppressed /\ f \in PruneSuppressed
                              \/ aged /\ Aged(f)
        /\ ~aged => deleted \cap PruneSuppressed = deleted
    BY CopiesAre DEF StillMissing
  <1> HIDE DEF selected
  <1>3. QED
    BY <1>1, <1>2 DEF selected

LEMMA PruneDropsNothing ==
  ASSUME LedgerInv, PruneApplies, NEW h \in Hashes, Held(store, h)
  PROVE  Held(store', h) \/ (ppc' = "aged" /\ h \in Old)
  <1>1. PICK suppressed \in BOOLEAN, aged \in BOOLEAN, deleted \in SUBSET PruneDeparted :
            /\ \A f \in deleted : \/ suppressed /\ f \in PruneSuppressed
                                  \/ aged /\ Aged(f)
            /\ ppc' = IF aged THEN "aged" ELSE "suppressed"
            /\ store' = [f \in Files |-> IF f \in deleted THEN None ELSE store[f]]
    BY PruneDeletes
  <1>2. PICK f \in Files : store[f] # None /\ store[f].rows[h] > 0
    BY DEF Held
  <1>3. ASSUME NEW g \in Stored \ deleted, store[g].rows[h] > 0 PROVE Held(store', h)
    <2>1. g \in Files /\ store'[g] = store[g] /\ store[g] # None
      BY <1>1, <1>3 DEF Stored
    <2>2. QED
      BY <1>3, <2>1 DEF Held
  <1>4. ASSUME NEW g \in deleted, store[g].rows[h] > 0, g \notin PruneSuppressed
        PROVE  ppc' = "aged" /\ h \in Old
    BY <1>1, <1>4 DEF Aged
  <1>5. CASE f \notin deleted
    BY <1>2, <1>3, <1>5 DEF Stored
  <1>6. CASE f \in deleted /\ f \notin PruneSuppressed
    BY <1>2, <1>4, <1>6
  <1>7. CASE f \in PruneSuppressed
    <2>1. /\ PruneDeparted \subseteq Stored /\ CountedCurrent \subseteq Stored
          /\ \/ store[f].rows[h] <= LiveHashCounts(store, CountedCurrent, Repeats)[h]
             \/ \E g \in PruneDeparted \ PruneSuppressed : store[f].rows[h] <= store[g].rows[h]
      BY <1>7, CopiesAre
    <2>2. /\ \A g \in Stored : store[g].rows[h] \in Nat
          /\ IsFiniteSet(Stored) /\ RowsKnown(Stored, store)
      BY StoredAre DEF RowsKnown
    <2>3. f \in Stored /\ store[f].rows[h] \in Nat
      BY <1>2, <2>2 DEF Stored
    <2>4. CASE store[f].rows[h] <= LiveHashCounts(store, CountedCurrent, Repeats)[h]
      <3>1. PICK m \in Nat : m = LiveHashCounts(store, CountedCurrent, Repeats)[h]
        BY SMTT(60), <2>1, <2>2, LiveHas, LedgerAssumption
      <3>2. m > 0
        BY <1>2, <2>3, <2>4, <3>1
      <3>3. PICK g \in CountedCurrent : store[g].rows[h] > 0
        BY <2>1, <2>2, <3>1, <3>2, LiveHas, LedgerAssumption
      <3>4. g \in Stored \ deleted
        BY <2>1, <3>3 DEF CountedCurrent, PruneDeparted
      <3>5. QED
        BY <1>3, <3>3, <3>4
    <2>5. CASE \E g \in PruneDeparted \ PruneSuppressed : store[f].rows[h] <= store[g].rows[h]
      <3>1. PICK g \in PruneDeparted \ PruneSuppressed : store[f].rows[h] <= store[g].rows[h]
        BY <2>5
      <3>2. g \in Stored /\ store[g].rows[h] > 0
        BY <1>2, <2>1, <2>2, <2>3, <3>1
      <3>3. QED
        BY <1>3, <1>4, <3>1, <3>2
    <2>6. QED
      BY <2>1, <2>4, <2>5
  <1>8. QED
    BY <1>5, <1>6, <1>7

(* No step but prune's own leaves the place where it has looked.              *)
LEMMA OnlyPruneMoves ==
  ASSUME [Next]_vars, ppc = "looked", ppc' # ppc
  PROVE  PruneApplies
  <1>1. CASE UNCHANGED vars
    BY <1>1 DEF vars, pruneVars
  <1>2. CASE \E f \in Files : WriteFile(f) \/ DeleteFile(f) \/ HideFile(f)
    BY <1>2 DEF WriteFile, DeleteFile, HideFile, Change, pruneVars
  <1>3. CASE \E r \in Reports : ReadFiles(r) \/ StoreFiles(r)
    BY <1>3 DEF ReadFiles, StoreFiles, pruneVars
  <1>4. CASE ReadMarks \/ Claim
    BY <1>4 DEF ReadMarks, Claim, pruneVars
  <1>5. CASE History
    BY <1>5 DEF History, LookAtDisk, SelectDeparted, ClassifyDeparted, LoadServed, pruneVars
  <1>6. CASE PruneLooks
    BY <1>6 DEF PruneLooks
  <1>7. QED
    BY <1>1, <1>2, <1>3, <1>4, <1>5, <1>6 DEF Next

(* Prune drops no event for good, whatever the tools and the other reports do
   between its look and its lock (classifyAgainstLiveFiles, deleteStoredFiles):
   what it deletes as a copy is stored of a file it keeps, and of the aged
   files every event is old.                                                  *)
THEOREM PrunedEventsAreKept == Spec => PruneKeepsEvents
  <1>1. ASSUME LedgerInv, [Next]_vars
        PROVE  [ppc = "looked" /\ ppc' # ppc =>
                  \A h \in Hashes : Held(store, h) => Held(store', h) \/ (ppc' = "aged" /\ h \in Old)]_vars
    BY <1>1, OnlyPruneMoves, PruneDropsNothing
  <1>2. QED
    BY <1>1, LedgerInvariant, PTL DEF Spec, PruneKeepsEvents

----------------------------------------------------------------------------
(* What a report would count.                                                 *)

OwnCounts == LiveHashCounts(disk, {f \in UsualDir : Found(f)}, Repeats)
DepartedNow == {f \in Stored \ marked : ~Found(f)}
Rests(files, departed, h) == {0} \cup {AllRows(files[f])[h] : f \in departed}

LEMMA RestsAre ==
  ASSUME LedgerInv, NEW departed, departed \subseteq Stored, NEW h \in Hashes
  PROVE  /\ Rests(store, departed, h) = Highs(store, departed, h)
         /\ Max(Rests(store, departed, h)) \in Nat
         /\ Max(Rests(store, departed, h)) \in Highs(store, departed, h)
         /\ \A f \in departed : store[f].rows[h] <= Max(Rests(store, departed, h))
  <1>1. \A f \in departed : AllRows(store[f])[h] = store[f].rows[h]
    <2>1. \A f \in departed : store[f].unhashed[h] = 0 /\ store[f].rows[h] \in Nat
      BY StoredAre DEF NoRows, RowsKnown
    <2>2. QED
      BY <2>1 DEF AllRows, Plus
  <1>2. Rests(store, departed, h) = Highs(store, departed, h)
    BY <1>1 DEF Rests, Highs
  <1>3. IsFiniteSet(Stored) /\ RowsKnown(Stored, store)
    BY StoredAre
  <1>4. /\ Highs(store, departed, h) \subseteq Nat
        /\ Max(Highs(store, departed, h)) \in Highs(store, departed, h)
        /\ \A x \in Highs(store, departed, h) : x <= Max(Highs(store, departed, h))
    BY <1>3, HighsAre
  <1>5. \A f \in departed : store[f].rows[h] \in Highs(store, departed, h)
    BY DEF Highs
  <1>6. QED
    BY <1>2, <1>4, <1>5

(* The history that files with these rows add to what is live.                *)
Adds(most, base) == IF most > base THEN most - base ELSE 0
LEMMA HistoryAdds ==
  ASSUME NEW files, NEW departed, NEW base, NEW h \in Hashes
  PROVE  HistoryOf(files, departed, base)[h] = Adds(Max(Rests(files, departed, h)), base[h])
  BY DEF HistoryOf, Beyond, Rests, Adds

LEMMA CurrentCountsNoMore ==
  ASSUME LedgerInv, ppc = "looked", "prune" \notin disturbed, NEW h \in Hashes
  PROVE  /\ OwnCounts[h] \in Nat
         /\ LiveHashCounts(store, CountedCurrent, Repeats)[h] \in Nat
         /\ LiveHashCounts(store, CountedCurrent, Repeats)[h] <= OwnCounts[h]
  <1> DEFINE usual == {f \in UsualDir : Found(f)}
  <1>1. /\ pruneLive = usual /\ \A f \in pruneLive : taken[f] = disk[f].version
    BY DEF LedgerInv, LooksHold
  <1>2. usual \subseteq Files /\ IsFiniteSet(usual)
    BY FilesAre, FS_Subset
  <1>3. RowsKnown(usual, disk)
    <2>1. \A f \in usual : disk[f] \in DiskFiles
      BY <1>2 DEF Found, LedgerInv, LedgerTypeOK
    <2>2. QED
      BY <2>1, RecordsAre, LedgerAssumption DEF RowsKnown
  <1>4. CountedCurrent \subseteq usual /\ CountedCurrent \subseteq Stored
    BY <1>1, <1>2 DEF CountedCurrent, Stored
  <1>5. \A f \in CountedCurrent : store[f].rows = disk[f].rows
    BY <1>1, <1>2, <1>4 DEF CountedCurrent, Found, LedgerInv, VersionsFit, Fits
  <1>6. LiveHashCounts(store, CountedCurrent, Repeats) \in [Hashes -> Nat]
    BY <1>4, StoredAre, LiveHas, LedgerAssumption
  <1>7. OwnCounts = LiveHashCounts(disk, usual, Repeats)
    BY DEF OwnCounts
  <1> HIDE DEF usual
  <1>8. LiveHashCounts(disk, usual, Repeats) \in [Hashes -> Nat]
    BY <1>2, <1>3, LiveHas, LedgerAssumption
  <1>9. LiveHashCounts(store, CountedCurrent, Repeats)[h] <= LiveHashCounts(disk, usual, Repeats)[h]
    BY <1>2, <1>3, <1>4, <1>5, LiveGrows, LedgerAssumption
  <1>10. QED
    BY <1>6, <1>7, <1>8, <1>9

(* What prune does not know to be on the disk is missing.                     *)
LEMMA DepartedAreMissing ==
  ASSUME LedgerInv, ppc = "looked", "prune" \notin disturbed, marked \cap PruneDeparted = {}
  PROVE  PruneDeparted \subseteq DepartedNow
  <1>1. pruneLive = {f \in UsualDir : Found(f)}
    BY DEF LedgerInv, LooksHold
  <1>2. ASSUME NEW f \in PruneDeparted PROVE f \in Stored \ marked /\ ~Found(f)
    <2>1. f \in Stored \ marked /\ f \notin pruneLive
      BY DEF PruneDeparted
    <2>2. f \in UsualDir
      BY <2>1 DEF LedgerInv, MarksHold, OnlyFoundUnmarked, Claims
    <2>3. QED
      BY <1>1, <2>1, <2>2
  <1>3. QED
    BY <1>2 DEF DepartedNow

LEMMA SameHistory ==
  ASSUME LedgerInv, ppc = "looked", "prune" \notin disturbed, marked \cap PruneDeparted = {},
         NEW deleted \in SUBSET PruneSuppressed, NEW h \in Hashes
  PROVE  Adds(Max(Rests(store, DepartedNow, h)), OwnCounts[h])
           = Adds(Max(Rests(store, DepartedNow \ deleted, h)), OwnCounts[h])
  <1>1. PICK own \in Nat : own = OwnCounts[h]
    BY CurrentCountsNoMore
  <1>2. DepartedNow \subseteq Stored /\ DepartedNow \ deleted \subseteq Stored
    BY DEF DepartedNow
  <1>3. PICK most \in Nat : most = Max(Rests(store, DepartedNow, h))
    BY <1>2, RestsAre
  <1>4. PICK left \in Nat : left = Max(Rests(store, DepartedNow \ deleted, h))
    BY <1>2, RestsAre
  <1>5. /\ most \in Highs(store, DepartedNow, h)
        /\ \A f \in DepartedNow : store[f].rows[h] <= most
    BY <1>2, <1>3, RestsAre
  <1>6. /\ left \in Highs(store, DepartedNow \ deleted, h)
        /\ \A f \in DepartedNow \ deleted : store[f].rows[h] <= left
    BY <1>2, <1>4, RestsAre
  <1>7. left <= most
    BY <1>5, <1>6 DEF Highs
  <1>8. ASSUME most > own PROVE most <= left
    <2>1. PICK f \in DepartedNow : most = store[f].rows[h]
      BY <1>5, <1>8 DEF Highs
    <2>2. CASE f \notin deleted
      BY <1>6, <2>1, <2>2
    <2>3. CASE f \in deleted
      <3>1. PICK current \in Nat : current = LiveHashCounts(store, CountedCurrent, Repeats)[h] /\ current <= own
        BY <1>1, CurrentCountsNoMore
      <3>2. \/ most <= current
            \/ \E g \in PruneDeparted \ PruneSuppressed : most <= store[g].rows[h]
        BY <2>1, <2>3, <3>1, CopiesAre
      <3>3. ~(most <= current)
        BY <1>8, <3>1
      <3>4. PICK g \in PruneDeparted \ PruneSuppressed : most <= store[g].rows[h]
        BY <3>2, <3>3
      <3>5. g \in DepartedNow \ deleted
        BY <3>4, DepartedAreMissing
      <3>6. store[g].rows[h] \in Nat
        BY <1>2, <3>5, StoredAre DEF RowsKnown
      <3>7. QED
        BY <1>6, <3>4, <3>5, <3>6
    <2>4. QED
      BY <2>2, <2>3
  <1>9. Adds(most, own) = Adds(left, own)
    BY <1>7, <1>8 DEF Adds
  <1>10. QED
    BY <1>1, <1>3, <1>4, <1>9

LEMMA PruneChangesNoReport ==
  ASSUME LedgerInv, [Next]_vars, PruneApplied, "prune" \notin disturbed, marked \cap PruneDeparted = {}
  PROVE  Expected' = Expected
  <1>1. PruneApplies /\ ppc = "looked" /\ ppc' = "suppressed"
    BY OnlyPruneMoves DEF PruneApplied
  <1>2. PICK deleted \in SUBSET PruneDeparted :
            /\ deleted \subseteq PruneSuppressed
            /\ store' = [f \in Files |-> IF f \in deleted THEN None ELSE store[f]]
            /\ marked' = marked \ deleted
    BY <1>1, PruneDeletes
  <1>3. disk' = disk
    BY <1>1 DEF PruneApplies, toolVars
  <1>4. OwnCounts' = OwnCounts
    BY <1>3 DEF OwnCounts, Found
  <1>5. DepartedNow' = DepartedNow \ deleted
    BY <1>2, <1>3 DEF DepartedNow, Stored, Found
  <1>6. ASSUME NEW h \in Hashes
        PROVE  HistoryOf(store', DepartedNow', OwnCounts')[h] = HistoryOf(store, DepartedNow, OwnCounts)[h]
    <2>1. \A f \in DepartedNow \ deleted : store'[f] = store[f]
      BY <1>2 DEF DepartedNow, Stored
    <2>2. Rests(store', DepartedNow', h) = Rests(store, DepartedNow \ deleted, h)
      BY <1>5, <2>1 DEF Rests
    <2>3. HistoryOf(store', DepartedNow', OwnCounts')[h]
            = Adds(Max(Rests(store, DepartedNow \ deleted, h)), OwnCounts[h])
      BY <1>4, <2>2, HistoryAdds
    <2>4. HistoryOf(store, DepartedNow, OwnCounts)[h] = Adds(Max(Rests(store, DepartedNow, h)), OwnCounts[h])
      BY HistoryAdds
    <2>5. QED
      BY <1>1, <1>2, <2>3, <2>4, SameHistory
  <1>7. Expected = Plus(OwnCounts, HistoryOf(store, DepartedNow, OwnCounts))
    BY DEF Expected, OwnCounts, DepartedNow
  <1>8. Expected' = Plus(OwnCounts', HistoryOf(store', DepartedNow', OwnCounts'))
    BY DEF Expected, OwnCounts, DepartedNow
  <1>9. HistoryOf(store', DepartedNow', OwnCounts') = HistoryOf(store, DepartedNow, OwnCounts)
    BY <1>6 DEF HistoryOf
  <1>10. QED
    BY <1>4, <1>7, <1>8, <1>9

(* Deleting the suppressed files changes no report, whatever other reports
   stored between prune's first look and its write lock, if no tool changed a
   file meanwhile and none of the files is one that only a flag's report found
   (buildPruneReport, splitLiveFilesByCurrentEntry).                           *)
THEOREM PrunedUsageIsKept == Spec => PruneKeepsUsage
  <1>1. ASSUME LedgerInv, [Next]_vars
        PROVE  [PruneApplied /\ "prune" \notin disturbed /\ marked \cap PruneDeparted = {}
                  => Expected' = Expected]_vars
    BY <1>1, PruneChangesNoReport
  <1>2. QED
    BY <1>1, LedgerInvariant, PTL DEF Spec, PruneKeepsUsage

----------------------------------------------------------------------------
(* What the served files add (loadServedEvents).                              *)

AllKnown(F, files) == \A f \in F : files[f].rows \in [Hashes -> Nat] /\ files[f].unhashed \in [Hashes -> Nat]
Takes == [events : [Hashes -> Nat], counts : [Hashes -> Nat]]
Untaken(base) == [events |-> NoRows, counts |-> base]
TakenAs(acc, rows, new) ==
    \A h \in Hashes :
        /\ new.events[h] = acc.events[h] + (IF rows[h] > acc.counts[h] THEN rows[h] - acc.counts[h] ELSE 0)
        /\ new.counts[h] = IF rows[h] > acc.counts[h] THEN rows[h] ELSE acc.counts[h]

LEMMA TakeIs ==
  ASSUME NEW acc \in Takes, NEW file, AllRows(file) \in [Hashes -> Nat]
  PROVE  TakeUncounted(acc, file) \in Takes /\ TakenAs(acc, AllRows(file), TakeUncounted(acc, file))
  <1> DEFINE more == Beyond(AllRows(file), acc.counts)
  <1>1. PICK rows \in [Hashes -> Nat] : rows = AllRows(file)
    OBVIOUS
  <1>2. acc.events \in [Hashes -> Nat] /\ acc.counts \in [Hashes -> Nat]
    BY DEF Takes
  <1>3. \A h \in Hashes : more[h] = IF rows[h] > acc.counts[h] THEN rows[h] - acc.counts[h] ELSE 0
    BY <1>1 DEF Beyond
  <1>4. \A h \in Hashes : more[h] \in Nat
    BY <1>2, <1>3
  <1>5. PICK new : new = TakeUncounted(acc, file)
    OBVIOUS
  <1>6. new = [events |-> Plus(acc.events, more), counts |-> Plus(acc.counts, more)]
    BY <1>5 DEF TakeUncounted
  <1> HIDE DEF more
  <1>7. /\ Plus(acc.events, more) \in [Hashes -> Nat] /\ Plus(acc.counts, more) \in [Hashes -> Nat]
        /\ \A h \in Hashes : /\ Plus(acc.events, more)[h] = acc.events[h] + more[h]
                            /\ Plus(acc.counts, more)[h] = acc.counts[h] + more[h]
    BY <1>2, <1>4 DEF Plus
  <1>8. new \in Takes /\ new.events = Plus(acc.events, more) /\ new.counts = Plus(acc.counts, more)
    BY <1>6, <1>7 DEF Takes
  <1>9. TakenAs(acc, rows, new)
    BY <1>2, <1>3, <1>4, <1>7, <1>8 DEF TakenAs
  <1>10. QED
    BY <1>1, <1>5, <1>8, <1>9

(* Per hash the served files add what the one with most of it has beyond what
   is counted already.                                                        *)
TopOf(files, served, base, events, h) ==
    \E top \in Nat :
        /\ base[h] <= top /\ events[h] = top - base[h]
        /\ top = base[h] \/ \E i \in 1..Len(served) : top = AllRows(files[served[i]])[h]
        /\ \A i \in 1..Len(served) : AllRows(files[served[i]])[h] <= top

LEMMA ServedAdd ==
  ASSUME NEW F, NEW files, AllKnown(F, files), NEW base \in [Hashes -> Nat], NEW served \in Seq(F),
         NEW h \in Hashes
  PROVE  TopOf(files, served, base, ServedEvents(files, served, base), h)
  <1> DEFINE After(g) == [i \in 0..Len(served) |->
                            IF i = 0 THEN [events |-> NoRows, counts |-> base]
                            ELSE TakeUncounted(g[i - 1], files[served[i]])]
             after == CHOOSE g : g = After(g)
             rows(i) == AllRows(files[served[i]])
  <1>1. PICK n \in Nat : n = Len(served) /\ \A i \in 1..n : served[i] \in F
    OBVIOUS
  <1>2. ServedEvents(files, served, base) = after[n].events
    BY <1>1 DEF ServedEvents
  <1>3. \A i \in 1..n : rows(i) \in [Hashes -> Nat]
    BY <1>1 DEF AllKnown, AllRows, Plus
  <1>4. Untaken(base) \in Takes
    BY DEF Untaken, Takes, NoRows
  <1>5. \E g : g = After(g)
    <2> DEFINE step == [i \in 1..n |-> [x \in Takes |-> TakeUncounted(x, files[served[i]])]]
    <2>1. step \in [1..n -> [Takes -> Takes]]
      BY <1>3, TakeIs
    <2>2. \A i \in 1..n, x \in Takes : step[i][x] = TakeUncounted(x, files[served[i]])
      OBVIOUS
    <2> HIDE DEF step
    <2>3. PICK g \in [0..n -> Takes] : StepTo(n, g, Untaken(base), step)
      BY <1>4, <2>1, FoldExists
    <2>4. \A i \in 0..n : i # 0 => i \in 1..n /\ i - 1 \in 0..n /\ g[i - 1] \in Takes
      OBVIOUS
    <2>5. ASSUME NEW i \in 0..n
          PROVE  g[i] = IF i = 0 THEN [events |-> NoRows, counts |-> base]
                        ELSE TakeUncounted(g[i - 1], files[served[i]])
      <3>1. CASE i = 0
        BY <2>3, <3>1 DEF Untaken, StepTo
      <3>2. CASE i # 0
        <4>1. g[i] = step[i][g[i - 1]]
          BY <2>3, <2>4, <3>2 DEF StepTo
        <4>2. QED
          BY <2>2, <2>4, <3>2, <4>1
      <3>3. QED
        BY <3>1, <3>2
    <2>6. g = After(g)
      BY <1>1, <2>5
    <2>7. QED
      BY <2>6
  <1>6. after = After(after)
    BY <1>5
  <1> HIDE DEF after
  <1>7. after[0] = Untaken(base) /\ \A i \in 1..n : after[i] = TakeUncounted(after[i - 1], files[served[i]])
    <2>1. PICK g : g = after /\ g = After(after)
      BY <1>6
    <2>2. ASSUME NEW i \in 0..n
          PROVE  g[i] = IF i = 0 THEN Untaken(base) ELSE TakeUncounted(after[i - 1], files[served[i]])
      BY <2>1, <1>1 DEF Untaken
    <2> HIDE DEF After
    <2>3. 0 \in 0..n /\ \A i \in 1..n : i \in 0..n /\ i # 0
      OBVIOUS
    <2>4. QED
      BY <2>1, <2>2, <2>3
  <1> HIDE DEF After
  <1> DEFINE Fine(k) == /\ after[k] \in Takes
                        /\ base[h] <= after[k].counts[h]
                        /\ after[k].events[h] = after[k].counts[h] - base[h]
                        /\ \/ after[k].counts[h] = base[h]
                           \/ \E i \in 1..k : after[k].counts[h] = rows(i)[h]
                        /\ \A i \in 1..k : rows(i)[h] <= after[k].counts[h]
             S == {k \in 0..n : Fine(k)}
  <1>8. 0 \in S
    <2>1. after[0] \in Takes /\ after[0].counts = base /\ after[0].events[h] = 0
      BY <1>4, <1>7 DEF Untaken, NoRows
    <2>2. base[h] \in Nat
      OBVIOUS
    <2> HIDE DEF rows
    <2>3. QED
      BY <2>1, <2>2
  <1>9. ASSUME NEW k \in 1..n, k - 1 \in S PROVE k \in S
    <2>1. Fine(k - 1) /\ k \in 0..n
      BY <1>9
    <2>2. PICK r \in [Hashes -> Nat] : r = rows(k)
      BY <1>3
    <2>3. after[k] = TakeUncounted(after[k - 1], files[served[k]])
      BY <1>7
    <2> HIDE DEF Fine
    <2>4. after[k - 1] \in Takes
      BY <2>1 DEF Fine
    <2>5. after[k] \in Takes /\ TakenAs(after[k - 1], r, after[k])
      BY <2>2, <2>3, <2>4, TakeIs
    <2>6. PICK c \in Nat, b \in Nat, e \in Nat :
            c = after[k - 1].counts[h] /\ b = base[h] /\ e = after[k - 1].events[h]
      BY <2>4 DEF Takes
    <2>7. b <= c /\ e = c - b
      BY <2>1, <2>6 DEF Fine
    <2>8. r[h] \in Nat
      OBVIOUS
    <2>9. /\ after[k].events[h] = e + (IF r[h] > c THEN r[h] - c ELSE 0)
          /\ after[k].counts[h] = IF r[h] > c THEN r[h] ELSE c
      BY <2>5, <2>6 DEF TakenAs
    <2>10. \A i \in 1..k : i = k \/ i \in 1..(k - 1)
      OBVIOUS
    <2>11. k \in 1..k /\ \A i \in 1..(k - 1) : i \in 1..k
      OBVIOUS
    <2>12. /\ \/ c = b
              \/ \E i \in 1..(k - 1) : c = rows(i)[h]
           /\ \A i \in 1..(k - 1) : rows(i)[h] <= c
      BY <2>1, <2>6 DEF Fine
    <2>13. \A i \in 1..(k - 1) : rows(i)[h] \in Nat
      BY <1>3
    <2> HIDE DEF rows
    <2>14. CASE r[h] > c
      <3>1. after[k].counts[h] = r[h] /\ after[k].events[h] = r[h] - b /\ b <= r[h]
        <4>1. after[k].counts[h] = r[h]
          BY <2>9, <2>14
        <4>2. after[k].events[h] = e + (r[h] - c)
          BY <2>9, <2>14
        <4>3. PICK m \in Nat : m = r[h]
          BY <2>8
        <4>4. m > c /\ e + (m - c) = m - b /\ b <= m
          BY SMTT(60), <2>6, <2>7, <2>14, <4>3
        <4>5. QED
          BY <4>1, <4>2, <4>3, <4>4
      <3>2. \A i \in 1..k : rows(i)[h] <= r[h]
        BY <2>2, <2>6, <2>8, <2>10, <2>12, <2>13, <2>14
      <3>3. Fine(k)
        BY <2>2, <2>5, <2>6, <2>11, <3>1, <3>2 DEF Fine
      <3>4. QED
        BY <2>1, <3>3
    <2>15. CASE ~(r[h] > c)
      <3>1. after[k].counts[h] = c /\ after[k].events[h] = c - b
        BY <2>6, <2>7, <2>8, <2>9, <2>15
      <3>2. \A i \in 1..k : rows(i)[h] <= c
        BY <2>2, <2>6, <2>8, <2>10, <2>12, <2>15
      <3>3. Fine(k)
        BY <2>5, <2>6, <2>7, <2>11, <2>12, <3>1, <3>2 DEF Fine
      <3>4. QED
        BY <2>1, <3>3
    <2>16. QED
      BY <2>14, <2>15
  <1> HIDE DEF S, Fine
  <1>10. \A k \in 0..n : k \in S
    BY <1>8, <1>9, CountUp
  <1>11. Fine(n)
    BY <1>10 DEF S
  <1>12. after[n].counts[h] \in Nat
    BY <1>11 DEF Fine, Takes
  <1>13. QED
    BY <1>1, <1>2, <1>11, <1>12 DEF Fine, TopOf

----------------------------------------------------------------------------
(* A report while nothing disturbs it.                                        *)

Running == {"read", "stored", "claiming", "history", "select", "classify", "load"}
Undisturbed(places) == "usual" \notin disturbed /\ rpc["usual"] \in places
Looked == {"select", "classify", "load"}

\* What the report may count as history.
Ours == Stored \ (Good("usual") \cup present)
Listed(f) == \E i \in 1..Len(order) : order[i] = f

HistoryTypeOK ==
    /\ rpc \in [Reports -> Running \cup {"idle", "failed", "ended"}]
    /\ present \subseteq Files /\ order \in Seq(Files)
    /\ \A f \in Files : disk[f] # None => disk[f].version # 0

(* What it counted of its own files is stored of them, once it stored it.     *)
RowsHold ==
    Undisturbed(Running) =>
        \A f \in Good("usual") : rpc["usual"] # "read" \/ readAt["usual"][f] = 0 =>
            store[f] # None /\ store[f].rows = got["usual"][f]

(* Until a tool changes a file, its files are those on the disk, and nothing
   current is stored of the ones that failed.                                 *)
FailedHold ==
    Undisturbed(Running) /\ "report" \notin disturbed =>
        /\ live["usual"] = {f \in UsualDir : Found(f)}
        /\ \A f \in Failed("usual") : store[f] = None \/ store[f].version # disk[f].version

PresentHold ==
    Undisturbed(Looked) =>
        \A f \in present \cap Stored :
            f \in Failed("usual") \/ f \in marked \/ ("report" \notin disturbed => Found(f))

(* Its departed files are listed once, oldest first.                          *)
OrderHolds ==
    Undisturbed({"classify"}) =>
        /\ Distinct(order, Len(order))
        /\ \A i, j \in 1..Len(order) :
              i < j /\ order[i] \in Stored /\ order[j] \in Stored => Precedes(store, order[i], order[j])
        /\ \A i \in 1..Len(order) : order[i] \notin Good("usual") \cup present
        /\ \A f \in Ours : Listed(f)

(* What it does not serve is counted of its files, or of a served file before. *)
Covers(f, h) ==
    \/ store[f].rows[h] <= counts[h]
    \/ \E g \in Ours : Listed(g) /\ Precedes(store, g, f) /\ store[f].rows[h] <= store[g].rows[h]
ServedHolds ==
    Undisturbed({"load"}) =>
        /\ counts = CountedLive("usual")
        /\ \A i \in 1..Len(order) : order[i] \notin Good("usual") \cup present
        /\ \A f \in Ours, h \in Hashes : Listed(f) \/ Covers(f, h)

HistoryHolds == RowsHold /\ FailedHold /\ PresentHold /\ OrderHolds /\ ServedHolds
HistoryInv == LedgerInv /\ HistoryTypeOK /\ HistoryHolds

LEMMA HistoryInit == Init => HistoryInv
  <1> SUFFICES ASSUME Init PROVE HistoryInv
    OBVIOUS
  <1>1. LedgerInv
    BY LedgerInit
  <1>2. PICK left \in [Files -> Left] : disk = [f \in Files |-> left[f][1]]
    BY DEF Init
  <1>3. \A f \in Files : disk[f] # None => disk[f].version # 0
    <2>1. \A c \in Contents : File(c, 1).version = 1 /\ File(c, 2).version = 2
      BY DEF File
    <2>2. \A f \in Files : \/ disk[f] = None
                           \/ \E c \in Contents : disk[f] = File(c, 1)
                           \/ \E c \in Contents : disk[f] = File(c, 2)
      BY <1>2 DEF Left
    <2>3. QED
      BY <2>1, <2>2
  <1>4. rpc = [r \in Reports |-> "idle"] /\ present = {} /\ order = <<>>
    BY DEF Init
  <1>5. HistoryTypeOK
    BY <1>3, <1>4 DEF HistoryTypeOK
  <1>6. rpc["usual"] = "idle"
    BY <1>4, FilesAre
  <1>7. HistoryHolds
    BY <1>6 DEF HistoryHolds, RowsHold, FailedHold, PresentHold, OrderHolds, ServedHolds, Undisturbed, Running, Looked
  <1>8. QED
    BY <1>1, <1>5, <1>7 DEF HistoryInv

(* A report that is not running, or disturbed, has nothing to keep.           *)
LEMMA NothingToHold ==
  ASSUME "usual" \in disturbed' \/ rpc'["usual"] \in {"idle", "failed", "ended"}
  PROVE  HistoryHolds'
  BY DEF HistoryHolds, RowsHold, FailedHold, PresentHold, OrderHolds, ServedHolds, Undisturbed, Running, Looked

(* Nor has one whose own state, and the store, are left alone.                *)
LEMMA HoldsStill ==
  ASSUME HistoryHolds, UNCHANGED <<store, marked, present, order, counts>>,
         live'["usual"] = live["usual"], got'["usual"] = got["usual"], readAt'["usual"] = readAt["usual"],
         rpc'["usual"] = rpc["usual"], disturbed \subseteq disturbed',
         disk' = disk \/ "report" \in disturbed'
  PROVE  HistoryHolds'
  <1>1. /\ Good("usual")' = Good("usual") /\ Failed("usual")' = Failed("usual")
        /\ Stored' = Stored /\ Ours' = Ours
    BY DEF Good, Failed, Stored, Ours
  <1>2. \A places : Undisturbed(places)' => Undisturbed(places)
    BY DEF Undisturbed
  <1>3. CountedLive("usual")' = CountedLive("usual")
    BY <1>1 DEF CountedLive
  <1>4. /\ \A f : Listed(f)' <=> Listed(f)
        /\ \A f, h : Covers(f, h)' <=> Covers(f, h)
    BY <1>1 DEF Listed, Covers
  <1>5. RowsHold'
    BY <1>1, <1>2 DEF HistoryHolds, RowsHold
  <1>6. FailedHold'
    BY <1>1, <1>2 DEF HistoryHolds, FailedHold, Found
  <1>7. PresentHold'
    BY <1>1, <1>2 DEF HistoryHolds, PresentHold, Found
  <1>8. OrderHolds'
    BY <1>1, <1>2, <1>4 DEF HistoryHolds, OrderHolds
  <1>9. ServedHolds'
    BY <1>1, <1>2, <1>3, <1>4 DEF HistoryHolds, ServedHolds
  <1>10. QED
    BY <1>5, <1>6, <1>7, <1>8, <1>9 DEF HistoryHolds

(* Going on, it keeps what it holds of its own files.                         *)
LEMMA FilesHold ==
  ASSUME HistoryHolds, UNCHANGED <<store, live, got, readAt, disk, disturbed>>,
         rpc["usual"] \in Running \ {"read"}
  PROVE  RowsHold' /\ FailedHold'
  <1>1. Good("usual")' = Good("usual") /\ Failed("usual")' = Failed("usual")
    BY DEF Good, Failed
  <1>2. Undisturbed(Running)' => Undisturbed(Running)
    BY DEF Undisturbed
  <1>3. RowsHold'
    BY <1>1, <1>2 DEF HistoryHolds, RowsHold
  <1>4. FailedHold'
    BY <1>1, <1>2 DEF HistoryHolds, FailedHold, Found
  <1>5. QED
    BY <1>3, <1>4

(* Each step of the tools and of prune leaves the reports where they are.      *)
LEMMA ToolsStep ==
  ASSUME HistoryInv, NEW f \in Files, WriteFile(f) \/ DeleteFile(f) \/ HideFile(f)
  PROVE  HistoryTypeOK' /\ HistoryHolds'
  <1>0. /\ changes \in Nat /\ disk \in [Files -> DiskFiles \cup {None}]
        /\ \A g \in Files : disk[g] # None => disk[g].version # 0
    BY DEF HistoryInv, LedgerInv, LedgerTypeOK, HistoryTypeOK
  <1>1. PICK file : Change(f, file) /\ (file # None => file.version # 0)
    <2>1. CASE WriteFile(f)
      <3>1. PICK c \in Contents : Change(f, File(c, changes + 3))
        BY <2>1 DEF WriteFile
      <3>2. File(c, changes + 3).version = changes + 3
        BY DEF File
      <3>3. QED
        BY <1>0, <3>1, <3>2
    <2>2. CASE DeleteFile(f)
      BY <2>2 DEF DeleteFile
    <2>3. CASE HideFile(f)
      <3>1. disk[f] \in DiskFiles /\ disk[f].version # 0 /\ Change(f, [disk[f] EXCEPT !.seen = FALSE])
        BY <1>0, <2>3 DEF HideFile, Found
      <3>2. [disk[f] EXCEPT !.seen = FALSE].version = disk[f].version
        BY <3>1 DEF DiskFiles
      <3>3. QED
        BY <3>1, <3>2
    <2>4. QED
      BY <2>1, <2>2, <2>3
  <1>2. /\ disk' = [disk EXCEPT ![f] = file]
        /\ UNCHANGED <<store, marked, rpc, live, got, readAt, present, order, counts>>
        /\ disturbed' = disturbed \cup (IF ppc = "looked" THEN {"prune"} ELSE {})
                                  \cup (IF rpc["usual"] # "idle" THEN {"report"} ELSE {})
    BY <1>1 DEF Change, storeVars, reportVars
  <1>3. HistoryTypeOK'
    BY <1>0, <1>1, <1>2 DEF HistoryInv, HistoryTypeOK
  <1>4. CASE rpc["usual"] = "idle"
    BY <1>2, <1>3, <1>4, NothingToHold
  <1>5. CASE rpc["usual"] # "idle"
    BY <1>2, <1>3, <1>5, HoldsStill DEF HistoryInv
  <1>6. QED
    BY <1>3, <1>4, <1>5

LEMMA GotoIs ==
  ASSUME HistoryTypeOK, NEW r \in Reports, NEW from, NEW to, Goto(r, from, to)
  PROVE  /\ rpc[r] = from /\ rpc'[r] = to
         /\ \A q \in Reports : q # r => rpc'[q] = rpc[q]
         /\ to \in Running \cup {"idle", "failed", "ended"}
              => rpc' \in [Reports -> Running \cup {"idle", "failed", "ended"}]
  BY DEF HistoryTypeOK, Goto

(* It starts with what is on the disk, and what is stored of that.             *)
LEMMA ReadFilesStep ==
  ASSUME HistoryInv, NEW r \in Reports, ReadFiles(r)
  PROVE  HistoryTypeOK' /\ HistoryHolds'
  <1> DEFINE files == {f \in Dir(r) : Found(f)}
             hits == {f \in files : store[f] # None /\ store[f].version = disk[f].version}
             ReadOf(failed) == [f \in Files |-> IF f \in hits THEN store[f].rows
                                               ELSE IF f \in files \ failed THEN disk[f].rows ELSE None]
             versions == [f \in Files |-> IF f \in files \ hits THEN disk[f].version ELSE 0]
  <1>1. PICK failed : got' = [got EXCEPT ![r] = ReadOf(failed)]
    BY DEF ReadFiles
  <1>2. /\ live' = [live EXCEPT ![r] = files] /\ readAt' = [readAt EXCEPT ![r] = versions]
        /\ Goto(r, "idle", "read")
        /\ UNCHANGED <<disk, store, marked, present, order, counts, disturbed>>
    BY DEF ReadFiles, toolVars, storeVars
  <1>3. rpc[r] = "idle" /\ rpc'[r] = "read" /\ HistoryTypeOK'
    <2>1. rpc' \in [Reports -> Running \cup {"idle", "failed", "ended"}] /\ rpc[r] = "idle" /\ rpc'[r] = "read"
      BY <1>2, GotoIs DEF HistoryInv, Running
    <2>2. QED
      BY <1>2, <2>1 DEF HistoryInv, HistoryTypeOK
  <1>4. CASE r = "custom"
    <2>1. rpc'["usual"] = rpc["usual"]
      BY <1>2, <1>4, GotoIs, FilesAre DEF HistoryInv
    <2>2. live'["usual"] = live["usual"] /\ got'["usual"] = got["usual"] /\ readAt'["usual"] = readAt["usual"]
      BY <1>1, <1>2, <1>4, FilesAre DEF HistoryInv, LedgerInv, LedgerTypeOK
    <2>3. QED
      BY <1>2, <1>3, <2>1, <2>2, HoldsStill DEF HistoryInv
  <1>5. CASE r = "usual"
    <2>1. live'["usual"] = files /\ got'["usual"] = ReadOf(failed) /\ readAt'["usual"] = versions
      BY <1>1, <1>2, <1>5, FilesAre DEF HistoryInv, LedgerInv, LedgerTypeOK
    <2>2. files = {f \in UsualDir : Found(f)} /\ files \subseteq Files
      BY <1>5, FilesAre DEF Dir
    <2>3. Good("usual")' = {f \in files : ReadOf(failed)[f] # None}
      BY <2>1 DEF Good
    <2>4. \A f \in hits : store[f] \in Entries /\ store[f].rows # None
      BY <2>2, RecordsAre DEF HistoryInv, LedgerInv, LedgerTypeOK
    <2>5. hits \subseteq Good("usual")'
      BY <2>2, <2>3, <2>4
    <2>6. RowsHold'
      <3>1. ASSUME NEW f \in Good("usual")', versions[f] = 0
            PROVE  store[f] # None /\ store[f].rows = ReadOf(failed)[f]
        <4>1. f \in files /\ disk[f] # None /\ f \in Files
          BY <2>2, <2>3 DEF Found
        <4>2. disk[f].version # 0
          BY <4>1 DEF HistoryInv, HistoryTypeOK
        <4>3. f \in hits
          BY <3>1, <4>1, <4>2
        <4>4. QED
          BY <4>1, <4>3
      <3>2. QED
        BY ZenonT(60), <1>2, <1>3, <1>5, <2>1, <3>1 DEF RowsHold
    <2>7. FailedHold'
      <3>1. {f \in UsualDir : Found(f)}' = files
        BY <1>2, <2>2 DEF Found
      <3>2. \A f \in Failed("usual")' : f \in files /\ f \notin hits
        BY <2>1, <2>5 DEF Failed
      <3>3. \A f \in Failed("usual")' : store'[f] = None \/ store'[f].version # disk'[f].version
        BY <1>2, <3>2
      <3>4. QED
        BY <2>1, <3>1, <3>3 DEF FailedHold
    <2>8. PresentHold' /\ OrderHolds' /\ ServedHolds'
      BY <1>3, <1>5 DEF PresentHold, OrderHolds, ServedHolds, Undisturbed, Looked
    <2>9. QED
      BY <1>3, <2>6, <2>7, <2>8 DEF HistoryHolds
  <1>6. QED
    BY <1>4, <1>5, FilesAre

(* What it read and stored is stored.                                          *)
LEMMA StoreFilesStep ==
  ASSUME HistoryInv, NEW r \in Reports, StoreFiles(r)
  PROVE  HistoryTypeOK' /\ HistoryHolds'
  <1> DEFINE written == {f \in Good(r) : readAt[r][f] # 0}
  <1>1. PICK to \in {"stored", "ended", "failed"} : Goto(r, "read", to)
    BY DEF StoreFiles
  <1>2. /\ UNCHANGED <<disk, present, order, counts>> /\ disturbed \subseteq disturbed'
        /\ Forget(r) \/ UNCHANGED <<live, got, readAt>>
    BY DEF StoreFiles, toolVars
  <1>3. rpc[r] = "read" /\ rpc'[r] = to /\ HistoryTypeOK'
    <2>1. to \in Running \cup {"idle", "failed", "ended"}
      BY DEF Running
    <2>2. rpc' \in [Reports -> Running \cup {"idle", "failed", "ended"}] /\ rpc[r] = "read" /\ rpc'[r] = to
      BY <1>1, <2>1, GotoIs DEF HistoryInv
    <2>3. QED
      BY <1>2, <2>2 DEF HistoryInv, HistoryTypeOK
  <1>4. CASE r = "custom"
    <2>1. rpc'["usual"] = rpc["usual"]
      BY <1>1, <1>4, GotoIs, FilesAre DEF HistoryInv
    <2>2. live'["usual"] = live["usual"] /\ got'["usual"] = got["usual"] /\ readAt'["usual"] = readAt["usual"]
      BY <1>2, <1>4, FilesAre DEF Forget, HistoryInv, LedgerInv, LedgerTypeOK
    <2>3. CASE written # {} /\ rpc["usual"] # "idle" /\ ~UNCHANGED storeVars
      <3>1. "usual" \in disturbed'
        BY <1>4, <2>3 DEF StoreFiles
      <3>2. QED
        BY <1>3, <3>1, NothingToHold
    <2>4. CASE rpc["usual"] = "idle"
      BY <1>3, <2>1, <2>4, NothingToHold
    <2>5. CASE written = {} \/ UNCHANGED storeVars
      <3>1. store' = store /\ marked' = marked
        <4>1. CASE UNCHANGED storeVars
          BY <4>1 DEF storeVars
        <4>2. CASE /\ written = {}
                   /\ store' = [f \in Files |-> IF f \in written
                                  THEN Entry(got[r][f], readAt[r][f], clock) ELSE store[f]]
                   /\ marked' = MarkedBy(r, written)
          <5>1. store' = [f \in Files |-> store[f]]
            BY <4>2
          <5>2. marked' = marked
            BY <4>2 DEF MarkedBy
          <5>3. QED
            BY <5>1, <5>2 DEF HistoryInv, LedgerInv, LedgerTypeOK
        <4>3. QED
          BY <2>5, <4>1, <4>2 DEF StoreFiles
      <3>2. QED
        BY <1>2, <1>3, <2>1, <2>2, <3>1, HoldsStill DEF HistoryInv
    <2>6. QED
      BY <2>3, <2>4, <2>5
  <1>5. CASE r = "usual" /\ to = "failed"
    BY <1>3, <1>5, NothingToHold
  <1>6. CASE r = "usual" /\ to # "failed"
    <2>1. /\ UNCHANGED <<live, got, readAt, disturbed>>
          /\ store' = [f \in Files |-> IF f \in written
                         THEN Entry(got[r][f], readAt[r][f], clock) ELSE store[f]]
          /\ to = "stored"
      <3>1. ~Goto(r, "read", "failed")
        BY <1>3, <1>6, GotoIs DEF HistoryInv
      <3>2. \/ disturbed' = disturbed \cup {}
            \/ Goto(r, "read", "failed")
        BY <1>6 DEF StoreFiles
      <3>3. QED
        BY <1>3, <1>6, <3>1, <3>2, GotoIs DEF StoreFiles, HistoryInv
    <2>2. Good("usual")' = Good("usual") /\ Failed("usual")' = Failed("usual")
      BY <2>1 DEF Good, Failed
    <2>3. /\ Good("usual") \subseteq Files
          /\ \A f \in written : /\ store'[f] # None
                               /\ store'[f].rows = got["usual"][f]
          /\ \A f \in Files \ written : store'[f] = store[f]
      <3>1. Good("usual") \subseteq Files
        BY FilesAre DEF Good, HistoryInv, LedgerInv, LedgerTypeOK
      <3>2. ASSUME NEW f \in written PROVE store'[f] # None /\ store'[f].rows = got["usual"][f]
        <4>1. f \in Files /\ got["usual"][f] \in Contents /\ readAt["usual"][f] \in Nat /\ clock \in Nat
          BY <1>6, <3>1, FilesAre DEF Good, HistoryInv, LedgerInv, LedgerTypeOK
        <4>2. store'[f] = Entry(got["usual"][f], readAt["usual"][f], clock)
          BY <1>6, <2>1, <4>1
        <4>3. QED
          BY <4>1, <4>2, RecordsAre
      <3>3. QED
        BY <2>1, <3>1, <3>2
    <2>4. Undisturbed(Running)' => Undisturbed(Running)
      BY <1>3, <1>6, <2>1 DEF Undisturbed, Running
    <2>5. RowsHold'
      <3>1. ASSUME Undisturbed(Running), NEW f \in Good("usual")
            PROVE  store'[f] # None /\ store'[f].rows = got["usual"][f]
        <4>1. CASE f \in written
          BY <2>3, <4>1
        <4>2. CASE f \notin written
          <5>1. readAt["usual"][f] = 0 /\ store'[f] = store[f]
            BY <1>6, <2>3, <4>2
          <5>2. QED
            BY <3>1, <5>1 DEF HistoryInv, HistoryHolds, RowsHold
        <4>3. QED
          BY <4>1, <4>2
      <3>2. QED
        BY <2>1, <2>2, <2>4, <3>1 DEF RowsHold
    <2>6. FailedHold'
      <3>1. \A f \in Failed("usual") : f \in Files \ written
        BY <1>6, FilesAre DEF Failed, HistoryInv, LedgerInv, LedgerTypeOK
      <3>2. \A f \in Failed("usual") : store'[f] = store[f]
        BY <2>3, <3>1
      <3>3. QED
        BY <1>2, <2>1, <2>2, <2>4, <3>2 DEF HistoryInv, HistoryHolds, FailedHold, Found
    <2>7. PresentHold' /\ OrderHolds' /\ ServedHolds'
      BY <1>3, <1>6, <2>1 DEF PresentHold, OrderHolds, ServedHolds, Undisturbed, Looked
    <2>8. QED
      BY <1>3, <2>5, <2>6, <2>7 DEF HistoryHolds
  <1>7. QED
    BY <1>4, <1>5, <1>6, FilesAre

(* It claims its files, and looks which of the others are on the disk.         *)
LEMMA MarksStep ==
  ASSUME HistoryInv, ReadMarks \/ Claim
  PROVE  HistoryTypeOK' /\ HistoryHolds'
  <1>1. PICK from \in {"stored", "claiming"}, to \in {"claiming", "history"} : Goto("usual", from, to)
    BY DEF ReadMarks, Claim
  <1>2. UNCHANGED <<disk, store, live, got, readAt, present, order, counts, disturbed>>
    BY DEF ReadMarks, Claim, toolVars, storeVars
  <1>3. /\ rpc["usual"] = from /\ rpc'["usual"] = to
        /\ rpc' \in [Reports -> Running \cup {"idle", "failed", "ended"}]
    BY <1>1, FilesAre, GotoIs DEF HistoryInv, Running
  <1>4. HistoryTypeOK'
    BY <1>2, <1>3 DEF HistoryInv, HistoryTypeOK
  <1>5. RowsHold' /\ FailedHold'
    BY <1>2, <1>3, FilesHold DEF HistoryInv, Running
  <1>6. PresentHold' /\ OrderHolds' /\ ServedHolds'
    BY <1>3 DEF PresentHold, OrderHolds, ServedHolds, Undisturbed, Looked
  <1>7. QED
    BY <1>4, <1>5, <1>6 DEF HistoryHolds

LEMMA LookAtDiskStep ==
  ASSUME HistoryInv, LookAtDisk
  PROVE  HistoryTypeOK' /\ HistoryHolds'
  <1>1. /\ Goto("usual", "history", "select") /\ present' = Present("usual")
        /\ UNCHANGED <<disk, store, marked, live, got, readAt, order, counts, disturbed>>
    BY DEF LookAtDisk, toolVars, storeVars
  <1>2. /\ rpc["usual"] = "history" /\ rpc'["usual"] = "select"
        /\ rpc' \in [Reports -> Running \cup {"idle", "failed", "ended"}]
    BY <1>1, FilesAre, GotoIs DEF HistoryInv, Running
  <1>3. Present("usual") \subseteq Files
    BY FilesAre DEF Present, Failed, Stored, HistoryInv, LedgerInv, LedgerTypeOK, Claims
  <1>4. HistoryTypeOK'
    BY <1>1, <1>2, <1>3 DEF HistoryInv, HistoryTypeOK
  <1>5. RowsHold' /\ FailedHold'
    BY <1>1, <1>2, FilesHold DEF HistoryInv, Running
  <1>6. PresentHold'
    <2>1. Failed("usual")' = Failed("usual")
      BY <1>1 DEF Failed, Good
    <2>2. \A f \in Present("usual") : f \in Failed("usual") \/ f \in marked \/ Found(f)
      BY DEF Present
    <2>3. \A f : Found(f)' <=> Found(f)
      BY <1>1 DEF Found
    <2>4. QED
      BY <1>1, <2>1, <2>2, <2>3 DEF PresentHold
  <1>7. OrderHolds' /\ ServedHolds'
    BY <1>2 DEF OrderHolds, ServedHolds, Undisturbed
  <1>8. QED
    BY <1>4, <1>5, <1>6, <1>7 DEF HistoryHolds

LEMMA PresentStays ==
  ASSUME HistoryHolds, UNCHANGED <<disk, store, marked, live, got, present, disturbed>>, rpc["usual"] \in Looked
  PROVE  PresentHold'
  <1>1. Failed("usual")' = Failed("usual") /\ Stored' = Stored
    BY DEF Failed, Good, Stored
  <1>2. \A f : Found(f)' <=> Found(f)
    BY DEF Found
  <1>3. Undisturbed(Looked)' => Undisturbed(Looked)
    BY DEF Undisturbed
  <1>4. QED
    BY <1>1, <1>2, <1>3 DEF HistoryHolds, PresentHold

(* It lists the departed files.                                               *)
LEMMA SelectDepartedStep ==
  ASSUME HistoryInv, SelectDeparted
  PROVE  HistoryTypeOK' /\ HistoryHolds'
  <1>1. /\ Goto("usual", "select", "classify") /\ order' = DepartedOrder(store, Ours)
        /\ UNCHANGED <<disk, store, marked, live, got, readAt, present, counts, disturbed>>
    BY DEF SelectDeparted, toolVars, storeVars, Ours
  <1>2. /\ rpc["usual"] = "select" /\ rpc'["usual"] = "classify"
        /\ rpc' \in [Reports -> Running \cup {"idle", "failed", "ended"}]
    BY <1>1, FilesAre, GotoIs DEF HistoryInv, Running
  <1>3. /\ Ours \subseteq Files /\ Ours \subseteq Nat /\ IsFiniteSet(Ours) /\ Ours \subseteq Stored
        /\ Dated(store, Ours)
    BY StoredAre, FilesAre, FS_Subset DEF Ours, HistoryInv, Dated
  <1> DEFINE queue == DepartedOrder(store, Ours)
             n == Cardinality(Ours)
  <1>4. ListsOnce(store, Ours, queue, n)
    BY <1>3, OrderListsEach
  <1>5. /\ n \in Nat /\ queue \in [1..n -> Ours] /\ Distinct(queue, n)
        /\ \A i, j \in 1..n : i < j => Precedes(store, queue[i], queue[j])
        /\ \A f \in Ours : \E i \in 1..n : queue[i] = f
    BY <1>4 DEF ListsOnce
  <1>6. order' = queue
    BY <1>1
  <1> HIDE DEF queue, n
  <1>7. queue \in Seq(Files) /\ Len(queue) = n
    <2>1. queue \in [1..n -> Files]
      BY <1>3, <1>5
    <2>2. QED
      BY <1>5, <2>1
  <1>8. HistoryTypeOK'
    BY <1>1, <1>2, <1>6, <1>7 DEF HistoryInv, HistoryTypeOK
  <1>9. RowsHold' /\ FailedHold' /\ PresentHold'
    BY <1>1, <1>2, FilesHold, PresentStays DEF HistoryInv, Running, Looked
  <1>10. OrderHolds'
    <2>1. Ours' = Ours /\ Good("usual")' = Good("usual") /\ Stored' = Stored
      BY <1>1 DEF Ours, Good, Stored
    <2>2. \A f \in Ours : f \notin Good("usual") \cup present
      BY DEF Ours
    <2>3. /\ Distinct(order', Len(order'))
          /\ \A i, j \in 1..Len(order') : i < j => Precedes(store', order'[i], order'[j])
          /\ \A i \in 1..Len(order') : order'[i] \in Ours
          /\ \A f \in Ours : \E i \in 1..Len(order') : order'[i] = f
      BY <1>1, <1>5, <1>6, <1>7
    <2>4. QED
      BY <1>1, <2>1, <2>2, <2>3 DEF OrderHolds, Listed
  <1>11. ServedHolds'
    BY <1>2 DEF ServedHolds, Undisturbed
  <1>12. QED
    BY <1>8, <1>9, <1>10, <1>11 DEF HistoryHolds

(* What counts of the live files is only what their rows are.                  *)
SameRows(files, more, some) == \A f \in some : files[f].rows = more[f].rows
LEMMA LiveSame ==
  ASSUME NEW files, NEW more, NEW some, SameRows(files, more, some), NEW repeats \in BOOLEAN
  PROVE  LiveHashCounts(files, some, repeats) = LiveHashCounts(more, some, repeats)
  <1>1. ASSUME NEW h \in Hashes
        PROVE  LiveHashCounts(files, some, repeats)[h] = LiveHashCounts(more, some, repeats)[h]
    <2>1. {files[f].rows[h] : f \in some} = {more[f].rows[h] : f \in some}
      BY DEF SameRows
    <2>2. {{f} \X (1..files[f].rows[h]) : f \in some} = {{f} \X (1..more[f].rows[h]) : f \in some}
      BY DEF SameRows
    <2>3. QED
      BY <2>1, <2>2 DEF LiveHashCounts
  <1>2. /\ LiveHashCounts(files, some, repeats) = [h \in Hashes |-> LiveHashCounts(files, some, repeats)[h]]
        /\ LiveHashCounts(more, some, repeats) = [h \in Hashes |-> LiveHashCounts(more, some, repeats)[h]]
    BY DEF LiveHashCounts
  <1>3. QED
    BY <1>1, <1>2

\* The rows that the report counted of its own files.
GotRows == [f \in Files |-> [rows |-> got["usual"][f]]]
LEMMA OwnAre ==
  ASSUME LedgerInv
  PROVE  /\ Good("usual") \subseteq Files /\ RowsKnown(Good("usual"), GotRows)
         /\ IsFiniteSet(Good("usual"))
         /\ \A f \in Files : GotRows[f].rows = got["usual"][f]
         /\ CountedLive("usual") = LiveHashCounts(GotRows, Good("usual"), Repeats)
         /\ CountedLive("usual") \in [Hashes -> Nat]
  <1>1. /\ Good("usual") \subseteq Files
        /\ \A f \in Good("usual") : got["usual"][f] \in Contents
    BY FilesAre DEF Good, LedgerInv, LedgerTypeOK
  <1>2. RowsKnown(Good("usual"), GotRows) /\ \A f \in Files : GotRows[f].rows = got["usual"][f]
    BY <1>1, LedgerAssumption DEF RowsKnown, GotRows
  <1>3. IsFiniteSet(Good("usual"))
    BY <1>1, FilesAre, FS_Subset
  <1>4. CountedLive("usual") = LiveHashCounts(GotRows, Good("usual"), Repeats)
    BY DEF CountedLive, GotRows
  <1>5. LiveHashCounts(GotRows, Good("usual"), Repeats) \in [Hashes -> Nat]
    BY <1>2, <1>3, LiveHas, LedgerAssumption
  <1>6. QED
    BY <1>1, <1>2, <1>3, <1>4, <1>5

LEMMA NowAre ==
  ASSUME LedgerInv
  PROVE  /\ RowsKnown(Files, RowsNow) /\ AllKnown(Files, RowsNow)
         /\ \A f \in Stored : RowsNow[f] = store[f]
         /\ \A f \in Files \ Stored, h \in Hashes : RowsNow[f].rows[h] = 0
         /\ \A f \in Files, h \in Hashes : RowsNow[f].rows[h] \in Nat /\ AllRows(RowsNow[f])[h] = RowsNow[f].rows[h]
  <1>1. NoRows \in [Hashes -> Nat] /\ \A h \in Hashes : NoRows[h] = 0
    BY DEF NoRows
  <1>2. ASSUME NEW f \in Stored
        PROVE  /\ f \in Files /\ RowsNow[f] = store[f]
               /\ RowsNow[f].rows \in [Hashes -> Nat] /\ RowsNow[f].unhashed = NoRows
    BY StoredAre DEF RowsNow, Stored, RowsKnown
  <1>3. ASSUME NEW f \in Files \ Stored
        PROVE  RowsNow[f].rows = NoRows /\ RowsNow[f].unhashed = NoRows
    <2>1. RowsNow[f] = Entry(NoRows, 0, 0)
      BY DEF RowsNow, Stored
    <2>2. QED
      BY <2>1 DEF Entry
  <1>4. \A f \in Files : RowsNow[f].rows \in [Hashes -> Nat] /\ RowsNow[f].unhashed = NoRows
    BY <1>1, <1>2, <1>3
  <1>5. \A f \in Files, h \in Hashes : RowsNow[f].rows[h] \in Nat /\ RowsNow[f].unhashed[h] = 0
    BY <1>1, <1>4
  <1>6. \A f \in Files, h \in Hashes : AllRows(RowsNow[f])[h] = RowsNow[f].rows[h]
    BY <1>5 DEF AllRows, Plus
  <1>7. RowsKnown(Files, RowsNow) /\ AllKnown(Files, RowsNow)
    BY <1>1, <1>4 DEF RowsKnown, AllKnown
  <1>8. QED
    BY <1>1, <1>2, <1>3, <1>5, <1>6, <1>7

(* It serves those whose events it does not count already.                     *)
LEMMA ClassifyDepartedStep ==
  ASSUME HistoryInv, ClassifyDeparted
  PROVE  HistoryTypeOK' /\ HistoryHolds'
  <1>0. LedgerInv /\ HistoryTypeOK /\ HistoryHolds
    BY DEF HistoryInv
  <1>1. PICK counted : counted = LiveHashCounts(store, Good("usual") \cap Stored, Repeats)
    OBVIOUS
  <1>2. /\ Goto("usual", "classify", "load")
        /\ order' = Classify(RowsNow, order, counted).served /\ counts' = counted
        /\ UNCHANGED <<disk, store, marked, live, got, readAt, present, disturbed>>
    BY <1>1 DEF ClassifyDeparted, toolVars, storeVars
  <1>3. /\ rpc["usual"] = "classify" /\ rpc'["usual"] = "load"
        /\ rpc' \in [Reports -> Running \cup {"idle", "failed", "ended"}]
    BY <1>0, <1>2, FilesAre, GotoIs DEF Running
  <1>4. counted \in [Hashes -> Nat]
    <2>1. Good("usual") \cap Stored \subseteq Stored
      OBVIOUS
    <2>2. QED
      BY <1>0, <1>1, <2>1, StoredAre, LiveHas, LedgerAssumption
  <1>5. PICK n \in Nat : n = Len(order) /\ order \in [1..n -> Files]
    BY <1>0 DEF HistoryTypeOK
  <1>6. RowsKnown(Files, RowsNow)
    BY <1>0, NowAre
  <1>7. Classify(RowsNow, order, counted).served \in Seq(Files)
    <2>1. PICK g : Weighs(n, Files, g, RowsNow, order, counted) /\ Classify(RowsNow, order, counted) = g[n]
      BY <1>4, <1>5, <1>6, ClassifyWeighs
    <2>2. g[n] \in Sums(Files)
      BY <2>1 DEF Weighs
    <2>3. QED
      BY <2>1, <2>2 DEF Sums
  <1>8. HistoryTypeOK'
    BY <1>0, <1>2, <1>3, <1>7 DEF HistoryTypeOK
  <1>9. RowsHold' /\ FailedHold' /\ PresentHold'
    BY <1>0, <1>2, <1>3, FilesHold, PresentStays DEF Running, Looked
  <1>10. OrderHolds'
    BY <1>3 DEF OrderHolds, Undisturbed
  <1>11. ASSUME "usual" \notin disturbed
         PROVE  /\ counted = CountedLive("usual")
                /\ \A i \in 1..Len(order') : order'[i] \notin Good("usual") \cup present
                /\ \A f \in Ours, h \in Hashes :
                     \/ Listed(f)'
                     \/ store[f].rows[h] <= counted[h]
                     \/ \E g \in Ours : Listed(g)' /\ Precedes(store, g, f) /\ store[f].rows[h] <= store[g].rows[h]
    <2>1. /\ Distinct(order, n)
          /\ \A i, j \in 1..n :
                i < j /\ order[i] \in Stored /\ order[j] \in Stored => Precedes(store, order[i], order[j])
          /\ \A i \in 1..n : order[i] \notin Good("usual") \cup present
          /\ \A f \in Ours : Listed(f)
      BY <1>0, <1>3, <1>5, <1>11 DEF HistoryHolds, OrderHolds, Undisturbed
    <2>2. \A f \in Good("usual") : store[f] # None /\ store[f].rows = got["usual"][f]
      BY <1>0, <1>3, <1>11 DEF HistoryHolds, RowsHold, Undisturbed, Running
    <2>3. counted = CountedLive("usual")
      <3>1. Good("usual") \cap Stored = Good("usual")
        BY <1>0, <2>2, OwnAre DEF Stored
      <3>2. SameRows(store, GotRows, Good("usual"))
        BY <1>0, <2>2, OwnAre DEF SameRows
      <3>3. counted = LiveHashCounts(GotRows, Good("usual"), Repeats)
        BY <1>1, <3>1, <3>2, LiveSame, LedgerAssumption
      <3>4. QED
        BY <1>0, <3>3, OwnAre
    <2>4. SplitAs(Files, RowsNow, order, n, counted, Classify(RowsNow, order, counted))
      BY <1>4, <1>5, <1>6, <2>1, SuppressedIsCovered
    <2>5. PICK copies :
            /\ \A j \in 1..n, h \in Hashes :
                  order[j] \in copies =>
                    \/ RowsNow[order[j]].rows[h] <= counted[h]
                    \/ \E i \in 1..(j - 1) : /\ order[i] \notin copies
                                            /\ RowsNow[order[j]].rows[h] <= RowsNow[order[i]].rows[h]
            /\ {order'[i] : i \in 1..Len(order')} = {order[i] : i \in 1..n} \ copies
      BY <1>2, <2>4 DEF SplitAs
    <2>6. \A i \in 1..Len(order') : order'[i] \notin Good("usual") \cup present
      <3>1. \A i \in 1..Len(order') : \E j \in 1..n : order'[i] = order[j]
        BY <2>5
      <3>2. QED
        BY <2>1, <3>1
    <2>7. \A g : Listed(g)' <=> \E i \in 1..n : order[i] = g /\ g \notin copies
      BY <2>5 DEF Listed
    <2>8. ASSUME NEW f \in Ours, NEW h \in Hashes, ~Listed(f)', ~(store[f].rows[h] <= counted[h])
          PROVE  \E g \in Ours : Listed(g)' /\ Precedes(store, g, f) /\ store[f].rows[h] <= store[g].rows[h]
      <3>1. PICK j \in 1..n : order[j] = f
        BY <1>5, <2>1 DEF Listed
      <3>2. f \in Stored /\ f \in Files /\ RowsNow[f] = store[f] /\ store[f].rows[h] \in Nat
        BY <1>0, StoredAre, NowAre DEF Ours, RowsKnown
      <3>3. PICK i \in 1..(j - 1) : /\ order[i] \notin copies
                                   /\ store[f].rows[h] <= RowsNow[order[i]].rows[h]
        <4>1. f \in copies
          BY <2>7, <2>8, <3>1
        <4>2. QED
          BY <2>5, <2>8, <3>1, <3>2, <4>1
      <3>4. i \in 1..n /\ i < j /\ order[i] \in Files
        BY <1>5
      <3>5. order[i] \in Stored
        <4>1. SUFFICES ASSUME order[i] \notin Stored PROVE FALSE
          OBVIOUS
        <4>2. RowsNow[order[i]].rows[h] = 0
          BY <1>0, <3>4, <4>1, NowAre
        <4>3. counted[h] \in Nat
          BY <1>4
        <4>4. QED
          BY <2>8, <3>2, <3>3, <4>2, <4>3
      <3>6. order[i] \in Ours /\ RowsNow[order[i]] = store[order[i]]
        BY <1>0, <2>1, <3>4, <3>5, NowAre DEF Ours
      <3>7. Precedes(store, order[i], f)
        BY <2>1, <3>1, <3>2, <3>4, <3>5
      <3>8. QED
        <4>1. PICK g : g = order[i]
          OBVIOUS
        <4>2. Listed(g)'
          BY <2>7, <3>3, <3>4, <4>1
        <4>3. QED
          BY <3>3, <3>6, <3>7, <4>1, <4>2
    <2>9. QED
      BY <2>3, <2>6, <2>8
  <1>12. ServedHolds'
    <2>1. /\ Ours' = Ours /\ Good("usual")' = Good("usual")
          /\ CountedLive("usual")' = CountedLive("usual")
      BY <1>2 DEF Ours, Good, Stored, CountedLive
    <2>2. Undisturbed({"load"})' => "usual" \notin disturbed
      BY <1>2 DEF Undisturbed
    <2>3. QED
      BY <1>2, <1>11, <2>1, <2>2 DEF ServedHolds, Covers
  <1>13. QED
    BY <1>8, <1>9, <1>10, <1>12 DEF HistoryHolds

LEMMA LoadServedStep ==
  ASSUME HistoryInv, LoadServed
  PROVE  HistoryTypeOK' /\ HistoryHolds'
  <1>1. /\ Goto("usual", "load", "ended") /\ present' = {} /\ order' = <<>> /\ disk' = disk
    BY DEF LoadServed, toolVars
  <1>2. /\ rpc'["usual"] = "ended"
        /\ rpc' \in [Reports -> Running \cup {"idle", "failed", "ended"}]
    BY <1>1, FilesAre, GotoIs DEF HistoryInv
  <1>3. HistoryTypeOK'
    BY <1>1, <1>2 DEF HistoryInv, HistoryTypeOK
  <1>4. QED
    BY <1>2, <1>3, NothingToHold

(* What prune deletes beside a report, if that may not notice it.               *)
LEMMA PruneBesideReport ==
  ASSUME PruneApplies, "usual" \notin disturbed', rpc["usual"] # "idle",
         store' # [f \in Files |-> store[f]] \/ marked' # marked
  PROVE  /\ "prune" \notin disturbed /\ "report" \notin disturbed /\ marked \cap PruneDeparted = {}
         /\ \E deleted \in SUBSET PruneSuppressed :
              /\ store' = [f \in Files |-> IF f \in deleted THEN None ELSE store[f]]
              /\ marked' = marked \ deleted
  <1>1. PICK suppressed \in BOOLEAN, aged \in BOOLEAN :
          LET selected == (IF suppressed THEN PruneSuppressed ELSE {})
                          \cup (IF aged THEN {f \in PruneDeparted : Aged(f)} ELSE {})
              deleted == StillMissing(selected) IN
          /\ store' = [f \in Files |-> IF f \in deleted THEN None ELSE store[f]]
          /\ marked' = marked \ deleted
          /\ disturbed' = disturbed \cup
              (IF /\ deleted # {} /\ rpc["usual"] # "idle"
                  /\ aged \/ {"prune", "report"} \cap disturbed # {} \/ marked \cap PruneDeparted # {}
               THEN {"usual"} ELSE {})
    BY DEF PruneApplies
  <1> DEFINE deleted == StillMissing((IF suppressed THEN PruneSuppressed ELSE {})
                                     \cup (IF aged THEN {f \in PruneDeparted : Aged(f)} ELSE {}))
  <1>2. deleted # {}
    <2>1. deleted = {} => store' = [f \in Files |-> store[f]] /\ marked' = marked
      <3> HIDE DEF deleted
      <3>1. QED
        BY <1>1 DEF deleted
    <2>2. QED
      BY <2>1
  <1>3. ~aged /\ {"prune", "report"} \cap disturbed = {} /\ marked \cap PruneDeparted = {}
    <2> HIDE DEF deleted
    <2>1. QED
      BY <1>1, <1>2 DEF deleted
  <1>4. deleted \in SUBSET PruneSuppressed
    BY <1>3 DEF StillMissing
  <1> HIDE DEF deleted
  <1>5. QED
    BY <1>1, <1>3, <1>4 DEF deleted

(* As long as nothing changes a file, prune and the report take the same files
   for departed, and prune counts no more of the live ones.                    *)
LEMMA PruneAgrees ==
  ASSUME HistoryInv, ppc = "looked", "prune" \notin disturbed, "report" \notin disturbed,
         Undisturbed(Running), marked \cap PruneDeparted = {}
  PROVE  /\ pruneLive = live["usual"] /\ PruneDeparted \cap Good("usual") = {}
         /\ Undisturbed(Looked) => PruneDeparted \subseteq Ours
         /\ Undisturbed({"load"}) =>
              \A h \in Hashes :
                /\ LiveHashCounts(store, CountedCurrent, Repeats)[h] \in Nat
                /\ CountedLive("usual")[h] \in Nat
                /\ LiveHashCounts(store, CountedCurrent, Repeats)[h] <= CountedLive("usual")[h]
  <1>0. LedgerInv /\ HistoryTypeOK /\ HistoryHolds
    BY DEF HistoryInv
  <1>1. /\ pruneLive = {f \in UsualDir : Found(f)} /\ live["usual"] = pruneLive
        /\ \A f \in pruneLive : taken[f] = disk[f].version
        /\ \A f \in Failed("usual") : store[f] = None \/ store[f].version # disk[f].version
    BY <1>0 DEF LedgerInv, LooksHold, HistoryHolds, FailedHold
  <1>2. Good("usual") \subseteq pruneLive /\ PruneDeparted \cap pruneLive = {}
    BY <1>1 DEF Good, PruneDeparted
  <1>3. PruneDeparted \subseteq DepartedNow
    BY <1>0, DepartedAreMissing
  <1>4. ASSUME Undisturbed(Looked), NEW f \in PruneDeparted PROVE f \in Ours
    <2>1. f \in Stored /\ f \notin marked /\ ~Found(f)
      BY <1>3 DEF DepartedNow
    <2>2. f \notin live["usual"]
      BY <1>1, <1>2
    <2>3. f \notin present
      BY <1>0, <1>4, <2>1, <2>2 DEF HistoryHolds, PresentHold, Failed
    <2>4. QED
      BY <2>1, <2>2, <2>3 DEF Ours, Good
  <1>5. ASSUME Undisturbed({"load"}), NEW h \in Hashes
        PROVE  /\ LiveHashCounts(store, CountedCurrent, Repeats)[h] \in Nat
               /\ CountedLive("usual")[h] \in Nat
               /\ LiveHashCounts(store, CountedCurrent, Repeats)[h] <= CountedLive("usual")[h]
    <2>1. \A f \in Good("usual") : store[f] # None /\ store[f].rows = got["usual"][f]
      BY <1>0, <1>5 DEF HistoryHolds, RowsHold, Undisturbed, Running
    <2>2. ASSUME NEW f \in CountedCurrent PROVE f \in Good("usual") /\ f \in Stored
      <3>1. f \in pruneLive /\ store[f] # None /\ store[f].version = disk[f].version /\ f \in Files
        BY <1>1, FilesAre DEF CountedCurrent
      <3>2. f \notin Failed("usual")
        BY <1>1, <3>1
      <3>3. QED
        BY <1>1, <3>1, <3>2 DEF Failed, Stored
    <2>3. /\ Good("usual") \subseteq Files /\ RowsKnown(Good("usual"), GotRows)
          /\ IsFiniteSet(Good("usual"))
          /\ \A f \in Files : GotRows[f].rows = got["usual"][f]
          /\ CountedLive("usual") = LiveHashCounts(GotRows, Good("usual"), Repeats)
          /\ CountedLive("usual") \in [Hashes -> Nat]
      BY <1>0, OwnAre
    <2>4. \A f \in CountedCurrent : store[f].rows = GotRows[f].rows
      BY <2>1, <2>2, <2>3
    <2>5. CountedCurrent \subseteq Good("usual") /\ CountedCurrent \subseteq Stored
      BY <2>2
    <2>6. LiveHashCounts(store, CountedCurrent, Repeats) \in [Hashes -> Nat]
      BY <1>0, <2>5, StoredAre, LiveHas, LedgerAssumption
    <2>7. LiveHashCounts(store, CountedCurrent, Repeats)[h] <= LiveHashCounts(GotRows, Good("usual"), Repeats)[h]
      BY <2>3, <2>4, <2>5, LiveGrows, LedgerAssumption
    <2>8. QED
      BY <2>3, <2>6, <2>7
  <1>6. QED
    BY <1>1, <1>2, <1>4, <1>5

(* Of the departed files with no fewer of an event than one of them, there is a
   first one, which none precedes.                                             *)
LEMMA FirstOf ==
  ASSUME LedgerInv, NEW some, some \subseteq Stored, some # {}
  PROVE  \E e \in some : \A g \in some : ~Precedes(store, g, e)
  <1>1. some \subseteq Nat /\ IsFiniteSet(some) /\ Dated(store, some)
    BY StoredAre, FilesAre, FS_Subset DEF Dated
  <1>2. /\ \A f \in some : Rank(store, some, f) \in Nat
        /\ \A f, g \in some : Precedes(store, f, g) => Rank(store, some, f) < Rank(store, some, g)
    BY <1>1, RanksAre
  <1> DEFINE ranks == {Rank(store, some, f) : f \in some}
  <1>3. ranks \subseteq Nat /\ ranks # {}
    BY <1>2
  <1> HIDE DEF ranks
  <1>4. PICK m \in ranks : \A k \in ranks : m <= k
    BY <1>3, LeastNatural
  <1>5. PICK e \in some : m = Rank(store, some, e)
    BY DEF ranks
  <1>6. ASSUME NEW g \in some, Precedes(store, g, e) PROVE FALSE
    <2>1. Rank(store, some, g) \in ranks /\ Rank(store, some, g) < Rank(store, some, e)
      BY <1>2, <1>6 DEF ranks
    <2>2. Rank(store, some, g) \in Nat /\ Rank(store, some, e) \in Nat
      BY <1>2
    <2>3. QED
      BY <1>4, <1>5, <2>1, <2>2
  <1>7. QED
    BY <1>6

(* What covers a file is kept: prune deletes only what an earlier file covers.  *)
LEMMA CoversStay ==
  ASSUME HistoryInv, ppc = "looked", "prune" \notin disturbed, "report" \notin disturbed,
         Undisturbed({"load"}), marked \cap PruneDeparted = {},
         NEW deleted \in SUBSET PruneSuppressed, NEW f \in Ours \ deleted, NEW h \in Hashes, ~Listed(f)
  PROVE  \/ store[f].rows[h] <= counts[h]
         \/ \E g \in Ours \ deleted : Listed(g) /\ Precedes(store, g, f) /\ store[f].rows[h] <= store[g].rows[h]
  <1>0. LedgerInv /\ HistoryTypeOK /\ HistoryHolds
    BY DEF HistoryInv
  <1>1. counts = CountedLive("usual") /\ \A g \in Ours : Listed(g) \/ Covers(g, h)
    BY <1>0 DEF HistoryHolds, ServedHolds
  <1>2. Undisturbed(Running) /\ Undisturbed(Looked)
    BY DEF Undisturbed, Running, Looked
  <1>3. PruneDeparted \subseteq Ours
    BY <1>2, PruneAgrees
  <1>4. PICK current \in Nat : /\ current = LiveHashCounts(store, CountedCurrent, Repeats)[h]
                              /\ current <= counts[h] /\ counts[h] \in Nat
    BY <1>1, <1>2, PruneAgrees
  <1>5. /\ Ours \subseteq Stored
        /\ \A g \in Stored : store[g].rows[h] \in Nat /\ store[g].at \in Nat /\ g \in Nat
    BY <1>0, StoredAre, FilesAre DEF Ours, RowsKnown
  <1> DEFINE some == {g \in Ours : Precedes(store, g, f) /\ store[f].rows[h] <= store[g].rows[h]}
  <1>6. CASE some = {}
    BY <1>1, <1>6 DEF Covers
  <1>7. CASE some # {}
    <2>1. PICK e \in some : \A g \in some : ~Precedes(store, g, e)
      <3>1. some \subseteq Stored
        BY <1>5
      <3> HIDE DEF some
      <3>2. QED
        BY <1>0, <1>7, <3>1, FirstOf
    <2>2. /\ e \in Ours /\ Precedes(store, e, f) /\ store[f].rows[h] <= store[e].rows[h]
      OBVIOUS
    <2>3. ASSUME NEW g \in Ours, Precedes(store, g, e), store[e].rows[h] <= store[g].rows[h]
          PROVE  FALSE
      <3>1. Precedes(store, g, f)
        <4>1. /\ store[g].at \in Nat /\ store[e].at \in Nat /\ store[f].at \in Nat
              /\ g \in Nat /\ e \in Nat /\ f \in Nat
          BY <1>5, <2>2
        <4>2. QED
          BY <2>2, <2>3, <4>1 DEF Precedes
      <3>2. store[f].rows[h] <= store[g].rows[h]
        BY <1>5, <2>2, <2>3
      <3>3. QED
        BY <2>1, <2>3, <3>1, <3>2
    <2>4. store[e].rows[h] <= counts[h] => store[f].rows[h] <= counts[h]
      BY <1>4, <1>5, <2>2
    <2>5. CASE ~Listed(e)
      <3>1. Covers(e, h)
        BY <1>1, <2>2, <2>5
      <3>2. QED
        BY <2>3, <2>4, <3>1 DEF Covers
    <2>6. CASE e \in deleted
      <3>1. \/ store[e].rows[h] <= current
            \/ \E g \in PruneDeparted \ PruneSuppressed :
                  Precedes(store, g, e) /\ store[e].rows[h] <= store[g].rows[h]
        BY <1>0, <1>4, <2>6, CopiesAre
      <3>2. store[e].rows[h] <= current
        BY <1>3, <2>3, <3>1
      <3>3. QED
        BY <1>4, <1>5, <2>2, <2>4, <3>2
    <2>7. QED
      BY <2>2, <2>5, <2>6
  <1>8. QED
    BY <1>6, <1>7

LEMMA PruneAppliesStep ==
  ASSUME HistoryInv, PruneApplies
  PROVE  HistoryTypeOK' /\ HistoryHolds'
  <1>0. LedgerInv /\ HistoryTypeOK /\ HistoryHolds
    BY DEF HistoryInv
  <1>1. /\ UNCHANGED <<disk, rpc, live, got, readAt, present, order, counts>>
        /\ disturbed \subseteq disturbed' /\ ppc = "looked"
    BY DEF PruneApplies, toolVars, reportVars
  <1>2. HistoryTypeOK'
    BY <1>0, <1>1 DEF HistoryTypeOK
  <1>3. CASE "usual" \in disturbed' \/ rpc["usual"] \in {"idle", "failed", "ended"}
    BY <1>1, <1>2, <1>3, NothingToHold
  <1>4. CASE store' = [f \in Files |-> store[f]] /\ marked' = marked
    <2>1. store' = store
      BY <1>0, <1>4 DEF LedgerInv, LedgerTypeOK
    <2>2. QED
      BY <1>0, <1>1, <1>2, <1>4, <2>1, HoldsStill
  <1>5. CASE /\ "usual" \notin disturbed' /\ rpc["usual"] \notin {"idle", "failed", "ended"}
             /\ store' # [f \in Files |-> store[f]] \/ marked' # marked
    <2>1. Undisturbed(Running)
      BY <1>0, <1>1, <1>5, FilesAre DEF HistoryTypeOK, Undisturbed
    <2>2. "prune" \notin disturbed /\ "report" \notin disturbed /\ marked \cap PruneDeparted = {}
      BY <1>5, PruneBesideReport
    <2>3. PICK deleted \in SUBSET PruneSuppressed :
            /\ store' = [f \in Files |-> IF f \in deleted THEN None ELSE store[f]]
            /\ marked' = marked \ deleted
      BY <1>5, PruneBesideReport
    <2>4. PruneDeparted \cap Good("usual") = {} /\ PruneSuppressed \subseteq PruneDeparted
          /\ PruneDeparted \subseteq Stored /\ Stored \subseteq Files
      BY <1>0, <1>1, <2>1, <2>2, PruneAgrees, CopiesAre, StoredAre
    <2>5. /\ Stored' = Stored \ deleted
          /\ \A f \in Files \ deleted : store'[f] = store[f]
          /\ \A f \in deleted : f \in Files => store'[f] = None
      BY <2>3 DEF Stored
    <2>6. /\ Good("usual")' = Good("usual") /\ Failed("usual")' = Failed("usual")
          /\ CountedLive("usual")' = CountedLive("usual")
          /\ \A f : (Found(f)' <=> Found(f)) /\ (Listed(f)' <=> Listed(f))
      BY <1>1 DEF Good, Failed, CountedLive, Found, Listed
    <2>7. Ours' = Ours \ deleted
      BY <1>1, <2>5, <2>6 DEF Ours
    <2>8. \A places : Undisturbed(places)' => Undisturbed(places)
      BY <1>1 DEF Undisturbed
    <2>9. Good("usual") \subseteq Files /\ Failed("usual") \subseteq Files
      BY <1>0, FilesAre DEF Good, Failed, LedgerInv, LedgerTypeOK
    <2>10. RowsHold'
      <3>1. \A f \in Good("usual") : store'[f] = store[f]
        BY <2>4, <2>5, <2>9
      <3>2. QED
        BY <1>0, <1>1, <2>6, <2>8, <3>1 DEF HistoryHolds, RowsHold
    <2>11. FailedHold'
      <3>1. \A f \in Failed("usual") : store'[f] = store[f] \/ store'[f] = None
        BY <2>5, <2>9
      <3>2. {f \in UsualDir : Found(f)}' = {f \in UsualDir : Found(f)}
        BY <2>6
      <3>3. QED
        BY <1>0, <1>1, <2>6, <2>8, <3>1, <3>2 DEF HistoryHolds, FailedHold
    <2>12. PresentHold'
      BY <1>0, <1>1, <2>2, <2>3, <2>5, <2>6, <2>8 DEF HistoryHolds, PresentHold
    <2>13. \A f \in Stored' : store'[f] = store[f] /\ f \in Stored \ deleted
      BY <2>4, <2>5
    <2>14. OrderHolds'
      <3>1. ASSUME Undisturbed({"classify"}), NEW i \in 1..Len(order), NEW j \in 1..Len(order),
                   i < j, order[i] \in Stored', order[j] \in Stored'
            PROVE  Precedes(store', order[i], order[j])
        <4>1. Precedes(store, order[i], order[j])
          BY <1>0, <2>13, <3>1 DEF HistoryHolds, OrderHolds
        <4>2. store'[order[i]] = store[order[i]] /\ store'[order[j]] = store[order[j]]
          BY <2>13, <3>1
        <4>3. QED
          BY <4>1, <4>2 DEF Precedes
      <3>2. QED
        BY <1>0, <1>1, <2>6, <2>7, <2>8, <3>1 DEF HistoryHolds, OrderHolds
    <2>15. ServedHolds'
      <3>1. ASSUME Undisturbed({"load"}), NEW f \in Ours \ deleted, NEW h \in Hashes, ~Listed(f)
            PROVE  \/ store'[f].rows[h] <= counts[h]
                   \/ \E g \in Ours \ deleted : /\ Listed(g) /\ Precedes(store', g, f)
                                               /\ store'[f].rows[h] <= store'[g].rows[h]
        <4>1. \A g \in Ours \ deleted : store'[g] = store[g]
          BY <2>7, <2>13 DEF Ours
        <4>2. \/ store[f].rows[h] <= counts[h]
              \/ \E g \in Ours \ deleted : Listed(g) /\ Precedes(store, g, f) /\ store[f].rows[h] <= store[g].rows[h]
          BY <1>1, <2>2, <3>1, CoversStay
        <4>3. QED
          BY <4>1, <4>2 DEF Precedes
      <3>2. ASSUME Undisturbed({"load"})
            PROVE  /\ counts' = CountedLive("usual")'
                   /\ \A i \in 1..Len(order') : order'[i] \notin (Good("usual") \cup present)'
                   /\ \A f \in Ours', h \in Hashes : Listed(f)' \/ Covers(f, h)'
        <4>1. /\ counts = CountedLive("usual")
              /\ \A i \in 1..Len(order) : order[i] \notin Good("usual") \cup present
          BY <1>0, <3>2 DEF HistoryHolds, ServedHolds
        <4>2. QED
          BY <1>1, <2>6, <2>7, <3>1, <3>2, <4>1 DEF Covers
      <3>3. QED
        BY <2>8, <3>2 DEF ServedHolds
    <2>16. QED
      BY <1>2, <2>10, <2>11, <2>12, <2>14, <2>15 DEF HistoryHolds
  <1>6. QED
    BY <1>3, <1>4, <1>5

LEMMA HistoryStep ==
  ASSUME HistoryInv, [Next]_vars
  PROVE  HistoryInv'
  <1>1. LedgerInv'
    BY LedgerStep DEF HistoryInv
  <1>2. CASE \E f \in Files : WriteFile(f) \/ DeleteFile(f) \/ HideFile(f)
    BY <1>1, <1>2, ToolsStep DEF HistoryInv
  <1>3. CASE \E r \in Reports : ReadFiles(r) \/ StoreFiles(r)
    BY <1>1, <1>3, ReadFilesStep, StoreFilesStep DEF HistoryInv
  <1>4. CASE ReadMarks \/ Claim \/ History
    BY <1>1, <1>4, MarksStep, LookAtDiskStep, SelectDepartedStep, ClassifyDepartedStep, LoadServedStep
       DEF History, HistoryInv
  <1>5. CASE PruneApplies
    BY <1>1, <1>5, PruneAppliesStep DEF HistoryInv
  <1>6. CASE PruneLooks \/ UNCHANGED vars
    <2>1. UNCHANGED <<disk, store, marked, rpc, live, got, readAt, present, order, counts, disturbed>>
      BY <1>6 DEF PruneLooks, vars, toolVars, storeVars, reportVars
    <2>2. HistoryTypeOK'
      BY <2>1 DEF HistoryInv, HistoryTypeOK
    <2>3. HistoryHolds'
      BY <2>1, HoldsStill DEF HistoryInv
    <2>4. QED
      BY <1>1, <2>2, <2>3 DEF HistoryInv
  <1>7. QED
    BY <1>2, <1>3, <1>4, <1>5, <1>6 DEF Next

(* What a report nothing disturbs read, listed and chose to serve goes on to fit
   the store and the disk until it is done.                                     *)
THEOREM HistoryInvariant == Spec => []HistoryInv
  BY HistoryInit, HistoryStep, PTL DEF Spec

(* Only the load of the served files ends a report that has got there.          *)
LEMMA OnlyLoadEnds ==
  ASSUME HistoryTypeOK, [Next]_vars, rpc["usual"] = "load", rpc'["usual"] = "ended"
  PROVE  LoadServed
  <1>1. CASE UNCHANGED vars \/ PruneLooks \/ PruneApplies
    BY <1>1 DEF vars, reportVars, PruneLooks, PruneApplies
  <1>2. CASE \E f \in Files : WriteFile(f) \/ DeleteFile(f) \/ HideFile(f)
    BY <1>2 DEF WriteFile, DeleteFile, HideFile, Change, reportVars
  <1>3. CASE \E r \in Reports : ReadFiles(r) \/ StoreFiles(r)
    <2>1. PICK r \in Reports, from \in {"idle", "read"} : \E to : Goto(r, from, to)
      BY <1>3 DEF ReadFiles, StoreFiles
    <2>2. CASE r = "usual"
      BY <2>1, <2>2, GotoIs
    <2>3. CASE r # "usual"
      BY <2>1, <2>3, GotoIs, FilesAre
    <2>4. QED
      BY <2>2, <2>3
  <1>4. CASE ReadMarks \/ Claim
    <2>1. PICK from \in {"stored", "claiming"} : \E to : Goto("usual", from, to)
      BY <1>4 DEF ReadMarks, Claim
    <2>2. QED
      BY <2>1, GotoIs, FilesAre
  <1>5. CASE LookAtDisk \/ SelectDeparted \/ ClassifyDeparted
    <2>1. PICK from \in {"history", "select", "classify"} : \E to : Goto("usual", from, to)
      BY <1>5 DEF LookAtDisk, SelectDeparted, ClassifyDeparted
    <2>2. QED
      BY <2>1, GotoIs, FilesAre
  <1>6. QED
    BY <1>1, <1>2, <1>3, <1>4, <1>5 DEF Next, History

(* What the served files add is what all departed files would.                  *)
LEMMA ServedIsHistory ==
  ASSUME HistoryInv, Undisturbed({"load"}), NEW h \in Hashes
  PROVE  ServedEvents(RowsNow, order, counts)[h] = HistoryOf(store, Ours, CountedLive("usual"))[h]
  <1>0. LedgerInv /\ HistoryTypeOK /\ HistoryHolds
    BY DEF HistoryInv
  <1>1. PICK own \in Nat : own = CountedLive("usual")[h]
    BY <1>0, OwnAre
  <1>2. /\ counts = CountedLive("usual") /\ counts \in [Hashes -> Nat] /\ counts[h] = own
        /\ \A i \in 1..Len(order) : order[i] \notin Good("usual") \cup present
        /\ \A f \in Ours : Listed(f) \/ Covers(f, h)
    BY <1>0, <1>1, OwnAre DEF HistoryHolds, ServedHolds
  <1>3. order \in Seq(Files) /\ AllKnown(Files, RowsNow)
    BY <1>0, NowAre DEF HistoryTypeOK
  <1>4. TopOf(RowsNow, order, counts, ServedEvents(RowsNow, order, counts), h)
    BY <1>2, <1>3, ServedAdd
  <1>5. PICK events : events = ServedEvents(RowsNow, order, counts)
    OBVIOUS
  <1>6. PICK top \in Nat :
          /\ own <= top /\ events[h] = top - own
          /\ top = own \/ \E i \in 1..Len(order) : top = AllRows(RowsNow[order[i]])[h]
          /\ \A i \in 1..Len(order) : AllRows(RowsNow[order[i]])[h] <= top
    BY <1>2, <1>4, <1>5 DEF TopOf
  <1>7. Ours \subseteq Stored /\ Ours \subseteq Files /\ \A f \in Ours : store[f].rows[h] \in Nat
    BY <1>0, StoredAre DEF Ours, RowsKnown
  <1>8. PICK most \in Nat : most = Max(Rests(store, Ours, h))
    BY <1>0, <1>7, RestsAre
  <1>9. most \in Highs(store, Ours, h) /\ \A f \in Ours : store[f].rows[h] <= most
    BY <1>0, <1>7, <1>8, RestsAre
  <1>10. ASSUME NEW f \in Ours, Listed(f) PROVE store[f].rows[h] <= top
    <2>1. PICK i \in 1..Len(order) : order[i] = f
      BY <1>10 DEF Listed
    <2>2. AllRows(RowsNow[f])[h] = store[f].rows[h]
      BY <1>0, <1>7, NowAre
    <2>3. QED
      BY <1>6, <2>1, <2>2
  <1>11. most <= top
    <2>1. ASSUME NEW f \in Ours PROVE store[f].rows[h] <= top
      <3>1. CASE Listed(f)
        BY <1>10, <3>1
      <3>2. CASE store[f].rows[h] <= own
        BY <1>6, <1>7, <3>2
      <3>3. CASE \E g \in Ours : Listed(g) /\ Precedes(store, g, f) /\ store[f].rows[h] <= store[g].rows[h]
        <4>1. PICK g \in Ours : Listed(g) /\ store[f].rows[h] <= store[g].rows[h]
          BY <3>3
        <4>2. store[g].rows[h] <= top /\ store[g].rows[h] \in Nat /\ store[f].rows[h] \in Nat
          BY <1>7, <1>10, <4>1
        <4>3. QED
          BY <4>1, <4>2
      <3>4. QED
        BY <1>2, <3>1, <3>2, <3>3 DEF Covers
    <2>2. QED
      BY <1>9, <2>1 DEF Highs
  <1>12. top > own => top <= most
    <2>1. SUFFICES ASSUME top > own PROVE top <= most
      OBVIOUS
    <2>2. PICK i \in 1..Len(order) : top = AllRows(RowsNow[order[i]])[h]
      BY <1>1, <1>6, <2>1
    <2>3. order[i] \in Files /\ AllRows(RowsNow[order[i]])[h] = RowsNow[order[i]].rows[h]
      BY <1>0, <1>3, NowAre
    <2>4. order[i] \in Stored
      BY <1>0, <1>1, <2>1, <2>2, <2>3, NowAre
    <2>5. order[i] \in Ours /\ RowsNow[order[i]] = store[order[i]]
      BY <1>0, <1>2, <2>4, NowAre DEF Ours
    <2>6. QED
      BY <1>9, <2>2, <2>3, <2>5
  <1>13. top - own = Adds(most, own)
    BY <1>1, <1>6, <1>8, <1>11, <1>12 DEF Adds
  <1>14. HistoryOf(store, Ours, CountedLive("usual"))[h] = Adds(most, own)
    BY <1>1, <1>8, HistoryAdds
  <1>15. QED
    BY <1>5, <1>6, <1>13, <1>14

(* The total of a report's history does not depend on the order of the departed
   files or on which of them are suppressed (readDepartedFiles,
   classifyAgainstLiveFiles, loadServedEvents): per hash it is what the live
   files count, or what the departed file with most of it holds, whatever the
   tools do meanwhile, and whatever prune deletes as a copy between any two of
   the report's statements if no tool changed a file since either looked.       *)
THEOREM HistoryIsKeptExact == Spec => HistoryIsExact
  <1> DEFINE Exact == rpc["usual"] = "load" /\ rpc'["usual"] = "ended" /\ "usual" \notin disturbed =>
                        LET own == CountedLive("usual")
                            departed == Stored \ (Good("usual") \cup present) IN
                        counts' = Plus(own, HistoryOf(store, departed, own))
  <1>1. ASSUME HistoryInv, [Next]_vars PROVE Exact
    <2>1. SUFFICES ASSUME rpc["usual"] = "load", rpc'["usual"] = "ended", "usual" \notin disturbed
                   PROVE  counts' = Plus(CountedLive("usual"), HistoryOf(store, Ours, CountedLive("usual")))
      BY DEF Ours
    <2>2. LoadServed /\ Undisturbed({"load"})
      BY <1>1, <2>1, OnlyLoadEnds DEF HistoryInv, Undisturbed
    <2>3. counts' = Plus(CountedLive("usual"), ServedEvents(RowsNow, order, counts))
      BY <2>2 DEF LoadServed
    <2>4. \A h \in Hashes : ServedEvents(RowsNow, order, counts)[h] = HistoryOf(store, Ours, CountedLive("usual"))[h]
      BY <1>1, <2>2, ServedIsHistory
    <2>5. QED
      BY <2>3, <2>4 DEF Plus
  <1>2. HistoryInv /\ [Next]_vars => [Exact]_vars
    BY <1>1
  <1> HIDE DEF Exact
  <1>3. Spec => [][Exact]_vars
    BY <1>2, HistoryInvariant, PTL DEF Spec
  <1>4. QED
    BY <1>3 DEF HistoryIsExact, Exact
===============================================================================
