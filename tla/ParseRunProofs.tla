---------------------------- MODULE ParseRunProofs ----------------------------
(* For any number of sources, files and permits: the parse phase keeps to its *)
(* budget, parses each file in one loop, answers for every file, and stores   *)
(* what it parsed.                                                            *)
EXTENDS ParseRun, FiniteSetTheorems, TLAPS

(* The budget: its own invariants, over the loops of every source.            *)
Holding == {l \in Loops : place[l] = "in"}
Conserved == permits + Cardinality(Holding) = MaxParallel
BudgetInv == /\ Budget!TypeOK /\ Budget!WaitersQueued /\ Conserved
             /\ Budget!NoneWaitsInVain

RunTypeOK ==
    /\ stage \in [Sources -> {"discover"} \cup Looping \cup Settled]
    /\ tasks \in [Sources -> Seq(Nat)]
    /\ \A s \in Sources : tasks[s] \in Seq(1..FileCount[s])
    /\ doing \in [Loops -> Nat]
    /\ \A l \in Loops : doing[l] \in 0..FileCount[Source(l)]
    /\ ended \subseteq Loops
    /\ outcome \in [AllFiles -> {"none", "skipped", "hit", "missed", "parsed", "failed"}]
    /\ pending \in [Sources -> SUBSET AllFiles]
    /\ \A s \in Sources : pending[s] \subseteq FilesOf(s)
    /\ due \subseteq AllFiles /\ stored \subseteq AllFiles
    /\ storeDown \in BOOLEAN /\ storeOpen \in BOOLEAN
    /\ run \in {"parsing", "ended"}

(* A loop has a task as long as it waits for a permit or holds one.           *)
PlacesFit == \A l \in Loops : doing[l] = 0 <=> place[l] = "out"

(* The files of a source nobody has dealt with: those its loops have not
   taken, and those they work on.                                             *)
ItemsOf(q) == {q[i] : i \in 1..Len(q)}
Distinct(q) == \A i, j \in 1..Len(q) : q[i] = q[j] => i = j
Waiting(s) == ItemsOf(tasks[s])
Todo(s, n) == n \in Waiting(s) \/ \E l \in Loops : Source(l) = s /\ doing[l] = n

(* The loops of a source share its files: each is taken once.                 *)
LoopsShare(s) ==
    /\ Distinct(tasks[s])
    /\ \A l \in Loops : Source(l) = s =>
         /\ doing[l] # 0 => doing[l] \notin Waiting(s) /\ stage[s] \in Looping
         /\ \A m \in Loops : Source(m) = s /\ doing[l] # 0 /\ doing[l] = doing[m] => l = m
         /\ l \in ended => doing[l] = 0 /\ stage[s] # "discover"
                           /\ (stage[s] \in Looping => tasks[s] = <<>>)

(* What is left to do is what has no outcome yet, or a miss in the second round. *)
OutcomesFit(s) ==
    \A n \in 1..FileCount[s] :
        LET o == outcome[<<s, n>>] IN
        /\ stage[s] = "discover" => o = "none"
        /\ stage[s] \in {"inline", "resolve"} => (o = "none" <=> Todo(s, n))
        /\ stage[s] = "inline" => o # "missed"
        /\ stage[s] = "missed" => o # "none" /\ (o = "missed" <=> Todo(s, n))
        /\ stage[s] = "fulfilled" => o \notin {"none", "missed"}
RejectedInFull(s) ==
    stage[s] = "rejected" => \/ \A n \in 1..FileCount[s] : outcome[<<s, n>>] = "none"
                             \/ \A n \in 1..FileCount[s] : outcome[<<s, n>>] = "failed"

(* What was parsed for the store is in it or in the batch.                    *)
BatchesHold(s) ==
    /\ stage[s] = "discover" => pending[s] = {} /\ due \cap FilesOf(s) = {}
    /\ stage[s] \in Settled => pending[s] = {}
    /\ storeDown \/ due \cap FilesOf(s) \subseteq stored \cup pending[s]

SourceInv(s) == LoopsShare(s) /\ OutcomesFit(s) /\ RejectedInFull(s) /\ BatchesHold(s)

OpenUntilSettled == ~storeOpen => storeDown \/ AllSettled

RunInv ==
    /\ BudgetInv /\ RunTypeOK /\ PlacesFit /\ OpenUntilSettled
    /\ \A s \in Sources : SourceInv(s)

----------------------------------------------------------------------------
(* Loops and files.                                                           *)

LEMMA BudgetBounds == IsFiniteSet(Loops) /\ MaxParallel \in Nat \ {0}
  <1>1. IsFiniteSet(1..MaxParallel)
    BY RunAssumption, FS_Interval
  <1>2. QED
    BY <1>1, RunAssumption, FS_Product DEF Loops

LEMMA LoopFacts ==
  /\ \A l \in Loops : Source(l) \in Sources
  /\ \A s \in Sources : /\ LoopsOf(s) = {l \in Loops : Source(l) = s}
                        /\ <<s, 1>> \in Loops /\ Source(<<s, 1>>) = s
  BY BudgetBounds DEF Loops, Source, LoopsOf

LEMMA FileFacts ==
  /\ \A s \in Sources : FileCount[s] \in Nat /\ FilesOf(s) \subseteq AllFiles
  /\ \A s \in Sources : \A n \in 1..FileCount[s] : <<s, n>> \in FilesOf(s) /\ <<s, n>> \in AllFiles
  /\ \A s \in Sources : \A f \in FilesOf(s) : \E n \in 1..FileCount[s] : f = <<s, n>>
  /\ \A s, u \in Sources : s # u => FilesOf(s) \cap FilesOf(u) = {}
  <1>1. \A s \in Sources : FileCount[s] \in Nat /\ FilesOf(s) \subseteq AllFiles
    BY RunAssumption DEF AllFiles
  <1>2. \A s \in Sources : \A n \in 1..FileCount[s] : <<s, n>> \in FilesOf(s)
    BY DEF FilesOf
  <1>3. \A s \in Sources : \A f \in FilesOf(s) : \E n \in 1..FileCount[s] : f = <<s, n>>
    BY DEF FilesOf
  <1>4. \A s, u \in Sources : s # u => FilesOf(s) \cap FilesOf(u) = {}
    BY DEF FilesOf
  <1>5. QED
    BY <1>1, <1>2, <1>3, <1>4

----------------------------------------------------------------------------
(* The budget, over the loops of every source.                                *)

(* The loops that hold a permit are finitely many, so a loop that comes in
   or goes out moves their number by one.                                   *)
LEMMA HoldersFinite == IsFiniteSet(Holding) /\ IsFiniteSet(Holding')
  <1>1. Holding \subseteq Loops /\ Holding' \subseteq Loops
    BY DEF Holding
  <1>2. QED
    BY <1>1, BudgetBounds, FS_Subset

(* A loop that takes a free permit, or queues when there is none, keeps the
   invariant (acquire).                                                     *)
LEMMA AcquireKeepsInv ==
  ASSUME BudgetInv, NEW l \in Loops, Budget!Acquire(l)
  PROVE  BudgetInv'
  <1> USE DEF BudgetInv, Budget!TypeOK
  <1>1. CASE permits > 0
    <2>1. /\ permits' = permits - 1
          /\ place' = [place EXCEPT ![l] = "in"]
          /\ waiters' = waiters
          /\ place[l] = "out"
      BY <1>1 DEF Budget!Acquire
    <2>2. Holding' = Holding \cup {l} /\ l \notin Holding
      BY <2>1 DEF Holding
    <2>3. Cardinality(Holding') = Cardinality(Holding) + 1
      BY <2>2, HoldersFinite, FS_AddElement
    <2>4. Cardinality(Holding) \in Nat
      BY HoldersFinite, FS_CardinalityType
    <2>5. Budget!TypeOK'
      BY <2>1, <1>1, BudgetBounds
    <2>6. Budget!WaitersQueued'
      BY <2>1 DEF Budget!WaitersQueued
    <2>7. Conserved'
      BY <2>1, <2>3, <2>4, BudgetBounds DEF Conserved
    <2>8. Budget!NoneWaitsInVain'
      BY <2>1, <1>1, BudgetBounds DEF Budget!NoneWaitsInVain
    <2>9. QED
      BY <2>5, <2>6, <2>7, <2>8
  <1>2. CASE permits = 0
    <2>1. /\ permits' = permits
          /\ place' = [place EXCEPT ![l] = "waiting"]
          /\ waiters' = Append(waiters, l)
          /\ place[l] = "out"
      BY <1>2 DEF Budget!Acquire
    <2>2. Holding' = Holding
      BY <2>1 DEF Holding
    <2>3. /\ Len(waiters') = Len(waiters) + 1
          /\ waiters'[Len(waiters) + 1] = l
          /\ \A i \in 1..Len(waiters) : waiters'[i] = waiters[i]
      BY <2>1
    <2>4. \A i \in 1..Len(waiters) : waiters[i] # l
      BY <2>1 DEF Budget!WaitersQueued
    <2>5. Budget!TypeOK'
      BY <2>1
    <2>6. Budget!WaitersQueued'
      <3>1. ASSUME NEW i \in 1..Len(waiters'), NEW j \in 1..Len(waiters'),
                   waiters'[i] = waiters'[j]
            PROVE  i = j
        <4>1. CASE i \in 1..Len(waiters) /\ j \in 1..Len(waiters)
          <5>1. waiters[i] = waiters[j]
            BY <3>1, <4>1, <2>3
          <5>2. QED
            BY <5>1, <4>1 DEF Budget!WaitersQueued
        <4>2. CASE i = Len(waiters) + 1 /\ j \in 1..Len(waiters)
          BY <3>1, <4>2, <2>3, <2>4
        <4>3. CASE j = Len(waiters) + 1 /\ i \in 1..Len(waiters)
          BY <3>1, <4>3, <2>3, <2>4
        <4>4. QED
          BY <4>1, <4>2, <4>3, <2>3
      <3>2. ASSUME NEW m \in Loops
            PROVE  place'[m] = "waiting" <=> \E i \in 1..Len(waiters') : waiters'[i] = m
        <4>1. CASE m = l
          BY <4>1, <2>1, <2>3
        <4>2. CASE m # l
          BY <4>2, <2>1, <2>3 DEF Budget!WaitersQueued
        <4>3. QED
          BY <4>1, <4>2
      <3>3. QED
        BY <3>1, <3>2 DEF Budget!WaitersQueued
    <2>7. Conserved'
      BY <2>1, <2>2 DEF Conserved
    <2>8. Budget!NoneWaitsInVain'
      BY <2>1, <1>2 DEF Budget!NoneWaitsInVain
    <2>9. QED
      BY <2>5, <2>6, <2>7, <2>8
  <1>3. QED
    BY <1>1, <1>2

(* A permit that is handed over, or put back when nobody waits, keeps the
   invariant (release).                                                     *)
LEMMA ReleaseKeepsInv ==
  ASSUME BudgetInv, NEW l \in Loops, Budget!Release(l)
  PROVE  BudgetInv'
  <1> USE DEF BudgetInv, Budget!TypeOK
  <1>0. Cardinality(Holding) \in Nat /\ l \in Holding
    BY HoldersFinite, FS_CardinalityType DEF Holding, Budget!Release
  <1>1. CASE waiters # <<>>
    <2> DEFINE next == Head(waiters)
    <2>1. /\ permits' = permits
          /\ place' = [place EXCEPT ![l] = "out", ![next] = "in"]
          /\ waiters' = Tail(waiters)
          /\ place[l] = "in"
      BY <1>1 DEF Budget!Release
    <2>2. /\ next \in Loops /\ next = waiters[1]
          /\ Len(waiters') = Len(waiters) - 1
          /\ Len(waiters) \in Nat \ {0}
          /\ \A i \in 1..Len(waiters') : waiters'[i] = waiters[i + 1]
      BY <2>1, <1>1
    <2>3. place[next] = "waiting" /\ next # l
      BY <2>1, <2>2 DEF Budget!WaitersQueued
    <2>4. Holding' = (Holding \ {l}) \cup {next} /\ next \notin Holding \ {l}
      BY <2>1, <2>2, <2>3 DEF Holding
    <2>5. Cardinality(Holding') = Cardinality(Holding)
      <3>1. IsFiniteSet(Holding \ {l}) /\ Cardinality(Holding \ {l}) = Cardinality(Holding) - 1
        BY <1>0, HoldersFinite, FS_RemoveElement
      <3>2. Cardinality((Holding \ {l}) \cup {next}) = Cardinality(Holding \ {l}) + 1
        BY <3>1, <2>4, FS_AddElement
      <3>3. QED
        BY <3>1, <3>2, <2>4, <1>0
    <2>6. Budget!TypeOK'
      BY <2>1, <2>2, <1>1
    <2>7. Budget!WaitersQueued'
      <3>1. ASSUME NEW i \in 1..Len(waiters'), NEW j \in 1..Len(waiters'),
                   waiters'[i] = waiters'[j]
            PROVE  i = j
        <4>1. i + 1 \in 1..Len(waiters) /\ j + 1 \in 1..Len(waiters)
          BY <2>2
        <4>2. waiters[i + 1] = waiters[j + 1]
          BY <3>1, <2>2
        <4>3. i + 1 = j + 1
          BY <4>1, <4>2 DEF Budget!WaitersQueued
        <4>4. QED
          BY <4>3, <2>2
      <3>2. ASSUME NEW m \in Loops, place'[m] = "waiting"
            PROVE  \E i \in 1..Len(waiters') : waiters'[i] = m
        <4>1. place[m] = "waiting" /\ m # next
          BY <3>2, <2>1, <2>3
        <4>2. PICK k \in 1..Len(waiters) : waiters[k] = m
          BY <4>1 DEF Budget!WaitersQueued
        <4>3. k # 1
          BY <4>1, <4>2, <2>2
        <4>4. k - 1 \in 1..Len(waiters') /\ waiters'[k - 1] = m
          BY <4>2, <4>3, <2>2
        <4>5. QED
          BY <4>4
      <3>3. ASSUME NEW m \in Loops, NEW i \in 1..Len(waiters'), waiters'[i] = m
            PROVE  place'[m] = "waiting"
        <4>1. i + 1 \in 1..Len(waiters) /\ waiters[i + 1] = m
          BY <3>3, <2>2
        <4>2. place[m] = "waiting"
          BY <4>1 DEF Budget!WaitersQueued
        <4>3. m # next
          BY <4>1, <2>2 DEF Budget!WaitersQueued
        <4>4. QED
          BY <4>2, <4>3, <2>1
      <3>4. QED
        BY <3>1, <3>2, <3>3 DEF Budget!WaitersQueued
    <2>8. Conserved' /\ Budget!NoneWaitsInVain'
      BY <2>1, <2>5, <1>1 DEF Conserved, Budget!NoneWaitsInVain
    <2>9. QED
      BY <2>6, <2>7, <2>8
  <1>2. CASE waiters = <<>>
    <2>1. /\ permits' = permits + 1
          /\ place' = [place EXCEPT ![l] = "out"]
          /\ waiters' = waiters
          /\ place[l] = "in"
      BY <1>2 DEF Budget!Release
    <2>2. Holding' = Holding \ {l}
      BY <2>1 DEF Holding
    <2>3. Cardinality(Holding') = Cardinality(Holding) - 1 /\ Cardinality(Holding') \in Nat
      BY <2>2, <1>0, HoldersFinite, FS_RemoveElement, FS_CardinalityType
    <2>4. Conserved'
      BY <2>1, <2>3, <1>0, BudgetBounds DEF Conserved
    <2>5. Budget!TypeOK'
      BY <2>1, <2>3, <2>4, BudgetBounds DEF Conserved
    <2>6. Budget!WaitersQueued'
      BY <2>1, <1>2 DEF Budget!WaitersQueued
    <2>7. Budget!NoneWaitsInVain'
      BY <2>1, <1>2 DEF Budget!NoneWaitsInVain
    <2>8. QED
      BY <2>4, <2>5, <2>6, <2>7
  <1>3. QED
    BY <1>1, <1>2

----------------------------------------------------------------------------
(* A step of another source.                                                  *)
LEMMA SourceKept ==
  ASSUME NEW u \in Sources, SourceInv(u),
         stage'[u] = stage[u], tasks'[u] = tasks[u], pending'[u] = pending[u],
         \A l \in Loops : Source(l) = u => doing'[l] = doing[l] /\ (l \in ended' <=> l \in ended),
         \A n \in 1..FileCount[u] : outcome'[<<u, n>>] = outcome[<<u, n>>],
         due' \cap FilesOf(u) = due \cap FilesOf(u), stored \subseteq stored',
         storeDown => storeDown'
  PROVE  SourceInv(u)'
  <1>1. Waiting(u)' = Waiting(u)
    BY DEF Waiting, ItemsOf
  <1>2. \A n : Todo(u, n)' <=> Todo(u, n)
    BY <1>1 DEF Todo
  <1>3. LoopsShare(u)'
    BY <1>1 DEF SourceInv, LoopsShare, Distinct
  <1>4. OutcomesFit(u)'
    BY <1>2 DEF SourceInv, OutcomesFit
  <1>5. RejectedInFull(u)'
    BY DEF SourceInv, RejectedInFull
  <1>6. BatchesHold(u)'
    BY DEF SourceInv, BatchesHold
  <1>7. QED
    BY <1>3, <1>4, <1>5, <1>6 DEF SourceInv

LEMMA BudgetKept == ASSUME BudgetInv, UNCHANGED budgetVars PROVE BudgetInv'
  BY DEF BudgetInv, budgetVars, Holding, Conserved, Budget!TypeOK, Budget!WaitersQueued,
         Budget!NoneWaitsInVain

(* While a source is at work the store stays open.                            *)
LEMMA OpenKept ==
  ASSUME OpenUntilSettled, NEW s \in Sources, stage[s] \notin Settled,
         storeOpen' = storeOpen, storeDown => storeDown'
  PROVE  OpenUntilSettled'
  BY DEF OpenUntilSettled, AllSettled

LEMMA InitInv == Init => RunInv
  <1> SUFFICES ASSUME Init PROVE RunInv
    OBVIOUS
  <1>1. BudgetInv
    <2>1. Holding = {}
      BY DEF Init, Budget!Init, Holding
    <2>2. Cardinality(Holding) = 0
      BY <2>1, FS_EmptySet
    <2>3. QED
      BY <2>2, BudgetBounds
      DEF Init, Budget!Init, BudgetInv, Budget!TypeOK, Budget!WaitersQueued, Conserved,
          Budget!NoneWaitsInVain
  <1>2. RunTypeOK
    BY LoopFacts, FileFacts DEF Init, RunTypeOK
  <1>3. PlacesFit
    BY DEF Init, Budget!Init, PlacesFit
  <1>4. OpenUntilSettled
    BY DEF Init, OpenUntilSettled
  <1>5. ASSUME NEW s \in Sources PROVE SourceInv(s)
    <2>1. stage[s] = "discover" /\ tasks[s] = <<>> /\ pending[s] = {} /\ due = {}
          /\ \A l \in Loops : doing[l] = 0 /\ l \notin ended
      BY DEF Init
    <2>2. \A n \in 1..FileCount[s] : outcome[<<s, n>>] = "none"
      BY FileFacts DEF Init
    <2>3. LoopsShare(s)
      BY <2>1 DEF LoopsShare, Waiting, ItemsOf, Distinct
    <2>4. OutcomesFit(s)
      BY <2>1, <2>2 DEF OutcomesFit
    <2>5. QED
      BY <2>1, <2>3, <2>4 DEF SourceInv, RejectedInFull, BatchesHold, Settled
  <1>6. QED
    BY <1>1, <1>2, <1>3, <1>4, <1>5 DEF RunInv

----------------------------------------------------------------------------
(* A source finds its files, or not.                                          *)

LEMMA NumbersTasks ==
  ASSUME NEW k \in Nat, NEW q, q = Numbers(k)
  PROVE  /\ q \in Seq(1..k) /\ q \in Seq(Nat) /\ Len(q) = k
         /\ \A i \in 1..k : q[i] = i
  <1>1. q \in [1..k -> 1..k]
    BY DEF Numbers
  <1>2. QED
    BY <1>1 DEF Numbers

LEMMA DiscoverKeepsInv ==
  ASSUME RunInv, NEW s \in Sources, Discover(s) PROVE RunInv'
  <1> USE DEF RunInv
  <1>1. /\ stage[s] = "discover"
        /\ UNCHANGED <<budgetVars, doing, ended, outcome, pending, due, stored, storeDown, storeOpen, run>>
        /\ stage'[s] # "discover"
        /\ stage' = [stage EXCEPT ![s] = stage'[s]]
        /\ tasks' = [tasks EXCEPT ![s] = tasks'[s]]
    BY DEF Discover, RunTypeOK, storeVars
  <1>2. \/ stage'[s] = "rejected" /\ tasks'[s] = tasks[s]
        \/ stage'[s] = "fulfilled" /\ tasks'[s] = tasks[s] /\ FileCount[s] = 0
        \/ stage'[s] \in {"inline", "resolve"} /\ tasks'[s] = Numbers(FileCount[s])
    BY DEF Discover, RunTypeOK
  <1>3. SourceInv(s)
    OBVIOUS
  <1>4. \A l \in Loops : Source(l) = s => doing[l] = 0 /\ l \notin ended
    BY <1>1, <1>3 DEF SourceInv, LoopsShare, Looping, RunTypeOK
  <1>5. \A n \in 1..FileCount[s] : outcome[<<s, n>>] = "none"
    BY <1>1, <1>3 DEF SourceInv, OutcomesFit
  <1>6. pending[s] = {} /\ due \cap FilesOf(s) = {}
    BY <1>1, <1>3 DEF SourceInv, BatchesHold
  <1>7. FileCount[s] \in Nat
    BY FileFacts
  <1>8. RunTypeOK'
    <2>1. tasks'[s] \in Seq(Nat) /\ tasks'[s] \in Seq(1..FileCount[s])
      BY <1>2, <1>7, NumbersTasks DEF RunTypeOK
    <2>2. /\ \A u \in Sources : tasks'[u] \in Seq(1..FileCount[u])
          /\ tasks' \in [Sources -> Seq(Nat)]
      BY <2>1, <1>1 DEF RunTypeOK
    <2>3. stage' \in [Sources -> {"discover"} \cup Looping \cup Settled]
      BY <1>1, <1>2 DEF RunTypeOK, Looping, Settled
    <2>4. QED
      BY <2>2, <2>3, <1>1 DEF RunTypeOK
  <1>9. SourceInv(s)'
    <2>1. \A n \in 1..FileCount[s] : outcome'[<<s, n>>] = "none"
      BY <1>1, <1>5
    <2>2. \A l \in Loops : Source(l) = s => doing'[l] = 0 /\ l \notin ended'
      BY <1>1, <1>4
    <2>3. BatchesHold(s)'
      BY <1>1, <1>6, <1>3 DEF BatchesHold, SourceInv
    <2>4. RejectedInFull(s)'
      BY <2>1 DEF RejectedInFull
    <2>5. CASE \/ stage'[s] = "rejected" /\ tasks'[s] = tasks[s]
               \/ stage'[s] = "fulfilled" /\ tasks'[s] = tasks[s] /\ FileCount[s] = 0
      <3>1. LoopsShare(s)'
        BY <2>5, <2>2, <1>3, <1>4 DEF SourceInv, LoopsShare, Distinct
      <3>2. OutcomesFit(s)'
        BY <2>5 DEF OutcomesFit
      <3>3. QED
        BY <3>1, <3>2, <2>3, <2>4 DEF SourceInv
    <2>6. CASE stage'[s] \in {"inline", "resolve"} /\ tasks'[s] = Numbers(FileCount[s])
      <3>1. /\ Len(tasks'[s]) = FileCount[s]
            /\ \A i \in 1..FileCount[s] : tasks'[s][i] = i
        BY <2>6, <1>7, NumbersTasks
      <3>2. LoopsShare(s)'
        BY <3>1, <2>2 DEF LoopsShare, Distinct
      <3>3. \A n \in 1..FileCount[s] : Todo(s, n)'
        BY <3>1 DEF Todo, Waiting, ItemsOf
      <3>4. OutcomesFit(s)'
        BY <3>3, <2>1, <2>6 DEF OutcomesFit
      <3>5. QED
        BY <3>2, <3>4, <2>3, <2>4 DEF SourceInv
    <2>7. QED
      BY <2>5, <2>6, <1>2
  <1>10. ASSUME NEW u \in Sources, u # s PROVE SourceInv(u)'
    BY <1>10, <1>1, SourceKept DEF RunTypeOK
  <1>11. PlacesFit' /\ BudgetInv'
    BY <1>1, BudgetKept DEF PlacesFit, budgetVars
  <1>12. OpenUntilSettled'
    BY <1>1, OpenKept DEF Settled
  <1>13. QED
    BY <1>8, <1>9, <1>10, <1>11, <1>12

(* A store that fails at a lookup is disabled, and nothing else moves.        *)
LEMMA LookupFailsKeepsInv ==
  ASSUME RunInv, NEW l \in Loops, LookupFails(l) PROVE RunInv'
  <1> USE DEF RunInv
  <1>1. /\ UNCHANGED <<budgetVars, stage, tasks, doing, ended, outcome, pending, due, stored, storeOpen, run>>
        /\ storeDown'
    BY DEF LookupFails, sourceVars
  <1>2. \A u \in Sources : SourceInv(u)'
    BY <1>1, SourceKept
  <1>3. RunTypeOK' /\ PlacesFit' /\ BudgetInv' /\ OpenUntilSettled'
    BY <1>1, BudgetKept DEF RunTypeOK, PlacesFit, OpenUntilSettled, budgetVars
  <1>4. QED
    BY <1>2, <1>3

(* The run ends: the store is closed once nothing parses.                     *)
LEMMA EndRunKeepsInv ==
  ASSUME RunInv, EndRun PROVE RunInv'
  <1> USE DEF RunInv
  <1>1. /\ UNCHANGED <<budgetVars, stage, tasks, doing, ended, outcome, pending, due, stored, storeDown>>
        /\ storeOpen' \in {FALSE, storeOpen} /\ run' = "ended" /\ AllSettled
    BY DEF EndRun, sourceVars
  <1>2. \A u \in Sources : SourceInv(u)'
    BY <1>1, SourceKept
  <1>3. RunTypeOK' /\ PlacesFit' /\ BudgetInv' /\ OpenUntilSettled'
    BY <1>1, BudgetKept DEF RunTypeOK, PlacesFit, OpenUntilSettled, AllSettled, budgetVars
  <1>4. QED
    BY <1>2, <1>3

----------------------------------------------------------------------------
(* A loop takes the next task.                                                *)

LEMMA TakeNext ==
  ASSUME NEW k \in Nat, NEW q \in Seq(1..k), q # <<>>, Distinct(q)
  PROVE  /\ Head(q) \in 1..k /\ Tail(q) \in Seq(1..k) /\ Distinct(Tail(q))
         /\ ItemsOf(q) = ItemsOf(Tail(q)) \cup {Head(q)} /\ Head(q) \notin ItemsOf(Tail(q))
  <1> DEFINE n == Head(q)
             rest == Tail(q)
  <1>1. /\ n = q[1] /\ Len(q) \in Nat \ {0} /\ Len(rest) = Len(q) - 1
        /\ \A i \in 1..Len(rest) : rest[i] = q[i + 1]
    OBVIOUS
  <1>2. \A i \in 1..Len(rest) : i + 1 \in 1..Len(q) /\ i + 1 # 1
    BY <1>1
  <1>3. Distinct(rest)
    BY <1>1, <1>2 DEF Distinct
  <1>4. n \notin ItemsOf(rest)
    BY <1>1, <1>2 DEF ItemsOf, Distinct
  <1>5. \A i \in 1..Len(q) : i = 1 \/ (i - 1 \in 1..Len(rest) /\ rest[i - 1] = q[i])
    BY <1>1
  <1>6. ItemsOf(q) = ItemsOf(rest) \cup {n}
    <2>1. ASSUME NEW x \in ItemsOf(q) PROVE x = n \/ x \in ItemsOf(rest)
      <3>1. PICK i \in 1..Len(q) : x = q[i]
        BY DEF ItemsOf
      <3>2. CASE i = 1
        BY <1>1, <3>1, <3>2
      <3>3. CASE i - 1 \in 1..Len(rest) /\ rest[i - 1] = q[i]
        BY <3>1, <3>3 DEF ItemsOf
      <3>4. QED
        BY <1>5, <3>2, <3>3
    <2>2. ASSUME NEW x \in ItemsOf(rest) PROVE x \in ItemsOf(q)
      <3>1. PICK i \in 1..Len(rest) : x = rest[i]
        BY <2>2 DEF ItemsOf
      <3>2. i + 1 \in 1..Len(q) /\ x = q[i + 1]
        BY <1>1, <1>2, <3>1
      <3>3. QED
        BY <3>2 DEF ItemsOf
    <2>3. n \in ItemsOf(q)
      <3>1. 1 \in 1..Len(q)
        BY <1>1
      <3>2. QED
        BY <1>1, <3>1 DEF ItemsOf
    <2>4. QED
      BY <2>1, <2>2, <2>3
  <1>7. n \in 1..k /\ rest \in Seq(1..k)
    OBVIOUS
  <1>8. QED
    BY <1>3, <1>4, <1>6, <1>7

LEMMA TakeTaskKeepsInv ==
  ASSUME RunInv, NEW l \in Loops, TakeTask(l) PROVE RunInv'
  <1> USE DEF RunInv
  <1> DEFINE s == Source(l)
  <1>s. s \in Sources
    BY LoopFacts
  <1> HIDE DEF s
  <1>1. /\ s = Source(l) /\ stage[s] \in Looping
        /\ place[l] = "out" /\ doing[l] = 0 /\ l \notin ended
        /\ UNCHANGED <<stage, outcome, pending, due, stored, storeDown, storeOpen, run>>
    BY DEF TakeTask, storeVars, s
  <1>2. SourceInv(s)
    BY <1>s
  <1>3. OpenUntilSettled'
    BY <1>1, <1>s, OpenKept DEF Looping, Settled
  <1>4. RejectedInFull(s)' /\ BatchesHold(s)'
    BY <1>1, <1>2 DEF SourceInv, RejectedInFull, BatchesHold
  <1>5. CASE /\ tasks[s] = <<>>
             /\ ended' = ended \cup {l}
             /\ UNCHANGED <<budgetVars, doing, tasks>>
    <2>1. \A u \in Sources : u # s => SourceInv(u)'
      BY <1>1, <1>5, SourceKept
    <2>2. Waiting(s)' = Waiting(s) /\ \A n : Todo(s, n)' <=> Todo(s, n)
      BY <1>5 DEF Waiting, ItemsOf, Todo
    <2>3. OutcomesFit(s)'
      BY <1>1, <1>2, <2>2 DEF SourceInv, OutcomesFit
    <2>4. LoopsShare(s)'
      BY <1>1, <1>2, <1>5, <2>2 DEF SourceInv, LoopsShare, Looping, Distinct
    <2>5. RunTypeOK' /\ PlacesFit' /\ BudgetInv'
      BY <1>1, <1>5, BudgetKept DEF RunTypeOK, PlacesFit, budgetVars
    <2>6. QED
      BY <1>3, <1>4, <2>1, <2>3, <2>4, <2>5 DEF SourceInv
  <1>6. CASE /\ tasks[s] # <<>>
             /\ doing' = [doing EXCEPT ![l] = Head(tasks[s])]
             /\ tasks' = [tasks EXCEPT ![s] = Tail(@)]
             /\ Budget!Acquire(l)
             /\ UNCHANGED ended
    <2> DEFINE n == Head(tasks[s])
               rest == Tail(tasks[s])
    <2>1. doing' = [doing EXCEPT ![l] = n] /\ tasks' = [tasks EXCEPT ![s] = rest]
      BY <1>6
    <2>0. n = Head(tasks[s]) /\ rest = Tail(tasks[s])
      OBVIOUS
    <2> HIDE DEF n, rest
    <2>2. /\ n \in 1..FileCount[s] /\ rest \in Seq(1..FileCount[s]) /\ Distinct(rest)
          /\ ItemsOf(tasks[s]) = ItemsOf(rest) \cup {n} /\ n \notin ItemsOf(rest)
      <3>1. FileCount[s] \in Nat /\ tasks[s] \in Seq(1..FileCount[s]) /\ tasks[s] # <<>>
        BY <1>6, <1>s, FileFacts DEF RunTypeOK
      <3>2. Distinct(tasks[s])
        BY <1>2 DEF SourceInv, LoopsShare
      <3>3. QED
        BY <3>1, <3>2, <2>0, TakeNext
    <2>3. /\ tasks'[s] = rest /\ \A u \in Sources : u # s => tasks'[u] = tasks[u]
          /\ doing'[l] = n /\ \A m \in Loops : m # l => doing'[m] = doing[m]
      BY <2>1, <1>s DEF RunTypeOK
    <2>4. n # 0 /\ rest \in Seq(Nat)
      BY <2>2, <1>s, FileFacts
    <2>5. Waiting(s) = Waiting(s)' \cup {n} /\ n \notin Waiting(s)'
      <3>1. Waiting(s)' = ItemsOf(rest)
        BY <2>3 DEF Waiting, ItemsOf
      <3>2. QED
        BY <3>1, <2>2 DEF Waiting
    <2>6. \A u \in Sources : u # s => SourceInv(u)'
      BY <1>1, <1>6, <2>3, SourceKept
    <2>7. \A k \in 1..FileCount[s] : Todo(s, k)' <=> Todo(s, k)
      BY <2>3, <2>5, <1>1 DEF Todo
    <2>8. OutcomesFit(s)'
      BY <1>1, <1>2, <2>7 DEF SourceInv, OutcomesFit
    <2>9. LoopsShare(s)'
      <3>1. \A m \in Loops : Source(m) = s => doing[m] # n
        BY <1>2, <2>4, <2>5 DEF SourceInv, LoopsShare
      <3>2. Distinct(tasks'[s])
        BY <2>2, <2>3
      <3>3. \A m \in Loops : Source(m) = s /\ doing'[m] # 0 =>
              doing'[m] \notin Waiting(s)' /\ stage'[s] \in Looping
        BY <1>1, <1>2, <2>3, <2>5 DEF SourceInv, LoopsShare
      <3>4. \A m, k \in Loops : Source(m) = s /\ Source(k) = s /\ doing'[m] # 0 /\ doing'[m] = doing'[k] => m = k
        BY <1>1, <1>2, <2>3, <3>1 DEF SourceInv, LoopsShare
      <3>5. \A m \in Loops : Source(m) = s => m \notin ended'
        BY <1>1, <1>2, <1>6 DEF SourceInv, LoopsShare
      <3>6. QED
        BY <3>2, <3>3, <3>4, <3>5 DEF LoopsShare
    <2>10. RunTypeOK'
      <3>1. tasks' \in [Sources -> Seq(Nat)] /\ \A u \in Sources : tasks'[u] \in Seq(1..FileCount[u])
        BY <2>1, <2>2, <2>3, <2>4, <1>s DEF RunTypeOK
      <3>2. doing' \in [Loops -> Nat] /\ \A m \in Loops : doing'[m] \in 0..FileCount[Source(m)]
        BY <2>1, <2>2, <2>3, <1>1, <1>s, FileFacts DEF RunTypeOK
      <3>3. QED
        BY <3>1, <3>2, <1>1, <1>6 DEF RunTypeOK
    <2>11. PlacesFit'
      <3>1. place'[l] # "out" /\ \A m \in Loops : m # l => place'[m] = place[m]
        BY <1>6 DEF Budget!Acquire, BudgetInv, Budget!TypeOK
      <3>2. QED
        BY <3>1, <2>3, <2>4 DEF PlacesFit
    <2>12. BudgetInv'
      BY <1>6, AcquireKeepsInv
    <2>13. QED
      BY <1>3, <1>4, <2>6, <2>8, <2>9, <2>10, <2>11, <2>12 DEF SourceInv
  <1>7. QED
    BY <1>5, <1>6 DEF TakeTask, s

----------------------------------------------------------------------------
(* A task ends.                                                               *)

(* What the store takes of a batch, and what it drops, is accounted for.      *)
LEMMA RecordKeepsBatches ==
  ASSUME RunTypeOK, NEW s \in Sources, BatchesHold(s), stage[s] \in Looping, stage'[s] = stage[s],
         NEW f \in FilesOf(s), NEW result, NEW fingerprinted \in BOOLEAN,
         RecordForStore(s, f, result, fingerprinted)
  PROVE  /\ BatchesHold(s)'
         /\ pending' \in [Sources -> SUBSET AllFiles] /\ pending'[s] \subseteq FilesOf(s)
         /\ \A u \in Sources : u # s => pending'[u] = pending[u]
         /\ due' \subseteq due \cup {f} /\ due \subseteq due'
         /\ stored \subseteq stored' /\ stored' \subseteq AllFiles
         /\ storeDown' \in BOOLEAN /\ (storeDown => storeDown')
  <1>1. /\ FilesOf(s) \subseteq AllFiles /\ f \in AllFiles /\ pending[s] \subseteq FilesOf(s)
        /\ pending \in [Sources -> SUBSET AllFiles] /\ stored \subseteq AllFiles /\ storeDown \in BOOLEAN
        /\ stage'[s] \notin Settled /\ stage'[s] # "discover"
    BY FileFacts DEF RunTypeOK, Looping, Settled
  <1>2. storeDown \/ due \cap FilesOf(s) \subseteq stored \cup pending[s]
    BY DEF BatchesHold
  <1> DEFINE batch == pending[s] \cup {f}
  <1>3. CASE ~(result = "parsed" /\ fingerprinted)
    <2>1. UNCHANGED <<pending, due, stored, storeDown>>
      BY <1>3 DEF RecordForStore
    <2>2. QED
      BY <2>1, <1>1, <1>2 DEF BatchesHold
  <1>4. CASE /\ due' = due \cup {f} /\ Flush(s, batch)
    <2>1. /\ pending' = [pending EXCEPT ![s] = {}]
          /\ \/ stored' = stored \cup batch /\ storeDown' = storeDown
             \/ storeDown' = TRUE /\ stored' = stored
      BY <1>4 DEF Flush
    <2>2. pending'[s] = {} /\ \A u \in Sources : u # s => pending'[u] = pending[u]
      BY <2>1, <1>1
    <2>3. pending' \in [Sources -> SUBSET AllFiles]
      BY <2>1, <1>1
    <2>4. BatchesHold(s)'
      BY <1>1, <1>2, <1>4, <2>1, <2>2 DEF BatchesHold
    <2>5. QED
      BY <2>1, <2>2, <2>3, <2>4, <1>1, <1>4
  <1>5. CASE /\ due' = due \cup {f}
             /\ pending' = [pending EXCEPT ![s] = @ \cup {f}]
             /\ UNCHANGED <<stored, storeDown>>
    <2>1. pending'[s] = batch /\ \A u \in Sources : u # s => pending'[u] = pending[u]
      BY <1>5, <1>1
    <2>2. pending' \in [Sources -> SUBSET AllFiles]
      BY <1>5, <1>1
    <2>3. BatchesHold(s)'
      BY <1>1, <1>2, <1>5, <2>1 DEF BatchesHold
    <2>4. QED
      BY <2>1, <2>2, <2>3, <1>1, <1>5
  <1>6. QED
    BY <1>3, <1>4, <1>5 DEF RecordForStore

LEMMA EndTaskKeepsInv ==
  ASSUME RunInv, NEW l \in Loops, EndTask(l) PROVE RunInv'
  <1> USE DEF RunInv
  <1>n. PICK n \in Nat : n = doing[l]
    BY DEF RunTypeOK
  <1> DEFINE s == Source(l)
             f == <<s, n>>
  <1>s. s \in Sources /\ s = Source(l) /\ n = doing[l]
    BY <1>n, LoopFacts
  <1>1. /\ place[l] = "in" /\ n # 0
        /\ doing' = [doing EXCEPT ![l] = 0]
        /\ Budget!Release(l)
        /\ UNCHANGED <<stage, tasks, ended, storeOpen, run>>
    BY <1>n DEF EndTask
  <1>2. PICK result \in Outcomes(s) \cup Hits(s), fingerprinted \in BOOLEAN :
          /\ outcome' = [outcome EXCEPT ![f] = result]
          /\ RecordForStore(s, f, result, fingerprinted)
    BY <1>n DEF EndTask
  <1>3. SourceInv(s) /\ stage[s] \in Looping
    BY <1>1, <1>s DEF SourceInv, LoopsShare
  <1>4. n \in 1..FileCount[s] /\ f \in FilesOf(s) /\ f \in AllFiles
    BY <1>1, <1>s, FileFacts DEF RunTypeOK
  <1>5. f = <<s, n>>
    OBVIOUS
  <1> HIDE DEF s, f
  <1>6. /\ result \in {"skipped", "hit", "missed", "parsed", "failed"}
        /\ stage[s] = "inline" => result # "missed"
        /\ stage[s] = "missed" => result # "missed"
    BY <1>3 DEF Outcomes, Hits, Looping
  <1>7. /\ BatchesHold(s)'
        /\ pending' \in [Sources -> SUBSET AllFiles] /\ pending'[s] \subseteq FilesOf(s)
        /\ \A u \in Sources : u # s => pending'[u] = pending[u]
        /\ due' \subseteq due \cup {f} /\ due \subseteq due'
        /\ stored \subseteq stored' /\ stored' \subseteq AllFiles
        /\ storeDown' \in BOOLEAN /\ (storeDown => storeDown')
    BY <1>1, <1>2, <1>3, <1>4, <1>s, RecordKeepsBatches DEF SourceInv
  <1>8. doing'[l] = 0 /\ \A m \in Loops : m # l => doing'[m] = doing[m]
    BY <1>1 DEF RunTypeOK
  <1>9. \A g \in AllFiles : outcome'[g] = IF g = f THEN result ELSE outcome[g]
    BY <1>2, <1>4 DEF RunTypeOK
  <1>10. outcome' \in [AllFiles -> {"none", "skipped", "hit", "missed", "parsed", "failed"}]
    BY <1>2, <1>4, <1>6 DEF RunTypeOK
  <1>11. RunTypeOK'
    <2>1. doing' \in [Loops -> Nat] /\ \A m \in Loops : doing'[m] \in 0..FileCount[Source(m)]
      BY <1>1, <1>8, LoopFacts, FileFacts DEF RunTypeOK
    <2>2. \A u \in Sources : pending'[u] \subseteq FilesOf(u)
      BY <1>7 DEF RunTypeOK
    <2>3. due' \subseteq AllFiles
      BY <1>7, <1>4 DEF RunTypeOK
    <2>4. QED
      BY <2>1, <2>2, <2>3, <1>1, <1>7, <1>10 DEF RunTypeOK
  <1>12. ASSUME NEW u \in Sources, u # s PROVE SourceInv(u)'
    <2>1. f \notin FilesOf(u)
      BY <1>12, <1>4, <1>s, FileFacts
    <2>2. \A k \in 1..FileCount[u] : outcome'[<<u, k>>] = outcome[<<u, k>>]
      BY <2>1, <1>9, <1>12, FileFacts
    <2>3. due' \cap FilesOf(u) = due \cap FilesOf(u)
      BY <2>1, <1>7
    <2>4. \A m \in Loops : Source(m) = u => doing'[m] = doing[m] /\ (m \in ended' <=> m \in ended)
      BY <1>1, <1>8, <1>12, <1>s
    <2>5. QED
      BY <2>2, <2>3, <2>4, <1>1, <1>7, <1>12, SourceKept
  <1>13. Waiting(s)' = Waiting(s)
    BY <1>1 DEF Waiting, ItemsOf
  <1>14. /\ n \notin Waiting(s)
         /\ \A m \in Loops : Source(m) = s /\ doing[m] = n => m = l
    BY <1>1, <1>3, <1>s DEF SourceInv, LoopsShare
  <1>15. LoopsShare(s)'
    BY <1>1, <1>3, <1>8, <1>13 DEF SourceInv, LoopsShare
  <1>16. ~Todo(s, n)'
    BY <1>1, <1>8, <1>13, <1>14 DEF Todo
  <1>17. \A k \in 1..FileCount[s] : k # n => (Todo(s, k)' <=> Todo(s, k))
    <2>1. \A k \in 1..FileCount[s] : k # 0
      BY FileFacts, <1>s
    <2>2. QED
      BY <2>1, <1>8, <1>13, <1>s DEF Todo
  <1>18. OutcomesFit(s)'
    <2>1. \A k \in 1..FileCount[s] : outcome'[<<s, k>>] = IF k = n THEN result ELSE outcome[<<s, k>>]
      BY <1>5, <1>9, <1>s, FileFacts
    <2>2. ASSUME NEW k \in 1..FileCount[s], k # n
          PROVE  outcome'[<<s, k>>] = outcome[<<s, k>>] /\ (Todo(s, k)' <=> Todo(s, k))
      BY <2>1, <2>2, <1>17
    <2>3. outcome'[<<s, n>>] = result /\ stage'[s] = stage[s]
      BY <2>1, <1>4, <1>1
    <2>4. stage[s] \in {"inline", "resolve", "missed"}
      BY <1>3 DEF Looping
    <2>5. ASSUME NEW k \in 1..FileCount[s]
          PROVE  LET o == outcome'[<<s, k>>] IN
                 /\ stage'[s] \in {"inline", "resolve"} => (o = "none" <=> Todo(s, k)')
                 /\ stage'[s] = "inline" => o # "missed"
                 /\ stage'[s] = "missed" => o # "none" /\ (o = "missed" <=> Todo(s, k)')
      <3>1. CASE k = n
        BY <3>1, <2>3, <2>4, <1>6, <1>16
      <3>2. CASE k # n
        BY <3>2, <2>2, <2>3, <1>3 DEF SourceInv, OutcomesFit
      <3>3. QED
        BY <3>1, <3>2
    <2>6. QED
      BY <2>3, <2>4, <2>5 DEF OutcomesFit
  <1>19. RejectedInFull(s)'
    BY <1>1, <1>3 DEF RejectedInFull, Looping
  <1>20. PlacesFit'
    <2>1. place'[l] = "out" /\ \A m \in Loops : m # l => (place'[m] = "out" <=> place[m] = "out")
      <3>1. CASE waiters = <<>>
        BY <3>1, <1>1 DEF Budget!Release, BudgetInv, Budget!TypeOK
      <3>2. CASE waiters # <<>>
        <4> DEFINE next == Head(waiters)
        <4>1. next \in Loops /\ next = waiters[1] /\ 1 \in 1..Len(waiters)
          BY <3>2 DEF BudgetInv, Budget!TypeOK
        <4>2. place[next] = "waiting"
          BY <4>1 DEF BudgetInv, Budget!WaitersQueued
        <4>3. place' = [place EXCEPT ![l] = "out", ![next] = "in"]
          BY <3>2, <1>1 DEF Budget!Release
        <4>4. QED
          BY <4>1, <4>2, <4>3, <1>1 DEF BudgetInv, Budget!TypeOK
      <3>3. QED
        BY <3>1, <3>2
    <2>2. QED
      BY <2>1, <1>8 DEF PlacesFit
  <1>21. BudgetInv'
    BY <1>1, ReleaseKeepsInv
  <1>22. OpenUntilSettled'
    BY <1>1, <1>3, <1>7, <1>s, OpenKept DEF Looping, Settled
  <1>23. SourceInv(s)'
    BY <1>7, <1>15, <1>18, <1>19 DEF SourceInv
  <1>24. QED
    BY <1>11, <1>12, <1>20, <1>21, <1>22, <1>23

----------------------------------------------------------------------------
(* A round of loops is over.                                                  *)

(* When all of a source's loops have ended, none of its files is left over.   *)
LEMMA NothingLeft ==
  ASSUME RunTypeOK, NEW s \in Sources, LoopsShare(s), stage[s] \in Looping, AllEnded(s)
  PROVE  /\ tasks[s] = <<>> /\ Waiting(s) = {}
         /\ \A l \in Loops : Source(l) = s => doing[l] = 0
         /\ \A n \in 1..FileCount[s] : ~Todo(s, n)
  <1>1. \A l \in Loops : Source(l) = s => l \in ended
    BY LoopFacts DEF AllEnded
  <1>2. tasks[s] = <<>>
    BY <1>1, LoopFacts DEF LoopsShare
  <1>3. Waiting(s) = {}
    BY <1>2 DEF Waiting, ItemsOf
  <1>4. \A l \in Loops : Source(l) = s => doing[l] = 0
    BY <1>1 DEF LoopsShare
  <1>5. \A n \in 1..FileCount[s] : n # 0
    BY FileFacts
  <1>6. QED
    BY <1>2, <1>3, <1>4, <1>5 DEF Todo

(* An order of n things that repeats none has all of them.                    *)
LEMMA OrderCovers ==
  ASSUME NEW k \in Nat, NEW M \in SUBSET (1..k), NEW order \in [1..Cardinality(M) -> M],
         \A i, j \in DOMAIN order : order[i] = order[j] => i = j
  PROVE  /\ order \in Seq(1..k) /\ order \in Seq(Nat)
         /\ Distinct(order) /\ ItemsOf(order) = M
  <1> DEFINE c == Cardinality(M)
  <1>1. IsFiniteSet(M) /\ c \in Nat
    <2>1. IsFiniteSet(1..k)
      BY FS_Interval
    <2>2. IsFiniteSet(M)
      BY <2>1, FS_Subset
    <2>3. QED
      BY <2>2, FS_CardinalityType
  <1> HIDE DEF c
  <1>2. order \in [1..c -> M] /\ DOMAIN order = 1..c
    BY DEF c
  <1>3. order \in Seq(M) /\ Len(order) = c
    BY <1>1, <1>2
  <1>4. order \in Seq(1..k) /\ order \in Seq(Nat)
    <2>0. \A m \in M : m \in 1..k /\ m \in Nat
      OBVIOUS
    <2>1. \A i \in 1..c : order[i] \in 1..k /\ order[i] \in Nat
      <3>1. \A i \in 1..c : order[i] \in M
        BY <1>2
      <3>2. QED
        BY <2>0, <3>1
    <2>2. order \in [1..c -> 1..k] /\ order \in [1..c -> Nat]
      BY <1>2, <2>1
    <2>3. QED
      BY <1>1, <2>2
  <1>5. Distinct(order)
    BY <1>2, <1>3 DEF Distinct
  <1>6. order \in Injection(1..c, M)
    BY <1>2 DEF Injection, IsInjective
  <1>7. Cardinality(1..c) = c
    BY <1>1, FS_Interval
  <1>8. order \in Surjection(1..c, M)
    <2>1. Cardinality(M) = c
      BY DEF c
    <2>2. (Cardinality(1..c) = Cardinality(M)) <=> order \in Surjection(1..c, M)
      BY <1>1, <1>6, FS_Injection
    <2>3. QED
      BY <2>1, <2>2, <1>7
  <1>9. ItemsOf(order) = M
    <2>1. \A m \in M : \E i \in 1..c : order[i] = m
      BY <1>8 DEF Surjection
    <2>2. \A i \in 1..c : order[i] \in M
      BY <1>2
    <2>3. ItemsOf(order) = {order[i] : i \in 1..c}
      BY <1>3 DEF ItemsOf
    <2>4. {order[i] : i \in 1..c} = M
      <3>1. ASSUME NEW m \in M PROVE m \in {order[i] : i \in 1..c}
        BY <2>1
      <3>2. ASSUME NEW m \in {order[i] : i \in 1..c} PROVE m \in M
        BY <2>2
      <3>3. QED
        BY <3>1, <3>2
    <2>5. QED
      BY <2>3, <2>4
  <1>10. QED
    BY <1>4, <1>5, <1>9

LEMMA BeginMissedKeepsInv ==
  ASSUME RunInv, NEW s \in Sources, BeginMissed(s) PROVE RunInv'
  <1> USE DEF RunInv
  <1>1. /\ stage[s] = "resolve" /\ AllEnded(s)
        /\ stage' = [stage EXCEPT ![s] = "missed"]
        /\ ended' = ended \ LoopsOf(s)
        /\ UNCHANGED <<budgetVars, doing, outcome, pending, due, stored, storeDown, storeOpen, run>>
    BY DEF BeginMissed, storeVars
  <1>2. PICK order \in [1..Cardinality(Missed(s)) -> Missed(s)] :
          /\ \A i, j \in DOMAIN order : order[i] = order[j] => i = j
          /\ tasks' = [tasks EXCEPT ![s] = order]
    BY DEF BeginMissed
  <1>3. SourceInv(s) /\ stage[s] \in Looping
    BY <1>1 DEF Looping
  <1>4. /\ \A l \in Loops : Source(l) = s => doing[l] = 0
        /\ \A n \in 1..FileCount[s] : ~Todo(s, n)
    BY <1>1, <1>3, NothingLeft DEF SourceInv
  <1>5. /\ order \in Seq(1..FileCount[s]) /\ order \in Seq(Nat)
        /\ Distinct(order) /\ ItemsOf(order) = Missed(s)
    <2>1. FileCount[s] \in Nat /\ Missed(s) \in SUBSET (1..FileCount[s])
      BY FileFacts DEF Missed
    <2>2. QED
      BY <1>2, <2>1, OrderCovers
  <1>6. /\ tasks'[s] = order /\ \A u \in Sources : u # s => tasks'[u] = tasks[u]
        /\ stage'[s] = "missed" /\ \A u \in Sources : u # s => stage'[u] = stage[u]
    BY <1>1, <1>2 DEF RunTypeOK
  <1>7. /\ \A l \in Loops : Source(l) = s => l \notin ended'
        /\ \A l \in Loops : Source(l) # s => (l \in ended' <=> l \in ended)
    BY <1>1, LoopFacts
  <1>8. RunTypeOK'
    <2>1. tasks' \in [Sources -> Seq(Nat)] /\ \A u \in Sources : tasks'[u] \in Seq(1..FileCount[u])
      BY <1>2, <1>5, <1>6 DEF RunTypeOK
    <2>2. stage' \in [Sources -> {"discover"} \cup Looping \cup Settled]
      BY <1>1 DEF RunTypeOK, Looping
    <2>3. QED
      BY <2>1, <2>2, <1>1 DEF RunTypeOK
  <1>9. \A u \in Sources : u # s => SourceInv(u)'
    BY <1>1, <1>6, <1>7, SourceKept
  <1>10. Waiting(s)' = Missed(s)
    BY <1>5, <1>6 DEF Waiting, ItemsOf
  <1>11. LoopsShare(s)'
    <2>1. Distinct(tasks'[s])
      BY <1>5, <1>6
    <2>2. QED
      BY <2>1, <1>1, <1>4, <1>7 DEF LoopsShare
  <1>12. OutcomesFit(s)'
    <2>1. \A n \in 1..FileCount[s] : outcome[<<s, n>>] # "none"
      BY <1>1, <1>3, <1>4 DEF SourceInv, OutcomesFit
    <2>2. \A n \in 1..FileCount[s] : Todo(s, n)' <=> outcome[<<s, n>>] = "missed"
      <3>1. \A n \in 1..FileCount[s] : n # 0
        BY FileFacts
      <3>2. QED
        BY <3>1, <1>1, <1>4, <1>10 DEF Todo, Missed
    <2>3. QED
      BY <2>1, <2>2, <1>1, <1>6 DEF OutcomesFit
  <1>13. RejectedInFull(s)' /\ BatchesHold(s)'
    BY <1>1, <1>3, <1>6 DEF SourceInv, RejectedInFull, BatchesHold, Settled, Looping
  <1>14. PlacesFit' /\ BudgetInv'
    BY <1>1, BudgetKept DEF PlacesFit, budgetVars
  <1>15. OpenUntilSettled'
    BY <1>1, OpenKept DEF Settled
  <1>16. QED
    BY <1>8, <1>9, <1>11, <1>12, <1>13, <1>14, <1>15 DEF SourceInv

LEMMA EndSourceKeepsInv ==
  ASSUME RunInv, NEW s \in Sources, EndSource(s) PROVE RunInv'
  <1> USE DEF RunInv
  <1>1. /\ stage[s] \in {"inline", "missed"} /\ AllEnded(s)
        /\ stage' = [stage EXCEPT ![s] = stage'[s]]
        /\ stage'[s] = IF \A f \in FilesOf(s) : outcome[f] = "failed" THEN "rejected" ELSE "fulfilled"
        /\ Flush(s, pending[s])
        /\ UNCHANGED <<budgetVars, tasks, doing, ended, outcome, due, storeOpen, run>>
    BY DEF EndSource, RunTypeOK
  <1>2. /\ pending' = [pending EXCEPT ![s] = {}]
        /\ \/ stored' = stored \cup pending[s] /\ storeDown' = storeDown
           \/ storeDown' = TRUE /\ stored' = stored
    BY <1>1 DEF Flush
  <1>3. SourceInv(s) /\ stage[s] \in Looping
    BY <1>1 DEF Looping
  <1>4. \A n \in 1..FileCount[s] : ~Todo(s, n)
    BY <1>1, <1>3, NothingLeft DEF SourceInv
  <1>5. /\ \A u \in Sources : u # s => stage'[u] = stage[u] /\ pending'[u] = pending[u]
        /\ pending'[s] = {} /\ pending[s] \subseteq AllFiles
        /\ stage'[s] \in Settled
    BY <1>1, <1>2 DEF RunTypeOK, Settled
  <1>6. stored \subseteq stored' /\ stored' \subseteq AllFiles /\ (storeDown => storeDown') /\ storeDown' \in BOOLEAN
    BY <1>2, <1>5 DEF RunTypeOK
  <1>7. RunTypeOK'
    <2>1. pending' \in [Sources -> SUBSET AllFiles] /\ \A u \in Sources : pending'[u] \subseteq FilesOf(u)
      BY <1>2, <1>5 DEF RunTypeOK
    <2>2. stage' \in [Sources -> {"discover"} \cup Looping \cup Settled]
      BY <1>1, <1>5 DEF RunTypeOK
    <2>3. QED
      BY <2>1, <2>2, <1>1, <1>6 DEF RunTypeOK
  <1>8. \A u \in Sources : u # s => SourceInv(u)'
    BY <1>1, <1>5, <1>6, SourceKept
  <1>9. LoopsShare(s)'
    BY <1>1, <1>3, NothingLeft, <1>5 DEF SourceInv, LoopsShare, Settled
  <1>10. OutcomesFit(s)' /\ RejectedInFull(s)'
    <2>1. \A n \in 1..FileCount[s] : outcome[<<s, n>>] \notin {"none", "missed"}
      BY <1>1, <1>3, <1>4 DEF SourceInv, OutcomesFit
    <2>2. stage'[s] = "rejected" => \A n \in 1..FileCount[s] : outcome[<<s, n>>] = "failed"
      BY <1>1, FileFacts
    <2>3. QED
      BY <2>1, <2>2, <1>1, <1>5 DEF OutcomesFit, RejectedInFull, Settled
  <1>11. BatchesHold(s)'
    BY <1>1, <1>2, <1>3, <1>5 DEF SourceInv, BatchesHold, Settled
  <1>12. PlacesFit' /\ BudgetInv'
    BY <1>1, BudgetKept DEF PlacesFit, budgetVars
  <1>13. OpenUntilSettled'
    BY <1>1, <1>6, OpenKept DEF Settled
  <1>14. QED
    BY <1>7, <1>8, <1>9, <1>10, <1>11, <1>12, <1>13 DEF SourceInv

----------------------------------------------------------------------------
(* The invariant holds throughout a run, however the loops of its sources
   interleave and whatever fails.                                             *)
THEOREM RunInvariant == Spec => []RunInv
  <1>1. RunInv /\ [Next]_vars => RunInv'
    <2> SUFFICES ASSUME RunInv, [Next]_vars PROVE RunInv'
      OBVIOUS
    <2>1. CASE UNCHANGED vars
      <3>1. UNCHANGED <<budgetVars, stage, tasks, doing, ended, outcome, pending, due, stored,
                        storeDown, storeOpen, run>>
        BY <2>1 DEF vars, sourceVars, storeVars
      <3>2. \A u \in Sources : SourceInv(u)'
        BY <3>1, SourceKept DEF RunInv
      <3>3. RunTypeOK' /\ PlacesFit' /\ BudgetInv' /\ OpenUntilSettled'
        BY <3>1, BudgetKept DEF RunInv, RunTypeOK, PlacesFit, OpenUntilSettled, AllSettled, budgetVars
      <3>4. QED
        BY <3>2, <3>3 DEF RunInv
    <2>2. CASE Next
      BY <2>2, DiscoverKeepsInv, BeginMissedKeepsInv, EndSourceKeepsInv, TakeTaskKeepsInv,
         LookupFailsKeepsInv, EndTaskKeepsInv, EndRunKeepsInv DEF Next
    <2>3. QED
      BY <2>1, <2>2
  <1>2. QED
    BY <1>1, InitInv, PTL DEF Spec

(* However many sources parse at once, no more files are open than the
   budget has permits (parse-budget.ts).                                      *)
THEOREM BudgetHolds == Spec => []WithinBudget
  <1>1. RunInv => WithinBudget
    <2> SUFFICES ASSUME RunInv PROVE WithinBudget
      OBVIOUS
    <2>1. Cardinality(Holding) \in Nat
      BY HoldersFinite, FS_CardinalityType
    <2>2. Cardinality(Holding) <= MaxParallel
      BY <2>1, BudgetBounds DEF RunInv, BudgetInv, Budget!TypeOK, Conserved
    <2>3. QED
      BY <2>2 DEF WithinBudget, Budget!Holders, Holding
  <1>2. QED
    BY <1>1, RunInvariant, PTL

(* No file is parsed by two loops, nor again after its outcome is final.      *)
THEOREM FilesAreParsedOnce == Spec => []OneLoopPerFile
  <1>1. RunInv => OneLoopPerFile
    <2> SUFFICES ASSUME RunInv PROVE OneLoopPerFile
      OBVIOUS
    <2>1. ASSUME NEW l \in Loops, NEW m \in Loops, Source(l) = Source(m), doing[l] # 0, doing[l] = doing[m]
          PROVE  l = m
      BY <2>1, LoopFacts DEF RunInv, SourceInv, LoopsShare
    <2>2. ASSUME NEW l \in Loops, doing[l] # 0
          PROVE  outcome[<<Source(l), doing[l]>>] \in {"none", "missed"}
      <3> DEFINE s == Source(l)
                 n == doing[l]
      <3>1. s \in Sources /\ n \in 1..FileCount[s]
        BY <2>2, LoopFacts, FileFacts DEF RunInv, RunTypeOK
      <3>2. stage[s] \in Looping /\ Todo(s, n)
        BY <2>2, <3>1 DEF RunInv, SourceInv, LoopsShare, Todo
      <3>3. QED
        BY <3>1, <3>2 DEF RunInv, SourceInv, OutcomesFit, Looping
    <2>3. QED
      BY <2>1, <2>2 DEF OneLoopPerFile
  <1>2. QED
    BY <1>1, RunInvariant, PTL

(* A source that answers has dealt with every file it discovered.             *)
THEOREM SourcesSettleInFull == Spec => []SettledInFull
  <1>1. RunInv => SettledInFull
    BY FileFacts DEF RunInv, SourceInv, OutcomesFit, RejectedInFull, SettledInFull
  <1>2. QED
    BY <1>1, RunInvariant, PTL

(* What a settled source parsed for the store is in it, unless the store
   failed.                                                                    *)
THEOREM NoBatchIsLeftBehind == Spec => []ParsedIsStored
  <1>1. RunInv => ParsedIsStored
    BY DEF RunInv, SourceInv, BatchesHold, ParsedIsStored
  <1>2. QED
    BY <1>1, RunInvariant, PTL

(* The store is closed under nobody.                                          *)
THEOREM StoreOpenWhileParsing == Spec => []OpenWhileParsing
  <1>1. RunInv => OpenWhileParsing
    <2> SUFFICES ASSUME RunInv, ~storeOpen, ~storeDown, NEW l \in Loops
                 PROVE  doing[l] = 0 /\ place[l] = "out"
      BY DEF OpenWhileParsing
    <2>1. Source(l) \in Sources /\ stage[Source(l)] \notin Looping
      BY LoopFacts DEF RunInv, OpenUntilSettled, AllSettled, Settled, Looping
    <2>2. doing[l] = 0
      BY <2>1 DEF RunInv, SourceInv, LoopsShare
    <2>3. QED
      BY <2>2 DEF RunInv, PlacesFit
  <1>2. QED
    BY <1>1, RunInvariant, PTL
===============================================================================
