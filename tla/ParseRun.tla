------------------------------- MODULE ParseRun -------------------------------
(***************************************************************************)
(* The parse phase of one run (build-usage-data-parsing.ts): every source  *)
(* parses its files in task loops that share one budget (ParseBudget), and *)
(* hands what it parsed to the event store in batches.  A source whose     *)
(* files a worker can parse looks all of them up first and parses those it *)
(* missed in a second round of loops.  A store that fails once is disabled *)
(* for the rest of the run.  What one source does never stops another.     *)
(***************************************************************************)
EXTENDS Integers, Sequences, FiniteSets

CONSTANTS Sources,       \* the source adapters the run parses
          FileCount,     \* how many files each source discovers
          Eligible,      \* the sources whose files a worker can parse
          MaxParallel,   \* maxParallelFileParsing
          BatchLimit     \* files whose rows fill a batch (STORE_WRITE_BATCH_EVENTS)

ASSUME RunAssumption ==
    /\ IsFiniteSet(Sources)
    /\ FileCount \in [Sources -> Nat]
    /\ Eligible \subseteq Sources
    /\ MaxParallel \in Nat \ {0}
    /\ BatchLimit \in Nat \ {0}

Loops == Sources \X (1..MaxParallel)
FilesOf(s) == {s} \X (1..FileCount[s])
AllFiles == UNION {FilesOf(s) : s \in Sources}
Source(l) == l[1]
LoopsOf(s) == {s} \X (1..MaxParallel)

VARIABLES
    permits, waiters, place,   \* the budget
    stage,       \* where each source's parseAdapterEvents is
    tasks,       \* per source, the files its task loops have not taken
    doing,       \* the file number a loop took, 0 between two
    ended,       \* the loops that found no task left
    outcome,     \* what became of each file
    pending,     \* pendingStoreWrites of each source
    due,         \* files handed to pendingStoreWrites (history)
    stored,      \* files whose rows the store committed in this run
    storeDown,   \* failureState.disabled
    storeOpen,   \* the run's store handle is open
    run          \* parseSelectedAdapters: "parsing" or "ended"

budgetVars == <<permits, waiters, place>>
sourceVars == <<stage, tasks, doing, ended, outcome>>
storeVars == <<pending, due, stored, storeDown, storeOpen>>
vars == <<budgetVars, sourceVars, storeVars, run>>

Budget == INSTANCE ParseBudget WITH Loops <- Loops, MaxParallel <- MaxParallel,
                                    permits <- permits, waiters <- waiters, place <- place

Looping == {"inline", "resolve", "missed"}
Settled == {"fulfilled", "rejected"}

\* The file numbers 1..n in order, as a task list.
Numbers(n) == [i \in 1..n |-> i]

\* With no store, or one that did not open, the latch is set from the start.
Init ==
    /\ Budget!Init
    /\ stage = [s \in Sources |-> "discover"]
    /\ tasks = [s \in Sources |-> <<>>]
    /\ doing = [l \in Loops |-> 0]
    /\ ended = {}
    /\ outcome = [f \in AllFiles |-> "none"]
    /\ pending = [s \in Sources |-> {}]
    /\ due = {}
    /\ stored = {}
    /\ storeDown \in BOOLEAN
    /\ storeOpen = ~storeDown
    /\ run = "parsing"

----------------------------------------------------------------------------
\* discoverFiles: throws, finds nothing, or gives the loops their tasks.
Discover(s) ==
    /\ stage[s] = "discover"
    /\ \/ /\ stage' = [stage EXCEPT ![s] = "rejected"]
          /\ UNCHANGED tasks
       \/ /\ FileCount[s] = 0
          /\ stage' = [stage EXCEPT ![s] = "fulfilled"]
          /\ UNCHANGED tasks
       \/ /\ FileCount[s] > 0
          /\ stage' = [stage EXCEPT ![s] = IF s \in Eligible THEN "resolve" ELSE "inline"]
          /\ tasks' = [tasks EXCEPT ![s] = Numbers(FileCount[s])]
    /\ UNCHANGED <<budgetVars, doing, ended, outcome, storeVars, run>>

\* (mutant) The next task is read before the wait, and taken off only after.
TakeTaskTooLate(l) ==
    LET s == Source(l) IN
    /\ stage[s] \in Looping
    /\ place[l] = "out" /\ doing[l] = 0 /\ l \notin ended
    /\ \/ /\ tasks[s] = <<>>
          /\ ended' = ended \cup {l}
          /\ UNCHANGED <<budgetVars, doing, tasks>>
       \/ /\ tasks[s] # <<>>
          /\ doing' = [doing EXCEPT ![l] = Head(tasks[s])]
          /\ tasks' = IF permits > 0 THEN [tasks EXCEPT ![s] = Tail(@)] ELSE tasks
          /\ Budget!Acquire(l)
          /\ UNCHANGED ended
    /\ UNCHANGED <<stage, outcome, storeVars, run>>

\* A loop's next round (runTaskLoop): it takes the next task before it asks
\* for a permit, or ends.
TakeTask(l) ==
    LET s == Source(l) IN
    /\ stage[s] \in Looping
    /\ place[l] = "out" /\ doing[l] = 0 /\ l \notin ended
    /\ \/ /\ tasks[s] = <<>>
          /\ ended' = ended \cup {l}
          /\ UNCHANGED <<budgetVars, doing, tasks>>
       \/ /\ tasks[s] # <<>>
          /\ doing' = [doing EXCEPT ![l] = Head(tasks[s])]
          /\ tasks' = [tasks EXCEPT ![s] = Tail(@)]
          /\ Budget!Acquire(l)
          /\ UNCHANGED ended
    /\ UNCHANGED <<stage, outcome, storeVars, run>>

\* (mutant) A batch the store refused is dropped without a word.
FlushSwallowsFailure(s, batch) ==
    /\ pending' = [pending EXCEPT ![s] = {}]
    /\ UNCHANGED storeDown
    /\ \/ ~storeDown /\ storeOpen /\ stored' = stored \cup batch
       \/ UNCHANGED stored

\* flushPendingStoreWrites: one transaction stores the whole batch, or fails
\* and disables the store; either way the batch is dropped.
Flush(s, batch) ==
    /\ pending' = [pending EXCEPT ![s] = {}]
    /\ \/ /\ ~storeDown /\ storeOpen
          /\ stored' = stored \cup batch
          /\ UNCHANGED storeDown
       \/ /\ storeDown \/ batch # {}
          /\ storeDown' = TRUE
          /\ UNCHANGED stored

\* What a task can find out of its file, by the round it runs in.  A hit needs
\* the store.
Outcomes(s) ==
    CASE stage[s] = "inline" -> {"skipped", "parsed", "failed"}
      [] stage[s] = "resolve" -> {"skipped", "missed", "parsed", "failed"}
      [] stage[s] = "missed" -> {"parsed", "failed"}
Hits(s) == IF stage[s] \in {"inline", "resolve"} /\ ~storeDown THEN {"hit"} ELSE {}

\* recordParsedFile: a parsed file with a fingerprint joins the batch, which
\* is flushed once it is large enough.
RecordForStore(s, f, result, fingerprinted) ==
    IF result = "parsed" /\ fingerprinted
    THEN /\ due' = due \cup {f}
         /\ IF Cardinality(pending[s] \cup {f}) >= BatchLimit
            THEN Flush(s, pending[s] \cup {f})
            ELSE /\ pending' = [pending EXCEPT ![s] = @ \cup {f}]
                 /\ UNCHANGED <<stored, storeDown>>
    ELSE UNCHANGED <<pending, due, stored, storeDown>>

\* A store read of a lookup throws: the store is disabled, the file is a miss.
LookupFails(l) ==
    /\ place[l] = "in" /\ doing[l] # 0
    /\ stage[Source(l)] \in {"inline", "resolve"}
    /\ ~storeDown
    /\ storeDown' = TRUE
    /\ UNCHANGED <<budgetVars, sourceVars, pending, due, stored, storeOpen, run>>

\* The task of a loop ends; its permit is released whatever came of it.
EndTask(l) ==
    LET s == Source(l)
        f == <<s, doing[l]>> IN
    /\ place[l] = "in" /\ doing[l] # 0
    /\ \E result \in Outcomes(s) \cup Hits(s), fingerprinted \in BOOLEAN :
         /\ outcome' = [outcome EXCEPT ![f] = result]
         /\ RecordForStore(s, f, result, fingerprinted)
    /\ doing' = [doing EXCEPT ![l] = 0]
    /\ Budget!Release(l)
    /\ UNCHANGED <<stage, tasks, ended, storeOpen, run>>

\* (mutant) The first loop to end ends all.
FirstEnded(s) == LoopsOf(s) \cap ended # {}

Missed(s) == {n \in 1..FileCount[s] : outcome[<<s, n>>] = "missed"}
AllEnded(s) == LoopsOf(s) \subseteq ended

\* parseWorkerEligibleFiles: the missed files, largest first, are parsed in a
\* second round, on the pool or inline (ParsePool); sizes are any.
BeginMissed(s) ==
    /\ stage[s] = "resolve" /\ AllEnded(s)
    /\ stage' = [stage EXCEPT ![s] = "missed"]
    /\ \E order \in [1..Cardinality(Missed(s)) -> Missed(s)] :
         /\ \A i, j \in DOMAIN order : order[i] = order[j] => i = j
         /\ tasks' = [tasks EXCEPT ![s] = order]
    /\ ended' = ended \ LoopsOf(s)
    /\ UNCHANGED <<budgetVars, doing, outcome, storeVars, run>>

\* The last batch is flushed before a source whose files all failed throws.
EndSource(s) ==
    /\ stage[s] \in {"inline", "missed"} /\ AllEnded(s)
    /\ Flush(s, pending[s])
    /\ stage' = [stage EXCEPT ![s] =
                   IF \A f \in FilesOf(s) : outcome[f] = "failed" THEN "rejected" ELSE "fulfilled"]
    /\ UNCHANGED <<budgetVars, tasks, doing, ended, outcome, due, storeOpen, run>>

\* parseSelectedAdapters goes on once every source settled (allSettled): the
\* store is closed, if this run opened it, and the pool terminated.
\* (mutant) The run goes on at the first source that fails (Promise.all).
AllFulfilledOrOneRejected ==
    \/ \A s \in Sources : stage[s] \in Settled
    \/ \E s \in Sources : stage[s] = "rejected"

AllSettled == \A s \in Sources : stage[s] \in Settled
EndRun ==
    /\ run = "parsing"
    /\ AllSettled
    /\ storeOpen' \in {FALSE, storeOpen}
    /\ run' = "ended"
    /\ UNCHANGED <<budgetVars, sourceVars, pending, due, stored, storeDown>>

Next ==
    \/ \E s \in Sources : Discover(s) \/ BeginMissed(s) \/ EndSource(s)
    \/ \E l \in Loops : TakeTask(l) \/ LookupFails(l) \/ EndTask(l)
    \/ EndRun

\* Every promise the run waits for settles: file reads end (ParsePool settles
\* a worker's), and the event loop runs each continuation.
Fairness ==
    /\ WF_vars(EndRun)
    /\ \A s \in Sources : WF_vars(Discover(s)) /\ WF_vars(BeginMissed(s)) /\ WF_vars(EndSource(s))
    /\ \A l \in Loops : WF_vars(TakeTask(l)) /\ WF_vars(EndTask(l))

Spec == Init /\ [][Next]_vars
FairSpec == Spec /\ Fairness

----------------------------------------------------------------------------
\* Type correctness.
TypeOK ==
    /\ Budget!TypeOK
    /\ stage \in [Sources -> {"discover"} \cup Looping \cup Settled]
    /\ \A s \in Sources : tasks[s] \in Seq(1..FileCount[s])
    /\ \A l \in Loops : doing[l] \in 0..FileCount[Source(l)]
    /\ ended \subseteq Loops
    /\ outcome \in [AllFiles -> {"none", "skipped", "hit", "missed", "parsed", "failed"}]
    /\ \A s \in Sources : pending[s] \subseteq FilesOf(s)
    /\ due \subseteq AllFiles /\ stored \subseteq AllFiles
    /\ storeDown \in BOOLEAN /\ storeOpen \in BOOLEAN
    /\ run \in {"parsing", "ended"}

(* Never more files parsed at once than the budget has permits, over all
   sources: none is made up as one loop hands its permit to another.        *)
WithinBudget == Cardinality(Budget!Holders) <= MaxParallel

(* No file is worked on by two loops at once, nor again after it was
   reported: its outcome is final, but for a miss, which the second round
   settles (nextTaskIndex is advanced before the loop waits for a permit).  *)
OneLoopPerFile ==
    /\ \A l, m \in Loops : Source(l) = Source(m) /\ doing[l] # 0 /\ doing[l] = doing[m] => l = m
    /\ \A l \in Loops : doing[l] # 0 => outcome[<<Source(l), doing[l]>>] \in {"none", "missed"}

(* A source that answers has dealt with every file it discovered, in both
   rounds, and fails only when all of them did, or when it could not list
   them: no file is dropped between the rounds.                             *)
SettledInFull ==
    \A s \in Sources :
        /\ stage[s] = "fulfilled" =>
             \A f \in FilesOf(s) : outcome[f] \notin {"none", "missed"}
        /\ stage[s] = "rejected" =>
             \/ \A f \in FilesOf(s) : outcome[f] = "none"
             \/ \A f \in FilesOf(s) : outcome[f] = "failed"

(* Everything a settled source parsed for the store is in it, unless the
   store failed: no batch is left behind, not even by a source that ends in
   an error, or whose last batch is short.                                  *)
ParsedIsStored ==
    \A s \in Sources : stage[s] \in Settled =>
        pending[s] = {} /\ (storeDown \/ due \cap FilesOf(s) \subseteq stored)

(* The store is closed under nobody: while a source still parses, however
   another ended, the handle it will flush to is open.                      *)
OpenWhileParsing ==
    ~storeOpen => storeDown \/ \A l \in Loops : doing[l] = 0 /\ place[l] = "out"

(* The run ends, whatever fails, and however the sources share the budget.  *)
RunEnds == <>(run = "ended")
==============================================================================
