---------------------------- MODULE StatuslineLock ----------------------------
(***************************************************************************)
(* The lock file that overlapping statusline ticks share, so that a cold   *)
(* store is parsed by one of them (run-statusline.ts, statusline-cache.ts). *)
(*                                                                         *)
(* Every tick is a process; each step is one file system call, or one look *)
(* at a process or the clock.  A tick creates at most one lock file, so the *)
(* file is named after it, wherever it is renamed to.  A tick that finds a *)
(* stale lock renames it to a path of its own, looks at what it got, and   *)
(* removes it or puts it back.                                             *)
(***************************************************************************)
EXTENDS Integers, FiniteSets

CONSTANTS Ticks,       \* the statusline processes
          None,        \* no file; nothing read
          Empty,       \* what a lock reads as before its token is written
          MaxFaults,   \* bound: crashes and failing system calls together
          MaxAged      \* bound: locks that grow older than two minutes

ASSUME TickAssumption ==
    /\ None \notin Ticks /\ Empty \notin Ticks /\ None # Empty
    /\ MaxFaults \in Nat /\ MaxAged \in Nat

VARIABLES
    pc,        \* where each tick is
    path,      \* the lock file at lockPath
    claim,     \* the lock file at each tick's claimPath
    written,   \* the locks whose token was written
    old,       \* the modification times by now more than two minutes ago
    seen,      \* the lock each tick read, its content and its time
    bare,      \* the ticks that go on without the lock
    line,      \* a recent line is stored
    built,     \* the ticks that stored the line they built (history)
    took,      \* the ticks that renamed a lock away (history)
    mistook,   \* those that got another lock than the one they judged (history)
    overheld,  \* the ticks whose lock grew old while they still ran (history)
    faults     \* crashes and failures so far

fileVars == <<path, claim, written, old>>
history == <<took, mistook, overheld>>
vars == <<pc, fileVars, seen, bare, line, built, history, faults>>

\* What identifies a lock: its content, and its time, which the write of the
\* token moves on.  No two locks are written at the same time.
Content(f) == IF f \in written THEN f ELSE Empty
Mtime(f) == <<f, IF f \in written THEN "written" ELSE "created">>
Lock(f) == [content |-> Content(f), mtime |-> Mtime(f)]
NoTime == <<None, "unread">>
NoLock == [content |-> None, mtime |-> NoTime]

Ended(t) == pc[t] \in {"exited", "crashed"}

Init ==
    /\ pc = [t \in Ticks |-> "start"]
    /\ path = None
    /\ claim = [t \in Ticks |-> None]
    /\ written = {}
    /\ old = {}
    /\ seen = [t \in Ticks |-> NoLock]
    /\ bare = {}
    /\ line = FALSE
    /\ built = {}
    /\ took = {}
    /\ mistook = {}
    /\ overheld = {}
    /\ faults = 0

Goto(t, from, to) == pc[t] = from /\ pc' = [pc EXCEPT ![t] = to]

----------------------------------------------------------------------------
(* acquireStatuslineLock.                                                  *)

\* runStatusline: a tick that finds a recent line prints it, and that is all.
Start(t) ==
    /\ Goto(t, "start", IF line THEN "print" ELSE "open")
    /\ UNCHANGED <<fileVars, seen, bare, line, built, history, faults>>

\* open with 'wx' creates the lock, empty, or finds one.
Open(t) ==
    /\ Goto(t, "open", IF path = None THEN "write" ELSE "read")
    /\ path' = IF path = None THEN t ELSE path
    /\ UNCHANGED <<claim, written, old, seen, bare, line, built, history, faults>>

\* The token goes to the file that was opened, wherever it is by now.
WriteToken(t) ==
    /\ Goto(t, "write", "locked")
    /\ written' = written \cup {t}
    /\ UNCHANGED <<path, claim, old, seen, bare, line, built, history, faults>>

\* readLock: content and time are read at once, each in its own call; either
\* may find the lock gone, and then there is nothing to judge.
ReadFirst(t) ==
    /\ \/ path = None /\ Goto(t, "read", "judge") /\ UNCHANGED seen
       \/ /\ path # None
          /\ Goto(t, "read", "reread")
          /\ seen' \in {[seen EXCEPT ![t] = [content |-> Content(path), mtime |-> NoTime]],
                       [seen EXCEPT ![t] = [content |-> None, mtime |-> Mtime(path)]]}
    /\ UNCHANGED <<fileVars, bare, line, built, history, faults>>
ReadSecond(t) ==
    /\ Goto(t, "reread", "judge")
    /\ seen' = [seen EXCEPT ![t] =
                  IF path = None THEN NoLock
                  ELSE [content |-> IF @.content = None THEN Content(path) ELSE @.content,
                        mtime |-> IF @.content = None THEN @.mtime ELSE Mtime(path)]]
    /\ UNCHANGED <<fileVars, bare, line, built, history, faults>>

\* isStaleLock: too old, or written by a process that is gone.
Stale(lock) ==
    /\ lock # NoLock
    /\ lock.mtime \in old \/ (lock.content \in Ticks /\ Ended(lock.content))

\* A stale lock is reclaimed; else the tick tries again, after a while.
Judge(t) ==
    /\ Goto(t, "judge", IF Stale(seen[t]) THEN "rename" ELSE "open")
    /\ seen' = [seen EXCEPT ![t] = IF Stale(@) THEN @ ELSE NoLock]
    /\ UNCHANGED <<fileVars, bare, line, built, history, faults>>

\* (mutant) The deadline is not looked at.
NeverGivesUp(t) == FALSE /\ UNCHANGED vars

\* Or its deadline passed: it prints the line it has, or "warming up".
GiveUp(t) ==
    /\ ~Stale(seen[t])
    /\ Goto(t, "judge", "print")
    /\ seen' = [seen EXCEPT ![t] = NoLock]
    /\ UNCHANGED <<fileVars, bare, line, built, history, faults>>

----------------------------------------------------------------------------
(* reclaimStaleLock.                                                       *)

\* The lock at the path, which may be another by now, becomes this tick's to
\* look at; or it is gone.
Rename(t) ==
    /\ \/ /\ path = None
          /\ Goto(t, "rename", "open")
          /\ seen' = [seen EXCEPT ![t] = NoLock]
          /\ UNCHANGED <<path, claim, took, mistook>>
       \/ /\ path # None
          /\ Goto(t, "rename", "claimed")
          /\ claim' = [claim EXCEPT ![t] = path]
          /\ path' = None
          /\ took' = took \cup {t}
          /\ mistook' = IF Lock(path) = seen[t] THEN mistook ELSE mistook \cup {t}
          /\ UNCHANGED seen
    /\ UNCHANGED <<written, old, bare, line, built, overheld, faults>>

\* (mutant) The content alone identifies the lock.
SameContent(t) == Content(claim[t]) = seen[t].content

\* The lock it got is the one it judged.
SameLock(t) == Lock(claim[t]) = seen[t]

\* Reading the claimed lock, whose two calls may straddle its one write: what
\* they read then matches no lock, as an empty one that is written would not.
\* (Not modelled: a read that fails here, which puts the lock back.)
Compare(t) ==
    /\ Goto(t, "claimed", IF SameLock(t) THEN "remove" ELSE "restore")
    /\ UNCHANGED <<fileVars, seen, bare, line, built, history, faults>>

Remove(t) ==
    /\ Goto(t, "remove", "open")
    /\ claim' = [claim EXCEPT ![t] = None]
    /\ seen' = [seen EXCEPT ![t] = NoLock]
    /\ UNCHANGED <<path, written, old, bare, line, built, history, faults>>

\* (mutant) The lock is linked to the path, and stays at the claim path too.
LinkBack(t) ==
    /\ Goto(t, "restore", "open")
    /\ path' = claim[t]
    /\ seen' = [seen EXCEPT ![t] = NoLock]
    /\ UNCHANGED <<claim, written, old, bare, line, built, history, faults>>

\* A rename replaces whatever is at the path meanwhile.
PutBack(t) ==
    /\ Goto(t, "restore", "open")
    /\ path' = claim[t]
    /\ claim' = [claim EXCEPT ![t] = None]
    /\ seen' = [seen EXCEPT ![t] = NoLock]
    /\ UNCHANGED <<written, old, bare, line, built, history, faults>>

----------------------------------------------------------------------------
(* runStatusline, under the lock.                                          *)

\* (mutant) The line the last holder may have stored is not looked for.
BuildsAnyway(t) ==
    /\ Goto(t, "locked", "build")
    /\ UNCHANGED <<fileVars, seen, bare, line, built, history, faults>>

\* The line is looked for once more, under the lock.
LookAgain(t) ==
    /\ Goto(t, "locked", IF line THEN "release" ELSE "build")
    /\ UNCHANGED <<fileVars, seen, bare, line, built, history, faults>>

\* The line is built and stored; a build that throws, or a line that cannot be
\* stored, leaves none.
Build(t) ==
    /\ Goto(t, "build", "release")
    /\ \/ line' = TRUE /\ built' = built \cup {t}
       \/ UNCHANGED <<line, built>>
    /\ UNCHANGED <<fileVars, seen, bare, history, faults>>

\* (mutant) A tick that went on without a lock removes whatever is there.
HoldsAny(t) == path # None

\* release reads the lock, and removes it if its token is the tick's own.
HoldsPath(t) == t \notin bare /\ path = t /\ t \in written
Release(t) ==
    /\ Goto(t, "release", IF HoldsPath(t) THEN "unlink" ELSE "print")
    /\ UNCHANGED <<fileVars, seen, bare, line, built, history, faults>>
Unlink(t) ==
    /\ Goto(t, "unlink", "print")
    /\ path' = None
    /\ UNCHANGED <<claim, written, old, seen, bare, line, built, history, faults>>

PrintLine(t) ==
    /\ Goto(t, "print", "exited")
    /\ UNCHANGED <<fileVars, seen, bare, line, built, history, faults>>

----------------------------------------------------------------------------
(* The system.                                                             *)

\* A tick is killed, or a call fails as it acquires the lock: it goes on
\* without one, and what it did so far stays.
Crash(t) ==
    /\ ~Ended(t) /\ pc[t] # "start"
    /\ pc' = [pc EXCEPT ![t] = "crashed"]
    /\ faults < MaxFaults /\ faults' = faults + 1
    /\ UNCHANGED <<fileVars, seen, bare, line, built, history>>
CallFails(t) ==
    /\ pc[t] \in {"open", "write", "rename", "remove", "restore"}
    /\ pc' = [pc EXCEPT ![t] = "locked"]
    /\ bare' = bare \cup {t}
    /\ seen' = [seen EXCEPT ![t] = NoLock]
    /\ faults < MaxFaults /\ faults' = faults + 1
    /\ UNCHANGED <<fileVars, line, built, history>>

\* Two minutes pass for the lock at the path, or one renamed away.
Age(f) ==
    /\ \/ path = f
       \/ \E t \in Ticks : claim[t] = f
    /\ Cardinality(old) < MaxAged
    /\ old' = old \cup {Mtime(f)}
    /\ overheld' = IF Ended(f) THEN overheld ELSE overheld \cup {f}
    /\ UNCHANGED <<pc, path, claim, written, seen, bare, line, built, took, mistook, faults>>

Step(t) ==
    \/ Start(t) \/ Open(t) \/ WriteToken(t) \/ ReadFirst(t) \/ ReadSecond(t) \/ Judge(t)
    \/ GiveUp(t) \/ Rename(t) \/ Compare(t) \/ Remove(t) \/ PutBack(t)
    \/ LookAgain(t) \/ Build(t) \/ Release(t) \/ Unlink(t) \/ PrintLine(t)

Next == \E t \in Ticks : Step(t) \/ Crash(t) \/ CallFails(t) \/ Age(t)

Spec == Init /\ [][Next]_vars

\* A process that runs goes on; a tick that keeps finding the lock held comes
\* to its deadline, a second after it started to wait.
TickFairness == \A t \in Ticks : WF_vars(Step(t)) /\ SF_vars(GiveUp(t))

----------------------------------------------------------------------------
\* Type correctness.
Files == Ticks \cup {None}
Mtimes == Ticks \X {"created", "written"}
TypeOK ==
    /\ pc \in [Ticks -> {"start", "open", "write", "read", "reread", "judge", "rename",
                         "claimed", "remove", "restore", "locked", "build", "release",
                         "unlink", "print", "exited", "crashed"}]
    /\ path \in Files
    /\ claim \in [Ticks -> Files]
    /\ written \subseteq Ticks
    /\ old \subseteq Mtimes
    /\ seen \in [Ticks -> [content : Files \cup {Empty}, mtime : Mtimes \cup {NoTime}]]
    /\ bare \subseteq Ticks
    /\ line \in BOOLEAN
    /\ built \subseteq Ticks
    /\ took \subseteq Ticks /\ mistook \subseteq took
    /\ overheld \subseteq Ticks
    /\ faults \in Nat

(* A lock file is in one place at most: a rename takes it from the path, and
   only a tick that claimed it puts it back.                                *)
OnePlace ==
    /\ \A t, u \in Ticks : claim[t] # None /\ claim[t] = claim[u] => t = u
    /\ \A t \in Ticks : path # None => claim[t] # path

Holding == {t \in Ticks : pc[t] \in {"locked", "build"} /\ t \notin bare}

\* No tick renamed another lock than the one it judged, and none held its lock
\* for two minutes.
Calm == mistook = {} /\ overheld = {}

(* While every tick that reclaims gets the lock it judged, and no running
   tick holds its lock for two minutes, one tick at a time holds the lock and
   builds: exclusion hangs on nothing else, not on how many ticks wait, read
   and reclaim, nor on which of them die.                                   *)
OneHolder == Calm => Cardinality(Holding) <= 1

(* And then the line is built once, however many ticks wait for it.         *)
BuiltOnce == Calm /\ bare = {} => Cardinality(built) <= 1

(* No reclaim removes a lock that is good: what is removed is old, or its
   tick is gone, although the lock was renamed after it was judged.         *)
ReclaimsOnlyStale ==
    \A t \in Ticks : pc[t] = "remove" =>
        \/ Ended(claim[t])
        \/ \E w \in {"created", "written"} : <<claim[t], w>> \in old

(* Every tick ends with a line, whatever lock it finds: one whose tick died
   before it wrote its token, one that is held, one put back by another.    *)
EveryTickPrints == \A t \in Ticks : pc[t] = "open" ~> Ended(t)
==============================================================================
