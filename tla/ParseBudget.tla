----------------------------- MODULE ParseBudget -----------------------------
(***************************************************************************)
(* The budget of files parsed at once, over every source of a run          *)
(* (parse-budget.ts): a counting semaphore whose waiters queue in order.   *)
(* release hands its permit to the oldest waiter without putting it back,  *)
(* so nobody who comes later takes it first.                               *)
(***************************************************************************)
EXTENDS Integers, Sequences, FiniteSets

CONSTANTS Loops,        \* the task loops that parse files under the budget
          MaxParallel   \* its permits (maxParallelFileParsing)

VARIABLES permits,      \* availablePermits
          waiters,      \* waitingResolvers, oldest first
          place         \* where each loop stands: "out", "waiting" or "in"

vars == <<permits, waiters, place>>

Init ==
    /\ permits = MaxParallel
    /\ waiters = <<>>
    /\ place = [l \in Loops |-> "out"]

\* acquire: takes a permit, or waits for one to be handed over.
Acquire(l) ==
    /\ place[l] = "out"
    /\ \/ /\ permits > 0
          /\ permits' = permits - 1
          /\ place' = [place EXCEPT ![l] = "in"]
          /\ UNCHANGED waiters
       \/ /\ permits = 0
          /\ waiters' = Append(waiters, l)
          /\ place' = [place EXCEPT ![l] = "waiting"]
          /\ UNCHANGED permits

\* (mutants) A permit handed over is also put back; or it is put back and
\* nobody is woken.
ReleaseTwice(l) ==
    /\ place[l] = "in"
    /\ permits' = permits + 1
    /\ waiters' = IF waiters = <<>> THEN <<>> ELSE Tail(waiters)
    /\ place' = IF waiters = <<>> THEN [place EXCEPT ![l] = "out"]
                ELSE [place EXCEPT ![l] = "out", ![Head(waiters)] = "in"]
ReleaseWakesNone(l) ==
    /\ place[l] = "in"
    /\ permits' = permits + 1
    /\ place' = [place EXCEPT ![l] = "out"]
    /\ UNCHANGED waiters

\* release, in the task's finally: the oldest waiter runs with this permit.
Release(l) ==
    /\ place[l] = "in"
    /\ \/ /\ waiters # <<>>
          /\ waiters' = Tail(waiters)
          /\ place' = [place EXCEPT ![l] = "out", ![Head(waiters)] = "in"]
          /\ UNCHANGED permits
       \/ /\ waiters = <<>>
          /\ permits' = permits + 1
          /\ place' = [place EXCEPT ![l] = "out"]
          /\ UNCHANGED waiters

Next == \E l \in Loops : Acquire(l) \/ Release(l)

Spec == Init /\ [][Next]_vars

----------------------------------------------------------------------------
Holders == {l \in Loops : place[l] = "in"}

\* Type correctness.
TypeOK ==
    /\ permits \in 0..MaxParallel
    /\ waiters \in Seq(Loops)
    /\ place \in [Loops -> {"out", "waiting", "in"}]

(* The waiters are the loops that wait, each queued once: a woken loop is not
   woken twice, and nobody waits outside the queue, where no release would
   find it.                                                                 *)
WaitersQueued ==
    /\ \A i, j \in 1..Len(waiters) : waiters[i] = waiters[j] => i = j
    /\ \A l \in Loops : place[l] = "waiting" <=> \E i \in 1..Len(waiters) : waiters[i] = l

(* No permit is lost or made up as it is handed over: those free and those
   held are always MaxParallel together.                                    *)
PermitsConserved == permits + Cardinality(Holders) = MaxParallel

(* Nobody waits while a permit is free. *)
NoneWaitsInVain == waiters # <<>> => permits = 0
==============================================================================
