------------------------------ MODULE ParsePool ------------------------------
(***************************************************************************)
(* The pool of parse worker threads of one run (parse-worker-pool.ts).     *)
(*                                                                         *)
(* The main thread keeps a queue of tasks and, per spawned worker, the     *)
(* tasks it posted and has no answer to.  Its handlers (a call to parse, a *)
(* message, an exit, terminate) run to completion: dispatch's loop takes   *)
(* several steps here, and `dispatching` keeps every other handler out     *)
(* until it ends.  The workers are threads of their own, and step at any   *)
(* time.  A worker may die, or post an answer nobody asked for; a spawn or *)
(* a post may throw.  Any of these disables the pool, and everything that  *)
(* waits is parsed on the main thread.                                     *)
(***************************************************************************)
EXTENDS Integers, Sequences

CONSTANTS Tasks,        \* the calls to parse, each also the id of its task
          WorkerCount,  \* workers the pool may spawn (workerCount)
          Depth,        \* tasks a worker holds at once (WORKER_TASK_DEPTH)
          NoTask        \* the id of a malformed answer

ASSUME PoolAssumption ==
    /\ WorkerCount \in Nat \ {0}
    /\ Depth \in Nat \ {0}
    /\ NoTask \notin Tasks

Workers == 1..WorkerCount
Answers == [id : Tasks \cup {NoTask}, ok : BOOLEAN]

VARIABLES
    queue,        \* tasks no worker has yet, oldest first
    spawned,      \* slots.length: workers 1..spawned have a slot
    held,         \* slot.tasks of each worker: posted, not answered
    disabled,     \* the pool fell back to the main thread, for good
    dispatching,  \* the main thread is inside dispatch's loop
    promise,      \* what each caller of parse sees
    inline,       \* inline parses running on the main thread, per task
    resolvedBy,   \* whose parse a task was resolved with (history)
    inbox,        \* messages posted to a worker, and not answered by it
    outbox,       \* a worker's answers on their way to the main thread
    thread,       \* each worker's thread
    faulty,       \* workers that died or posted a stray answer (history)
    threw,        \* a spawn or a post threw (history)
    told,         \* workers whose thread was told to stop (terminateWorkers)
    terminated    \* the owner called terminate

mainVars == <<queue, spawned, held, disabled, dispatching, promise, inline,
              resolvedBy, threw, told, terminated>>
workerVars == <<inbox, outbox, thread, faulty>>
vars == <<mainVars, workerVars>>

Elements(s) == {s[i] : i \in 1..Len(s)}

Init ==
    /\ queue = <<>>
    /\ spawned = 0
    /\ held = [w \in Workers |-> <<>>]
    /\ disabled = FALSE
    /\ dispatching = FALSE
    /\ promise = [t \in Tasks |-> "none"]
    /\ inline = [t \in Tasks |-> 0]
    /\ resolvedBy = [t \in Tasks |-> NoTask]
    /\ inbox = [w \in Workers |-> <<>>]
    /\ outbox = [w \in Workers |-> <<>>]
    /\ thread = [w \in Workers |-> "unspawned"]
    /\ faulty = {}
    /\ threw = FALSE
    /\ told = {}
    /\ terminated = FALSE

----------------------------------------------------------------------------
(* Falling back: disablePool, takePendingTasks and resolveInline.          *)

\* (mutant) The posted tasks are forgotten.
PendingInQueueOnly(q, h) == Elements(q)

\* takePendingTasks: what the queue and the slots hold.
PendingTasks(q, h) == Elements(q) \cup UNION {Elements(h[w]) : w \in Workers}

\* (mutant) Only the workers that hold tasks are terminated.
FallBackLeavesIdle(q, h, n) ==
    /\ disabled' = TRUE
    /\ queue' = <<>>
    /\ held' = [w \in Workers |-> <<>>]
    /\ inline' = [t \in Tasks |->
                    IF t \in PendingTasks(q, h) THEN inline[t] + 1 ELSE inline[t]]
    /\ told' = told \cup {w \in 1..n : h[w] # <<>>}

\* Takes every pending task out of queue q and slots h, and starts its inline
\* parse.  The threads of the n slots are told to stop, and end later (Stop).
FallBack(q, h, n) ==
    /\ disabled' = TRUE
    /\ queue' = <<>>
    /\ held' = [w \in Workers |-> <<>>]
    /\ inline' = [t \in Tasks |->
                    IF t \in PendingTasks(q, h) THEN inline[t] + 1 ELSE inline[t]]
    /\ told' = told \cup 1..n

\* disablePool: once, then it returns at once.
DisablePool(q, h, n) ==
    IF disabled THEN UNCHANGED <<disabled, queue, held, inline, told>>
                ELSE FallBack(q, h, n)

----------------------------------------------------------------------------
(* The main thread.                                                        *)

\* parse: with the pool disabled the caller parses inline, else the task is
\* queued and dispatch starts.
Parse(t) ==
    /\ ~dispatching
    /\ promise[t] = "none"
    /\ promise' = [promise EXCEPT ![t] = "pending"]
    /\ IF disabled
       THEN /\ inline' = [inline EXCEPT ![t] = @ + 1]
            /\ UNCHANGED <<queue, dispatching>>
       ELSE /\ queue' = Append(queue, t)
            /\ dispatching' = TRUE
            /\ UNCHANGED inline
    /\ UNCHANGED <<spawned, held, disabled, resolvedBy, threw, told, terminated, workerVars>>

\* Slots at their least load, for a pool with every worker busy.
Idle(w) == w <= spawned /\ held[w] = <<>>
AllBusy == \A w \in 1..spawned : held[w] # <<>>
Lighter(w) ==
    \A v \in Workers : \/ Len(held[w]) < Len(held[v])
                       \/ Len(held[w]) = Len(held[v]) /\ w <= v
\* (mutant) The depth is off by one.
LeastLoadedBelowDepth(w) == Len(held[w]) + 1 < Depth /\ Lighter(w)
LeastLoaded(w) == Len(held[w]) < Depth /\ Lighter(w)

\* takeIdleSlot returns w: the first idle slot; else a slot it spawns below
\* the pool's size; else the first of the least loaded ones below their depth.
TakesIdle(w) == Idle(w) /\ \A v \in 1..(w - 1) : ~Idle(v)
TakesNew(w) == AllBusy /\ spawned < WorkerCount /\ w = spawned + 1
TakesBusy(w) == AllBusy /\ spawned = WorkerCount /\ LeastLoaded(w)
TakesSlot(w) == TakesIdle(w) \/ TakesNew(w) \/ TakesBusy(w)

\* The head of dispatch's loop.
LoopGoesOn == ~disabled /\ queue # <<>>

\* One round of dispatch: the task at the head of the queue is posted to the
\* slot.  A message posted to a thread that is gone is lost.
DispatchTask(w) ==
    /\ dispatching /\ LoopGoesOn
    /\ TakesSlot(w)
    /\ queue' = Tail(queue)
    /\ held' = [held EXCEPT ![w] = Append(@, Head(queue))]
    /\ spawned' = IF w > spawned THEN w ELSE spawned
    /\ thread' = IF w > spawned THEN [thread EXCEPT ![w] = "up"] ELSE thread
    /\ inbox' = IF thread'[w] = "up"
                THEN [inbox EXCEPT ![w] = Append(@, Head(queue))]
                ELSE inbox
    /\ UNCHANGED <<disabled, dispatching, promise, inline, resolvedBy, outbox,
                   faulty, threw, told, terminated>>

\* dispatch returns: disabled, nothing queued, or no slot with room.
DispatchEnds ==
    /\ dispatching
    /\ ~LoopGoesOn \/ ~\E w \in Workers : TakesSlot(w)
    /\ dispatching' = FALSE
    /\ UNCHANGED <<queue, spawned, held, disabled, promise, inline, resolvedBy,
                   threw, told, terminated, workerVars>>

\* takeIdleSlot throws as it spawns: the task is still queued.
SpawnThrows ==
    /\ dispatching /\ LoopGoesOn
    /\ \E w \in Workers : TakesNew(w)
    /\ DisablePool(queue, held, spawned)
    /\ threw' = TRUE
    /\ dispatching' = FALSE
    /\ UNCHANGED <<spawned, promise, resolvedBy, terminated, workerVars>>

\* postMessage throws: the slot, which may be new, already holds the task.
PostThrows(w) ==
    /\ dispatching /\ LoopGoesOn
    /\ TakesSlot(w)
    /\ spawned' = IF w > spawned THEN w ELSE spawned
    /\ DisablePool(Tail(queue), [held EXCEPT ![w] = Append(@, Head(queue))], spawned')
    /\ thread' = IF w > spawned THEN [thread EXCEPT ![w] = "up"] ELSE thread
    /\ threw' = TRUE
    /\ dispatching' = FALSE
    /\ UNCHANGED <<promise, resolvedBy, terminated, inbox, outbox, faulty>>

\* (mutants) Any answer passes; or the newest task is taken for the oldest.
AnswersAny(w) == held[w] # <<>>
AnswersNewest(w) == held[w] # <<>> /\ Head(outbox[w]).id = held[w][Len(held[w])]

\* The message names the oldest task the slot holds.
AnswersOldest(w) == held[w] # <<>> /\ Head(outbox[w]).id = Head(held[w])

\* (mutant) A worker's failure rejects the call.
SettleOrReject(t, answer) ==
    /\ promise' = [promise EXCEPT ![t] = IF answer.ok THEN "resolved" ELSE "rejected"]
    /\ resolvedBy' = [resolvedBy EXCEPT ![t] = answer.id]
    /\ UNCHANGED inline

\* A parsed file resolves its call; a failed one is parsed again inline.
SettleOrRetry(t, answer) ==
    \/ /\ answer.ok
       /\ promise' = [promise EXCEPT ![t] = "resolved"]
       /\ resolvedBy' = [resolvedBy EXCEPT ![t] = answer.id]
       /\ UNCHANGED inline
    \/ /\ ~answer.ok
       /\ inline' = [inline EXCEPT ![t] = @ + 1]
       /\ UNCHANGED <<promise, resolvedBy>>

\* handleWorkerMessage: dropped once disabled; an answer to any task but the
\* oldest the slot holds disables the pool; a failed parse is retried inline.
ReceiveAnswer(w) ==
    /\ ~dispatching
    /\ outbox[w] # <<>>
    /\ outbox' = [outbox EXCEPT ![w] = Tail(@)]
    /\ \/ /\ disabled
          /\ UNCHANGED <<queue, held, disabled, dispatching, promise, inline,
                         resolvedBy, told>>
       \/ /\ ~disabled
          /\ ~AnswersOldest(w)
          /\ DisablePool(queue, held, spawned)
          /\ UNCHANGED <<dispatching, promise, resolvedBy>>
       \/ /\ ~disabled
          /\ AnswersOldest(w)
          /\ held' = [held EXCEPT ![w] = Tail(@)]
          /\ dispatching' = TRUE
          /\ SettleOrRetry(Head(held[w]), Head(outbox[w]))
          /\ UNCHANGED <<queue, disabled, told>>
    /\ UNCHANGED <<spawned, threw, terminated, inbox, thread, faulty>>

\* (mutant) The exit of a worker with posted tasks is ignored.
ExitOfBusyIgnored(w) ==
    /\ ~dispatching
    /\ thread[w] = "dead"
    /\ thread' = [thread EXCEPT ![w] = "gone"]
    /\ \/ held[w] = <<>> /\ DisablePool(queue, held, spawned)
       \/ held[w] # <<>> /\ UNCHANGED <<disabled, queue, held, inline, told>>
    /\ UNCHANGED <<spawned, dispatching, promise, resolvedBy, threw, terminated,
                   inbox, outbox, faulty>>

\* The 'error' and 'exit' events of a thread that ended.
ReceiveExit(w) ==
    /\ ~dispatching
    /\ thread[w] = "dead"
    /\ thread' = [thread EXCEPT ![w] = "gone"]
    /\ DisablePool(queue, held, spawned)
    /\ UNCHANGED <<spawned, dispatching, promise, resolvedBy, threw, terminated,
                   inbox, outbox, faulty>>

\* resolveInline, or parse's own inline parse, ends and settles the promise; a
\* promise already settled keeps its outcome.
InlineEnds(t) ==
    /\ ~dispatching
    /\ inline[t] > 0
    /\ inline' = [inline EXCEPT ![t] = @ - 1]
    /\ IF promise[t] = "pending"
       THEN \/ /\ promise' = [promise EXCEPT ![t] = "resolved"]
               /\ resolvedBy' = [resolvedBy EXCEPT ![t] = t]
            \/ /\ promise' = [promise EXCEPT ![t] = "rejected"]
               /\ UNCHANGED resolvedBy
       ELSE UNCHANGED <<promise, resolvedBy>>
    /\ UNCHANGED <<queue, spawned, held, disabled, dispatching, threw, told,
                   terminated, workerVars>>

\* terminate: like disablePool, but also when the pool is disabled already.
Terminate ==
    /\ ~dispatching
    /\ ~terminated
    /\ terminated' = TRUE
    /\ FallBack(queue, held, spawned)
    /\ UNCHANGED <<spawned, dispatching, promise, resolvedBy, threw, workerVars>>

----------------------------------------------------------------------------
(* The worker threads.                                                     *)

\* runParseWorker chains its tasks, so it answers the oldest first.
Work(w) ==
    /\ thread[w] = "up"
    /\ inbox[w] # <<>>
    /\ \E ok \in BOOLEAN :
         outbox' = [outbox EXCEPT ![w] = Append(@, [id |-> Head(inbox[w]), ok |-> ok])]
    /\ inbox' = [inbox EXCEPT ![w] = Tail(@)]
    /\ UNCHANGED <<mainVars, thread, faulty>>

\* A thread posts an answer no task called for; once per worker (bound).
Stray(w) ==
    /\ thread[w] = "up"
    /\ w \notin faulty
    /\ faulty' = faulty \cup {w}
    /\ \E id \in Tasks \cup {NoTask} :
         outbox' = [outbox EXCEPT ![w] = Append(@, [id |-> id, ok |-> TRUE])]
    /\ UNCHANGED <<mainVars, inbox, thread>>

\* A thread dies: what was posted to it is lost, and so may be the last of
\* what it posted.
Crash(w) ==
    /\ thread[w] = "up"
    /\ thread' = [thread EXCEPT ![w] = "dead"]
    /\ faulty' = faulty \cup {w}
    /\ inbox' = [inbox EXCEPT ![w] = <<>>]
    /\ \E n \in 0..Len(outbox[w]) : outbox' = [outbox EXCEPT ![w] = SubSeq(@, 1, n)]
    /\ UNCHANGED mainVars

\* A thread that was told to stop ends.
Stop(w) ==
    /\ w \in told
    /\ thread[w] = "up"
    /\ thread' = [thread EXCEPT ![w] = "dead"]
    /\ inbox' = [inbox EXCEPT ![w] = <<>>]
    /\ UNCHANGED <<mainVars, outbox, faulty>>

----------------------------------------------------------------------------
Dispatch == DispatchEnds \/ SpawnThrows \/ \E w \in Workers : DispatchTask(w) \/ PostThrows(w)

Next ==
    \/ \E t \in Tasks : Parse(t) \/ InlineEnds(t)
    \/ Dispatch
    \/ Terminate
    \/ \E w \in Workers :
         ReceiveAnswer(w) \/ ReceiveExit(w) \/ Work(w) \/ Stray(w) \/ Crash(w) \/ Stop(w)

Spec == Init /\ [][Next]_vars

\* The event loop runs every handler it has work for, a thread that was told
\* to stop stops, and a worker ends the parse it started: nothing in the code
\* bounds a parse, so that last one is an assumption on the files.  Callers,
\* faults and terminate owe nothing.
Fairness ==
    /\ WF_vars(Dispatch)
    /\ \A t \in Tasks : WF_vars(InlineEnds(t))
    /\ \A w \in Workers :
         /\ WF_vars(ReceiveAnswer(w))
         /\ WF_vars(ReceiveExit(w))
         /\ WF_vars(Work(w))
         /\ WF_vars(Stop(w))

FairSpec == Spec /\ Fairness

----------------------------------------------------------------------------
(* Properties.                                                             *)

\* Type correctness; a worker never holds more than its depth.
TypeOK ==
    /\ queue \in Seq(Tasks)
    /\ spawned \in 0..WorkerCount
    /\ held \in [Workers -> Seq(Tasks)]
    /\ \A w \in Workers : Len(held[w]) <= Depth
    /\ disabled \in BOOLEAN
    /\ dispatching \in BOOLEAN
    /\ promise \in [Tasks -> {"none", "pending", "resolved", "rejected"}]
    /\ inline \in [Tasks -> Nat]
    /\ resolvedBy \in [Tasks -> Tasks \cup {NoTask}]
    /\ inbox \in [Workers -> Seq(Tasks)]
    /\ outbox \in [Workers -> Seq(Answers)]
    /\ thread \in [Workers -> {"unspawned", "up", "dead", "gone"}]
    /\ faulty \in SUBSET Workers
    /\ threw \in BOOLEAN
    /\ told \in SUBSET Workers
    /\ terminated \in BOOLEAN

Distinct(s) == \A i, j \in 1..Len(s) : s[i] = s[j] => i = j

\* The task has somebody working on it, or meaning to.
InQueue(t) == t \in Elements(queue)
HeldBy(w, t) == t \in Elements(held[w])

(* Every call not settled yet has exactly one owner: the queue, one slot, or
   one inline parse; a call that is settled, or was never made, has none.  So
   no file is parsed twice for the run and none is forgotten, whatever dies
   while it waits (takePendingTasks, resolveInline).                        *)
OneOwner ==
    /\ Distinct(queue)
    /\ \A w \in Workers : Distinct(held[w])
    /\ \A w, v \in Workers, t \in Tasks : HeldBy(w, t) /\ HeldBy(v, t) => w = v
    /\ \A t \in Tasks :
         /\ inline[t] <= 1
         /\ ~(InQueue(t) /\ \E w \in Workers : HeldBy(w, t))
         /\ inline[t] = 1 => ~InQueue(t) /\ \A w \in Workers : ~HeldBy(w, t)
         /\ promise[t] = "pending" <=>
              InQueue(t) \/ inline[t] = 1 \/ \E w \in Workers : HeldBy(w, t)

(* A file is never reported with another file's events: a resolved call was
   resolved with its own task's parse, although answers to several tasks are
   in flight per worker (handleWorkerMessage's check of the task id).       *)
ResolvedByOwnParse ==
    \A t \in Tasks : promise[t] = "resolved" => resolvedBy[t] = t

(* The pool gives up only on a fault: pipelining two tasks to a worker never
   disables it by itself, so a healthy run never re-parses on the main thread
   what its workers hold.                                                   *)
DisabledOnlyByFault ==
    disabled => terminated \/ threw \/ faulty # {}

(* Between handlers, a task waits in the queue only when every worker that may
   be spawned is, and holds its full depth: an answer always refills its
   worker before the main thread goes on (dispatch at the end of
   handleWorkerMessage).                                                    *)
QueuedOnlyWhenFull ==
    ~dispatching /\ queue # <<>> =>
        spawned = WorkerCount /\ \A w \in Workers : Len(held[w]) = Depth

(* Every call settles, as long as parses end: a worker that dies with tasks
   posted, or before it reads them, cannot strand its callers.              *)
EveryCallSettles ==
    \A t \in Tasks : promise[t] = "pending" ~> promise[t] \in {"resolved", "rejected"}

(* Once the pool gives up, every thread it spawned ends, also the one it was
   spawning when a post threw: none outlives the run to keep it open.       *)
ThreadsEnd ==
    disabled ~> \A w \in Workers : thread[w] \in {"unspawned", "gone"}

\* The phase of each call, as a caller sees the pool.
phase == [t \in Tasks |->
            CASE promise[t] = "none" -> "unasked"
              [] promise[t] = "pending" /\ inline[t] = 0 -> "waiting"
              [] promise[t] = "pending" /\ inline[t] # 0 -> "inline"
              [] OTHER -> promise[t]]

Once == INSTANCE ParseOnce WITH Tasks <- Tasks, phase <- phase

(* The pool implements ParseOnce: settled once, a fall back is final, and a
   worker's failure never rejects a call.                                   *)
ImplementsParseOnce == Once!Spec
==============================================================================
