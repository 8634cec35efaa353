--------------------------- MODULE ParsePoolProofs ---------------------------
(* For any number of calls and workers, and any depth: every call the pool  *)
(* took and did not settle has exactly one owner, whatever dies meanwhile,  *)
(* and a call is only ever resolved with its own file's parse.              *)
EXTENDS ParsePool, ListLemmas, TLAPS

(* A worker that has no slot holds nothing: the depth of a slot just spawned
   is not exceeded by its first task.                                       *)
NoSlotHoldsNothing == \A w \in Workers : w > spawned => held[w] = <<>>

PoolInv == TypeOK /\ NoSlotHoldsNothing /\ OneOwner /\ ResolvedByOwnParse

----------------------------------------------------------------------------
(* Sequences of tasks, by their elements.                                  *)

\* An empty sequence holds nothing, once.
LEMMA NothingHeld == Elements(<<>>) = {} /\ Distinct(<<>>)
  BY DEF Elements, Distinct

\* What a longer queue holds.
LEMMA ElementsOfAppend ==
  ASSUME NEW S, NEW s \in Seq(S), NEW e \in S
  PROVE  /\ Elements(Append(s, e)) = Elements(s) \cup {e}
         /\ Distinct(s) /\ e \notin Elements(s) => Distinct(Append(s, e))
  <1>1. /\ Len(Append(s, e)) = Len(s) + 1
        /\ Append(s, e)[Len(s) + 1] = e
        /\ \A i \in 1..Len(s) : Append(s, e)[i] = s[i]
    OBVIOUS
  <1>2. Elements(Append(s, e)) = Elements(s) \cup {e}
    <2>1. 1..(Len(s) + 1) = 1..Len(s) \cup {Len(s) + 1}
      OBVIOUS
    <2>2. QED
      BY <1>1, <2>1 DEF Elements
  <1>3. Distinct(s) /\ e \notin Elements(s) => Distinct(Append(s, e))
    BY <1>1 DEF Distinct, Elements
  <1>4. QED
    BY <1>2, <1>3

\* What is left once the oldest is taken.
LEMMA ElementsOfTail ==
  ASSUME NEW S, NEW s \in Seq(S), s # <<>>
  PROVE  /\ Head(s) \in S
         /\ Tail(s) \in Seq(S)
         /\ Len(Tail(s)) = Len(s) - 1
         /\ Elements(s) = {Head(s)} \cup Elements(Tail(s))
         /\ Distinct(s) => Distinct(Tail(s)) /\ Head(s) \notin Elements(Tail(s))
  <1>1. /\ Head(s) = s[1] /\ 1 \in 1..Len(s)
        /\ Tail(s) \in Seq(S) /\ Len(Tail(s)) = Len(s) - 1
        /\ \A i \in 1..Len(Tail(s)) : Tail(s)[i] = s[i + 1] /\ i + 1 \in 1..Len(s)
    OBVIOUS
  <1>2. Elements(s) = {Head(s)} \cup Elements(Tail(s))
    <2>1. \A i \in 1..Len(s) : i = 1 \/ (i - 1 \in 1..Len(Tail(s)) /\ s[i] = Tail(s)[i - 1])
      BY <1>1
    <2>2. Elements(s) \subseteq {Head(s)} \cup Elements(Tail(s))
      BY <1>1, <2>1 DEF Elements
    <2>3. {Head(s)} \cup Elements(Tail(s)) \subseteq Elements(s)
      BY <1>1 DEF Elements
    <2>4. QED
      BY <2>2, <2>3
  <1>3. Distinct(s) => Distinct(Tail(s)) /\ Head(s) \notin Elements(Tail(s))
    BY <1>1 DEF Distinct, Elements
  <1>4. QED
    BY <1>1, <1>2, <1>3

\* A sequence of tasks holds tasks.
LEMMA TasksInSeq ==
  ASSUME NEW s \in Seq(Tasks)
  PROVE  Elements(s) \subseteq Tasks
  BY DEF Elements

----------------------------------------------------------------------------
(* Falling back.                                                           *)

(* Pending calls, and only they, wait or are parsed inline: what OneOwner says
   of a task, in terms of the tasks takePendingTasks finds.                 *)
LEMMA PendingHaveOwner ==
  ASSUME PoolInv, NEW t \in Tasks
  PROVE  /\ t \in PendingTasks(queue, held) => promise[t] = "pending" /\ inline[t] = 0
         /\ t \notin PendingTasks(queue, held) =>
              (promise[t] = "pending" <=> inline[t] = 1)
         /\ inline[t] \in {0, 1}
  <1>1. inline[t] \in Nat /\ inline[t] <= 1
    BY DEF PoolInv, TypeOK, OneOwner
  <1>2. inline[t] \in {0, 1}
    BY <1>1
  <1>3. t \in PendingTasks(queue, held) <=> InQueue(t) \/ \E w \in Workers : HeldBy(w, t)
    BY DEF PendingTasks, InQueue, HeldBy
  <1>4. /\ inline[t] = 1 => ~InQueue(t) /\ \A w \in Workers : ~HeldBy(w, t)
        /\ promise[t] = "pending" <=>
              InQueue(t) \/ inline[t] = 1 \/ \E w \in Workers : HeldBy(w, t)
    BY DEF PoolInv, OneOwner
  <1>5. QED
    BY <1>2, <1>3, <1>4

(* However the pool falls back, with what the queue and the slots held, every
   task that waited is parsed inline, once, and nothing else is.            *)
LEMMA FallBackKeepsOwners ==
  ASSUME PoolInv,
         NEW q \in Seq(Tasks), NEW h \in [Workers -> Seq(Tasks)], NEW n \in 0..WorkerCount,
         PendingTasks(q, h) = PendingTasks(queue, held),
         FallBack(q, h, n),
         promise' = promise
  PROVE  /\ queue' = <<>> /\ held' = [w \in Workers |-> <<>>]
         /\ disabled' = TRUE
         /\ inline' \in [Tasks -> Nat]
         /\ told' \in SUBSET Workers
         /\ OneOwner'
  <1>1. /\ queue' = <<>> /\ held' = [w \in Workers |-> <<>>] /\ disabled' = TRUE
        /\ inline' = [t \in Tasks |-> IF t \in PendingTasks(queue, held)
                                     THEN inline[t] + 1 ELSE inline[t]]
        /\ told' = told \cup 1..n
    BY DEF FallBack
  <1>2. inline' \in [Tasks -> Nat]
    BY <1>1 DEF PoolInv, TypeOK
  <1>3. told' \in SUBSET Workers
    BY <1>1, PoolAssumption DEF PoolInv, TypeOK, Workers
  <1>4. \A w \in Workers : held'[w] = <<>>
    BY <1>1
  <1>5. \A t \in Tasks : ~InQueue(t)' /\ \A w \in Workers : ~HeldBy(w, t)'
    BY <1>1, <1>4, NothingHeld DEF InQueue, HeldBy
  <1>6. ASSUME NEW t \in Tasks
        PROVE  inline'[t] <= 1 /\ (promise'[t] = "pending" <=> inline'[t] = 1)
    <2>1. CASE t \in PendingTasks(queue, held)
      <3>1. promise[t] = "pending" /\ inline[t] = 0
        BY <2>1, PendingHaveOwner
      <3>2. inline'[t] = 1
        BY <1>1, <2>1, <3>1
      <3>3. QED
        BY <3>1, <3>2
    <2>2. CASE t \notin PendingTasks(queue, held)
      <3>1. inline'[t] = inline[t]
        BY <1>1, <2>2
      <3>2. inline[t] \in {0, 1} /\ (promise[t] = "pending" <=> inline[t] = 1)
        BY <2>2, PendingHaveOwner
      <3>3. QED
        BY <3>1, <3>2
    <2>3. QED
      BY <2>1, <2>2
  <1>7. Distinct(queue') /\ \A w \in Workers : Distinct(held'[w])
    BY <1>1, <1>4, NothingHeld
  <1>8. OneOwner'
    BY <1>5, <1>6, <1>7 DEF OneOwner
  <1>9. QED
    BY <1>1, <1>2, <1>3, <1>8

(* disablePool keeps the types and the owners, whether it falls back now or
   did before.                                                              *)
LEMMA DisablePoolKeepsOwners ==
  ASSUME PoolInv,
         NEW q \in Seq(Tasks), NEW h \in [Workers -> Seq(Tasks)], NEW n \in 0..WorkerCount,
         PendingTasks(q, h) = PendingTasks(queue, held),
         DisablePool(q, h, n),
         promise' = promise
  PROVE  /\ queue' \in Seq(Tasks) /\ held' \in [Workers -> Seq(Tasks)]
         /\ \A w \in Workers : held'[w] \in {held[w], <<>>}
         /\ disabled' \in BOOLEAN
         /\ inline' \in [Tasks -> Nat]
         /\ told' \in SUBSET Workers
         /\ OneOwner'
  <1>1. CASE disabled
    <2>1. UNCHANGED <<disabled, queue, held, inline, told, promise>>
      BY <1>1 DEF DisablePool
    <2>2. OneOwner'
      BY <2>1 DEF PoolInv, OneOwner, InQueue, HeldBy
    <2>3. QED
      BY <2>1, <2>2 DEF PoolInv, TypeOK
  <1>2. CASE ~disabled
    <2>1. FallBack(q, h, n)
      BY <1>2 DEF DisablePool
    <2>2. /\ queue' = <<>> /\ held' = [w \in Workers |-> <<>>]
          /\ disabled' = TRUE /\ OneOwner'
          /\ inline' \in [Tasks -> Nat] /\ told' \in SUBSET Workers
      BY <2>1, FallBackKeepsOwners
    <2>3. queue' \in Seq(Tasks) /\ held' \in [Workers -> Seq(Tasks)]
      BY <2>2
    <2>4. \A w \in Workers : held'[w] \in {held[w], <<>>}
      BY <2>2
    <2>5. QED
      BY <2>2, <2>3, <2>4
  <1>3. QED
    BY <1>1, <1>2

----------------------------------------------------------------------------
(* The steps of the main thread.                                           *)

(* A new call is queued behind the others, or parsed at once (parse).      *)
LEMMA ParseKeepsInv ==
  ASSUME PoolInv, NEW t \in Tasks, Parse(t)
  PROVE  PoolInv'
  <1>1. /\ promise[t] = "none" /\ promise' = [promise EXCEPT ![t] = "pending"]
        /\ UNCHANGED <<spawned, held, disabled, resolvedBy, threw, told, terminated, workerVars>>
    BY DEF Parse
  <1>2. inline[t] = 0 /\ ~InQueue(t) /\ \A w \in Workers : ~HeldBy(w, t)
    <2>1. promise[t] # "pending"
      BY <1>1
    <2>2. inline[t] \in {0, 1}
      BY PendingHaveOwner
    <2>3. QED
      BY <2>1, <2>2 DEF PoolInv, OneOwner
  <1>3. CASE disabled
    <2>1. inline' = [inline EXCEPT ![t] = 1] /\ UNCHANGED <<queue, dispatching>>
      BY <1>2, <1>3 DEF Parse
    <2>2. TypeOK'
      BY <1>1, <2>1 DEF PoolInv, TypeOK, workerVars
    <2>3. OneOwner'
      BY <1>1, <1>2, <2>1 DEF PoolInv, TypeOK, OneOwner, InQueue, HeldBy
    <2>4. QED
      BY <1>1, <2>2, <2>3 DEF PoolInv, TypeOK, NoSlotHoldsNothing, ResolvedByOwnParse
  <1>4. CASE ~disabled
    <2>1. queue' = Append(queue, t) /\ dispatching' = TRUE /\ UNCHANGED inline
      BY <1>4 DEF Parse
    <2>2. Elements(queue') = Elements(queue) \cup {t} /\ Distinct(queue')
      BY <1>2, <2>1, ElementsOfAppend DEF PoolInv, TypeOK, OneOwner, InQueue
    <2>3. TypeOK'
      BY <1>1, <2>1 DEF PoolInv, TypeOK, workerVars
    <2>4. OneOwner'
      BY <1>1, <1>2, <2>1, <2>2 DEF PoolInv, TypeOK, OneOwner, InQueue, HeldBy
    <2>5. QED
      BY <1>1, <2>3, <2>4 DEF PoolInv, TypeOK, NoSlotHoldsNothing, ResolvedByOwnParse
  <1>5. QED
    BY <1>3, <1>4

(* The slot dispatch takes is one of the pool's, and has room for a task
   (takeIdleSlot).                                                          *)
LEMMA SlotHasRoom ==
  ASSUME PoolInv, NEW w \in Workers, TakesSlot(w)
  PROVE  /\ Len(held[w]) < Depth
         /\ w > spawned => w = spawned + 1 /\ spawned + 1 \in 0..WorkerCount
  <1>1. CASE TakesIdle(w)
    BY <1>1, PoolAssumption DEF TakesIdle, Idle, Workers, PoolInv, TypeOK
  <1>2. CASE TakesNew(w)
    BY <1>2, PoolAssumption DEF TakesNew, Workers, PoolInv, TypeOK, NoSlotHoldsNothing
  <1>3. CASE TakesBusy(w)
    BY <1>3, PoolAssumption DEF TakesBusy, LeastLoaded, Workers, PoolInv, TypeOK
  <1>4. QED
    BY <1>1, <1>2, <1>3 DEF TakesSlot

(* A task posted to a slot leaves the queue for it (dispatch).             *)
LEMMA DispatchTaskKeepsInv ==
  ASSUME PoolInv, NEW w \in Workers, DispatchTask(w)
  PROVE  PoolInv'
  <1>0. PICK t \in Tasks : t = Head(queue)
    BY ElementsOfTail DEF DispatchTask, LoopGoesOn, PoolInv, TypeOK
  <1>1. /\ queue # <<>> /\ queue' = Tail(queue)
        /\ held' = [held EXCEPT ![w] = Append(@, t)]
        /\ spawned' = IF w > spawned THEN w ELSE spawned
        /\ UNCHANGED <<disabled, dispatching, promise, inline, resolvedBy, outbox,
                       faulty, threw, told, terminated>>
    BY <1>0 DEF DispatchTask, LoopGoesOn
  <1>2. /\ t \in Tasks /\ queue' \in Seq(Tasks)
        /\ Elements(queue) = {t} \cup Elements(queue')
        /\ Distinct(queue') /\ t \notin Elements(queue')
    BY <1>0, <1>1, ElementsOfTail DEF PoolInv, TypeOK, OneOwner
  <1>3. InQueue(t) /\ \A v \in Workers : ~HeldBy(v, t)
    BY <1>2 DEF PoolInv, OneOwner, InQueue
  <1>4. /\ Elements(held'[w]) = Elements(held[w]) \cup {t} /\ Distinct(held'[w])
        /\ held'[w] \in Seq(Tasks) /\ Len(held'[w]) = Len(held[w]) + 1
        /\ \A v \in Workers \ {w} : held'[v] = held[v]
    <2>1. held[w] \in Seq(Tasks) /\ held'[w] = Append(held[w], t)
      BY <1>1 DEF PoolInv, TypeOK
    <2>2. t \notin Elements(held[w]) /\ Distinct(held[w])
      BY <1>3 DEF HeldBy, PoolInv, OneOwner
    <2>3. /\ Elements(held'[w]) = Elements(held[w]) \cup {t} /\ Distinct(held'[w])
      BY <1>2, <2>1, <2>2, ElementsOfAppend
    <2>4. QED
      BY <1>1, <1>2, <2>1, <2>3
  <1>5. /\ thread' \in [Workers -> {"unspawned", "up", "dead", "gone"}]
        /\ inbox' \in [Workers -> Seq(Tasks)]
    <2>1. thread' \in [Workers -> {"unspawned", "up", "dead", "gone"}]
      BY DEF DispatchTask, PoolInv, TypeOK
    <2>2. inbox' = inbox \/ inbox' = [inbox EXCEPT ![w] = Append(@, t)]
      BY <1>0 DEF DispatchTask
    <2>3. inbox \in [Workers -> Seq(Tasks)] /\ Append(inbox[w], t) \in Seq(Tasks)
      BY DEF PoolInv, TypeOK
    <2>4. QED
      BY <2>1, <2>2, <2>3
  <1>6. spawned' \in 0..WorkerCount
    BY <1>1, SlotHasRoom DEF DispatchTask, PoolInv, TypeOK
  <1>7. TypeOK'
    <2>1. held' \in [Workers -> Seq(Tasks)]
      BY <1>1, <1>2 DEF PoolInv, TypeOK
    <2>2. ASSUME NEW v \in Workers PROVE Len(held'[v]) <= Depth
      <3>1. CASE v = w
        BY <3>1, <1>4, SlotHasRoom, PoolAssumption DEF DispatchTask, PoolInv, TypeOK
      <3>2. CASE v # w
        BY <3>2, <1>4 DEF PoolInv, TypeOK
      <3>3. QED
        BY <3>1, <3>2
    <2>3. QED
      BY <1>1, <1>2, <1>5, <1>6, <2>1, <2>2 DEF PoolInv, TypeOK
  <1>8. OneOwner'
    <2>1. \A u \in Tasks : InQueue(u) <=> u = t \/ InQueue(u)'
      BY <1>2 DEF InQueue
    <2>2. ~InQueue(t)'
      BY <1>2 DEF InQueue
    <2>3. \A v \in Workers, u \in Tasks :
             HeldBy(v, u)' <=> HeldBy(v, u) \/ (v = w /\ u = t)
      BY <1>4 DEF HeldBy
    <2>4. \A v \in Workers : Distinct(held'[v])
      BY <1>4 DEF PoolInv, OneOwner
    <2>5. \A v, x \in Workers, u \in Tasks : HeldBy(v, u)' /\ HeldBy(x, u)' => v = x
      BY <2>3, <1>3 DEF PoolInv, OneOwner
    <2>6. ASSUME NEW u \in Tasks
          PROVE  /\ inline'[u] <= 1
                 /\ ~(InQueue(u)' /\ \E v \in Workers : HeldBy(v, u)')
                 /\ inline'[u] = 1 => ~InQueue(u)' /\ \A v \in Workers : ~HeldBy(v, u)'
                 /\ promise'[u] = "pending" <=>
                      InQueue(u)' \/ inline'[u] = 1 \/ \E v \in Workers : HeldBy(v, u)'
      <3>1. inline' = inline /\ promise' = promise
        BY <1>1
      <3>2. CASE u = t
        BY <3>1, <3>2, <2>2, <2>3, <1>3 DEF PoolInv, OneOwner
      <3>3. CASE u # t
        BY <3>1, <3>3, <2>1, <2>3 DEF PoolInv, OneOwner
      <3>4. QED
        BY <3>2, <3>3
    <2>7. QED
      BY <1>2, <2>4, <2>5, <2>6 DEF OneOwner
  <1>9. NoSlotHoldsNothing'
    BY <1>1, <1>4 DEF PoolInv, TypeOK, NoSlotHoldsNothing, Workers
  <1>10. ResolvedByOwnParse'
    BY <1>1 DEF PoolInv, ResolvedByOwnParse
  <1>11. QED
    BY <1>7, <1>8, <1>9, <1>10 DEF PoolInv

(* Falling back, in whichever handler, keeps everything but the types of what
   the handler itself changes (disablePool).                                *)
LEMMA DisablePoolKeepsInv ==
  ASSUME PoolInv,
         NEW q \in Seq(Tasks), NEW h \in [Workers -> Seq(Tasks)],
         PendingTasks(q, h) = PendingTasks(queue, held),
         spawned' \in spawned..WorkerCount,
         DisablePool(q, h, spawned') \/ FallBack(q, h, spawned'),
         UNCHANGED <<promise, resolvedBy, inbox, outbox, faulty>>,
         dispatching' \in BOOLEAN, threw' \in BOOLEAN, terminated' \in BOOLEAN,
         thread' \in [Workers -> {"unspawned", "up", "dead", "gone"}]
  PROVE  PoolInv'
  <1> DEFINE n == spawned'
  <1>1. spawned' \in 0..WorkerCount /\ spawned' >= spawned
    BY PoolAssumption DEF PoolInv, TypeOK
  <1>2. /\ queue' \in Seq(Tasks) /\ held' \in [Workers -> Seq(Tasks)]
        /\ \A w \in Workers : held'[w] \in {held[w], <<>>}
        /\ disabled' \in BOOLEAN /\ inline' \in [Tasks -> Nat]
        /\ told' \in SUBSET Workers
        /\ OneOwner'
    <2>1. CASE DisablePool(q, h, spawned')
      BY <1>1, <2>1, DisablePoolKeepsOwners
    <2>2. CASE FallBack(q, h, spawned')
      <3>1. /\ queue' = <<>> /\ held' = [w \in Workers |-> <<>>]
            /\ disabled' = TRUE /\ OneOwner'
            /\ inline' \in [Tasks -> Nat] /\ told' \in SUBSET Workers
        BY <1>1, <2>2, FallBackKeepsOwners
      <3>2. queue' \in Seq(Tasks) /\ held' \in [Workers -> Seq(Tasks)]
        BY <3>1
      <3>3. \A w \in Workers : held'[w] \in {held[w], <<>>}
        BY <3>1
      <3>4. QED
        BY <3>1, <3>2, <3>3
    <2>3. QED
      BY <2>1, <2>2
  <1>3. \A w \in Workers : Len(held'[w]) <= Depth
    BY <1>2, PoolAssumption DEF PoolInv, TypeOK
  <1>4. TypeOK'
    BY <1>1, <1>2, <1>3 DEF PoolInv, TypeOK
  <1>5. NoSlotHoldsNothing'
    BY <1>1, <1>2 DEF PoolInv, TypeOK, NoSlotHoldsNothing, Workers
  <1>6. ResolvedByOwnParse'
    BY DEF PoolInv, ResolvedByOwnParse
  <1>7. QED
    BY <1>2, <1>4, <1>5, <1>6 DEF PoolInv

(* A spawn that throws leaves its task in the queue, to be parsed inline with
   the others.                                                              *)
LEMMA SpawnThrowsKeepsInv ==
  ASSUME PoolInv, SpawnThrows
  PROVE  PoolInv'
  <1>1. /\ DisablePool(queue, held, spawned) /\ spawned' = spawned
        /\ threw' = TRUE /\ dispatching' = FALSE
        /\ UNCHANGED <<promise, resolvedBy, terminated, inbox, outbox, thread, faulty>>
    BY DEF SpawnThrows, workerVars
  <1>2. /\ spawned \in 0..WorkerCount /\ terminated \in BOOLEAN
        /\ queue \in Seq(Tasks) /\ held \in [Workers -> Seq(Tasks)]
        /\ thread \in [Workers -> {"unspawned", "up", "dead", "gone"}]
    BY DEF PoolInv, TypeOK
  <1>3. spawned' \in spawned..WorkerCount
    BY <1>1, <1>2, PoolAssumption
  <1>4. QED
    BY <1>1, <1>2, <1>3, DisablePoolKeepsInv

(* A task the pool was posting as it fell back is pending like the others. *)
LEMMA PostedStaysPending ==
  ASSUME PoolInv, NEW w \in Workers, queue # <<>>
  PROVE  LET q == Tail(queue)
             h == [held EXCEPT ![w] = Append(@, Head(queue))]
         IN  /\ q \in Seq(Tasks) /\ h \in [Workers -> Seq(Tasks)]
             /\ PendingTasks(q, h) = PendingTasks(queue, held)
  <1> DEFINE q == Tail(queue)
             h == [held EXCEPT ![w] = Append(@, Head(queue))]
  <1>2. /\ q \in Seq(Tasks) /\ Head(queue) \in Tasks
        /\ Elements(queue) = {Head(queue)} \cup Elements(q)
    BY ElementsOfTail DEF PoolInv, TypeOK
  <1>3. /\ h \in [Workers -> Seq(Tasks)]
        /\ Elements(h[w]) = Elements(held[w]) \cup {Head(queue)}
        /\ \A v \in Workers \ {w} : h[v] = held[v]
    <2>1. held \in [Workers -> Seq(Tasks)] /\ h[w] = Append(held[w], Head(queue))
      BY DEF PoolInv, TypeOK
    <2>2. h \in [Workers -> Seq(Tasks)]
      BY <1>2, <2>1
    <2>3. Elements(h[w]) = Elements(held[w]) \cup {Head(queue)}
      BY <1>2, <2>1, ElementsOfAppend
    <2>4. QED
      BY <2>1, <2>2, <2>3
  <1>4. PendingTasks(q, h) = PendingTasks(queue, held)
    <2>1. \A t : (\E v \in Workers : t \in Elements(h[v]))
                 <=> t = Head(queue) \/ \E v \in Workers : t \in Elements(held[v])
      BY <1>3
    <2>2. \A t : t \in Elements(queue) <=> t = Head(queue) \/ t \in Elements(q)
      BY <1>2
    <2>3. \A t : t \in PendingTasks(q, h) <=> t \in PendingTasks(queue, held)
      BY <2>1, <2>2 DEF PendingTasks
    <2>4. QED
      BY <2>3
  <1>5. QED
    BY <1>2, <1>3, <1>4

(* A post that throws leaves its task in the slot, which may be new: it is
   among those that are parsed inline.                                      *)
LEMMA PostThrowsKeepsInv ==
  ASSUME PoolInv, NEW w \in Workers, PostThrows(w)
  PROVE  PoolInv'
  <1> DEFINE q == Tail(queue)
             h == [held EXCEPT ![w] = Append(@, Head(queue))]
  <1>1. /\ queue # <<>> /\ DisablePool(q, h, spawned')
        /\ spawned' = IF w > spawned THEN w ELSE spawned
        /\ thread' = IF w > spawned THEN [thread EXCEPT ![w] = "up"] ELSE thread
        /\ threw' = TRUE /\ dispatching' = FALSE
        /\ UNCHANGED <<promise, resolvedBy, terminated, inbox, outbox, faulty>>
    BY DEF PostThrows, LoopGoesOn
  <1>2. /\ q \in Seq(Tasks) /\ h \in [Workers -> Seq(Tasks)]
        /\ PendingTasks(q, h) = PendingTasks(queue, held)
    BY <1>1, PostedStaysPending
  <1>5. spawned' \in spawned..WorkerCount
    BY <1>1, SlotHasRoom, PoolAssumption DEF PostThrows, PoolInv, TypeOK
  <1>6. terminated \in BOOLEAN /\ thread' \in [Workers -> {"unspawned", "up", "dead", "gone"}]
    BY <1>1 DEF PoolInv, TypeOK
  <1>7. QED
    BY <1>1, <1>2, <1>5, <1>6, DisablePoolKeepsInv

(* A thread that ended, in whatever state, disables the pool (exit, error). *)
LEMMA ReceiveExitKeepsInv ==
  ASSUME PoolInv, NEW w \in Workers, ReceiveExit(w)
  PROVE  PoolInv'
  <1>1. /\ DisablePool(queue, held, spawned) /\ spawned' = spawned
        /\ thread' = [thread EXCEPT ![w] = "gone"]
        /\ UNCHANGED <<dispatching, promise, resolvedBy, threw, terminated, inbox, outbox, faulty>>
    BY DEF ReceiveExit
  <1>2. /\ spawned \in 0..WorkerCount /\ queue \in Seq(Tasks)
        /\ held \in [Workers -> Seq(Tasks)]
        /\ dispatching \in BOOLEAN /\ threw \in BOOLEAN /\ terminated \in BOOLEAN
        /\ thread' \in [Workers -> {"unspawned", "up", "dead", "gone"}]
    BY <1>1 DEF PoolInv, TypeOK
  <1>3. spawned' \in spawned..WorkerCount
    BY <1>1, <1>2, PoolAssumption
  <1>4. QED
    BY <1>1, <1>2, <1>3, DisablePoolKeepsInv

(* The owner's terminate takes what still waits to the main thread.        *)
LEMMA TerminateKeepsInv ==
  ASSUME PoolInv, Terminate
  PROVE  PoolInv'
  <1>1. /\ FallBack(queue, held, spawned) /\ spawned' = spawned /\ terminated' = TRUE
        /\ UNCHANGED <<dispatching, promise, resolvedBy, threw, inbox, outbox, thread, faulty>>
    BY DEF Terminate, workerVars
  <1>2. /\ spawned \in 0..WorkerCount /\ queue \in Seq(Tasks)
        /\ held \in [Workers -> Seq(Tasks)]
        /\ dispatching \in BOOLEAN /\ threw \in BOOLEAN
        /\ thread \in [Workers -> {"unspawned", "up", "dead", "gone"}]
    BY DEF PoolInv, TypeOK
  <1>3. spawned' \in spawned..WorkerCount
    BY <1>1, <1>2, PoolAssumption
  <1>4. QED
    BY <1>1, <1>2, <1>3, DisablePoolKeepsInv

(* Whatever leaves the calls and their owners alone keeps the invariant, with
   the types of what it changes.                                            *)
LEMMA OwnersUntouched ==
  ASSUME PoolInv, TypeOK',
         UNCHANGED <<queue, spawned, held, promise, inline, resolvedBy>>
  PROVE  PoolInv'
  BY DEF PoolInv, NoSlotHoldsNothing, OneOwner, InQueue, HeldBy, ResolvedByOwnParse

(* The answer to the oldest task a slot holds settles that call, or starts its
   one inline parse; any other disables the pool (handleWorkerMessage).     *)
LEMMA ReceiveAnswerKeepsInv ==
  ASSUME PoolInv, NEW w \in Workers, ReceiveAnswer(w)
  PROVE  PoolInv'
  <1>1. /\ outbox[w] # <<>> /\ outbox' = [outbox EXCEPT ![w] = Tail(@)]
        /\ UNCHANGED <<spawned, threw, terminated, inbox, thread, faulty>>
    BY DEF ReceiveAnswer
  <1>2. outbox' \in [Workers -> Seq(Answers)] /\ Head(outbox[w]) \in Answers
    <2>1. outbox \in [Workers -> Seq(Answers)] /\ outbox[w] \in Seq(Answers)
      BY DEF PoolInv, TypeOK
    <2>2. Tail(outbox[w]) \in Seq(Answers) /\ Head(outbox[w]) \in Answers
      BY <1>1, <2>1, ElementsOfTail
    <2>3. QED
      BY <1>1, <2>1, <2>2
  <1>3. CASE disabled
    <2>1. UNCHANGED <<queue, held, disabled, dispatching, promise, inline, resolvedBy, told>>
      BY <1>3 DEF ReceiveAnswer
    <2>2. TypeOK'
      BY <1>1, <1>2, <2>1 DEF PoolInv, TypeOK
    <2>3. QED
      BY <1>1, <2>1, <2>2, OwnersUntouched
  <1>4. CASE ~disabled /\ ~AnswersOldest(w)
    <2>1. FallBack(queue, held, spawned) /\ UNCHANGED <<dispatching, promise, resolvedBy>>
      BY <1>4 DEF ReceiveAnswer, DisablePool
    <2>2. /\ queue \in Seq(Tasks) /\ held \in [Workers -> Seq(Tasks)]
          /\ spawned \in 0..WorkerCount
      BY DEF PoolInv, TypeOK
    <2>3. /\ queue' = <<>> /\ held' = [v \in Workers |-> <<>>] /\ disabled' = TRUE
          /\ inline' \in [Tasks -> Nat] /\ told' \in SUBSET Workers /\ OneOwner'
      BY <2>1, <2>2, FallBackKeepsOwners
    <2>4. /\ queue' \in Seq(Tasks) /\ held' \in [Workers -> Seq(Tasks)]
          /\ \A v \in Workers : held'[v] = <<>> /\ Len(held'[v]) <= Depth
      BY <2>3, PoolAssumption
    <2>5. TypeOK'
      BY <1>1, <1>2, <2>1, <2>3, <2>4 DEF PoolInv, TypeOK
    <2>6. QED
      BY <2>1, <2>3, <2>4, <2>5 DEF PoolInv, NoSlotHoldsNothing, ResolvedByOwnParse
  <1>5. CASE ~disabled /\ AnswersOldest(w)
    <2>0. PICK t \in Tasks : t = Head(held[w])
      BY <1>5, ElementsOfTail DEF AnswersOldest, PoolInv, TypeOK
    <2>1. /\ held[w] # <<>> /\ Head(outbox[w]).id = t
          /\ held' = [held EXCEPT ![w] = Tail(@)]
          /\ dispatching' = TRUE
          /\ UNCHANGED <<queue, disabled, told>>
          /\ \/ /\ promise' = [promise EXCEPT ![t] = "resolved"]
                /\ resolvedBy' = [resolvedBy EXCEPT ![t] = t]
                /\ UNCHANGED inline
             \/ /\ inline' = [inline EXCEPT ![t] = @ + 1]
                /\ UNCHANGED <<promise, resolvedBy>>
      BY <1>5, <2>0 DEF ReceiveAnswer, AnswersOldest, SettleOrRetry
    <2>2. /\ held' \in [Workers -> Seq(Tasks)] /\ held'[w] = Tail(held[w])
          /\ Len(held'[w]) = Len(held[w]) - 1
          /\ Elements(held[w]) = {t} \cup Elements(held'[w])
          /\ Distinct(held'[w]) /\ t \notin Elements(held'[w])
          /\ \A v \in Workers \ {w} : held'[v] = held[v]
      <3>1. held \in [Workers -> Seq(Tasks)] /\ held[w] \in Seq(Tasks) /\ Distinct(held[w])
        BY DEF PoolInv, TypeOK, OneOwner
      <3>2. /\ Tail(held[w]) \in Seq(Tasks) /\ Len(Tail(held[w])) = Len(held[w]) - 1
            /\ Elements(held[w]) = {t} \cup Elements(Tail(held[w]))
            /\ Distinct(Tail(held[w])) /\ t \notin Elements(Tail(held[w]))
        BY <2>0, <2>1, <3>1, ElementsOfTail
      <3>3. QED
        BY <2>1, <3>1, <3>2
    <2>3. HeldBy(w, t) /\ ~InQueue(t) /\ inline[t] = 0 /\ promise[t] = "pending"
      <3>1. HeldBy(w, t)
        BY <2>2 DEF HeldBy
      <3>2. inline[t] \in {0, 1}
        BY PendingHaveOwner
      <3>3. QED
        BY <3>1, <3>2 DEF PoolInv, OneOwner
    <2>4. \A v \in Workers, u \in Tasks : HeldBy(v, u)' <=> HeldBy(v, u) /\ u # t
      <3>1. \A v \in Workers \ {w} : ~HeldBy(v, t)
        BY <2>3 DEF PoolInv, OneOwner
      <3>2. QED
        BY <2>2, <3>1 DEF HeldBy
    <2>5. inline' \in [Tasks -> Nat] /\ promise' \in [Tasks -> {"none", "pending", "resolved", "rejected"}]
          /\ resolvedBy' \in [Tasks -> Tasks \cup {NoTask}]
      <3>1. /\ inline \in [Tasks -> Nat] /\ resolvedBy \in [Tasks -> Tasks \cup {NoTask}]
            /\ promise \in [Tasks -> {"none", "pending", "resolved", "rejected"}]
        BY DEF PoolInv, TypeOK
      <3>2. CASE promise' = [promise EXCEPT ![t] = "resolved"]
                 /\ resolvedBy' = [resolvedBy EXCEPT ![t] = t] /\ UNCHANGED inline
        BY <3>1, <3>2
      <3>3. CASE inline' = [inline EXCEPT ![t] = @ + 1] /\ UNCHANGED <<promise, resolvedBy>>
        BY <3>1, <3>3
      <3>4. QED
        BY <2>1, <3>2, <3>3
    <2>6. TypeOK'
      <3>1. ASSUME NEW v \in Workers PROVE Len(held'[v]) <= Depth
        <4>1. Len(held[v]) \in Nat /\ Len(held[v]) <= Depth
          BY DEF PoolInv, TypeOK
        <4>2. Len(held'[v]) \in {Len(held[v]), Len(held[v]) - 1}
          BY <2>2
        <4>3. QED
          BY <4>1, <4>2, PoolAssumption
      <3>2. QED
        BY <1>1, <1>2, <2>1, <2>2, <2>5, <3>1 DEF PoolInv, TypeOK
    <2>7. OneOwner'
      <3>1. \A v \in Workers : Distinct(held'[v])
        BY <2>2 DEF PoolInv, OneOwner
      <3>2. \A u \in Tasks : InQueue(u)' <=> InQueue(u)
        BY <2>1 DEF InQueue
      <3>3. ASSUME NEW u \in Tasks
            PROVE  /\ inline'[u] <= 1
                   /\ ~(InQueue(u)' /\ \E v \in Workers : HeldBy(v, u)')
                   /\ inline'[u] = 1 => ~InQueue(u)' /\ \A v \in Workers : ~HeldBy(v, u)'
                   /\ promise'[u] = "pending" <=>
                        InQueue(u)' \/ inline'[u] = 1 \/ \E v \in Workers : HeldBy(v, u)'
        <4>1. CASE u = t
          <5>1. ~InQueue(t)' /\ \A v \in Workers : ~HeldBy(v, t)'
            BY <2>3, <2>4, <3>2
          <5>2. \/ promise'[t] = "resolved" /\ inline'[t] = 0
                \/ promise'[t] = "pending" /\ inline'[t] = 1
            BY <2>1, <2>3 DEF PoolInv, TypeOK
          <5>3. QED
            BY <4>1, <5>1, <5>2
        <4>2. CASE u # t
          <5>1. promise'[u] = promise[u] /\ inline'[u] = inline[u]
            BY <2>1, <4>2 DEF PoolInv, TypeOK
          <5>2. QED
            BY <2>4, <3>2, <4>2, <5>1 DEF PoolInv, OneOwner
        <4>3. QED
          BY <4>1, <4>2
      <3>4. \A v, x \in Workers, u \in Tasks : HeldBy(v, u)' /\ HeldBy(x, u)' => v = x
        BY <2>4 DEF PoolInv, OneOwner
      <3>5. Distinct(queue')
        BY <2>1 DEF PoolInv, OneOwner
      <3>6. QED
        BY <3>1, <3>3, <3>4, <3>5 DEF OneOwner
    <2>8. NoSlotHoldsNothing'
      BY <1>1, <2>1, <2>2 DEF PoolInv, NoSlotHoldsNothing
    <2>9. ResolvedByOwnParse'
      BY <2>1, <2>3 DEF PoolInv, TypeOK, ResolvedByOwnParse
    <2>10. QED
      BY <2>6, <2>7, <2>8, <2>9 DEF PoolInv
  <1>6. QED
    BY <1>3, <1>4, <1>5

(* An inline parse that ends settles its call, which is pending (resolveInline). *)
LEMMA InlineEndsKeepsInv ==
  ASSUME PoolInv, NEW t \in Tasks, InlineEnds(t)
  PROVE  PoolInv'
  <1>1. /\ inline[t] = 1 /\ promise[t] = "pending"
        /\ ~InQueue(t) /\ \A w \in Workers : ~HeldBy(w, t)
    <2>1. inline[t] > 0
      BY DEF InlineEnds
    <2>2. inline[t] = 1
      BY <2>1, PendingHaveOwner
    <2>3. QED
      BY <2>2 DEF PoolInv, OneOwner
  <1>2. /\ inline' = [inline EXCEPT ![t] = 0]
        /\ \/ /\ promise' = [promise EXCEPT ![t] = "resolved"]
              /\ resolvedBy' = [resolvedBy EXCEPT ![t] = t]
           \/ /\ promise' = [promise EXCEPT ![t] = "rejected"]
              /\ UNCHANGED resolvedBy
        /\ UNCHANGED <<queue, spawned, held, disabled, dispatching, threw, told,
                       terminated, workerVars>>
    BY <1>1 DEF InlineEnds
  <1>3. TypeOK'
    BY ZenonT(60), <1>2 DEF PoolInv, TypeOK, workerVars
  <1>4. OneOwner'
    BY <1>1, <1>2 DEF PoolInv, TypeOK, OneOwner, InQueue, HeldBy
  <1>5. NoSlotHoldsNothing' /\ ResolvedByOwnParse'
    BY <1>2 DEF PoolInv, TypeOK, NoSlotHoldsNothing, ResolvedByOwnParse
  <1>6. QED
    BY <1>3, <1>4, <1>5 DEF PoolInv

----------------------------------------------------------------------------
(* The steps of the worker threads touch neither calls nor owners.         *)
LEMMA WorkersKeepInv ==
  ASSUME PoolInv, NEW w \in Workers, Work(w) \/ Stray(w) \/ Crash(w) \/ Stop(w)
  PROVE  PoolInv'
  <1>1. UNCHANGED mainVars
    BY DEF Work, Stray, Crash, Stop, mainVars
  <1>2. /\ outbox \in [Workers -> Seq(Answers)] /\ outbox[w] \in Seq(Answers)
        /\ inbox \in [Workers -> Seq(Tasks)] /\ inbox[w] \in Seq(Tasks)
    BY DEF PoolInv, TypeOK
  <1>3. ASSUME NEW id \in Tasks \cup {NoTask}, NEW ok \in BOOLEAN
        PROVE  [outbox EXCEPT ![w] = Append(@, [id |-> id, ok |-> ok])] \in [Workers -> Seq(Answers)]
    <2>1. [id |-> id, ok |-> ok] \in Answers
      BY <1>3 DEF Answers
    <2>2. QED
      BY <1>2, <2>1
  <1>4. outbox' \in [Workers -> Seq(Answers)]
    <2>1. CASE Work(w)
      <3>1. inbox[w] # <<>> /\ Head(inbox[w]) \in Tasks
        BY <1>2, <2>1, ElementsOfTail DEF Work
      <3>2. QED
        BY <1>3, <2>1, <3>1 DEF Work
    <2>2. CASE Stray(w)
      BY <1>3, <2>2 DEF Stray
    <2>3. CASE Crash(w)
      <3>1. PICK n \in 0..Len(outbox[w]) : outbox' = [outbox EXCEPT ![w] = SubSeq(@, 1, n)]
        BY <2>3 DEF Crash
      <3>2. SubSeq(outbox[w], 1, n) \in Seq(Answers)
        BY <1>2
      <3>3. QED
        BY <1>2, <3>1, <3>2
    <2>4. CASE Stop(w)
      BY <1>2, <2>4 DEF Stop
    <2>5. QED
      BY <2>1, <2>2, <2>3, <2>4
  <1>5. inbox' \in [Workers -> Seq(Tasks)]
    <2>1. CASE Work(w)
      <3>1. Tail(inbox[w]) \in Seq(Tasks)
        BY <1>2, <2>1, ElementsOfTail DEF Work
      <3>2. QED
        BY <1>2, <2>1, <3>1 DEF Work
    <2>2. CASE inbox' = inbox
      BY <1>2, <2>2
    <2>3. CASE inbox' = [inbox EXCEPT ![w] = <<>>]
      BY <1>2, <2>3
    <2>4. QED
      BY <2>1, <2>2, <2>3 DEF Stray, Crash, Stop
  <1>6. /\ thread' \in [Workers -> {"unspawned", "up", "dead", "gone"}]
        /\ faulty' \in SUBSET Workers
    BY DEF Work, Stray, Crash, Stop, PoolInv, TypeOK
  <1>7. TypeOK'
    BY <1>1, <1>4, <1>5, <1>6 DEF PoolInv, TypeOK, mainVars
  <1>8. QED
    BY <1>1, <1>7, OwnersUntouched DEF mainVars

----------------------------------------------------------------------------
(* The pool starts with no call, no slot and no owner. *)
LEMMA InitInv == Init => PoolInv
  <1> SUFFICES ASSUME Init PROVE PoolInv
    OBVIOUS
  <1>1. /\ queue = <<>> /\ \A w \in Workers : held[w] = <<>>
        /\ \A t \in Tasks : promise[t] = "none" /\ inline[t] = 0
    BY DEF Init
  <1>2. TypeOK
    <2>1. /\ queue \in Seq(Tasks) /\ held \in [Workers -> Seq(Tasks)]
          /\ inbox \in [Workers -> Seq(Tasks)] /\ outbox \in [Workers -> Seq(Answers)]
      BY DEF Init
    <2>2. \A w \in Workers : Len(held[w]) <= Depth
      BY <1>1, PoolAssumption
    <2>3. inline \in [Tasks -> Nat] /\ resolvedBy \in [Tasks -> Tasks \cup {NoTask}]
      BY DEF Init
    <2>4. /\ promise \in [Tasks -> {"none", "pending", "resolved", "rejected"}]
          /\ thread \in [Workers -> {"unspawned", "up", "dead", "gone"}]
      BY DEF Init
    <2>5. spawned \in 0..WorkerCount /\ faulty \in SUBSET Workers /\ told \in SUBSET Workers
      BY PoolAssumption DEF Init
    <2>6. /\ disabled \in BOOLEAN /\ dispatching \in BOOLEAN
          /\ threw \in BOOLEAN /\ terminated \in BOOLEAN
      BY DEF Init
    <2>7. QED
      BY <2>1, <2>2, <2>3, <2>4, <2>5, <2>6 DEF TypeOK
  <1>3. OneOwner
    BY <1>1, NothingHeld DEF OneOwner, InQueue, HeldBy
  <1>4. QED
    BY <1>1, <1>2, <1>3 DEF PoolInv, NoSlotHoldsNothing, ResolvedByOwnParse

\* Every step keeps the invariant.
LEMMA NextKeepsInv == PoolInv /\ [Next]_vars => PoolInv'
  <1> SUFFICES ASSUME PoolInv, [Next]_vars PROVE PoolInv'
    OBVIOUS
  <1>1. ASSUME NEW t \in Tasks, Parse(t) PROVE PoolInv'
    BY <1>1, ParseKeepsInv
  <1>2. ASSUME NEW t \in Tasks, InlineEnds(t) PROVE PoolInv'
    BY <1>2, InlineEndsKeepsInv
  <1>3. ASSUME Dispatch PROVE PoolInv'
    <2>1. CASE DispatchEnds
      <3>1. TypeOK' /\ UNCHANGED <<queue, spawned, held, promise, inline, resolvedBy>>
        BY <2>1 DEF DispatchEnds, workerVars, PoolInv, TypeOK
      <3>2. QED
        BY <3>1, OwnersUntouched
    <2>2. CASE SpawnThrows
      BY <2>2, SpawnThrowsKeepsInv
    <2>3. ASSUME NEW w \in Workers, DispatchTask(w) PROVE PoolInv'
      BY <2>3, DispatchTaskKeepsInv
    <2>4. ASSUME NEW w \in Workers, PostThrows(w) PROVE PoolInv'
      BY <2>4, PostThrowsKeepsInv
    <2>5. QED
      BY <1>3, <2>1, <2>2, <2>3, <2>4 DEF Dispatch
  <1>4. CASE Terminate
    BY <1>4, TerminateKeepsInv
  <1>5. ASSUME NEW w \in Workers, ReceiveAnswer(w) PROVE PoolInv'
    BY <1>5, ReceiveAnswerKeepsInv
  <1>6. ASSUME NEW w \in Workers, ReceiveExit(w) PROVE PoolInv'
    BY <1>6, ReceiveExitKeepsInv
  <1>7. ASSUME NEW w \in Workers, Work(w) \/ Stray(w) \/ Crash(w) \/ Stop(w) PROVE PoolInv'
    BY <1>7, WorkersKeepInv
  <1>8. CASE UNCHANGED vars
    <2>1. TypeOK' /\ UNCHANGED <<queue, spawned, held, promise, inline, resolvedBy>>
      BY <1>8 DEF vars, mainVars, workerVars, PoolInv, TypeOK
    <2>2. QED
      BY <2>1, OwnersUntouched
  <1>9. QED
    BY <1>1, <1>2, <1>3, <1>4, <1>5, <1>6, <1>7, <1>8 DEF Next

(* The inductive invariant of the pool: its types, the owner of every call, and
   what resolved calls were resolved with.                                  *)
THEOREM PoolInvariant == Spec => []PoolInv
  BY InitInv, NextKeepsInv, PTL DEF Spec

(* No call is forgotten or worked on twice: whatever worker dies, whatever
   throws, every unsettled call has exactly one owner (takePendingTasks).   *)
THEOREM CallsHaveOneOwner == Spec => [](TypeOK /\ OneOwner)
  <1>1. PoolInv => TypeOK /\ OneOwner
    BY DEF PoolInv
  <1>2. QED
    BY <1>1, PoolInvariant, PTL

(* A file is never resolved with another file's parse, however many answers
   are in flight and whatever answers nobody asked for (handleWorkerMessage). *)
THEOREM CallsGetOwnParse == Spec => []ResolvedByOwnParse
  <1>1. PoolInv => ResolvedByOwnParse
    BY DEF PoolInv
  <1>2. QED
    BY <1>1, PoolInvariant, PTL

----------------------------------------------------------------------------
(* The pipes of a healthy pool, and the queue.                             *)

(* What a worker holds is what it answered and the main thread did not read,
   then what it has yet to parse.                                           *)
Pipe(h, out, in) ==
    /\ Len(h) = Len(out) + Len(in)
    /\ \A i \in 1..Len(out) : out[i].id = h[i]
    /\ \A i \in 1..Len(in) : in[i] = h[Len(out) + i]
Piped(w) == Pipe(held[w], outbox[w], inbox[w])
HealthyPipes ==
    /\ told = {}
    /\ \A w \in Workers : thread[w] = (IF w <= spawned THEN "up" ELSE "unspawned") /\ Piped(w)
PipeInv ==
    /\ faulty = {} /\ ~disabled => HealthyPipes
    /\ DisabledOnlyByFault
    /\ disabled => queue = <<>>
    /\ QueuedOnlyWhenFull

(* takeIdleSlot finds no slot only when the pool has all its workers and each
   holds its full depth.                                                    *)
LEMMA NoSlotMeansFull ==
  ASSUME TypeOK, ~\E w \in Workers : TakesSlot(w)
  PROVE  spawned = WorkerCount /\ \A w \in Workers : Len(held[w]) = Depth
  <1> USE PoolAssumption
  <1>0. /\ spawned \in 0..WorkerCount /\ held \in [Workers -> Seq(Tasks)]
        /\ Workers \subseteq Nat /\ 1 \in Workers
        /\ \A w \in Workers : Len(held[w]) \in Nat /\ Len(held[w]) <= Depth
    BY DEF TypeOK, Workers
  <1>1. AllBusy
    <2> SUFFICES ASSUME NEW u \in 1..spawned, held[u] = <<>> PROVE FALSE
      BY DEF AllBusy
    <2> DEFINE T == {w \in Workers : Idle(w)}
    <2>1. u \in T
      BY <1>0 DEF Idle, Workers
    <2>2. PICK w \in T : \A y \in T : w <= y
      BY <1>0, <2>1, LeastNatural
    <2>3. \A v \in 1..(w - 1) : ~Idle(v)
      BY <2>2, <1>0 DEF Workers
    <2>4. QED
      BY <2>2, <2>3 DEF TakesIdle, TakesSlot
  <1>2. spawned = WorkerCount
    <2>1. CASE spawned < WorkerCount
      <3>1. spawned + 1 \in Workers /\ TakesNew(spawned + 1)
        BY <1>0, <1>1, <2>1 DEF TakesNew, Workers
      <3>2. QED
        BY <3>1 DEF TakesSlot
    <2>2. QED
      BY <1>0, <2>1
  <1>3. PICK m \in {Len(held[w]) : w \in Workers} : \A y \in {Len(held[w]) : w \in Workers} : m <= y
    <2> DEFINE T == {Len(held[w]) : w \in Workers}
    <2>1. T \subseteq Nat /\ T # {}
      BY <1>0
    <2> HIDE DEF T
    <2>2. \E x \in T : \A y \in T : x <= y
      BY <2>1, LeastNatural
    <2>3. QED
      BY <2>2 DEF T
  <1>4. PICK w \in {v \in Workers : Len(held[v]) = m} :
               \A y \in {v \in Workers : Len(held[v]) = m} : w <= y
    <2> DEFINE T == {v \in Workers : Len(held[v]) = m}
    <2>1. T \subseteq Nat /\ T # {}
      BY <1>0, <1>3
    <2> HIDE DEF T
    <2>2. \E x \in T : \A y \in T : x <= y
      BY <2>1, LeastNatural
    <2>3. QED
      BY <2>2 DEF T
  <1>5. Lighter(w)
    <2> SUFFICES ASSUME NEW v \in Workers
                 PROVE  Len(held[w]) < Len(held[v]) \/ (Len(held[w]) = Len(held[v]) /\ w <= v)
      BY DEF Lighter
    <2>1. m <= Len(held[v]) /\ Len(held[w]) = m /\ m \in Nat /\ Len(held[v]) \in Nat
      BY <1>0, <1>3, <1>4
    <2>2. Len(held[v]) = m => w <= v
      BY <1>4
    <2>3. QED
      BY <2>1, <2>2
  <1>6. ~(Len(held[w]) < Depth)
    BY <1>1, <1>2, <1>4, <1>5 DEF TakesSlot, TakesBusy, LeastLoaded
  <1>7. \A v \in Workers : Len(held[v]) = Depth
    BY <1>0, <1>3, <1>4, <1>6
  <1>8. QED
    BY <1>2, <1>7

(* Whatever falls back, for a reason, empties the queue.                    *)
LEMMA FallsBackForAReason ==
  ASSUME PipeInv, NEW q, NEW h, NEW n,
         DisablePool(q, h, n) \/ FallBack(q, h, n),
         terminated => terminated', threw => threw', faulty \subseteq faulty',
         ~disabled => terminated' \/ threw' \/ faulty' # {}
  PROVE  PipeInv'
  <1>1. disabled' = TRUE /\ queue' = <<>>
    BY DEF DisablePool, FallBack, PipeInv
  <1>2. terminated' \/ threw' \/ faulty' # {}
    BY DEF PipeInv, DisabledOnlyByFault
  <1>3. QED
    BY <1>1, <1>2 DEF PipeInv, DisabledOnlyByFault, QueuedOnlyWhenFull

\* A task posted, an answer posted, and an answer read.
LEMMA PipePost ==
  ASSUME NEW h \in Seq(Tasks), NEW out \in Seq(Answers), NEW in \in Seq(Tasks), NEW t \in Tasks,
         Pipe(h, out, in)
  PROVE  Pipe(Append(h, t), out, Append(in, t))
  <1> DEFINE g == Append(h, t)
             b == Append(in, t)
  <1>1. /\ Len(g) = Len(h) + 1 /\ g[Len(h) + 1] = t /\ \A i \in 1..Len(h) : g[i] = h[i]
        /\ Len(b) = Len(in) + 1 /\ b[Len(in) + 1] = t /\ \A i \in 1..Len(in) : b[i] = in[i]
        /\ Len(h) \in Nat /\ Len(out) \in Nat /\ Len(in) \in Nat
    OBVIOUS
  <1> HIDE DEF g, b
  <1>2. Len(h) = Len(out) + Len(in)
    BY DEF Pipe
  <1>3. \A i \in 1..Len(out) : out[i].id = g[i]
    BY <1>1, <1>2 DEF Pipe
  <1>4. ASSUME NEW i \in 1..Len(b) PROVE b[i] = g[Len(out) + i]
    <2>1. CASE i = Len(in) + 1
      BY <1>1, <1>2, <2>1
    <2>2. CASE i \in 1..Len(in)
      <3>1. Len(out) + i \in 1..Len(h)
        BY <1>1, <1>2, <2>2
      <3>2. QED
        BY <1>1, <2>2, <3>1 DEF Pipe
    <2>3. QED
      BY <1>1, <2>1, <2>2
  <1>5. Pipe(g, out, b)
    BY <1>1, <1>2, <1>3, <1>4 DEF Pipe
  <1>6. QED
    BY <1>5 DEF g, b

LEMMA PipeAnswer ==
  ASSUME NEW h \in Seq(Tasks), NEW out \in Seq(Answers), NEW in \in Seq(Tasks), NEW a \in Answers,
         in # <<>>, a.id = Head(in), Pipe(h, out, in)
  PROVE  Pipe(h, Append(out, a), Tail(in))
  <1> DEFINE o == Append(out, a)
             b == Tail(in)
  <1>1. /\ Len(o) = Len(out) + 1 /\ o[Len(out) + 1] = a /\ \A i \in 1..Len(out) : o[i] = out[i]
        /\ Len(b) = Len(in) - 1 /\ \A i \in 1..Len(b) : b[i] = in[i + 1]
        /\ Len(h) \in Nat /\ Len(out) \in Nat /\ Len(in) \in Nat \ {0} /\ Head(in) = in[1]
    OBVIOUS
  <1> HIDE DEF o, b
  <1>2. Len(h) = Len(out) + Len(in) /\ Len(h) = Len(o) + Len(b)
    BY <1>1 DEF Pipe
  <1>3. ASSUME NEW i \in 1..Len(o) PROVE o[i].id = h[i]
    <2>1. CASE i = Len(out) + 1
      <3>1. 1 \in 1..Len(in)
        BY <1>1
      <3>2. in[1] = h[Len(out) + 1]
        BY <3>1 DEF Pipe
      <3>3. QED
        BY <1>1, <2>1, <3>2
    <2>2. CASE i \in 1..Len(out)
      BY <1>1, <2>2 DEF Pipe
    <2>3. QED
      BY <1>1, <2>1, <2>2
  <1>4. ASSUME NEW i \in 1..Len(b) PROVE b[i] = h[Len(o) + i]
    <2>1. i + 1 \in 1..Len(in) /\ Len(o) + i = Len(out) + (i + 1)
      BY <1>1
    <2>2. in[i + 1] = h[Len(out) + (i + 1)]
      BY <2>1 DEF Pipe
    <2>3. QED
      BY <1>1, <2>1, <2>2
  <1>5. Pipe(h, o, b)
    BY <1>2, <1>3, <1>4 DEF Pipe
  <1>6. QED
    BY <1>5 DEF o, b

LEMMA PipeRead ==
  ASSUME NEW h \in Seq(Tasks), NEW out \in Seq(Answers), NEW in \in Seq(Tasks),
         out # <<>>, Pipe(h, out, in)
  PROVE  h # <<>> /\ Head(out).id = Head(h) /\ Pipe(Tail(h), Tail(out), in)
  <1> DEFINE g == Tail(h)
             o == Tail(out)
  <1>1. Len(out) \in Nat \ {0} /\ Len(in) \in Nat /\ Head(out) = out[1] /\ Len(h) = Len(out) + Len(in)
    BY DEF Pipe
  <1>2. h # <<>> /\ Head(h) = h[1] /\ 1 \in 1..Len(out)
    BY <1>1
  <1>3. /\ Len(g) = Len(h) - 1 /\ Len(o) = Len(out) - 1
        /\ \A i \in 1..Len(g) : g[i] = h[i + 1]
        /\ \A i \in 1..Len(o) : o[i] = out[i + 1]
    BY <1>2
  <1> HIDE DEF g, o
  <1>4. ASSUME NEW i \in 1..Len(o) PROVE o[i].id = g[i]
    <2>1. i + 1 \in 1..Len(out) /\ i \in 1..Len(g)
      BY <1>1, <1>3
    <2>2. QED
      BY <1>3, <2>1 DEF Pipe
  <1>5. ASSUME NEW i \in 1..Len(in) PROVE in[i] = g[Len(o) + i]
    <2>1. Len(o) + i \in 1..Len(g) /\ Len(o) + i + 1 = Len(out) + i
      BY <1>1, <1>3
    <2>2. in[i] = h[Len(out) + i]
      BY DEF Pipe
    <2>3. QED
      BY <1>3, <2>1, <2>2
  <1>6. Pipe(g, o, in)
    BY <1>1, <1>3, <1>4, <1>5 DEF Pipe
  <1>7. QED
    BY <1>2, <1>6 DEF g, o, Pipe

\* A pipe nothing touched.
LEMMA PipeUntouched ==
  ASSUME NEW w \in Workers, Piped(w),
         held'[w] = held[w], outbox'[w] = outbox[w], inbox'[w] = inbox[w]
  PROVE  Piped(w)'
  BY DEF Piped

(* A task posted to a worker is the last it holds and the last it will read. *)
LEMMA PostKeepsPipes ==
  ASSUME PoolInv, PipeInv, NEW w \in Workers, DispatchTask(w)
  PROVE  PipeInv'
  <1> USE PoolAssumption
  <1>1. /\ dispatching' = dispatching /\ dispatching /\ ~disabled /\ disabled' = disabled
        /\ UNCHANGED <<outbox, faulty, told, terminated, threw>>
        /\ held' = [held EXCEPT ![w] = Append(@, Head(queue))]
        /\ spawned' = IF w > spawned THEN w ELSE spawned
        /\ thread' = IF w > spawned THEN [thread EXCEPT ![w] = "up"] ELSE thread
        /\ inbox' = IF thread'[w] = "up" THEN [inbox EXCEPT ![w] = Append(@, Head(queue))] ELSE inbox
        /\ Head(queue) \in Tasks
    BY ElementsOfTail DEF DispatchTask, LoopGoesOn, PoolInv, TypeOK
  <1>2. /\ held \in [Workers -> Seq(Tasks)] /\ inbox \in [Workers -> Seq(Tasks)]
        /\ outbox \in [Workers -> Seq(Answers)] /\ spawned \in 0..WorkerCount
        /\ thread \in [Workers -> {"unspawned", "up", "dead", "gone"}] /\ Workers \subseteq Nat
    BY DEF PoolInv, TypeOK, Workers
  <1>3. w > spawned => w = spawned + 1
    BY SlotHasRoom DEF DispatchTask
  <1>4. ASSUME faulty = {} PROVE HealthyPipes'
    <2>1. HealthyPipes
      BY <1>1, <1>4 DEF PipeInv
    <2>2. \A v \in Workers : thread'[v] = IF v <= spawned' THEN "up" ELSE "unspawned"
      BY <1>1, <1>2, <1>3, <2>1 DEF HealthyPipes
    <2>3. /\ inbox' = [inbox EXCEPT ![w] = Append(@, Head(queue))]
      BY <1>1, <1>2, <2>2
    <2>4. Piped(w)'
      <3> DEFINE e == Head(queue)
      <3>1. Piped(w) /\ held[w] \in Seq(Tasks) /\ inbox[w] \in Seq(Tasks) /\ outbox[w] \in Seq(Answers)
        BY <1>2, <2>1 DEF HealthyPipes
      <3>2. held'[w] = Append(held[w], e) /\ inbox'[w] = Append(inbox[w], e) /\ outbox'[w] = outbox[w]
        BY <1>1, <1>2, <2>3
      <3> HIDE DEF e
      <3>3. e \in Tasks
        BY <1>1 DEF e
      <3>4. QED
        BY <3>1, <3>2, <3>3, PipePost DEF Piped
    <2>5. ASSUME NEW v \in Workers \ {w} PROVE Piped(v)'
      BY <1>1, <1>2, <2>1, <2>3, PipeUntouched DEF HealthyPipes
    <2>6. QED
      BY <1>1, <2>1, <2>2, <2>4, <2>5 DEF HealthyPipes
  <1>5. QED
    BY <1>1, <1>4 DEF PipeInv, DisabledOnlyByFault, QueuedOnlyWhenFull

(* In a healthy pool every answer is to the oldest task its slot holds.     *)
LEMMA AnswerKeepsPipes ==
  ASSUME PoolInv, PipeInv, NEW w \in Workers, ReceiveAnswer(w)
  PROVE  PipeInv'
  <1>1. /\ ~dispatching /\ outbox[w] # <<>> /\ outbox' = [outbox EXCEPT ![w] = Tail(@)]
        /\ UNCHANGED <<spawned, threw, terminated, inbox, thread, faulty>>
    BY DEF ReceiveAnswer
  <1>2. /\ held \in [Workers -> Seq(Tasks)] /\ inbox \in [Workers -> Seq(Tasks)]
        /\ outbox \in [Workers -> Seq(Answers)]
    BY DEF PoolInv, TypeOK
  <1>3. CASE disabled
    BY <1>1, <1>3 DEF ReceiveAnswer, PipeInv, DisabledOnlyByFault, QueuedOnlyWhenFull
  <1>4. HealthyPipes => AnswersOldest(w)
    <2> SUFFICES ASSUME HealthyPipes PROVE AnswersOldest(w)
      OBVIOUS
    <2>1. /\ Piped(w) /\ held[w] \in Seq(Tasks) /\ inbox[w] \in Seq(Tasks) /\ outbox[w] \in Seq(Answers)
      BY <1>2 DEF HealthyPipes
    <2>2. QED
      BY <1>1, <2>1, PipeRead DEF AnswersOldest, Piped
  <1>5. CASE ~disabled /\ ~AnswersOldest(w)
    <2>1. DisablePool(queue, held, spawned) /\ faulty # {}
      BY <1>4, <1>5 DEF ReceiveAnswer, PipeInv
    <2>2. QED
      BY <1>1, <2>1, FallsBackForAReason
  <1>6. CASE ~disabled /\ AnswersOldest(w)
    <2>1. held' = [held EXCEPT ![w] = Tail(@)] /\ dispatching' = TRUE /\ UNCHANGED <<queue, disabled, told>>
      BY <1>6 DEF ReceiveAnswer
    <2>2. ASSUME faulty = {} PROVE HealthyPipes'
      <3>1. HealthyPipes
        BY <1>6, <2>2 DEF PipeInv
      <3>2. Piped(w)'
        <4>1. /\ Piped(w) /\ held[w] \in Seq(Tasks) /\ inbox[w] \in Seq(Tasks) /\ outbox[w] \in Seq(Answers)
              /\ held[w] # <<>> /\ outbox[w] # <<>>
          BY <1>1, <1>2, <1>6, <3>1 DEF HealthyPipes, AnswersOldest
        <4>2. held'[w] = Tail(held[w]) /\ outbox'[w] = Tail(outbox[w]) /\ inbox'[w] = inbox[w]
          BY <1>1, <1>2, <2>1
        <4>3. QED
          BY <4>1, <4>2, PipeRead DEF Piped
      <3>3. ASSUME NEW v \in Workers \ {w} PROVE Piped(v)'
        BY <1>1, <1>2, <2>1, <3>1, PipeUntouched DEF HealthyPipes
      <3>4. QED
        BY <1>1, <2>1, <3>1, <3>2, <3>3 DEF HealthyPipes
    <2>3. QED
      BY <1>1, <1>6, <2>1, <2>2 DEF PipeInv, DisabledOnlyByFault, QueuedOnlyWhenFull
  <1>7. QED
    BY <1>3, <1>5, <1>6

(* A thread answers the oldest task it has to read.                         *)
LEMMA WorkKeepsPipes ==
  ASSUME PoolInv, PipeInv, NEW w \in Workers, Work(w)
  PROVE  PipeInv'
  <1>1. PICK ok \in BOOLEAN : outbox' = [outbox EXCEPT ![w] = Append(@, [id |-> Head(inbox[w]), ok |-> ok])]
    BY DEF Work
  <1>2. /\ UNCHANGED <<mainVars, thread, faulty>> /\ inbox' = [inbox EXCEPT ![w] = Tail(@)]
        /\ inbox[w] # <<>>
        /\ held \in [Workers -> Seq(Tasks)] /\ inbox \in [Workers -> Seq(Tasks)]
        /\ outbox \in [Workers -> Seq(Answers)]
    BY DEF Work, PoolInv, TypeOK
  <1>3. ASSUME faulty = {}, ~disabled PROVE HealthyPipes'
    <2>1. HealthyPipes
      BY <1>3 DEF PipeInv
    <2>2. Piped(w)'
      <3> DEFINE a == [id |-> Head(inbox[w]), ok |-> ok]
      <3>1. /\ Piped(w) /\ held[w] \in Seq(Tasks) /\ inbox[w] \in Seq(Tasks) /\ outbox[w] \in Seq(Answers)
        BY <1>2, <2>1 DEF HealthyPipes
      <3>2. /\ inbox'[w] = Tail(inbox[w]) /\ outbox'[w] = Append(outbox[w], a) /\ held'[w] = held[w]
            /\ a.id = Head(inbox[w]) /\ a \in Answers
        <4>1. Head(inbox[w]) \in Tasks
          BY <1>2, <3>1
        <4>2. QED
          BY <1>1, <1>2, <4>1 DEF mainVars, Answers
      <3> HIDE DEF a
      <3>3. QED
        BY <1>2, <3>1, <3>2, PipeAnswer DEF Piped
    <2>3. ASSUME NEW v \in Workers \ {w} PROVE Piped(v)'
      BY <1>1, <1>2, <2>1, PipeUntouched DEF HealthyPipes, mainVars
    <2>4. QED
      BY <1>2, <2>1, <2>2, <2>3 DEF HealthyPipes, mainVars
  <1>4. QED
    BY <1>2, <1>3 DEF PipeInv, DisabledOnlyByFault, QueuedOnlyWhenFull, mainVars

(* Steps that leave the pipes alone.                                        *)
LEMMA PipesUntouched ==
  ASSUME PipeInv, UNCHANGED <<held, outbox, inbox, thread, faulty, told, spawned, disabled>>,
         terminated => terminated', threw => threw',
         disabled => queue' = queue,
         ~dispatching' /\ queue' # <<>> /\ ~disabled => QueuedOnlyWhenFull'
  PROVE  PipeInv'
  <1>1. HealthyPipes => HealthyPipes'
    BY DEF HealthyPipes, Piped
  <1>2. QED
    BY <1>1 DEF PipeInv, DisabledOnlyByFault, QueuedOnlyWhenFull

LEMMA NextKeepsPipes ==
  ASSUME PoolInv, PipeInv, [Next]_vars
  PROVE  PipeInv'
  <1>1. ASSUME NEW t \in Tasks, Parse(t) PROVE PipeInv'
    BY <1>1, PipesUntouched DEF Parse, workerVars, PipeInv, QueuedOnlyWhenFull
  <1>2. ASSUME NEW t \in Tasks, InlineEnds(t) PROVE PipeInv'
    BY <1>2, PipesUntouched DEF InlineEnds, workerVars, PipeInv, QueuedOnlyWhenFull
  <1>3. CASE DispatchEnds
    <2>1. /\ UNCHANGED <<queue, spawned, held, disabled, threw, told, terminated, inbox, outbox, thread, faulty>>
      BY <1>3 DEF DispatchEnds, workerVars
    <2>2. queue # <<>> /\ ~disabled => QueuedOnlyWhenFull'
      <3>1. TypeOK
        BY DEF PoolInv
      <3>2. QED
        BY <1>3, <2>1, <3>1, NoSlotMeansFull DEF DispatchEnds, LoopGoesOn, QueuedOnlyWhenFull
    <2>3. QED
      BY <2>1, <2>2, PipesUntouched
  <1>4. CASE SpawnThrows
    BY <1>4, FallsBackForAReason DEF SpawnThrows, workerVars
  <1>5. ASSUME NEW w \in Workers, PostThrows(w) PROVE PipeInv'
    BY <1>5, FallsBackForAReason DEF PostThrows
  <1>6. CASE Terminate
    BY <1>6, FallsBackForAReason DEF Terminate, workerVars
  <1>7. ASSUME NEW w \in Workers, ReceiveExit(w) PROVE PipeInv'
    <2>1. ~disabled => faulty # {}
      <3> SUFFICES ASSUME ~disabled, faulty = {} PROVE FALSE
        OBVIOUS
      <3>1. HealthyPipes /\ thread[w] = "dead"
        BY <1>7 DEF PipeInv, ReceiveExit
      <3>2. QED
        BY <3>1 DEF HealthyPipes
    <2>2. QED
      BY <1>7, <2>1, FallsBackForAReason DEF ReceiveExit
  <1>8. ASSUME NEW w \in Workers, Stray(w) \/ Crash(w) PROVE PipeInv'
    <2>1. UNCHANGED mainVars /\ faulty' # {}
      BY <1>8 DEF Stray, Crash
    <2>2. QED
      BY <2>1 DEF PipeInv, DisabledOnlyByFault, QueuedOnlyWhenFull, mainVars
  <1>9. ASSUME NEW w \in Workers, Stop(w) PROVE PipeInv'
    <2>1. UNCHANGED <<mainVars, faulty>> /\ told # {}
      BY <1>9 DEF Stop
    <2>2. ~(faulty = {} /\ ~disabled)
      BY <2>1 DEF PipeInv, HealthyPipes
    <2>3. QED
      BY <2>1, <2>2 DEF PipeInv, DisabledOnlyByFault, QueuedOnlyWhenFull, mainVars
  <1>10. CASE UNCHANGED vars
    BY <1>10, PipesUntouched DEF vars, mainVars, workerVars, PipeInv, QueuedOnlyWhenFull
  <1>11. ASSUME NEW w \in Workers, ReceiveAnswer(w) \/ Work(w) \/ DispatchTask(w) PROVE PipeInv'
    BY <1>11, AnswerKeepsPipes, WorkKeepsPipes, PostKeepsPipes
  <1>12. QED
    BY <1>1, <1>2, <1>3, <1>4, <1>5, <1>6, <1>7, <1>8, <1>9, <1>10, <1>11 DEF Next, Dispatch

LEMMA InitPipes == Init => PipeInv
  <1> SUFFICES ASSUME Init PROVE PipeInv
    OBVIOUS
  <1>1. /\ \A w \in Workers : held[w] = <<>> /\ inbox[w] = <<>> /\ outbox[w] = <<>>
        /\ spawned = 0 /\ told = {} /\ queue = <<>> /\ disabled = FALSE
        /\ \A w \in Workers : thread[w] = "unspawned"
    BY DEF Init
  <1>2. \A w \in Workers : Piped(w) /\ ~(w <= spawned)
    <2>1. Pipe(<<>>, <<>>, <<>>)
      BY DEF Pipe
    <2>2. \A w \in Workers : ~(w <= spawned)
      BY <1>1, PoolAssumption DEF Workers
    <2>3. QED
      BY <1>1, <2>1, <2>2 DEF Piped
  <1>3. QED
    BY <1>1, <1>2 DEF PipeInv, HealthyPipes, DisabledOnlyByFault, QueuedOnlyWhenFull

THEOREM PipesInvariant == Spec => [](PoolInv /\ PipeInv)
  BY InitInv, NextKeepsInv, InitPipes, NextKeepsPipes, PTL DEF Spec

(* Pipelining several tasks to a worker never disables the pool by itself: it
   is only ever disabled by terminate, a throw, a death or a stray answer
   (handleWorkerMessage, the exit and error events).                        *)
THEOREM OnlyFaultsDisable == Spec => []DisabledOnlyByFault
  <1>1. PipeInv => DisabledOnlyByFault
    BY DEF PipeInv
  <1>2. QED
    BY <1>1, PipesInvariant, PTL

(* Between handlers a task waits in the queue only when every worker that may
   be spawned is, and holds its full depth (dispatch, takeIdleSlot).        *)
THEOREM QueueWaitsOnlyWhenFull == Spec => []QueuedOnlyWhenFull
  <1>1. PipeInv => QueuedOnlyWhenFull
    BY DEF PipeInv
  <1>2. QED
    BY <1>1, PipesInvariant, PTL

----------------------------------------------------------------------------
(* The pool implements ParseOnce.                                          *)

(* The phase of a call changes only as its promise or its inline parse do. *)
LEMMA PhaseOf ==
  ASSUME NEW t \in Tasks
  PROVE  /\ phase[t] = (CASE promise[t] = "none" -> "unasked"
                        [] promise[t] = "pending" /\ inline[t] = 0 -> "waiting"
                        [] promise[t] = "pending" /\ inline[t] # 0 -> "inline"
                        [] OTHER -> promise[t])
         /\ phase'[t] = (CASE promise'[t] = "none" -> "unasked"
                         [] promise'[t] = "pending" /\ inline'[t] = 0 -> "waiting"
                         [] promise'[t] = "pending" /\ inline'[t] # 0 -> "inline"
                         [] OTHER -> promise'[t])
  BY DEF phase

\* A step that leaves the promises and inline parses alone leaves the phases.
LEMMA PhaseStays ==
  ASSUME UNCHANGED <<promise, inline>>
  PROVE  phase' = phase
  BY DEF phase

(* One call moves to phase p, and the others stay where they are. *)
LEMMA PhaseMoves ==
  ASSUME NEW t \in Tasks, NEW p,
         \A u \in Tasks \ {t} : promise'[u] = promise[u] /\ inline'[u] = inline[u],
         phase'[t] = p
  PROVE  phase' = [phase EXCEPT ![t] = p]
  <1>1. \A u \in Tasks \ {t} : phase'[u] = phase[u]
    BY PhaseOf
  <1>2. DOMAIN phase = Tasks /\ DOMAIN phase' = Tasks
        /\ phase = [u \in Tasks |-> phase[u]] /\ phase' = [u \in Tasks |-> phase'[u]]
    BY DEF phase
  <1>3. QED
    BY <1>1, <1>2

(* The calls that waited move to the main thread together. *)
LEMMA FallBackRefines ==
  ASSUME PoolInv,
         NEW q \in Seq(Tasks), NEW h \in [Workers -> Seq(Tasks)], NEW n \in 0..WorkerCount,
         PendingTasks(q, h) = PendingTasks(queue, held),
         DisablePool(q, h, n) \/ FallBack(q, h, n),
         promise' = promise
  PROVE  Once!Next \/ phase' = phase
  <1>1. CASE UNCHANGED inline
    BY <1>1, PhaseStays
  <1>2. CASE FallBack(q, h, n)
    <2> DEFINE P == PendingTasks(queue, held)
    <2>1. inline' = [t \in Tasks |-> IF t \in P THEN inline[t] + 1 ELSE inline[t]]
      BY <1>2 DEF FallBack
    <2>2. P \subseteq Tasks
      BY TasksInSeq DEF PendingTasks, PoolInv, TypeOK
    <2>3. \A t \in P : phase[t] = "waiting" /\ phase'[t] = "inline"
      <3>1. ASSUME NEW t \in P PROVE phase[t] = "waiting" /\ phase'[t] = "inline"
        <4>1. promise[t] = "pending" /\ inline[t] = 0
          BY <2>2, PendingHaveOwner
        <4>2. promise'[t] = "pending" /\ inline'[t] = 1
          BY <2>1, <2>2, <4>1
        <4>3. QED
          BY <2>2, <4>1, <4>2, PhaseOf
      <3>2. QED
        BY <3>1
    <2>4. \A t \in Tasks \ P : phase'[t] = phase[t]
      BY <2>1, PhaseOf
    <2>5. P \in SUBSET {t \in Tasks : phase[t] = "waiting"}
      BY <2>2, <2>3
    <2>6. phase' = [t \in Tasks |-> IF t \in P THEN "inline" ELSE phase[t]]
      <3>1. phase' = [t \in Tasks |-> phase'[t]]
        BY DEF phase
      <3>2. QED
        BY <2>3, <2>4, <3>1
    <2>7. QED
      BY <2>5, <2>6 DEF Once!Next, Once!FallBack
  <1>3. QED
    BY <1>1, <1>2 DEF DisablePool

(* A call is asked of a worker, or parsed at once. *)
LEMMA ParseRefines ==
  ASSUME PoolInv, NEW t \in Tasks, Parse(t)
  PROVE  Once!Next
  <1>1. promise[t] = "none" /\ promise' = [promise EXCEPT ![t] = "pending"]
    BY DEF Parse
  <1>2. inline' = inline \/ inline' = [inline EXCEPT ![t] = @ + 1]
    BY DEF Parse
  <1>3. \A u \in Tasks \ {t} : promise'[u] = promise[u] /\ inline'[u] = inline[u]
    BY <1>1, <1>2 DEF PoolInv, TypeOK
  <1>4. phase[t] = "unasked"
    BY <1>1, PhaseOf
  <1>5. phase'[t] \in {"waiting", "inline"}
    <2>1. promise'[t] = "pending"
      BY <1>1 DEF PoolInv, TypeOK
    <2>2. QED
      BY <2>1, PhaseOf
  <1>6. phase' = [phase EXCEPT ![t] = phase'[t]]
    BY <1>3, PhaseMoves
  <1>7. QED
    BY <1>4, <1>5, <1>6 DEF Once!Next, Once!Ask

(* An answer settles its call, or turns it alone to the main thread; any
   other message turns all that wait.                                       *)
LEMMA ReceiveAnswerRefines ==
  ASSUME PoolInv, NEW w \in Workers, ReceiveAnswer(w)
  PROVE  Once!Next \/ phase' = phase
  <1>1. CASE disabled
    BY <1>1, PhaseStays DEF ReceiveAnswer
  <1>2. CASE ~disabled /\ ~AnswersOldest(w)
    <2>1. DisablePool(queue, held, spawned) /\ promise' = promise
      BY <1>2 DEF ReceiveAnswer
    <2>2. QED
      BY <2>1, FallBackRefines DEF PoolInv, TypeOK
  <1>3. CASE ~disabled /\ AnswersOldest(w)
    <2>0. PICK t \in Tasks : t = Head(held[w]) /\ t \in Elements(held[w])
      BY <1>3, ElementsOfTail DEF AnswersOldest, PoolInv, TypeOK
    <2>1. promise[t] = "pending" /\ inline[t] = 0
      BY <2>0, PendingHaveOwner DEF PendingTasks
    <2>2. phase[t] = "waiting"
      BY <2>1, PhaseOf
    <2>3. \/ promise' = [promise EXCEPT ![t] = "resolved"] /\ UNCHANGED inline
          \/ inline' = [inline EXCEPT ![t] = @ + 1] /\ UNCHANGED promise
      BY <1>3, <2>0 DEF ReceiveAnswer, SettleOrRetry
    <2>4. \A u \in Tasks \ {t} : promise'[u] = promise[u] /\ inline'[u] = inline[u]
      BY <2>3 DEF PoolInv, TypeOK
    <2>5. phase' = [phase EXCEPT ![t] = phase'[t]]
      BY <2>4, PhaseMoves
    <2>6. CASE promise' = [promise EXCEPT ![t] = "resolved"]
      <3>1. promise'[t] = "resolved"
        BY <2>6 DEF PoolInv, TypeOK
      <3>2. phase'[t] = "resolved"
        BY <3>1, PhaseOf
      <3>3. QED
        BY <2>2, <2>5, <3>2 DEF Once!Next, Once!Answer
    <2>7. CASE inline' = [inline EXCEPT ![t] = @ + 1] /\ UNCHANGED promise
      <3>1. inline'[t] = 1 /\ promise'[t] = "pending"
        BY <2>1, <2>7 DEF PoolInv, TypeOK
      <3>2. phase'[t] = "inline"
        BY <3>1, PhaseOf
      <3>3. phase' = [u \in Tasks |-> IF u \in {t} THEN "inline" ELSE phase[u]]
        BY <2>5, <3>2 DEF phase
      <3>4. {t} \in SUBSET {u \in Tasks : phase[u] = "waiting"}
        BY <2>2
      <3>5. QED
        BY <3>3, <3>4 DEF Once!Next, Once!FallBack
    <2>8. QED
      BY <2>3, <2>6, <2>7
  <1>4. QED
    BY <1>1, <1>2, <1>3

(* The main thread's parse settles its call. *)
LEMMA InlineEndsRefines ==
  ASSUME PoolInv, NEW t \in Tasks, InlineEnds(t)
  PROVE  Once!Next
  <1>1. inline[t] = 1 /\ promise[t] = "pending"
    <2>1. inline[t] > 0
      BY DEF InlineEnds
    <2>2. inline[t] = 1
      BY <2>1, PendingHaveOwner
    <2>3. QED
      BY <2>2 DEF PoolInv, OneOwner
  <1>2. /\ inline' = [inline EXCEPT ![t] = 0]
        /\ \/ promise' = [promise EXCEPT ![t] = "resolved"]
           \/ promise' = [promise EXCEPT ![t] = "rejected"]
    BY <1>1 DEF InlineEnds
  <1>3. \A u \in Tasks \ {t} : promise'[u] = promise[u] /\ inline'[u] = inline[u]
    BY <1>2 DEF PoolInv, TypeOK
  <1>4. phase[t] = "inline"
    BY <1>1, PhaseOf
  <1>5. phase'[t] \in {"resolved", "rejected"}
    <2>1. promise'[t] \in {"resolved", "rejected"}
      BY <1>2 DEF PoolInv, TypeOK
    <2>2. QED
      BY <2>1, PhaseOf
  <1>6. phase' = [phase EXCEPT ![t] = phase'[t]]
    BY <1>3, PhaseMoves
  <1>7. QED
    BY <1>4, <1>5, <1>6 DEF Once!Next, Once!InlineEnds

\* Every step of the pool is a step of ParseOnce, or none.
LEMMA StepRefines ==
  ASSUME PoolInv, [Next]_vars
  PROVE  [Once!Next]_phase
  <1>1. ASSUME NEW t \in Tasks, Parse(t) \/ InlineEnds(t) PROVE Once!Next
    BY <1>1, ParseRefines, InlineEndsRefines
  <1>2. CASE Dispatch
    <2>1. CASE SpawnThrows
      <3>1. DisablePool(queue, held, spawned) /\ promise' = promise
        BY <2>1 DEF SpawnThrows
      <3>2. QED
        BY <3>1, FallBackRefines DEF PoolInv, TypeOK
    <2>2. ASSUME NEW w \in Workers, PostThrows(w) PROVE Once!Next \/ phase' = phase
      <3>1. CASE inline' = inline
        BY <2>2, <3>1, PhaseStays DEF PostThrows
      <3>2. QED
        <4> DEFINE q == Tail(queue)
                   h == [held EXCEPT ![w] = Append(@, Head(queue))]
        <4>1. /\ queue # <<>> /\ DisablePool(q, h, spawned') /\ promise' = promise
              /\ spawned' \in 0..WorkerCount
          BY <2>2, SlotHasRoom DEF PostThrows, LoopGoesOn, PoolInv, TypeOK
        <4>2. q \in Seq(Tasks) /\ h \in [Workers -> Seq(Tasks)]
              /\ PendingTasks(q, h) = PendingTasks(queue, held)
          BY <4>1, PostedStaysPending
        <4>3. QED
          BY <4>1, <4>2, FallBackRefines
    <2>3. CASE UNCHANGED <<promise, inline>>
      BY <2>3, PhaseStays
    <2>4. QED
      BY <1>2, <2>1, <2>2, <2>3 DEF Dispatch, DispatchEnds, DispatchTask
  <1>3. CASE Terminate
    <2>1. FallBack(queue, held, spawned) /\ promise' = promise
      BY <1>3 DEF Terminate
    <2>2. QED
      BY <2>1, FallBackRefines DEF PoolInv, TypeOK
  <1>4. ASSUME NEW w \in Workers, ReceiveExit(w) PROVE Once!Next \/ phase' = phase
    <2>1. DisablePool(queue, held, spawned) /\ promise' = promise
      BY <1>4 DEF ReceiveExit
    <2>2. QED
      BY <2>1, FallBackRefines DEF PoolInv, TypeOK
  <1>5. ASSUME NEW w \in Workers, ReceiveAnswer(w) PROVE Once!Next \/ phase' = phase
    BY <1>5, ReceiveAnswerRefines
  <1>6. CASE UNCHANGED mainVars
    BY <1>6, PhaseStays DEF mainVars
  <1>7. QED
    BY <1>1, <1>2, <1>3, <1>4, <1>5, <1>6 DEF Next, Work, Stray, Crash, Stop, vars

(* Whatever its threads do, the pool settles every call once, a fall back is
   final, and a worker's failure never rejects a call: every step of it is a
   step of ParseOnce, or changes nothing a caller sees.                     *)
THEOREM PoolImplementsParseOnce == Spec => ImplementsParseOnce
  <1>1. Init => Once!Init
    BY DEF Init, Once!Init, phase
  <1>2. PoolInv /\ [Next]_vars => [Once!Next]_phase
    BY StepRefines
  <1>3. QED
    BY <1>1, <1>2, PoolInvariant, PTL DEF Spec, ImplementsParseOnce, Once!Spec
==============================================================================
