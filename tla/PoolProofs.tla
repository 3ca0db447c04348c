----------------------------- MODULE PoolProofs -----------------------------
(***************************************************************************)
(* What each critical section of the worker pool does to CountersExact and *)
(* QueuedExact, and to the place a task is in (TasksPlaced), for every     *)
(* number of threads and tasks.  The lemmas state what an action needs to  *)
(* know of its thread; the modules built on the pool (ChannelProofs,       *)
(* TaskGroupProofs) supply that from their own invariants.                 *)
(***************************************************************************)
EXTENDS WorkerPool, FiniteSetTheorems, TLAPS

LEMMA ThreadsFinite == IsFiniteSet(Threads)
<1>1. IsFiniteSet(Workers)
  BY FS_Interval, PoolAssumption DEF Workers
<1> QED  BY <1>1, FS_Union, PoolAssumption DEF Threads

\* A set of threads is finite and counted by a natural number, zero only for
\* the empty set.
LEMMA Counted ==
  ASSUME NEW S \in SUBSET Threads
  PROVE  /\ IsFiniteSet(S) /\ Cardinality(S) \in Nat
         /\ Cardinality(S) = 0 <=> S = {}
<1>1. IsFiniteSet(S)  BY ThreadsFinite, FS_Subset
<1> QED  BY <1>1, FS_CardinalityType, FS_EmptySet

\* One thread more, one thread less.
LEMMA CountAdd ==
  ASSUME NEW S \in SUBSET Threads, NEW t \in Threads, t \notin S
  PROVE  Cardinality(S \cup {t}) = Cardinality(S) + 1
BY Counted, FS_AddElement

LEMMA CountRemove ==
  ASSUME NEW S \in SUBSET Threads, NEW t \in S
  PROVE  /\ Cardinality(S) > 0
         /\ Cardinality(S \ {t}) = Cardinality(S) - 1
<1>1. Cardinality(S) \in Nat /\ Cardinality(S) # 0  BY Counted
<1>2. Cardinality(S \ {t}) = Cardinality(S) - 1  BY Counted, FS_RemoveElement
<1> QED  BY <1>1, <1>2

-----------------------------------------------------------------------------
(* CountersExact *)

\* The four sets the counters count follow from the thread-locals alone.
LEMMA CountersKept ==
  ASSUME CountersExact,
         UNCHANGED <<runningWorkers, blockedWorkers, activeExternal, externalWaiters>>,
         UNCHANGED <<isWorker, registered, waitKind>>
  PROVE  CountersExact'
BY DEF CountersExact, WorkersIn, ExternalsIn

\* liveness_worker_begin, by a thread that is no worker yet and does not wait.
LEMMA WorkerBeginCounts ==
  ASSUME PoolTypeOK, CountersExact, NEW w \in Threads, NEW to,
         ~isWorker[w], waitKind[w] = 0, WorkerBegin(w, to)
  PROVE  CountersExact'
<1> USE DEF PoolTypeOK
<1>1. /\ WorkersIn(0)' = WorkersIn(0) \cup {w} /\ w \notin WorkersIn(0)
      /\ WorkersIn(1)' = WorkersIn(1)
      /\ ExternalsIn(0)' = ExternalsIn(0) /\ ExternalsIn(2)' = ExternalsIn(2)
  BY DEF WorkerBegin, WorkersIn, ExternalsIn
<1>2. WorkersIn(0) \in SUBSET Threads  BY DEF WorkersIn
<1>3. Cardinality(WorkersIn(0)') = Cardinality(WorkersIn(0)) + 1
  BY <1>1, <1>2, CountAdd
<1>4. /\ runningWorkers' = runningWorkers + 1
      /\ UNCHANGED <<blockedWorkers, activeExternal, externalWaiters>>
  BY DEF WorkerBegin
<1> QED  BY <1>1, <1>3, <1>4 DEF CountersExact

\* liveness_worker_end, by a worker that does not wait.
LEMMA WorkerEndCounts ==
  ASSUME PoolTypeOK, CountersExact, NEW w \in Threads,
         isWorker[w], waitKind[w] = 0, WorkerEnd(w)
  PROVE  CountersExact'
<1> USE DEF PoolTypeOK
<1>1. /\ WorkersIn(0)' = WorkersIn(0) \ {w} /\ w \in WorkersIn(0)
      /\ WorkersIn(1)' = WorkersIn(1)
      /\ ExternalsIn(0)' = ExternalsIn(0) /\ ExternalsIn(2)' = ExternalsIn(2)
  BY DEF WorkerEnd, WorkersIn, ExternalsIn
<1>2. WorkersIn(0) \in SUBSET Threads  BY DEF WorkersIn
<1>3. /\ Cardinality(WorkersIn(0)) > 0
      /\ Cardinality(WorkersIn(0)') = Cardinality(WorkersIn(0)) - 1
  BY <1>1, <1>2, CountRemove
<1>4. /\ runningWorkers' = Dec(runningWorkers)
      /\ UNCHANGED <<blockedWorkers, activeExternal, externalWaiters>>
  BY DEF WorkerEnd
<1> QED  BY <1>1, <1>3, <1>4 DEF CountersExact, Dec

\* The registration of a thread that submits and does not wait.
LEMMA RegisterCounts ==
  ASSUME PoolTypeOK, CountersExact, NEW t \in Threads, waitKind[t] = 0, Register(t)
  PROVE  CountersExact'
<1> USE DEF PoolTypeOK
<1>1. /\ WorkersIn(0)' = WorkersIn(0) /\ WorkersIn(1)' = WorkersIn(1)
      /\ ExternalsIn(0)' = ExternalsIn(0) \cup {t}
      /\ t \in ExternalsIn(0) <=> registered[t]
      /\ ExternalsIn(2)' = ExternalsIn(2)
  BY DEF Register, RegisterExternal, WorkersIn, ExternalsIn
<1>2. ExternalsIn(0) \in SUBSET Threads  BY DEF ExternalsIn
<1>3. activeExternal' = Cardinality(ExternalsIn(0)')
  <2>1. CASE registered[t]
    BY <1>1, <2>1 DEF Register, RegisterExternal, CountersExact
  <2>2. CASE ~registered[t]
    BY <1>1, <1>2, <2>2, CountAdd DEF Register, RegisterExternal, CountersExact
  <2> QED  BY <2>1, <2>2
<1>4. UNCHANGED <<runningWorkers, blockedWorkers, externalWaiters>>
  BY DEF Register
<1> QED  BY <1>1, <1>3, <1>4 DEF CountersExact

\* A wait begins: t moves from the active to the waiting threads of its kind.
LEMMA WaitBeginCounts ==
  ASSUME PoolTypeOK, CountersExact, NEW t \in Threads, NEW opposite,
         waitKind[t] = 0, ~(isWorker[t] /\ registered[t]), WaitBegin(t, opposite)
  PROVE  CountersExact'
<1> USE DEF PoolTypeOK
<1>0. WorkersIn(0) \in SUBSET Threads /\ WorkersIn(1) \in SUBSET Threads
      /\ ExternalsIn(0) \in SUBSET Threads /\ ExternalsIn(2) \in SUBSET Threads
  BY DEF WorkersIn, ExternalsIn
<1>1. CASE isWorker[t]
  <2>1. /\ WorkersIn(0)' = WorkersIn(0) \ {t} /\ t \in WorkersIn(0)
        /\ WorkersIn(1)' = WorkersIn(1) \cup {t} /\ t \notin WorkersIn(1)
        /\ ExternalsIn(0)' = ExternalsIn(0) /\ ExternalsIn(2)' = ExternalsIn(2)
    BY <1>1 DEF WaitBegin, WorkersIn, ExternalsIn
  <2>2. /\ Cardinality(WorkersIn(0)) > 0
        /\ Cardinality(WorkersIn(0)') = Cardinality(WorkersIn(0)) - 1
        /\ Cardinality(WorkersIn(1)') = Cardinality(WorkersIn(1)) + 1
    BY <1>0, <2>1, CountRemove, CountAdd
  <2>3. /\ runningWorkers' = Dec(runningWorkers)
        /\ blockedWorkers' = blockedWorkers + 1
        /\ UNCHANGED <<activeExternal, externalWaiters>>
    BY <1>1 DEF WaitBegin
  <2> QED  BY <2>1, <2>2, <2>3 DEF CountersExact, Dec
<1>2. CASE ~isWorker[t]
  <2>1. /\ WorkersIn(0)' = WorkersIn(0) /\ WorkersIn(1)' = WorkersIn(1)
        /\ ExternalsIn(0)' = ExternalsIn(0) \ {t}
        /\ t \in ExternalsIn(0) <=> registered[t]
        /\ ExternalsIn(2)' = ExternalsIn(2) \cup {t} /\ t \notin ExternalsIn(2)
    BY <1>2 DEF WaitBegin, WorkersIn, ExternalsIn
  <2>2. Cardinality(ExternalsIn(2)') = Cardinality(ExternalsIn(2)) + 1
    BY <1>0, <2>1, CountAdd
  <2>3. activeExternal' = Cardinality(ExternalsIn(0)')
    <3>1. activeExternal' = Dec(IF registered[t] THEN activeExternal
                                                ELSE activeExternal + 1)
      BY <1>2 DEF WaitBegin
    <3>2. CASE registered[t]
      <4>1. /\ Cardinality(ExternalsIn(0)) > 0
            /\ Cardinality(ExternalsIn(0)') = Cardinality(ExternalsIn(0)) - 1
        BY <1>0, <2>1, <3>2, CountRemove
      <4> QED  BY <3>1, <3>2, <4>1 DEF Dec, CountersExact
    <3>3. CASE ~registered[t]
      <4>1. ExternalsIn(0)' = ExternalsIn(0)
        BY <1>2, <3>3 DEF WaitBegin, ExternalsIn
      <4> QED  BY <3>1, <3>3, <4>1 DEF Dec, CountersExact
    <3> QED  BY <3>2, <3>3
  <2>4. /\ UNCHANGED <<runningWorkers, blockedWorkers>>
        /\ externalWaiters' = externalWaiters + 1
    BY <1>2 DEF WaitBegin
  <2> QED  BY <2>1, <2>2, <2>3, <2>4 DEF CountersExact
<1> QED  BY <1>1, <1>2

\* A wait ends: t moves back.
LEMMA WaitEndCounts ==
  ASSUME PoolTypeOK, CountersExact, NEW t \in Threads,
         waitKind[t] = IF isWorker[t] THEN 1 ELSE 2,
         registered[t] <=> ~isWorker[t], WaitEnd(t)
  PROVE  CountersExact'
<1> USE DEF PoolTypeOK
<1>0. WorkersIn(0) \in SUBSET Threads /\ WorkersIn(1) \in SUBSET Threads
      /\ ExternalsIn(0) \in SUBSET Threads /\ ExternalsIn(2) \in SUBSET Threads
  BY DEF WorkersIn, ExternalsIn
<1>1. CASE isWorker[t]
  <2>1. /\ WorkersIn(1)' = WorkersIn(1) \ {t} /\ t \in WorkersIn(1)
        /\ WorkersIn(0)' = WorkersIn(0) \cup {t} /\ t \notin WorkersIn(0)
        /\ ExternalsIn(0)' = ExternalsIn(0) /\ ExternalsIn(2)' = ExternalsIn(2)
    BY <1>1 DEF WaitEnd, WorkersIn, ExternalsIn
  <2>2. /\ Cardinality(WorkersIn(1)) > 0
        /\ Cardinality(WorkersIn(1)') = Cardinality(WorkersIn(1)) - 1
        /\ Cardinality(WorkersIn(0)') = Cardinality(WorkersIn(0)) + 1
    BY <1>0, <2>1, CountRemove, CountAdd
  <2>3. /\ blockedWorkers' = Dec(blockedWorkers)
        /\ runningWorkers' = runningWorkers + 1
        /\ UNCHANGED <<activeExternal, externalWaiters>>
    BY <1>1 DEF WaitEnd
  <2> QED  BY <2>1, <2>2, <2>3 DEF CountersExact, Dec
<1>2. CASE ~isWorker[t]
  <2>1. /\ ExternalsIn(2)' = ExternalsIn(2) \ {t} /\ t \in ExternalsIn(2)
        /\ ExternalsIn(0)' = ExternalsIn(0) \cup {t} /\ t \notin ExternalsIn(0)
        /\ WorkersIn(0)' = WorkersIn(0) /\ WorkersIn(1)' = WorkersIn(1)
    BY <1>2 DEF WaitEnd, WorkersIn, ExternalsIn
  <2>2. /\ Cardinality(ExternalsIn(2)) > 0
        /\ Cardinality(ExternalsIn(2)') = Cardinality(ExternalsIn(2)) - 1
        /\ Cardinality(ExternalsIn(0)') = Cardinality(ExternalsIn(0)) + 1
    BY <1>0, <2>1, CountRemove, CountAdd
  <2>3. /\ externalWaiters' = Dec(externalWaiters)
        /\ activeExternal' = activeExternal + 1
        /\ UNCHANGED <<runningWorkers, blockedWorkers>>
    BY <1>2 DEF WaitEnd
  <2> QED  BY <2>1, <2>2, <2>3 DEF CountersExact, Dec
<1> QED  BY <1>1, <1>2

-----------------------------------------------------------------------------
(* QueuedExact *)

LEMMA QueuedKept ==
  ASSUME QueuedExact, UNCHANGED <<queuedTasks, taskQueue>>,
         ThreadsAt("enqueue")' = ThreadsAt("enqueue"),
         ThreadsAt("popped")' = ThreadsAt("popped")
  PROVE  QueuedExact'
BY DEF QueuedExact

LEMMA TaskQueuedCounts ==
  ASSUME NEW L, pc \in [Threads -> L], "enqueue" \in L, PoolTypeOK, QueuedExact,
         NEW t \in Threads, TaskQueued(t)
  PROVE  QueuedExact'
<1>1. Goto(t, "queue", "enqueue") /\ queuedTasks' = queuedTasks + 1
      /\ taskQueue' = taskQueue
  BY DEF TaskQueued, taskVars
<1>2. /\ ThreadsAt("enqueue")' = ThreadsAt("enqueue") \cup {t}
      /\ t \notin ThreadsAt("enqueue")
      /\ ThreadsAt("popped")' = ThreadsAt("popped")
  BY <1>1 DEF Goto, ThreadsAt
<1>3. ThreadsAt("enqueue") \in SUBSET Threads /\ ThreadsAt("popped") \in SUBSET Threads
  BY DEF ThreadsAt
<1>4. Cardinality(ThreadsAt("enqueue")') = Cardinality(ThreadsAt("enqueue")) + 1
  BY <1>2, <1>3, CountAdd
<1>5. Cardinality(ThreadsAt("enqueue")) \in Nat /\ Cardinality(ThreadsAt("popped")) \in Nat
      /\ Len(taskQueue) \in Nat
  BY <1>3, Counted DEF PoolTypeOK
<1> QED  BY <1>1, <1>2, <1>4, <1>5 DEF QueuedExact

LEMMA EnqueueCounts ==
  ASSUME NEW L, pc \in [Threads -> L], "run" \in L, PoolTypeOK, QueuedExact,
         NEW t \in Threads, arg[t] \in Tasks, Enqueue(t)
  PROVE  QueuedExact'
<1>1. Goto(t, "enqueue", "run") /\ queuedTasks' = queuedTasks
      /\ taskQueue' = Append(taskQueue, arg[t])
  BY DEF Enqueue, counterVars
<1>2. /\ ThreadsAt("enqueue")' = ThreadsAt("enqueue") \ {t}
      /\ t \in ThreadsAt("enqueue")
      /\ ThreadsAt("popped")' = ThreadsAt("popped")
  BY <1>1 DEF Goto, ThreadsAt
<1>3. ThreadsAt("enqueue") \in SUBSET Threads /\ ThreadsAt("popped") \in SUBSET Threads
  BY DEF ThreadsAt
<1>4. Cardinality(ThreadsAt("enqueue")') = Cardinality(ThreadsAt("enqueue")) - 1
  BY <1>2, <1>3, CountRemove
<1>5. Cardinality(ThreadsAt("enqueue")) \in Nat /\ Cardinality(ThreadsAt("popped")) \in Nat
  BY <1>3, Counted
<1>6. Len(taskQueue) \in Nat /\ Len(taskQueue') = Len(taskQueue) + 1
  BY <1>1 DEF PoolTypeOK
<1> QED  BY <1>1, <1>2, <1>4, <1>5, <1>6 DEF QueuedExact

LEMMA DequeueCounts ==
  ASSUME NEW L, pc \in [Threads -> L], "popped" \in L, PoolTypeOK, QueuedExact,
         NEW w \in Threads, Dequeue(w)
  PROVE  QueuedExact'
<1>1. Goto(w, "idle", "popped") /\ queuedTasks' = queuedTasks
      /\ taskQueue # <<>> /\ taskQueue' = Tail(taskQueue)
  BY DEF Dequeue, counterVars
<1>2. /\ ThreadsAt("popped")' = ThreadsAt("popped") \cup {w}
      /\ w \notin ThreadsAt("popped")
      /\ ThreadsAt("enqueue")' = ThreadsAt("enqueue")
  BY <1>1 DEF Goto, ThreadsAt
<1>3. ThreadsAt("enqueue") \in SUBSET Threads /\ ThreadsAt("popped") \in SUBSET Threads
  BY DEF ThreadsAt
<1>4. Cardinality(ThreadsAt("popped")') = Cardinality(ThreadsAt("popped")) + 1
  BY <1>2, <1>3, CountAdd
<1>5. Cardinality(ThreadsAt("enqueue")) \in Nat /\ Cardinality(ThreadsAt("popped")) \in Nat
  BY <1>3, Counted
<1>6. Len(taskQueue) \in Nat /\ Len(taskQueue') = Len(taskQueue) - 1
  BY <1>1 DEF PoolTypeOK
<1> QED  BY <1>1, <1>2, <1>4, <1>5, <1>6 DEF QueuedExact

\* The clamp of liveness_worker_begin does not bite: w itself is counted.
LEMMA WorkerBeginDequeues ==
  ASSUME NEW L, pc \in [Threads -> L], PoolTypeOK, QueuedExact,
         NEW w \in Threads, NEW to \in L, to \notin {"popped", "enqueue"},
         WorkerBegin(w, to)
  PROVE  QueuedExact'
<1>1. Goto(w, "popped", to) /\ queuedTasks' = Dec(queuedTasks)
      /\ taskQueue' = taskQueue
  BY DEF WorkerBegin, taskVars
<1>2. /\ ThreadsAt("popped")' = ThreadsAt("popped") \ {w}
      /\ w \in ThreadsAt("popped")
      /\ ThreadsAt("enqueue")' = ThreadsAt("enqueue")
  BY <1>1 DEF Goto, ThreadsAt
<1>3. ThreadsAt("enqueue") \in SUBSET Threads /\ ThreadsAt("popped") \in SUBSET Threads
  BY DEF ThreadsAt
<1>4. /\ Cardinality(ThreadsAt("popped")) > 0
      /\ Cardinality(ThreadsAt("popped")') = Cardinality(ThreadsAt("popped")) - 1
  BY <1>2, <1>3, CountRemove
<1>5. Cardinality(ThreadsAt("enqueue")) \in Nat /\ Cardinality(ThreadsAt("popped")) \in Nat
      /\ Len(taskQueue) \in Nat
  BY <1>3, Counted DEF PoolTypeOK
<1> QED  BY <1>1, <1>2, <1>4, <1>5 DEF QueuedExact, Dec

-----------------------------------------------------------------------------
(* What a queued count of zero tells a thread. *)

LEMMA NothingQueued ==
  ASSUME PoolTypeOK, QueuedExact, queuedTasks = 0
  PROVE  /\ taskQueue = <<>>
         /\ \A t \in Threads : pc[t] \notin {"enqueue", "popped"}
<1>1. ThreadsAt("enqueue") \in SUBSET Threads /\ ThreadsAt("popped") \in SUBSET Threads
  BY DEF ThreadsAt
<1>2. Cardinality(ThreadsAt("enqueue")) \in Nat /\ Cardinality(ThreadsAt("popped")) \in Nat
      /\ Len(taskQueue) \in Nat
  BY <1>1, Counted DEF PoolTypeOK
<1>3. Len(taskQueue) = 0 /\ Cardinality(ThreadsAt("enqueue")) = 0
      /\ Cardinality(ThreadsAt("popped")) = 0
  BY <1>2 DEF QueuedExact
<1>4. ThreadsAt("enqueue") = {} /\ ThreadsAt("popped") = {}
  BY <1>1, <1>3, Counted
<1>5. taskQueue = <<>>  BY <1>3 DEF PoolTypeOK
<1> QED  BY <1>4, <1>5 DEF ThreadsAt

-----------------------------------------------------------------------------
(* Where a task is, from its submission to the end of its promise: with who  *)
(* submits it, in the queue, or with the pool thread that runs it.           *)

Carrying(t) == pc[t] \in {"register", "queue", "enqueue"}
Holding(w)  == pc[w] \notin {"idle", "end", "fulfilled"}

Carried(k) == \E t \in Threads : Carrying(t) /\ arg[t] = k
InQueue(k) == \E i \in DOMAIN taskQueue : taskQueue[i] = k
Held(k)    == \E w \in Workers : Holding(w) /\ task[w] = k

\* Nobody shares a task, and a task is in one place just while its promise is
\* pending.
TasksPlaced ==
  /\ \A t \in Threads : Carrying(t) => arg[t] \in Tasks
  /\ \A w \in Workers : IF pc[w] = "idle" THEN task[w] = NoTask ELSE task[w] \in Tasks
  /\ \A t, u \in Threads : Carrying(t) /\ Carrying(u) /\ arg[t] = arg[u] => t = u
  /\ \A i, j \in DOMAIN taskQueue : taskQueue[i] = taskQueue[j] => i = j
  /\ \A w, x \in Workers : Holding(w) /\ Holding(x) /\ task[w] = task[x] => w = x
  /\ \A k \in Tasks : /\ ~(Carried(k) /\ InQueue(k)) /\ ~(Carried(k) /\ Held(k))
                      /\ ~(InQueue(k) /\ Held(k))
                      /\ promise[k] = "pending" <=> Carried(k) \/ InQueue(k) \/ Held(k)

\* A step that moves no task.
LEMMA PlacedKept ==
  ASSUME TasksPlaced, PoolTypeOK, UNCHANGED <<task, taskQueue>>,
         \A t \in Threads : /\ Carrying(t)' <=> Carrying(t)
                            /\ Carrying(t) => arg'[t] = arg[t],
         \A w \in Workers : (Holding(w)' <=> Holding(w)) /\ (pc'[w] = "idle" <=> pc[w] = "idle"),
         \A k \in Tasks : promise'[k] = "pending" <=> promise[k] = "pending"
  PROVE  TasksPlaced'
<1>1. \A k : Carried(k)' <=> Carried(k)  BY DEF Carried
<1>2. \A k : (InQueue(k)' <=> InQueue(k)) /\ (Held(k)' <=> Held(k))
  BY DEF InQueue, Held
<1> HIDE DEF Carried, InQueue, Held, Carrying, Holding
<1> QED  BY <1>1, <1>2 DEF TasksPlaced

\* The same, where one thread moves from one label to another.
LEMMA PlacedMoves ==
  ASSUME TasksPlaced, PoolTypeOK, NEW L, pc \in [Threads -> L],
         NEW t \in Threads, NEW to, pc' = [pc EXCEPT ![t] = to],
         UNCHANGED <<task, taskQueue>>,
         pc[t] \in {"register", "queue", "enqueue"} <=> to \in {"register", "queue", "enqueue"},
         pc[t] \in {"idle", "end", "fulfilled"} <=> to \in {"idle", "end", "fulfilled"},
         pc[t] = "idle" <=> to = "idle",
         \A u \in Threads : Carrying(u) => arg'[u] = arg[u],
         \A k \in Tasks : promise'[k] = "pending" <=> promise[k] = "pending"
  PROVE  TasksPlaced'
<1>1. pc'[t] = to /\ \A u \in Threads : u # t => pc'[u] = pc[u]
  OBVIOUS
<1>2. /\ \A u \in Threads : Carrying(u)' <=> Carrying(u)
      /\ \A w \in Workers : (Holding(w)' <=> Holding(w)) /\ (pc'[w] = "idle" <=> pc[w] = "idle")
  BY <1>1 DEF Carrying, Holding, Threads
<1> QED  BY <1>2, PlacedKept

LEMMA SubmitPlaces ==
  ASSUME TasksPlaced, PoolTypeOK, NEW L, pc \in [Threads -> L], NEW t \in Threads, NEW k \in Tasks,
         Submit(t, k)
  PROVE  TasksPlaced'
<1> DEFINE to == IF isWorker[t] THEN "queue" ELSE "register"
<1>1. /\ pc[t] = "run" /\ pc' = [pc EXCEPT ![t] = to] /\ arg' = [arg EXCEPT ![t] = k]
      /\ promise[k] = "none" /\ promise' = [promise EXCEPT ![k] = "pending"]
      /\ UNCHANGED <<task, taskQueue>>
  BY DEF Submit, Goto, NewTask
<1>2. /\ pc'[t] = to /\ arg'[t] = k
      /\ \A u \in Threads : u # t => pc'[u] = pc[u] /\ arg'[u] = arg[u]
      /\ promise'[k] = "pending" /\ \A j \in Tasks : j # k => promise'[j] = promise[j]
  BY <1>1 DEF PoolTypeOK
<1>3. ~Carried(k) /\ ~InQueue(k) /\ ~Held(k)
  BY <1>1 DEF TasksPlaced
<1>4. \A j : Carried(j)' <=> j = k \/ Carried(j)
  BY <1>1, <1>2 DEF Carried, Carrying
<1>5. \A w \in Workers : (Holding(w)' <=> Holding(w)) /\ (pc'[w] = "idle" <=> pc[w] = "idle")
  BY <1>1, <1>2 DEF Holding, Threads
<1>6. \A j : (InQueue(j)' <=> InQueue(j)) /\ (Held(j)' <=> Held(j))
  BY <1>1, <1>5 DEF InQueue, Held
<1>7. \A u \in Threads : Carrying(u)' <=> u = t \/ Carrying(u)
  BY <1>1, <1>2 DEF Carrying
<1>8. \A u \in Threads : Carrying(u) => arg[u] # k /\ u # t
  BY <1>1, <1>3 DEF Carried, Carrying
<1> HIDE DEF to
<1>9. \A u, v \in Threads : Carrying(u)' /\ Carrying(v)' /\ arg'[u] = arg'[v] => u = v
  BY <1>2, <1>7, <1>8 DEF TasksPlaced
<1>10. \A u \in Threads : Carrying(u)' => arg'[u] \in Tasks
  BY <1>2, <1>7, <1>8 DEF TasksPlaced
<1>11. \A j \in Tasks : /\ ~(Carried(j)' /\ InQueue(j)') /\ ~(Carried(j)' /\ Held(j)')
                        /\ ~(InQueue(j)' /\ Held(j)')
                        /\ promise'[j] = "pending" <=> Carried(j)' \/ InQueue(j)' \/ Held(j)'
  BY <1>2, <1>3, <1>4, <1>6 DEF TasksPlaced
<1> QED  BY <1>1, <1>5, <1>9, <1>10, <1>11 DEF TasksPlaced

LEMMA EnqueuePlaces ==
  ASSUME TasksPlaced, PoolTypeOK, NEW L, pc \in [Threads -> L], NEW t \in Threads, Enqueue(t)
  PROVE  TasksPlaced'
<1> DEFINE k == arg[t]
           n == Len(taskQueue) + 1
<1>1. /\ pc[t] = "enqueue" /\ pc' = [pc EXCEPT ![t] = "run"] /\ arg' = [arg EXCEPT ![t] = NoTask]
      /\ taskQueue' = Append(taskQueue, k) /\ UNCHANGED <<task, promise>>
  BY DEF Enqueue, Goto
<1>2. k \in Tasks /\ Carried(k) /\ ~InQueue(k) /\ ~Held(k)
  BY <1>1 DEF TasksPlaced, Carried, Carrying
<1>3. /\ pc'[t] = "run" /\ \A u \in Threads : u # t => pc'[u] = pc[u] /\ arg'[u] = arg[u]
  BY <1>1 DEF PoolTypeOK
<1>4. /\ DOMAIN taskQueue' = DOMAIN taskQueue \cup {n} /\ n \notin DOMAIN taskQueue
      /\ taskQueue'[n] = k /\ \A i \in DOMAIN taskQueue : taskQueue'[i] = taskQueue[i]
  BY <1>1, <1>2 DEF PoolTypeOK
<1>5. \A u \in Threads : Carrying(u)' <=> u # t /\ Carrying(u)
  BY <1>1, <1>3 DEF Carrying
<1>6. \A w \in Workers : (Holding(w)' <=> Holding(w)) /\ (pc'[w] = "idle" <=> pc[w] = "idle")
  BY <1>1, <1>3 DEF Holding, Threads
<1>7. \A u \in Threads : Carrying(u)' => arg'[u] = arg[u] /\ arg[u] # k
  BY <1>1, <1>3, <1>5 DEF TasksPlaced, Carrying
<1>8. \A j : Carried(j)' <=> j # k /\ Carried(j)
  BY <1>3, <1>5, <1>7 DEF Carried
<1>9. \A j : InQueue(j)' <=> j = k \/ InQueue(j)
  BY <1>4 DEF InQueue
<1>10. \A j : Held(j)' <=> Held(j)
  BY <1>1, <1>6 DEF Held
<1>11. \A i, j \in DOMAIN taskQueue' : taskQueue'[i] = taskQueue'[j] => i = j
  BY <1>2, <1>4 DEF TasksPlaced, InQueue
<1> HIDE DEF k, n
<1>12. /\ \A u \in Threads : Carrying(u)' => arg'[u] \in Tasks
       /\ \A u, v \in Threads : Carrying(u)' /\ Carrying(v)' /\ arg'[u] = arg'[v] => u = v
  BY <1>5, <1>7 DEF TasksPlaced
<1>13. \A j \in Tasks : /\ ~(Carried(j)' /\ InQueue(j)') /\ ~(Carried(j)' /\ Held(j)')
                        /\ ~(InQueue(j)' /\ Held(j)')
                        /\ promise'[j] = "pending" <=> Carried(j)' \/ InQueue(j)' \/ Held(j)'
  BY <1>1, <1>2, <1>8, <1>9, <1>10 DEF TasksPlaced
<1> QED  BY <1>1, <1>6, <1>11, <1>12, <1>13 DEF TasksPlaced

LEMMA DequeuePlaces ==
  ASSUME TasksPlaced, PoolTypeOK, NEW L, pc \in [Threads -> L], NEW w \in Workers, Dequeue(w)
  PROVE  TasksPlaced'
<1> DEFINE k == taskQueue[1]
<1>0. w \in Threads  BY DEF Threads
<1>1. /\ pc[w] = "idle" /\ pc' = [pc EXCEPT ![w] = "popped"] /\ UNCHANGED <<arg, promise>>
      /\ taskQueue # <<>> /\ task' = [task EXCEPT ![w] = k] /\ taskQueue' = Tail(taskQueue)
  BY DEF Dequeue, Goto, PoolTypeOK
<1>2. /\ 1 \in DOMAIN taskQueue /\ k \in Tasks
      /\ \A i \in DOMAIN taskQueue' : i + 1 \in DOMAIN taskQueue /\ i + 1 # 1
                                       /\ taskQueue'[i] = taskQueue[i + 1]
      /\ \A i \in DOMAIN taskQueue : i # 1 => i - 1 \in DOMAIN taskQueue'
                                       /\ taskQueue'[i - 1] = taskQueue[i]
      /\ \A i, j \in DOMAIN taskQueue' : i + 1 = j + 1 => i = j
  BY <1>1 DEF PoolTypeOK
<1>3. InQueue(k) /\ ~Carried(k) /\ ~Held(k)
  BY <1>2 DEF TasksPlaced, InQueue
<1>4. pc'[w] = "popped" /\ task'[w] = k
      /\ (\A u \in Threads : u # w => pc'[u] = pc[u]) /\ \A x \in Workers : x # w => task'[x] = task[x]
  BY <1>0, <1>1 DEF PoolTypeOK
<1>5. /\ \A u \in Threads : Carrying(u)' <=> Carrying(u)
      /\ \A x \in Workers : (Holding(x)' <=> x = w \/ Holding(x)) /\ (Holding(x) => x # w)
      /\ \A x \in Workers : IF pc'[x] = "idle" THEN task'[x] = NoTask ELSE task'[x] \in Tasks
  BY <1>0, <1>1, <1>2, <1>4 DEF Carrying, Holding, Threads, TasksPlaced
<1>6. \A j : Carried(j)' <=> Carried(j)
  BY <1>1, <1>5 DEF Carried
<1>7. \A j : InQueue(j)' <=> InQueue(j) /\ j # k
  <2>1. ASSUME NEW j, InQueue(j)'  PROVE InQueue(j) /\ j # k
    <3>1. PICK i \in DOMAIN taskQueue' : taskQueue'[i] = j  BY <2>1 DEF InQueue
    <3> QED  BY <1>2, <3>1 DEF InQueue, TasksPlaced
  <2>2. ASSUME NEW j, InQueue(j), j # k  PROVE InQueue(j)'
    <3>1. PICK i \in DOMAIN taskQueue : taskQueue[i] = j  BY <2>2 DEF InQueue
    <3> QED  BY <1>2, <2>2, <3>1 DEF InQueue
  <2> QED  BY <2>1, <2>2
<1>8. \A j : Held(j)' <=> j = k \/ Held(j)
  BY <1>4, <1>5 DEF Held
<1>9. \A i, j \in DOMAIN taskQueue' : taskQueue'[i] = taskQueue'[j] => i = j
  BY <1>2 DEF TasksPlaced
<1>10. \A x, y \in Workers : Holding(x)' /\ Holding(y)' /\ task'[x] = task'[y] => x = y
  BY <1>3, <1>4, <1>5 DEF TasksPlaced, Held
<1> HIDE DEF k
<1>11. \A j \in Tasks : /\ ~(Carried(j)' /\ InQueue(j)') /\ ~(Carried(j)' /\ Held(j)')
                        /\ ~(InQueue(j)' /\ Held(j)')
                        /\ promise'[j] = "pending" <=> Carried(j)' \/ InQueue(j)' \/ Held(j)'
  BY <1>1, <1>2, <1>3, <1>6, <1>7, <1>8 DEF TasksPlaced
<1> QED  BY <1>1, <1>5, <1>9, <1>10, <1>11 DEF TasksPlaced

\* The promise of the task in hand is completed: the task is in no place any more.
LEMMA FulfilPlaces ==
  ASSUME TasksPlaced, PoolTypeOK, NEW L, pc \in [Threads -> L], NEW w \in Workers,
         NEW from, NEW result, NEW to, Fulfil(w, from, result, to),
         from \notin {"idle", "end", "fulfilled", "register", "queue", "enqueue"},
         to \in {"end", "fulfilled"}, result # "pending"
  PROVE  TasksPlaced' /\ promise[task[w]] = "pending" /\ task[w] \in Tasks
<1> DEFINE k == task[w]
<1>0. w \in Threads  BY DEF Threads
<1>1. /\ pc[w] = from /\ pc' = [pc EXCEPT ![w] = to] /\ UNCHANGED <<arg, task, taskQueue>>
      /\ promise' = [promise EXCEPT ![k] = IF @ = "pending" THEN result ELSE @]
  BY DEF Fulfil, Goto
<1>2. k \in Tasks /\ Holding(w) /\ Held(k)
  BY <1>1 DEF TasksPlaced, Held, Holding
<1>3. ~Carried(k) /\ ~InQueue(k) /\ promise[k] = "pending"
  BY <1>2 DEF TasksPlaced
<1>4. pc'[w] = to /\ \A u \in Threads : u # w => pc'[u] = pc[u]
  BY <1>0, <1>1
<1>5. promise'[k] # "pending" /\ \A j \in Tasks : j # k => promise'[j] = promise[j]
  BY <1>1, <1>2, <1>3 DEF PoolTypeOK
<1>6. /\ \A u \in Threads : Carrying(u)' <=> Carrying(u)
      /\ \A x \in Workers : (Holding(x)' <=> x # w /\ Holding(x)) /\ (pc'[x] = "idle" <=> pc[x] = "idle")
  BY <1>0, <1>1, <1>4 DEF Carrying, Holding, Threads
<1>7. \A j : (Carried(j)' <=> Carried(j)) /\ (InQueue(j)' <=> InQueue(j))
  BY <1>1, <1>6 DEF Carried, InQueue
<1>8. \A j : Held(j)' <=> Held(j) /\ j # k
  BY <1>1, <1>2, <1>6 DEF Held, TasksPlaced
<1> HIDE DEF k
<1>9. \A j \in Tasks : /\ ~(Carried(j)' /\ InQueue(j)') /\ ~(Carried(j)' /\ Held(j)')
                       /\ ~(InQueue(j)' /\ Held(j)')
                       /\ promise'[j] = "pending" <=> Carried(j)' \/ InQueue(j)' \/ Held(j)'
  BY <1>3, <1>5, <1>7, <1>8 DEF TasksPlaced
<1>10. TasksPlaced'
  BY <1>1, <1>6, <1>9 DEF TasksPlaced
<1> QED  BY <1>2, <1>3, <1>10 DEF k

LEMMA WorkerEndPlaces ==
  ASSUME TasksPlaced, PoolTypeOK, NEW L, pc \in [Threads -> L], NEW w \in Workers, WorkerEnd(w)
  PROVE  TasksPlaced'
<1>0. w \in Threads  BY DEF Threads
<1>1. /\ pc[w] = "end" /\ pc' = [pc EXCEPT ![w] = "idle"] /\ task' = [task EXCEPT ![w] = NoTask]
      /\ UNCHANGED <<arg, promise, taskQueue>>
  BY DEF WorkerEnd, Goto
<1>2. pc'[w] = "idle" /\ task'[w] = NoTask
      /\ (\A u \in Threads : u # w => pc'[u] = pc[u]) /\ \A x \in Workers : x # w => task'[x] = task[x]
  BY <1>0, <1>1 DEF PoolTypeOK
<1>3. /\ \A u \in Threads : Carrying(u)' <=> Carrying(u)
      /\ \A x \in Workers : (Holding(x)' <=> Holding(x)) /\ (Holding(x) => task'[x] = task[x])
      /\ \A x \in Workers : IF pc'[x] = "idle" THEN task'[x] = NoTask ELSE task'[x] \in Tasks
  BY <1>0, <1>1, <1>2 DEF Carrying, Holding, Threads, TasksPlaced
<1>4. \A j : (Carried(j)' <=> Carried(j)) /\ (InQueue(j)' <=> InQueue(j)) /\ (Held(j)' <=> Held(j))
  BY <1>1, <1>3 DEF Carried, InQueue, Held
<1> HIDE DEF Carried, InQueue, Held, Carrying, Holding
<1> QED  BY <1>1, <1>3, <1>4 DEF TasksPlaced
=============================================================================
