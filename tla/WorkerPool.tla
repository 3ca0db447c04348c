----------------------------- MODULE WorkerPool -----------------------------
(***************************************************************************)
(* The worker pool of the C runtime (src/runtime/platform/async_posix.c):  *)
(* the FIFO of submitted tasks, the pool's threads, promises, and the      *)
(* liveness counters the channel primitives consult before they raise      *)
(* :Deadlock.                                                              *)
(*                                                                         *)
(* Each action is one critical section of yona_pool_mutex or               *)
(* yona_liveness_mutex: what a thread does between two of them touches     *)
(* only its own locals.  Modules that give the tasks something to do       *)
(* (Channel, TaskGroup) EXTEND this one, and conjoin their own variables   *)
(* to its actions.                                                         *)
(***************************************************************************)
EXTENDS Integers, Sequences, FiniteSets

CONSTANTS
  Externals,      \* threads the pool did not create: main
  PoolSize,       \* YONA_POOL_SIZE: threads pool_init starts
  MaxThreads,     \* YONA_POOL_MAX_THREADS: limit of compensation workers
  Tasks,          \* task identities; each is submitted at most once
  NoTask,
  CreateMayFail   \* whether pthread_create may fail

Workers == 1 .. MaxThreads
Threads == Externals \cup Workers

ASSUME PoolAssumption ==
  /\ PoolSize \in Nat /\ MaxThreads \in Nat /\ PoolSize <= MaxThreads
  /\ IsFiniteSet(Externals) /\ Externals \cap Int = {}
  /\ Tasks \cap Threads = {} /\ NoTask \notin Tasks \cup Threads
  /\ CreateMayFail \in BOOLEAN

VARIABLES
  pc,              \* where each thread stands
  task,            \* the task a pool thread popped, NoTask when it has none
  arg,             \* the task a thread is submitting or awaiting
  submitter,       \* who holds the promise of a task: a task or an external
  promise,         \* "none", "pending", "done", "failed", "freed"
  taskQueue,       \* yona_task_head ... yona_task_tail
  initialized,     \* yona_pool_initialized
  workerThreads,   \* yona_worker_threads; the threads 1..workerThreads exist
  queuedTasks,     \* yona_queued_tasks
  runningWorkers,  \* yona_running_workers
  blockedWorkers,  \* yona_blocked_workers
  activeExternal,  \* yona_active_external_tasks
  externalWaiters, \* yona_external_waiters
  isWorker,        \* thread-local yona_current_task_is_worker
  registered,      \* thread-local yona_external_task_registered
  waitKind,        \* thread-local yona_channel_wait_kind: 0, 1 worker, 2 external
  candidateSeen    \* thread-local yona_deadlock_candidate_seen

taskVars    == <<task, submitter, promise, taskQueue>>
threadVars  == <<initialized, workerThreads>>
counterVars == <<queuedTasks, runningWorkers, blockedWorkers,
                 activeExternal, externalWaiters>>
localVars   == <<isWorker, registered, waitKind, candidateSeen>>
poolVars    == <<pc, arg, taskVars, threadVars, counterVars, localVars>>

-----------------------------------------------------------------------------
PoolInit ==
  /\ pc = [t \in Threads |-> IF t \in Externals THEN "run" ELSE "idle"]
  /\ task = [w \in Workers |-> NoTask]
  /\ arg = [t \in Threads |-> NoTask]
  /\ submitter = [k \in Tasks |-> NoTask]
  /\ promise = [k \in Tasks |-> "none"]
  /\ taskQueue = <<>>
  /\ initialized = FALSE /\ workerThreads = 0
  /\ queuedTasks = 0 /\ runningWorkers = 0 /\ blockedWorkers = 0
  /\ activeExternal = 0 /\ externalWaiters = 0
  /\ isWorker = [t \in Threads |-> FALSE]
  /\ registered = [t \in Threads |-> FALSE]
  /\ waitKind = [t \in Threads |-> 0]
  /\ candidateSeen = [t \in Threads |-> FALSE]

\* What the code writes `if (n > 0) n--`.
Dec(n) == IF n > 0 THEN n - 1 ELSE n

\* Thread t moves on from its step `from` to `to`.
Goto(t, from, to) == pc[t] = from /\ pc' = [pc EXCEPT ![t] = to]

\* Who runs on thread t: the popped task, or the external itself.
Actor(t) == IF t \in Workers THEN task[t] ELSE t

\* start_pool_worker_unlocked, n times: a failed pthread_create is silent.
StartWorkers(n) ==
  \E started \in IF CreateMayFail THEN 0 .. n ELSE {n} :
    workerThreads' = workerThreads + started

-----------------------------------------------------------------------------
(* submit_task, in the caller's thread. *)

\* Memory gives a new task its identity.  Which one is immaterial, so it is one
\* fixed choice among the unused ones.
NewTask(k) == /\ promise[k] = "none"
              /\ k = CHOOSE j \in Tasks : promise[j] = "none"

\* Up to the registration: pool_init the first time, the promise made pending.
Submit(t, k) ==
  /\ NewTask(k)
  /\ Goto(t, "run", IF isWorker[t] THEN "queue" ELSE "register")
  /\ arg' = [arg EXCEPT ![t] = k]
  /\ promise' = [promise EXCEPT ![k] = "pending"]
  /\ submitter' = [submitter EXCEPT ![k] = Actor(t)]
  /\ initialized' = TRUE
  /\ IF initialized THEN UNCHANGED workerThreads ELSE StartWorkers(PoolSize)
  /\ UNCHANGED <<task, taskQueue, counterVars, localVars>>

\* liveness_register_external_task_unlocked: the first time only.
RegisterExternal(t) ==
  /\ activeExternal' = IF registered[t] THEN activeExternal
                                         ELSE activeExternal + 1
  /\ registered' = [registered EXCEPT ![t] = TRUE]

Register(t) ==
  /\ Goto(t, "register", "queue")
  /\ RegisterExternal(t)
  /\ UNCHANGED <<arg, taskVars, threadVars, queuedTasks, runningWorkers,
                 blockedWorkers, externalWaiters, isWorker, waitKind,
                 candidateSeen>>

\* liveness_task_queued: counted before it is in the queue.
TaskQueued(t) ==
  /\ Goto(t, "queue", "enqueue")
  /\ queuedTasks' = queuedTasks + 1
  /\ UNCHANGED <<arg, taskVars, threadVars, runningWorkers, blockedWorkers,
                 activeExternal, externalWaiters, localVars>>

\* Mutant: a task queued behind others replaces them.
EnqueueOverwrites(t) ==
  /\ Goto(t, "enqueue", "run")
  /\ taskQueue' = <<arg[t]>>
  /\ arg' = [arg EXCEPT ![t] = NoTask]
  /\ UNCHANGED <<task, submitter, promise, threadVars, counterVars, localVars>>

Enqueue(t) ==
  /\ Goto(t, "enqueue", "run")
  /\ taskQueue' = Append(taskQueue, arg[t])
  /\ arg' = [arg EXCEPT ![t] = NoTask]
  /\ UNCHANGED <<task, submitter, promise, threadVars, counterVars, localVars>>

-----------------------------------------------------------------------------
(* yona_pool_worker, in a pool thread. *)

Dequeue(w) ==
  /\ Goto(w, "idle", "popped")
  /\ w <= workerThreads /\ taskQueue # <<>>
  /\ task' = [task EXCEPT ![w] = Head(taskQueue)]
  /\ taskQueue' = Tail(taskQueue)
  /\ UNCHANGED <<arg, submitter, promise, threadVars, counterVars, localVars>>

\* Mutant: the task stays counted as queued.
WorkerBeginStillQueued(w, to) ==
  /\ Goto(w, "popped", to)
  /\ runningWorkers' = runningWorkers + 1
  /\ isWorker' = [isWorker EXCEPT ![w] = TRUE]
  /\ UNCHANGED <<arg, taskVars, threadVars, queuedTasks, blockedWorkers,
                 activeExternal, externalWaiters, registered, waitKind,
                 candidateSeen>>

\* liveness_worker_begin.
WorkerBegin(w, to) ==
  /\ Goto(w, "popped", to)
  /\ queuedTasks' = Dec(queuedTasks)
  /\ runningWorkers' = runningWorkers + 1
  /\ isWorker' = [isWorker EXCEPT ![w] = TRUE]
  /\ UNCHANGED <<arg, taskVars, threadVars, blockedWorkers, activeExternal,
                 externalWaiters, registered, waitKind, candidateSeen>>

\* yona_rt_promise_complete under the promise's mutex.
Fulfil(w, from, result, to) ==
  /\ Goto(w, from, to)
  /\ promise' = [promise EXCEPT ![task[w]] = IF @ = "pending" THEN result ELSE @]
  /\ UNCHANGED <<arg, task, submitter, taskQueue, threadVars, counterVars,
                 localVars>>

\* liveness_worker_end, and back to the head of the loop.
WorkerEnd(w) ==
  /\ Goto(w, "end", "idle")
  /\ IF waitKind[w] = 1
     THEN /\ blockedWorkers' = Dec(blockedWorkers)
          /\ waitKind' = [waitKind EXCEPT ![w] = 0]
          /\ UNCHANGED runningWorkers
     ELSE /\ runningWorkers' = IF isWorker[w] THEN Dec(runningWorkers)
                                              ELSE runningWorkers
          /\ UNCHANGED <<blockedWorkers, waitKind>>
  /\ isWorker' = [isWorker EXCEPT ![w] = FALSE]
  /\ task' = [task EXCEPT ![w] = NoTask]
  /\ UNCHANGED <<arg, submitter, promise, taskQueue, threadVars, queuedTasks,
                 activeExternal, externalWaiters, registered, candidateSeen>>

-----------------------------------------------------------------------------
(* Waiting for a promise: yona_rt_async_await and _await_keep.  Neither      *)
(* tells the liveness counters.                                              *)

Await(t, k) ==
  /\ promise[k] # "none" /\ promise[k] # "freed" /\ submitter[k] = Actor(t)
  /\ Goto(t, "run", "await")
  /\ arg' = [arg EXCEPT ![t] = k]
  /\ UNCHANGED <<taskVars, threadVars, counterVars, localVars>>

\* The awaited promise is complete; `after` is what becomes of it.
AwaitReturn(t, after) ==
  /\ Goto(t, "await", "run")
  /\ promise[arg[t]] \in {"done", "failed"}
  /\ promise' = [promise EXCEPT ![arg[t]] = after]
  /\ arg' = [arg EXCEPT ![t] = NoTask]
  /\ UNCHANGED <<task, submitter, taskQueue, threadVars, counterVars, localVars>>

-----------------------------------------------------------------------------
(* The bracket a channel operation puts around a wait. *)

\* Mutant: the pool does not grow.
NoCompensation == UNCHANGED workerThreads

\* maybe_spawn_compensation_worker_unlocked, on the counters already updated.
SpawnCompensation ==
  IF queuedTasks > 0 /\ workerThreads < MaxThreads /\ runningWorkers' = 0
  THEN StartWorkers(1)
  ELSE UNCHANGED workerThreads

\* Mutant: the queued tasks are forgotten.
CandidateDespiteQueue(t, opposite) ==
  /\ runningWorkers' = 0 /\ activeExternal' = 0
  /\ opposite <= 0
  /\ blockedWorkers' <= IF isWorker[t] THEN 1 ELSE 0

\* Mutant: a worker counts itself among the others that are blocked.
CandidateCountsItself(t, opposite) ==
  /\ runningWorkers' = 0 /\ activeExternal' = 0 /\ queuedTasks = 0
  /\ opposite <= 0
  /\ blockedWorkers' = 0

\* The counters leave t nobody to wait for.  opposite is the number of waiters
\* the channel counts on its other side.
DeadlockCandidate(t, opposite) ==
  /\ runningWorkers' = 0 /\ activeExternal' = 0 /\ queuedTasks = 0
  /\ opposite <= 0
  /\ blockedWorkers' <= IF isWorker[t] THEN 1 ELSE 0

\* yona_rt_channel_wait_begin, but for the value it returns.
WaitBegin(t, opposite) ==
  /\ IF isWorker[t]
     THEN /\ runningWorkers' = Dec(runningWorkers)
          /\ blockedWorkers' = blockedWorkers + 1
          /\ UNCHANGED <<activeExternal, externalWaiters, registered>>
     ELSE /\ activeExternal' = Dec(IF registered[t] THEN activeExternal
                                                    ELSE activeExternal + 1)
          /\ registered' = [registered EXCEPT ![t] = TRUE]
          /\ externalWaiters' = externalWaiters + 1
          /\ UNCHANGED <<runningWorkers, blockedWorkers>>
  /\ waitKind' = [waitKind EXCEPT ![t] = IF isWorker[t] THEN 1 ELSE 2]
  /\ SpawnCompensation
  /\ candidateSeen' = [candidateSeen EXCEPT ![t] = DeadlockCandidate(t, opposite)]
  /\ UNCHANGED <<arg, taskVars, initialized, queuedTasks, isWorker>>

\* What it returns: the second candidate in a row of this thread.
Deadlocked(t) == candidateSeen[t] /\ candidateSeen'[t]

\* yona_rt_channel_wait_end.
WaitEnd(t) ==
  /\ IF waitKind[t] = 1
     THEN /\ blockedWorkers' = Dec(blockedWorkers)
          /\ runningWorkers' = runningWorkers + 1
     ELSE UNCHANGED <<blockedWorkers, runningWorkers>>
  /\ IF waitKind[t] = 2
     THEN /\ externalWaiters' = Dec(externalWaiters)
          /\ activeExternal' = activeExternal + 1
     ELSE UNCHANGED <<externalWaiters, activeExternal>>
  /\ waitKind' = [waitKind EXCEPT ![t] = 0]
  /\ UNCHANGED <<arg, taskVars, threadVars, queuedTasks, isWorker, registered,
                 candidateSeen>>

-----------------------------------------------------------------------------
(* What holds of the pool in every module built on it. *)

\* The types of the variables, pc's labels and the promises' states apart.
PoolTypeOK ==
  /\ task \in [Workers -> Tasks \cup {NoTask}]
  /\ arg \in [Threads -> Tasks \cup {NoTask}]
  /\ submitter \in [Tasks -> Tasks \cup Externals \cup {NoTask}]
  /\ promise \in [Tasks -> {"none", "pending", "done", "failed", "freed"}]
  /\ taskQueue \in Seq(Tasks)
  /\ initialized \in BOOLEAN /\ workerThreads \in 0 .. MaxThreads
  /\ queuedTasks \in Nat /\ runningWorkers \in Nat /\ blockedWorkers \in Nat
  /\ activeExternal \in Nat /\ externalWaiters \in Nat
  /\ isWorker \in [Threads -> BOOLEAN] /\ registered \in [Threads -> BOOLEAN]
  /\ waitKind \in [Threads -> 0 .. 2]
  /\ candidateSeen \in [Threads -> BOOLEAN]

WorkersIn(kind)   == {t \in Threads : isWorker[t] /\ waitKind[t] = kind}
ExternalsIn(kind) == {t \in Threads : registered[t] /\ waitKind[t] = kind}

\* Every liveness counter equals the number of threads in the state it counts,
\* whatever the interleaving: no `if (n > 0)` clamp of async_posix.c ever
\* bites, and no path leaves a thread counted twice or not at all.
CountersExact ==
  /\ runningWorkers = Cardinality(WorkersIn(0))
  /\ blockedWorkers = Cardinality(WorkersIn(1))
  /\ activeExternal = Cardinality(ExternalsIn(0))
  /\ externalWaiters = Cardinality(ExternalsIn(2))

\* yona_queued_tasks counts the tasks of the queue, and those between a counter
\* update and a queue update: it is never below the queue's length, so a thread
\* that reads zero has nothing left to be run for it.
ThreadsAt(label) == {t \in Threads : pc[t] = label}
QueuedExact ==
  queuedTasks = Len(taskQueue) + Cardinality(ThreadsAt("enqueue"))
                               + Cardinality(ThreadsAt("popped"))
=============================================================================
