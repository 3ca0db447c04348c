---------------------------- MODULE ChannelProofs ----------------------------
(***************************************************************************)
(* Theorems about Channel, for every number of threads, tasks, channels,   *)
(* capacities and calls, and whatever the uninitialised waiter counts hold.*)
(*                                                                         *)
(* The argument: what a step does to the pool's variables is one of a few  *)
(* moves (PoolStep); each move preserves the thread-locals' invariant, and *)
(* with it the counters' and the tasks' places, by the lemmas of           *)
(* PoolProofs.  The last part shows that Channel implements BoundedChannel *)
(* and counts its sleepers.                                                *)
(***************************************************************************)
EXTENDS ChannelProperties, PoolProofs, SequenceTheorems

\* The pool's part of a call that returns, of one that goes to sleep, and of
\* the end of a wait.
CallReturns(t) ==
  /\ pc[t] \in {"run", "retest"} /\ pc' = [pc EXCEPT ![t] = "run"]
  /\ UNCHANGED <<arg, taskVars, threadVars, counterVars, localVars>>

CallBlocks(t) ==
  /\ pc[t] \in {"run", "retest"}
  /\ \E opposite : WaitBegin(t, opposite) /\ (Deadlocked(t) => DeadlockCandidate(t, opposite))
  /\ pc' = [pc EXCEPT ![t] = IF Deadlocked(t) THEN "raise" ELSE "asleep"]

WaitEnds(t) ==
  /\ Goto(t, "asleep", "retest") \/ Goto(t, "raise", "run")
  /\ WaitEnd(t)

ThreadStep(t) ==
  \/ CallReturns(t) \/ CallBlocks(t) \/ WaitEnds(t)
  \/ \E k \in Tasks : Submit(t, k) \/ Await(t, k)
  \/ Register(t) \/ TaskQueued(t) \/ Enqueue(t)
  \/ AwaitReturn(t, "freed")

WorkerStep(w) ==
  Dequeue(w) \/ WorkerBegin(w, "run") \/ Fulfil(w, "run", "done", "end") \/ WorkerEnd(w)

PoolStep == (\E t \in Threads : ThreadStep(t)) \/ (\E w \in Workers : WorkerStep(w))

\* The inductive invariant.
IInv == TypeOK /\ LocalsExact /\ CountersExact /\ QueuedExact

-----------------------------------------------------------------------------
LEMMA SleepBlocks ==
  ASSUME TypeOK, NEW t \in Threads, NEW k, NEW opposite,
         Enters(t, k), Sleep(t, k, opposite)
  PROVE  CallBlocks(t)
<1>1. pc[t] \in {"run", "retest"}  BY DEF Enters, Starts, Retries
<1>2. WaitBegin(t, opposite)
      /\ pc' = [pc EXCEPT ![t] = IF Deadlocked(t) THEN "raise" ELSE "asleep"]
  BY DEF Sleep
<1>3. candidateSeen'[t] = DeadlockCandidate(t, opposite)
  BY <1>2 DEF WaitBegin, TypeOK, PoolTypeOK
<1> QED  BY <1>1, <1>2, <1>3 DEF CallBlocks, Deadlocked

LEMMA LeavesReturns ==
  ASSUME NEW t \in Threads, NEW k, NEW outcome,
         Enters(t, k) \/ Starts(t, k), Leaves(t, k, outcome)
  PROVE  CallReturns(t)
BY DEF Enters, Starts, Retries, Leaves, CallReturns

\* A step of the channels is one of the pool's moves.
LEMMA CallStepMoves ==
  ASSUME TypeOK, NEW t \in Threads, CallStep(t)
  PROVE  CallReturns(t) \/ CallBlocks(t)
<1>1. PICK c \in Chans :
        \/ \E v \in Vals : SendBlocks(t, c, v) \/ SendRefused(t, c, v) \/ SendDone(t, c, v)
        \/ RecvBlocks(t, c) \/ RecvDrained(t, c) \/ RecvDone(t, c)
        \/ TryRecv(t, c)
        \/ Close(t, c)
  BY DEF CallStep
<1>2. CASE \E v \in Vals : SendBlocks(t, c, v) \/ SendRefused(t, c, v) \/ SendDone(t, c, v)
  BY <1>2, SleepBlocks, LeavesReturns DEF SendBlocks, SendRefused, SendDone
<1>3. CASE RecvBlocks(t, c) \/ RecvDrained(t, c) \/ RecvDone(t, c)
  BY <1>3, SleepBlocks, LeavesReturns DEF RecvBlocks, RecvDrained, RecvDone, Take
<1>4. CASE TryRecv(t, c) \/ Close(t, c)
  BY <1>4, LeavesReturns DEF TryRecv, Take, Close
<1> QED  BY <1>1, <1>2, <1>3, <1>4

LEMMA NextMoves ==
  ASSUME TypeOK, Next
  PROVE  PoolStep
<1>1. ASSUME NEW t \in Threads, CallStep(t)  PROVE PoolStep
  BY <1>1, CallStepMoves DEF PoolStep, ThreadStep
<1>2. ASSUME NEW t \in Threads, Wake(t) \/ Timeout(t) \/ RaiseDeadlock(t)  PROVE PoolStep
  BY <1>2 DEF Wake, Timeout, Resume, RaiseDeadlock, PoolStep, ThreadStep, WaitEnds
<1>3. ASSUME NEW t \in Threads,
             SubmitCall(t) \/ SubmitStep(t) \/ AwaitCall(t) \/ AwaitDone(t)
      PROVE PoolStep
  BY <1>3 DEF SubmitCall, SubmitStep, AwaitCall, AwaitDone, PoolStep, ThreadStep
<1>4. ASSUME NEW w \in Workers,
             TaskTaken(w) \/ TaskStarts(w) \/ TaskReturns(w) \/ TaskLeft(w)
      PROVE PoolStep
  BY <1>4 DEF TaskTaken, TaskStarts, TaskReturns, TaskLeft, PoolStep, WorkerStep
<1> QED  BY <1>1, <1>2, <1>3, <1>4 DEF Next

-----------------------------------------------------------------------------
(* The pool's types *)

LEMMA SubmitTypes ==
  ASSUME TypeOK, LocalsExact, NEW t \in Threads, NEW k \in Tasks, Submit(t, k)
  PROVE  pc' \in [Threads -> PCs] /\ PoolTypeOK'
<1>1. workerThreads' \in 0 .. MaxThreads
  <2>1. CASE initialized
    BY <2>1 DEF Submit, TypeOK, PoolTypeOK
  <2>2. CASE ~initialized
    <3>1. PICK n \in 0 .. PoolSize : workerThreads' = workerThreads + n
      BY <2>2, PoolAssumption DEF Submit, StartWorkers
    <3> QED  BY <2>2, <3>1, PoolAssumption DEF LocalsExact
  <2> QED  BY <2>1, <2>2
<1>2. submitter' \in [Tasks -> Tasks \cup Externals \cup {NoTask}]
  <2>1. Actor(t) \in Tasks \cup Externals \cup {NoTask}
    BY DEF Actor, Threads, TypeOK, PoolTypeOK
  <2> QED  BY <2>1 DEF Submit, TypeOK, PoolTypeOK
<1>3. pc' \in [Threads -> PCs]
  BY DEF Submit, Goto, TypeOK, PCs
<1> QED
  BY <1>1, <1>2, <1>3 DEF Submit, TypeOK, PoolTypeOK, counterVars, localVars

LEMMA WaitBeginTypes ==
  ASSUME TypeOK, LocalsExact, NEW t \in Threads, CallBlocks(t)
  PROVE  pc' \in [Threads -> PCs] /\ PoolTypeOK'
<1>1. PICK opposite : WaitBegin(t, opposite)  BY DEF CallBlocks
<1>2. workerThreads' \in 0 .. MaxThreads
  <2>1. CASE workerThreads' = workerThreads
    BY <2>1 DEF TypeOK, PoolTypeOK
  <2>2. CASE workerThreads < MaxThreads /\ StartWorkers(1)
    <3>1. PICK n \in 0 .. 1 : workerThreads' = workerThreads + n
      BY <2>2 DEF StartWorkers
    <3> QED  BY <2>2, <3>1, PoolAssumption DEF TypeOK, PoolTypeOK
  <2> QED  BY <1>1, <2>1, <2>2 DEF WaitBegin, SpawnCompensation
<1>3. pc' \in [Threads -> PCs]
  BY DEF CallBlocks, TypeOK, PCs
<1>4. runningWorkers' \in Nat /\ blockedWorkers' \in Nat /\ activeExternal' \in Nat
      /\ externalWaiters' \in Nat
  BY <1>1 DEF WaitBegin, TypeOK, PoolTypeOK, Dec
<1>5. /\ registered' \in [Threads -> BOOLEAN] /\ waitKind' \in [Threads -> 0 .. 2]
      /\ candidateSeen' \in [Threads -> BOOLEAN]
  <2>1. DeadlockCandidate(t, opposite) \in BOOLEAN  BY DEF DeadlockCandidate
  <2>2. candidateSeen' \in [Threads -> BOOLEAN]
    BY <1>1, <2>1 DEF WaitBegin, TypeOK, PoolTypeOK
  <2>3. waitKind' = [waitKind EXCEPT ![t] = IF isWorker[t] THEN 1 ELSE 2]
    BY <1>1 DEF WaitBegin
  <2>4. waitKind' \in [Threads -> 0 .. 2]
    BY <2>3 DEF TypeOK, PoolTypeOK
  <2>5. registered' = registered \/ registered' = [registered EXCEPT ![t] = TRUE]
    BY <1>1 DEF WaitBegin
  <2>6. registered' \in [Threads -> BOOLEAN]
    BY <2>5 DEF TypeOK, PoolTypeOK
  <2> QED  BY <2>2, <2>4, <2>6
<1>6. UNCHANGED <<arg, task, submitter, promise, taskQueue, initialized, queuedTasks,
                   isWorker>>
  BY <1>1 DEF WaitBegin, taskVars
<1> QED
  BY <1>2, <1>3, <1>4, <1>5, <1>6 DEF TypeOK, PoolTypeOK

LEMMA WaitEndTypes ==
  ASSUME TypeOK, NEW t \in Threads, WaitEnds(t)
  PROVE  pc' \in [Threads -> PCs] /\ PoolTypeOK'
<1>1. runningWorkers' \in Nat /\ blockedWorkers' \in Nat /\ activeExternal' \in Nat
      /\ externalWaiters' \in Nat
  BY DEF WaitEnds, WaitEnd, TypeOK, PoolTypeOK, Dec
<1>2. waitKind' \in [Threads -> 0 .. 2]
  BY DEF WaitEnds, WaitEnd, TypeOK, PoolTypeOK
<1>3. pc' \in [Threads -> PCs]
  BY DEF WaitEnds, Goto, TypeOK, PCs
<1> QED
  BY <1>1, <1>2, <1>3 DEF WaitEnds, WaitEnd, TypeOK, PoolTypeOK, taskVars, threadVars

LEMMA ThreadTypes ==
  ASSUME TypeOK, LocalsExact, NEW t \in Threads, ThreadStep(t)
  PROVE  pc' \in [Threads -> PCs] /\ PoolTypeOK'
<1> USE DEF taskVars, threadVars, counterVars, localVars
<1>1. CASE CallReturns(t)
  BY <1>1 DEF CallReturns, TypeOK, PoolTypeOK, PCs
<1>2. CASE CallBlocks(t)
  BY <1>2, WaitBeginTypes
<1>3. CASE WaitEnds(t)
  BY <1>3, WaitEndTypes
<1>4. ASSUME NEW k \in Tasks, Submit(t, k)  PROVE pc' \in [Threads -> PCs] /\ PoolTypeOK'
  BY <1>4, SubmitTypes
<1>5. ASSUME NEW k \in Tasks, Await(t, k)  PROVE pc' \in [Threads -> PCs] /\ PoolTypeOK'
  BY <1>5 DEF Await, Goto, TypeOK, PoolTypeOK, PCs
<1>6. CASE Register(t)
  BY <1>6 DEF Register, RegisterExternal, Goto, TypeOK, PoolTypeOK, PCs
<1>7. CASE TaskQueued(t)
  BY <1>7 DEF TaskQueued, Goto, TypeOK, PoolTypeOK, PCs
<1>8. CASE Enqueue(t)
  <2>1. arg[t] \in Tasks  BY <1>8 DEF Enqueue, Goto, LocalsExact
  <2> QED  BY <1>8, <2>1 DEF Enqueue, Goto, TypeOK, PoolTypeOK, PCs
<1>9. CASE AwaitReturn(t, "freed")
  BY <1>9 DEF AwaitReturn, Goto, TypeOK, PoolTypeOK, PCs
<1> QED  BY <1>1, <1>2, <1>3, <1>4, <1>5, <1>6, <1>7, <1>8, <1>9 DEF ThreadStep

LEMMA WorkerTypes ==
  ASSUME TypeOK, LocalsExact, NEW w \in Workers, WorkerStep(w)
  PROVE  pc' \in [Threads -> PCs] /\ PoolTypeOK'
<1> USE DEF taskVars, threadVars, counterVars, localVars
<1>0. w \in Threads  BY DEF Threads
<1>1. CASE Dequeue(w)
  <2>1. Head(taskQueue) \in Tasks /\ Tail(taskQueue) \in Seq(Tasks)
    BY <1>1 DEF Dequeue, TypeOK, PoolTypeOK
  <2> QED  BY <1>0, <1>1, <2>1 DEF Dequeue, Goto, TypeOK, PoolTypeOK, PCs
<1>2. CASE WorkerBegin(w, "run")
  BY <1>0, <1>2 DEF WorkerBegin, Goto, Dec, TypeOK, PoolTypeOK, PCs
<1>3. CASE Fulfil(w, "run", "done", "end")
  <2>1. promise' \in [Tasks -> {"none", "pending", "done", "failed", "freed"}]
    BY <1>3 DEF Fulfil, TypeOK, PoolTypeOK
  <2>2. pc' \in [Threads -> PCs]
    BY <1>0, <1>3 DEF Fulfil, Goto, TypeOK, PCs
  <2> QED  BY <1>3, <2>1, <2>2 DEF Fulfil, TypeOK, PoolTypeOK
<1>4. CASE WorkerEnd(w)
  <2>1. runningWorkers' \in Nat /\ blockedWorkers' \in Nat
        /\ waitKind' \in [Threads -> 0 .. 2]
    BY <1>0, <1>4 DEF WorkerEnd, Dec, TypeOK, PoolTypeOK
  <2>2. pc' \in [Threads -> PCs] /\ task' \in [Workers -> Tasks \cup {NoTask}]
        /\ isWorker' \in [Threads -> BOOLEAN]
    BY <1>0, <1>4 DEF WorkerEnd, Goto, TypeOK, PoolTypeOK, PCs
  <2> QED  BY <1>4, <2>1, <2>2 DEF WorkerEnd, TypeOK, PoolTypeOK
<1> QED  BY <1>1, <1>2, <1>3, <1>4 DEF WorkerStep

-----------------------------------------------------------------------------
(* The thread-locals *)

LEMMA ThreadLocals ==
  ASSUME TypeOK, LocalsExact, NEW t \in Threads, ThreadStep(t)
  PROVE  LocalsExact'
<1> USE DEF TypeOK, PoolTypeOK, LocalsExact, taskVars, threadVars, counterVars, localVars
<1>1. CASE CallReturns(t)
  BY <1>1 DEF CallReturns
<1>2. CASE CallBlocks(t)
  <2>1. PICK opposite : WaitBegin(t, opposite)  BY <1>2 DEF CallBlocks
  <2>2. ~initialized' => workerThreads' = 0 /\ queuedTasks' = 0
    BY <2>1 DEF WaitBegin, SpawnCompensation
  <2>3. UNCHANGED <<arg, initialized, isWorker>>
        /\ waitKind' = [waitKind EXCEPT ![t] = IF isWorker[t] THEN 1 ELSE 2]
        /\ registered' = IF isWorker[t] THEN registered
                                        ELSE [registered EXCEPT ![t] = TRUE]
    BY <2>1 DEF WaitBegin
  <2>4. pc[t] \in {"run", "retest"} /\ pc'[t] \in {"raise", "asleep"}
        /\ \A u \in Threads : u # t => pc'[u] = pc[u]
    BY <1>2 DEF CallBlocks
  <2>5. ~isWorker[t] => t \in Externals
    BY <2>4 DEF Threads
  <2> QED  BY <2>2, <2>3, <2>4, <2>5
<1>3. CASE WaitEnds(t)
  BY <1>3 DEF WaitEnds, WaitEnd, Goto
<1>4. ASSUME NEW k \in Tasks, Submit(t, k)  PROVE LocalsExact'
  <2>1. t \in Workers => isWorker[t]  BY <1>4 DEF Submit, Goto
  <2> QED  BY <1>4, <2>1 DEF Submit, Goto, Threads
<1>5. ASSUME NEW k \in Tasks, Await(t, k)  PROVE LocalsExact'
  BY <1>5 DEF Await, Goto
<1>6. CASE Register(t)
  BY <1>6 DEF Register, RegisterExternal, Goto
<1>7. CASE TaskQueued(t)
  BY <1>7 DEF TaskQueued, Goto
<1>8. CASE Enqueue(t)
  BY <1>8 DEF Enqueue, Goto
<1>9. CASE AwaitReturn(t, "freed")
  BY <1>9 DEF AwaitReturn, Goto
<1> QED  BY <1>1, <1>2, <1>3, <1>4, <1>5, <1>6, <1>7, <1>8, <1>9 DEF ThreadStep

LEMMA WorkerLocals ==
  ASSUME TypeOK, LocalsExact, NEW w \in Workers, WorkerStep(w)
  PROVE  LocalsExact'
<1> USE DEF TypeOK, PoolTypeOK, LocalsExact, taskVars, threadVars, counterVars, localVars
<1>0. w \in Threads  BY DEF Threads
<1>1. CASE Dequeue(w)
  BY <1>0, <1>1 DEF Dequeue, Goto
<1>2. CASE WorkerBegin(w, "run")
  BY <1>0, <1>2 DEF WorkerBegin, Goto, Dec
<1>3. CASE Fulfil(w, "run", "done", "end")
  BY <1>0, <1>3 DEF Fulfil, Goto
<1>4. CASE WorkerEnd(w)
  BY <1>0, <1>4 DEF WorkerEnd, Goto
<1> QED  BY <1>1, <1>2, <1>3, <1>4 DEF WorkerStep

-----------------------------------------------------------------------------
(* The channels' types *)

LEMMA CapType == \A c \in Chans : Cap[c] \in Nat /\ Cap[c] > 0
BY ChannelAssumption DEF Cap

LEMMA ModRange ==
  ASSUME NEW n \in Nat, n > 0, NEW i \in Nat
  PROVE  i % n \in Nat /\ i % n < n
OBVIOUS

\* An index moved on by one stays in its ring.
LEMMA IndexMoves ==
  ASSUME NEW index \in [Chans -> Nat], \A d \in Chans : index[d] < Cap[d],
         NEW c \in Chans
  PROVE  LET next == [index EXCEPT ![c] = (@ + 1) % Cap[c]]
         IN  next \in [Chans -> Nat] /\ \A d \in Chans : next[d] < Cap[d]
<1>1. (index[c] + 1) % Cap[c] \in Nat /\ (index[c] + 1) % Cap[c] < Cap[c]
  BY CapType, ModRange
<1> QED  BY <1>1

LEMMA EntersCalls ==
  ASSUME ChanTypeOK, NEW t, NEW k, Enters(t, k) \/ Starts(t, k)
  PROVE  calls' \in 0 .. MaxCalls
BY ChannelAssumption DEF Enters, Starts, Retries, ChanTypeOK

LEMMA SignalTypes ==
  ASSUME ChanTypeOK, NEW op, NEW c, Signal(op, c)
  PROVE  signalled' \subseteq Threads
BY DEF Signal, Sleepers, ChanTypeOK

LEMMA LeavesTypes ==
  ASSUME ChanTypeOK, NEW t \in Threads, NEW k, NEW outcome, Leaves(t, k, outcome)
  PROVE  /\ owner' \in [Chans -> Threads \cup {Nobody}]
         /\ call' \in [Threads -> Calls]
         /\ sendWaiters' \in [Chans -> Int] /\ recvWaiters' \in [Chans -> Int]
<1>1. owner' \in [Chans -> Threads \cup {Nobody}]
  BY DEF Leaves, ChanTypeOK
<1>2. call' \in [Threads -> Calls]
  <2>1. <<>> \in Calls  BY DEF Calls
  <2> QED  BY <2>1 DEF Leaves, ChanTypeOK
<1>3. UNCHANGED <<sendWaiters, recvWaiters>>
  BY DEF Leaves
<1> QED  BY <1>1, <1>2, <1>3 DEF ChanTypeOK

LEMMA SleepTypes ==
  ASSUME ChanTypeOK, NEW t \in Threads, NEW k \in Calls, NEW opposite,
         Enters(t, k), Sleep(t, k, opposite)
  PROVE  ChanTypeOK'
<1>1. calls' \in 0 .. MaxCalls  BY EntersCalls
<1>2. call' \in [Threads -> Calls] /\ owner' \in [Chans -> Threads \cup {Nobody}]
  BY DEF Sleep, ChanTypeOK
<1>3. sendWaiters' \in [Chans -> Int]
  BY DEF Sleep, ChanTypeOK
<1>4. recvWaiters' \in [Chans -> Int]
  BY DEF Sleep, ChanTypeOK
<1>5. UNCHANGED <<ringVars, signalled>>  BY DEF Sleep
<1> QED  BY <1>1, <1>2, <1>3, <1>4, <1>5 DEF ChanTypeOK, ringVars

LEMMA SendTypes ==
  ASSUME ChanTypeOK, NEW t \in Threads, NEW c \in Chans, NEW v \in Vals,
         SendDone(t, c, v)
  PROVE  ChanTypeOK'
<1>1. calls' \in 0 .. MaxCalls  BY EntersCalls DEF SendDone
<1>2. /\ owner' \in [Chans -> Threads \cup {Nobody}] /\ call' \in [Threads -> Calls]
      /\ sendWaiters' \in [Chans -> Int] /\ recvWaiters' \in [Chans -> Int]
  BY LeavesTypes DEF SendDone
<1>3. signalled' \subseteq Threads  BY SignalTypes DEF SendDone
<1>4. DOMAIN buf' = Chans /\ \A d \in Chans : buf'[d] \in [0 .. Cap[d] - 1 -> Vals \cup {0}]
  BY DEF SendDone, ChanTypeOK
<1>5. tail' \in [Chans -> Nat] /\ \A d \in Chans : tail'[d] < Cap[d]
  BY IndexMoves DEF SendDone, ChanTypeOK
<1>6. count' \in [Chans -> Nat] /\ \A d \in Chans : count'[d] <= Cap[d]
  <2>1. count' = [count EXCEPT ![c] = count[c] + 1] /\ count[c] # Cap[c]
    BY DEF SendDone
  <2>2. count \in [Chans -> Nat] /\ \A d \in Chans : count[d] <= Cap[d]
    BY DEF ChanTypeOK
  <2>3. count[c] + 1 \in Nat /\ count[c] + 1 <= Cap[c]
    BY <2>1, <2>2, CapType
  <2> QED  BY <2>1, <2>2, <2>3
<1>7. UNCHANGED <<head, closed>>  BY DEF SendDone
<1> QED  BY <1>1, <1>2, <1>3, <1>4, <1>5, <1>6, <1>7 DEF ChanTypeOK

LEMMA TakeTypes ==
  ASSUME ChanTypeOK, NEW t \in Threads, NEW c \in Chans, Take(t, c),
         calls' \in 0 .. MaxCalls
  PROVE  ChanTypeOK'
<1>1. /\ owner' \in [Chans -> Threads \cup {Nobody}] /\ call' \in [Threads -> Calls]
      /\ sendWaiters' \in [Chans -> Int] /\ recvWaiters' \in [Chans -> Int]
  BY LeavesTypes DEF Take
<1>2. signalled' \subseteq Threads  BY SignalTypes DEF Take
<1>3. head' \in [Chans -> Nat] /\ \A d \in Chans : head'[d] < Cap[d]
  BY IndexMoves DEF Take, ChanTypeOK
<1>4. count' \in [Chans -> Nat] /\ \A d \in Chans : count'[d] <= Cap[d]
  <2>1. count' = [count EXCEPT ![c] = count[c] - 1] /\ count[c] # 0
    BY DEF Take
  <2>2. count \in [Chans -> Nat] /\ \A d \in Chans : count[d] <= Cap[d]
    BY DEF ChanTypeOK
  <2>3. count[c] - 1 \in Nat /\ count[c] - 1 <= Cap[c]
    BY <2>1, <2>2, CapType
  <2> QED  BY <2>1, <2>2, <2>3
<1>5. UNCHANGED <<buf, tail, closed>>  BY DEF Take
<1> QED  BY <1>1, <1>2, <1>3, <1>4, <1>5 DEF ChanTypeOK

\* A call that returns and moves no value.
LEMMA RefusalTypes ==
  ASSUME ChanTypeOK, NEW t \in Threads, NEW k, NEW outcome,
         Enters(t, k) \/ Starts(t, k), Leaves(t, k, outcome),
         UNCHANGED <<buf, head, tail, count>>,
         closed' \in [Chans -> BOOLEAN], signalled' \subseteq Threads
  PROVE  ChanTypeOK'
<1>1. calls' \in 0 .. MaxCalls  BY EntersCalls
<1>2. /\ owner' \in [Chans -> Threads \cup {Nobody}] /\ call' \in [Threads -> Calls]
      /\ sendWaiters' \in [Chans -> Int] /\ recvWaiters' \in [Chans -> Int]
  BY LeavesTypes
<1> QED  BY <1>1, <1>2 DEF ChanTypeOK

LEMMA CallStepTypes ==
  ASSUME ChanTypeOK, NEW t \in Threads, CallStep(t)
  PROVE  ChanTypeOK'
<1>0. PICK c \in Chans :
        \/ \E v \in Vals : SendBlocks(t, c, v) \/ SendRefused(t, c, v) \/ SendDone(t, c, v)
        \/ RecvBlocks(t, c) \/ RecvDrained(t, c) \/ RecvDone(t, c)
        \/ TryRecv(t, c)
        \/ Close(t, c)
  BY DEF CallStep
<1> closed \in [Chans -> BOOLEAN] /\ signalled \subseteq Threads
  BY DEF ChanTypeOK
<1>1. ASSUME NEW v \in Vals, SendBlocks(t, c, v)  PROVE ChanTypeOK'
  <2>1. SendCall(c, v) \in Calls  BY DEF Calls
  <2> QED  BY <1>1, <2>1, SleepTypes DEF SendBlocks
<1>2. ASSUME NEW v \in Vals, SendRefused(t, c, v)  PROVE ChanTypeOK'
  BY <1>2, RefusalTypes DEF SendRefused, ringVars
<1>3. ASSUME NEW v \in Vals, SendDone(t, c, v)  PROVE ChanTypeOK'
  BY <1>3, SendTypes
<1>4. CASE RecvBlocks(t, c)
  <2>1. RecvCall(c) \in Calls  BY DEF Calls
  <2> QED  BY <1>4, <2>1, SleepTypes DEF RecvBlocks
<1>5. CASE RecvDrained(t, c)
  BY <1>5, RefusalTypes DEF RecvDrained, ringVars
<1>6. CASE RecvDone(t, c)
  BY <1>6, EntersCalls, TakeTypes DEF RecvDone
<1>7. CASE TryRecv(t, c)
  <2>1. CASE Take(t, c)
    BY <1>7, <2>1, EntersCalls, TakeTypes DEF TryRecv
  <2>2. CASE Leaves(t, RecvCall(c), <<"empty", t, c>>) /\ UNCHANGED <<ringVars, signalled>>
    BY <1>7, <2>2, RefusalTypes DEF TryRecv, ringVars
  <2> QED  BY <1>7, <2>1, <2>2 DEF TryRecv
<1>8. CASE Close(t, c)
  <2>1. closed' \in [Chans -> BOOLEAN] /\ signalled' \subseteq Threads
    BY <1>8 DEF Close, Broadcast, Sleepers
  <2> QED  BY <1>8, <2>1, RefusalTypes DEF Close
<1> QED  BY <1>0, <1>1, <1>2, <1>3, <1>4, <1>5, <1>6, <1>7, <1>8

LEMMA ResumeTypes ==
  ASSUME ChanTypeOK, NEW t \in Threads, Resume(t)
  PROVE  ChanTypeOK'
<1>1. owner' \in [Chans -> Threads \cup {Nobody}]
  BY DEF Resume, ChanTypeOK
<1>2. sendWaiters' \in [Chans -> Int] /\ recvWaiters' \in [Chans -> Int]
  BY DEF Resume, ChanTypeOK
<1> QED  BY <1>1, <1>2 DEF Resume, ChanTypeOK, ringVars

LEMMA NextTypes ==
  ASSUME ChanTypeOK, Next
  PROVE  ChanTypeOK'
<1>1. ASSUME NEW t \in Threads, CallStep(t)  PROVE ChanTypeOK'
  BY <1>1, CallStepTypes
<1>2. ASSUME NEW t \in Threads, Wake(t) \/ Timeout(t)  PROVE ChanTypeOK'
  BY <1>2, ResumeTypes DEF Wake, Timeout
<1>3. ASSUME NEW t \in Threads, RaiseDeadlock(t)  PROVE ChanTypeOK'
  <2>1. owner' \in [Chans -> Threads \cup {Nobody}]
    BY <1>3 DEF RaiseDeadlock, ChanTypeOK
  <2>2. call' \in [Threads -> Calls]
    <3>1. <<>> \in Calls  BY DEF Calls
    <3> QED  BY <1>3, <3>1 DEF RaiseDeadlock, ChanTypeOK
  <2> QED  BY <1>3, <2>1, <2>2 DEF RaiseDeadlock, ChanTypeOK, ringVars
<1>4. ASSUME NEW t \in Threads, AwaitCall(t)  PROVE ChanTypeOK'
  BY <1>4, ChannelAssumption DEF AwaitCall, ChanTypeOK, ringVars
<1>5. CASE UNCHANGED chanVars
  BY <1>5 DEF chanVars, ringVars, ChanTypeOK
<1> QED
  BY <1>1, <1>2, <1>3, <1>4, <1>5
  DEF Next, SubmitCall, SubmitStep, AwaitDone, TaskTaken, TaskStarts, TaskReturns, TaskLeft

-----------------------------------------------------------------------------
(* The counters *)

LEMMA ThreadCounters ==
  ASSUME IInv, NEW t \in Threads, ThreadStep(t)
  PROVE  CountersExact'
<1> USE DEF IInv, TypeOK, taskVars, threadVars, counterVars, localVars
<1>0. isWorker[t] => ~registered[t]
  BY PoolAssumption DEF LocalsExact, Workers
<1>1. CASE CallReturns(t)
  BY <1>1, CountersKept DEF CallReturns
<1>2. CASE CallBlocks(t)
  <2>1. PICK opposite : WaitBegin(t, opposite)  BY <1>2 DEF CallBlocks
  <2>2. waitKind[t] = 0  BY <1>2 DEF CallBlocks, LocalsExact
  <2> QED  BY <1>0, <2>1, <2>2, WaitBeginCounts
<1>3. CASE WaitEnds(t)
  <2>1. waitKind[t] = IF isWorker[t] THEN 1 ELSE 2
    BY <1>3 DEF WaitEnds, Goto, LocalsExact
  <2>2. registered[t] <=> ~isWorker[t]
    BY <1>0, <2>1 DEF LocalsExact
  <2> QED  BY <1>3, <2>1, <2>2, WaitEndCounts DEF WaitEnds
<1>4. ASSUME NEW k \in Tasks, Submit(t, k) \/ Await(t, k)  PROVE CountersExact'
  BY <1>4, CountersKept DEF Submit, Await
<1>5. CASE Register(t)
  <2>1. waitKind[t] = 0  BY <1>5 DEF Register, Goto, LocalsExact
  <2> QED  BY <1>5, <2>1, RegisterCounts
<1>6. CASE TaskQueued(t) \/ Enqueue(t) \/ AwaitReturn(t, "freed")
  BY <1>6, CountersKept DEF TaskQueued, Enqueue, AwaitReturn
<1> QED  BY <1>1, <1>2, <1>3, <1>4, <1>5, <1>6 DEF ThreadStep

LEMMA WorkerCounters ==
  ASSUME IInv, NEW w \in Workers, WorkerStep(w)
  PROVE  CountersExact'
<1> USE DEF IInv, TypeOK, taskVars, threadVars, counterVars, localVars
<1>0. w \in Threads  BY DEF Threads
<1>1. CASE Dequeue(w) \/ Fulfil(w, "run", "done", "end")
  BY <1>1, CountersKept DEF Dequeue, Fulfil
<1>2. CASE WorkerBegin(w, "run")
  <2>1. ~isWorker[w] /\ waitKind[w] = 0
    BY <1>0, <1>2 DEF WorkerBegin, Goto, LocalsExact
  <2> QED  BY <1>0, <1>2, <2>1, WorkerBeginCounts
<1>3. CASE WorkerEnd(w)
  <2>1. isWorker[w] /\ waitKind[w] = 0
    BY <1>0, <1>3 DEF WorkerEnd, Goto, LocalsExact
  <2> QED  BY <1>0, <1>3, <2>1, WorkerEndCounts
<1> QED  BY <1>1, <1>2, <1>3 DEF WorkerStep

\* A step between two labels that are neither "enqueue" nor "popped".
LEMMA QueuedUntouched ==
  ASSUME QueuedExact, UNCHANGED <<queuedTasks, taskQueue>>, pc \in [Threads -> PCs],
         NEW t \in Threads, NEW to \in PCs, pc' = [pc EXCEPT ![t] = to],
         pc[t] \notin {"enqueue", "popped"}, to \notin {"enqueue", "popped"}
  PROVE  QueuedExact'
BY QueuedKept DEF ThreadsAt

LEMMA ThreadQueued ==
  ASSUME IInv, NEW t \in Threads, ThreadStep(t)
  PROVE  QueuedExact'
<1> USE DEF IInv, TypeOK, taskVars, threadVars, counterVars, localVars
<1>0. {"run", "register", "queue", "enqueue", "await", "asleep", "retest", "raise"}
        \subseteq PCs
  BY DEF PCs
<1>1. CASE CallReturns(t)
  BY <1>0, <1>1, QueuedUntouched DEF CallReturns
<1>2. CASE CallBlocks(t)
  <2>1. PICK opposite : WaitBegin(t, opposite)  BY <1>2 DEF CallBlocks
  <2>2. UNCHANGED <<queuedTasks, taskQueue>>  BY <2>1 DEF WaitBegin
  <2>3. CASE Deadlocked(t)
    BY <1>0, <1>2, <2>2, <2>3, QueuedUntouched DEF CallBlocks
  <2>4. CASE ~Deadlocked(t)
    BY <1>0, <1>2, <2>2, <2>4, QueuedUntouched DEF CallBlocks
  <2> QED  BY <2>3, <2>4
<1>3. CASE WaitEnds(t)
  <2>1. UNCHANGED <<queuedTasks, taskQueue>>  BY <1>3 DEF WaitEnds, WaitEnd
  <2> QED  BY <1>0, <1>3, <2>1, QueuedUntouched DEF WaitEnds, Goto
<1>4. ASSUME NEW k \in Tasks, Submit(t, k)  PROVE QueuedExact'
  <2>1. UNCHANGED <<queuedTasks, taskQueue>> /\ pc[t] = "run"
        /\ pc' = [pc EXCEPT ![t] = IF isWorker[t] THEN "queue" ELSE "register"]
    BY <1>4 DEF Submit, Goto
  <2>2. CASE isWorker[t]   BY <1>0, <2>1, <2>2, QueuedUntouched
  <2>3. CASE ~isWorker[t]  BY <1>0, <2>1, <2>3, QueuedUntouched
  <2> QED  BY <2>2, <2>3
<1>5. ASSUME NEW k \in Tasks, Await(t, k)  PROVE QueuedExact'
  BY <1>0, <1>5, QueuedUntouched DEF Await, Goto
<1>6. CASE Register(t)
  BY <1>0, <1>6, QueuedUntouched DEF Register, Goto
<1>7. CASE TaskQueued(t)
  BY <1>0, <1>7, TaskQueuedCounts
<1>8. CASE Enqueue(t)
  <2>1. arg[t] \in Tasks  BY <1>8 DEF Enqueue, Goto, LocalsExact
  <2> QED  BY <1>0, <1>8, <2>1, EnqueueCounts
<1>9. CASE AwaitReturn(t, "freed")
  BY <1>0, <1>9, QueuedUntouched DEF AwaitReturn, Goto
<1> QED  BY <1>1, <1>2, <1>3, <1>4, <1>5, <1>6, <1>7, <1>8, <1>9 DEF ThreadStep

LEMMA WorkerQueued ==
  ASSUME IInv, NEW w \in Workers, WorkerStep(w)
  PROVE  QueuedExact'
<1> USE DEF IInv, TypeOK, taskVars, threadVars, counterVars, localVars
<1>0. w \in Threads /\ {"run", "idle", "popped", "end"} \subseteq PCs
  BY DEF Threads, PCs
<1>1. CASE Dequeue(w)
  BY <1>0, <1>1, DequeueCounts
<1>2. CASE WorkerBegin(w, "run")
  BY <1>0, <1>2, WorkerBeginDequeues
<1>3. CASE Fulfil(w, "run", "done", "end")
  BY <1>0, <1>3, QueuedUntouched DEF Fulfil, Goto
<1>4. CASE WorkerEnd(w)
  BY <1>0, <1>4, QueuedUntouched DEF WorkerEnd, Goto
<1> QED  BY <1>1, <1>2, <1>3, <1>4 DEF WorkerStep

-----------------------------------------------------------------------------
(* The invariant *)

LEMMA InitIInv == Init => IInv
<1> SUFFICES ASSUME Init PROVE IInv
  OBVIOUS
<1>1. PoolTypeOK /\ pc \in [Threads -> PCs]
  <2>1. pc \in [Threads -> PCs]
    BY DEF Init, PoolInit, PCs
  <2>2. /\ task \in [Workers -> Tasks \cup {NoTask}]
        /\ arg \in [Threads -> Tasks \cup {NoTask}]
        /\ submitter \in [Tasks -> Tasks \cup Externals \cup {NoTask}]
    BY DEF Init, PoolInit
  <2>3. promise \in [Tasks -> {"none", "pending", "done", "failed", "freed"}]
    BY DEF Init, PoolInit
  <2>4. taskQueue \in Seq(Tasks)
    <3>1. taskQueue = <<>>  BY DEF Init, PoolInit
    <3> QED  BY <3>1
  <2>5. /\ isWorker \in [Threads -> BOOLEAN] /\ registered \in [Threads -> BOOLEAN]
        /\ waitKind \in [Threads -> 0 .. 2] /\ candidateSeen \in [Threads -> BOOLEAN]
    BY DEF Init, PoolInit
  <2>6. initialized = FALSE /\ workerThreads = 0 /\ 0 \in 0 .. MaxThreads
    BY PoolAssumption DEF Init, PoolInit
  <2>7. /\ queuedTasks \in Nat /\ runningWorkers \in Nat /\ blockedWorkers \in Nat
        /\ activeExternal \in Nat /\ externalWaiters \in Nat
    BY DEF Init, PoolInit
  <2> QED  BY <2>1, <2>2, <2>3, <2>4, <2>5, <2>6, <2>7 DEF PoolTypeOK
<1>2. ChanTypeOK
  <2>1. /\ DOMAIN buf = Chans
        /\ \A c \in Chans : buf[c] \in [0 .. Cap[c] - 1 -> Vals \cup {0}]
    BY DEF Init
  <2>2. /\ head \in [Chans -> Nat] /\ tail \in [Chans -> Nat] /\ count \in [Chans -> Nat]
        /\ \A c \in Chans : head[c] < Cap[c] /\ tail[c] < Cap[c] /\ count[c] <= Cap[c]
    BY CapType DEF Init
  <2>3. sendWaiters \in [Chans -> Int] /\ recvWaiters \in [Chans -> Int]
    BY ChannelAssumption DEF Init
  <2>4. call \in [Threads -> Calls]
    <3>1. <<>> \in Calls  BY DEF Calls
    <3> QED  BY <3>1 DEF Init
  <2>5. /\ closed \in [Chans -> BOOLEAN] /\ owner \in [Chans -> Threads \cup {Nobody}]
        /\ signalled \subseteq Threads /\ calls \in 0 .. MaxCalls
    BY ChannelAssumption DEF Init
  <2> QED  BY <2>1, <2>2, <2>3, <2>4, <2>5 DEF ChanTypeOK
<1>3. LocalsExact
  BY PoolAssumption DEF Init, PoolInit, LocalsExact, Threads, Workers
<1>4. /\ WorkersIn(0) = {} /\ WorkersIn(1) = {}
      /\ ExternalsIn(0) = {} /\ ExternalsIn(2) = {}
  BY DEF Init, PoolInit, WorkersIn, ExternalsIn
<1>5. CountersExact
  BY <1>4, FS_EmptySet DEF Init, PoolInit, CountersExact
<1>6. ThreadsAt("enqueue") = {} /\ ThreadsAt("popped") = {}
  BY DEF Init, PoolInit, ThreadsAt
<1>7. QueuedExact
  <2>1. Len(taskQueue) = 0 /\ queuedTasks = 0
    BY DEF Init, PoolInit
  <2>2. Cardinality(ThreadsAt("enqueue")) = 0 /\ Cardinality(ThreadsAt("popped")) = 0
    BY <1>6, FS_EmptySet
  <2> QED  BY <2>1, <2>2 DEF QueuedExact
<1> QED  BY <1>1, <1>2, <1>3, <1>5, <1>7 DEF IInv, TypeOK

LEMMA NextIInv == IInv /\ [Next]_vars => IInv'
<1> SUFFICES ASSUME IInv, [Next]_vars PROVE IInv'
  OBVIOUS
<1>1. CASE Next
  <2>1. PoolStep     BY <1>1, NextMoves DEF IInv
  <2>2. ChanTypeOK'  BY <1>1, NextTypes DEF IInv, TypeOK
  <2>3. ASSUME NEW t \in Threads, ThreadStep(t)  PROVE IInv'
    BY <2>2, <2>3, ThreadTypes, ThreadLocals, ThreadCounters, ThreadQueued
    DEF IInv, TypeOK
  <2>4. ASSUME NEW w \in Workers, WorkerStep(w)  PROVE IInv'
    BY <2>2, <2>4, WorkerTypes, WorkerLocals, WorkerCounters, WorkerQueued
    DEF IInv, TypeOK
  <2> QED  BY <2>1, <2>3, <2>4 DEF PoolStep
<1>2. CASE UNCHANGED vars
  <2> USE <1>2 DEF vars, poolVars, chanVars, ringVars, taskVars, threadVars, counterVars,
                   localVars
  <2>1. TypeOK'         BY DEF IInv, TypeOK, PoolTypeOK, ChanTypeOK
  <2>2. LocalsExact'    BY DEF IInv, LocalsExact
  <2>3. CountersExact'  BY CountersKept DEF IInv
  <2>4. QueuedExact'    BY QueuedKept DEF IInv, ThreadsAt
  <2> QED  BY <2>1, <2>2, <2>3, <2>4 DEF IInv
<1> QED  BY <1>1, <1>2

-----------------------------------------------------------------------------
(* The theorems *)

\* The inductive invariant holds of every behaviour.
THEOREM Invariant == Spec => []IInv
BY InitIInv, NextIInv, PTL DEF Spec

\* Every variable keeps its type; head, tail and count of each ring stay within
\* the buffer that yona_rt_channel_new allocated.
THEOREM TypeCorrect == Spec => []TypeOK
<1>1. IInv => TypeOK  BY DEF IInv
<1> QED  BY <1>1, Invariant, PTL

\* The thread-locals of async_posix.c agree with where each thread stands: no
\* raise, catch or timeout leaves a wait kind or a worker flag behind.
THEOREM LocalsCorrect == Spec => []LocalsExact
<1>1. IInv => LocalsExact  BY DEF IInv
<1> QED  BY <1>1, Invariant, PTL

\* The liveness counters count exactly the running and blocked workers and the
\* active and waiting externals, for any number of either.
THEOREM CountersCorrect == Spec => []CountersExact
<1>1. IInv => CountersExact  BY DEF IInv
<1> QED  BY <1>1, Invariant, PTL

\* yona_queued_tasks counts exactly the tasks that are queued or on their way
\* into or out of the queue.
THEOREM QueuedCorrect == Spec => []QueuedExact
<1>1. IInv => QueuedExact  BY DEF IInv
<1> QED  BY <1>1, Invariant, PTL

\* A step that finds a deadlock is a call that blocks, with the counters that
\* make it a candidate.
LEMMA FindingBlocks ==
  ASSUME IInv, NEW t \in Threads, PoolStep, FindsDeadlock(t)
  PROVE  CallBlocks(t) /\ Deadlocked(t)
<1> USE DEF IInv, TypeOK, FindsDeadlock
<1>1. ASSUME NEW u \in Threads, NEW to, pc' = [pc EXCEPT ![u] = to], to # "raise"
      PROVE  FALSE
  BY <1>1
<1>2. ASSUME NEW w \in Workers, WorkerStep(w)  PROVE FALSE
  BY <1>1, <1>2 DEF WorkerStep, Dequeue, WorkerBegin, Fulfil, WorkerEnd, Goto, Threads
<1>3. ASSUME NEW u \in Threads, ThreadStep(u), ~CallBlocks(u)  PROVE FALSE
  BY <1>1, <1>3 DEF ThreadStep, CallReturns, WaitEnds, Submit, Await, Register,
                     TaskQueued, Enqueue, AwaitReturn, Goto
<1>4. ASSUME NEW u \in Threads, CallBlocks(u)  PROVE u = t /\ Deadlocked(u)
  BY <1>1, <1>4 DEF CallBlocks
<1> QED  BY <1>2, <1>3, <1>4 DEF PoolStep

\* A set with at most one element has no other.
LEMMA AtMostOne ==
  ASSUME NEW S \in SUBSET Threads, NEW t \in S, Cardinality(S) <= 1
  PROVE  S = {t}
<1>1. S \ {t} \in SUBSET Threads  OBVIOUS
<1>2. Cardinality(S \ {t}) = 0
  <2>1. Cardinality(S) \in Nat /\ Cardinality(S \ {t}) \in Nat  BY <1>1, Counted
  <2> QED  BY <2>1, CountRemove
<1> QED  BY <1>1, <1>2, Counted

LEMMA CandidateAlone ==
  ASSUME IInv, IInv', NEW t \in Threads, CallBlocks(t), Deadlocked(t)
  PROVE  /\ taskQueue = <<>>
         /\ \A w \in Workers \ {t} : pc[w] = "idle"
         /\ \A e \in Externals \ {t} : registered[e] => pc[e] \in {"asleep", "raise"}
<1> USE DEF IInv, TypeOK
<1>1. PICK opposite : WaitBegin(t, opposite) /\ DeadlockCandidate(t, opposite)
  BY DEF CallBlocks
<1>2. /\ runningWorkers' = 0 /\ activeExternal' = 0 /\ queuedTasks = 0
      /\ blockedWorkers' <= IF isWorker[t] THEN 1 ELSE 0
  BY <1>1 DEF DeadlockCandidate
<1>3. /\ isWorker' = isWorker
      /\ waitKind' = [waitKind EXCEPT ![t] = IF isWorker[t] THEN 1 ELSE 2]
      /\ \A u \in Threads \ {t} : registered'[u] = registered[u]
  BY <1>1 DEF WaitBegin, PoolTypeOK
<1>4. taskQueue = <<>> /\ \A u \in Threads : pc[u] \notin {"enqueue", "popped"}
  BY <1>2, NothingQueued
<1>5. /\ WorkersIn(0)' \in SUBSET Threads /\ WorkersIn(1)' \in SUBSET Threads
      /\ ExternalsIn(0)' \in SUBSET Threads
  BY DEF WorkersIn, ExternalsIn
<1>6. WorkersIn(0)' = {} /\ ExternalsIn(0)' = {}
  BY <1>2, <1>5, Counted DEF CountersExact
<1>7. WorkersIn(1)' \subseteq {t}
  <2>1. Cardinality(WorkersIn(1)') <= IF isWorker[t] THEN 1 ELSE 0
    BY <1>2 DEF CountersExact
  <2>2. CASE isWorker[t]
    <3>1. t \in WorkersIn(1)'
      BY <1>3, <2>2 DEF WorkersIn, PoolTypeOK
    <3> QED  BY <1>5, <2>1, <2>2, <3>1, AtMostOne
  <2>3. CASE ~isWorker[t]
    <3>1. Cardinality(WorkersIn(1)') \in Nat  BY <1>5, Counted
    <3>2. Cardinality(WorkersIn(1)') = 0  BY <2>1, <2>3, <3>1
    <3> QED  BY <1>5, <3>2, Counted
  <2> QED  BY <2>2, <2>3
<1>8. ASSUME NEW w \in Workers \ {t}  PROVE pc[w] = "idle"
  <2>1. w \in Threads  BY DEF Threads
  <2>2. ~isWorker[w]
    <3>1. waitKind'[w] = waitKind[w] /\ isWorker'[w] = isWorker[w]
      BY <1>3, <2>1 DEF PoolTypeOK
    <3>2. isWorker[w] => waitKind[w] \in {0, 1}
      BY <2>1 DEF LocalsExact
    <3> QED  BY <1>6, <1>7, <2>1, <3>1, <3>2 DEF WorkersIn
  <2>3. pc[w] \in {"idle", "popped"}  BY <2>1, <2>2 DEF LocalsExact
  <2> QED  BY <1>4, <2>1, <2>3
<1>9. ASSUME NEW e \in Externals \ {t}, registered[e]  PROVE pc[e] \in {"asleep", "raise"}
  <2>1. e \in Threads  BY DEF Threads
  <2>2. waitKind'[e] = waitKind[e] /\ registered'[e]
    BY <1>3, <1>9, <2>1 DEF PoolTypeOK
  <2>3. waitKind[e] # 0  BY <1>6, <2>1, <2>2 DEF ExternalsIn
  <2> QED  BY <2>1, <2>3 DEF LocalsExact
<1> QED  BY <1>4, <1>8, <1>9

\* :Deadlock is found only by a thread that is alone, whatever the number of
\* workers, externals, tasks and channels, and whatever the waiter counts of a
\* new channel hold.
THEOREM OnlyWhenAlone == Spec => DeadlockOnlyWhenAlone
<1> DEFINE Alone(t) ==
      /\ taskQueue = <<>>
      /\ \A w \in Workers \ {t} : pc[w] = "idle"
      /\ \A e \in Externals \ {t} : registered[e] => pc[e] \in {"asleep", "raise"}
<1>1. ASSUME IInv, IInv', [Next]_vars
      PROVE  [\A t \in Threads : FindsDeadlock(t) => Alone(t)]_vars
  <2>1. CASE Next
    <3>1. PoolStep  BY <1>1, <2>1, NextMoves DEF IInv
    <3>2. ASSUME NEW t \in Threads, FindsDeadlock(t)  PROVE Alone(t)
      <4>1. CallBlocks(t) /\ Deadlocked(t)  BY <1>1, <3>1, <3>2, FindingBlocks
      <4> QED  BY <1>1, <4>1, CandidateAlone
    <3> QED  BY <3>2
  <2>2. CASE UNCHANGED vars
    BY <2>2
  <2> QED  BY <1>1, <2>1, <2>2
<1>2. IInv /\ IInv' /\ [Next]_vars
      => [\A t \in Threads : FindsDeadlock(t) => Alone(t)]_vars
  BY <1>1
<1> QED  BY <1>2, Invariant, PTL DEF Spec, DeadlockOnlyWhenAlone

-----------------------------------------------------------------------------
(* Where a task is *)

LEMMA InitPlaces == Init => TasksPlaced
<1> SUFFICES ASSUME Init PROVE TasksPlaced
  OBVIOUS
<1>1. /\ \A t \in Threads : pc[t] \in {"run", "idle"}
      /\ \A w \in Workers : pc[w] = "idle" /\ task[w] = NoTask
      /\ DOMAIN taskQueue = {} /\ \A k \in Tasks : promise[k] = "none"
  BY PoolAssumption DEF Init, PoolInit, Threads, Workers
<1>2. \A k : ~Carried(k) /\ ~InQueue(k) /\ ~Held(k)
  BY <1>1 DEF Carried, Carrying, InQueue, Held, Holding
<1> QED  BY <1>1, <1>2 DEF TasksPlaced, Carrying, Holding

LEMMA ThreadPlaces ==
  ASSUME IInv, TasksPlaced, NEW t \in Threads, ThreadStep(t)
  PROVE  TasksPlaced'
<1> USE DEF taskVars
<1>0. pc \in [Threads -> PCs] /\ PoolTypeOK  BY DEF IInv, TypeOK
<1>1. CASE CallReturns(t)
  BY <1>0, <1>1, PlacedMoves DEF CallReturns
<1>2. CASE CallBlocks(t)
  <2>1. UNCHANGED <<arg, taskVars>>  BY <1>2 DEF CallBlocks, WaitBegin
  <2>2. CASE Deadlocked(t)
    BY <1>0, <1>2, <2>1, <2>2, PlacedMoves DEF CallBlocks
  <2>3. CASE ~Deadlocked(t)
    BY <1>0, <1>2, <2>1, <2>3, PlacedMoves DEF CallBlocks
  <2> QED  BY <2>2, <2>3
<1>3. CASE WaitEnds(t)
  <2>1. UNCHANGED <<arg, taskVars>>  BY <1>3 DEF WaitEnds, WaitEnd
  <2> QED  BY <1>0, <1>3, <2>1, PlacedMoves DEF WaitEnds, Goto
<1>4. ASSUME NEW k \in Tasks, Submit(t, k)  PROVE TasksPlaced'
  BY <1>0, <1>4, SubmitPlaces
<1>5. ASSUME NEW k \in Tasks, Await(t, k)  PROVE TasksPlaced'
  <2>1. \A u \in Threads : Carrying(u) => arg'[u] = arg[u]
    BY <1>0, <1>5 DEF Await, Goto, Carrying, PoolTypeOK
  <2> QED  BY <1>0, <1>5, <2>1, PlacedMoves DEF Await, Goto
<1>6. CASE Register(t) \/ TaskQueued(t)
  BY <1>0, <1>6, PlacedMoves DEF Register, TaskQueued, Goto
<1>7. CASE Enqueue(t)
  BY <1>0, <1>7, EnqueuePlaces
<1>8. CASE AwaitReturn(t, "freed")
  <2>1. \A u \in Threads : Carrying(u) => arg'[u] = arg[u]
    BY <1>0, <1>8 DEF AwaitReturn, Goto, Carrying, PoolTypeOK
  <2>2. \A k \in Tasks : promise'[k] = "pending" <=> promise[k] = "pending"
    BY <1>0, <1>8 DEF AwaitReturn, PoolTypeOK
  <2> QED  BY <1>0, <1>8, <2>1, <2>2, PlacedMoves DEF AwaitReturn, Goto
<1> QED  BY <1>1, <1>2, <1>3, <1>4, <1>5, <1>6, <1>7, <1>8 DEF ThreadStep

LEMMA WorkerPlaces ==
  ASSUME IInv, TasksPlaced, NEW w \in Workers, WorkerStep(w)
  PROVE  TasksPlaced'
<1>0. pc \in [Threads -> PCs] /\ PoolTypeOK /\ w \in Threads  BY DEF IInv, TypeOK, Threads
<1>1. CASE Dequeue(w)
  BY <1>0, <1>1, DequeuePlaces
<1>2. CASE WorkerBegin(w, "run")
  BY <1>0, <1>2, PlacedMoves DEF WorkerBegin, Goto, taskVars
<1>3. CASE Fulfil(w, "run", "done", "end")
  BY <1>0, <1>3, FulfilPlaces
<1>4. CASE WorkerEnd(w)
  BY <1>0, <1>4, WorkerEndPlaces
<1> QED  BY <1>1, <1>2, <1>3, <1>4 DEF WorkerStep

LEMMA NextPlaces == IInv /\ TasksPlaced /\ [Next]_vars => TasksPlaced'
<1> SUFFICES ASSUME IInv, TasksPlaced, [Next]_vars PROVE TasksPlaced'
  OBVIOUS
<1>1. CASE Next
  <2>1. PoolStep  BY <1>1, NextMoves DEF IInv
  <2> QED  BY <2>1, ThreadPlaces, WorkerPlaces DEF PoolStep
<1>2. CASE UNCHANGED vars
  BY <1>2, PlacedKept DEF vars, poolVars, taskVars, Carrying, Holding, IInv, TypeOK
<1> QED  BY <1>1, <1>2

\* A set whose elements are all the same one counts as many as it has places.
LEMMA OneOrNone ==
  ASSUME NEW S, \A x, y \in S : x = y
  PROVE  Cardinality(S) = IF S = {} THEN 0 ELSE 1
<1>1. CASE S = {}
  BY <1>1, FS_EmptySet
<1>2. CASE S # {}
  <2>1. PICK x : S = {x}  BY <1>2
  <2> QED  BY <1>2, <2>1, FS_Singleton
<1> QED  BY <1>1, <1>2

\* A task is never lost by the pool, nor run twice: from its submission to the
\* end of its promise it is with its submitter, in the queue or with one worker.
THEOREM TasksCorrect == Spec => []TaskInOnePlace
<1> DEFINE Queued(k)  == {i \in DOMAIN taskQueue : taskQueue[i] = k}
           Running(k) == {w \in Workers : task[w] = k /\ pc[w] # "end"}
           Sent(k)    == {t \in Threads : pc[t] \in {"register", "queue", "enqueue"} /\ arg[t] = k}
<1>1. ASSUME IInv, TasksPlaced, NEW k \in Tasks, promise[k] = "pending"
      PROVE  Cardinality(Queued(k)) + Cardinality(Running(k)) + Cardinality(Sent(k)) = 1
  <2>1. Queued(k) # {} <=> InQueue(k)
    BY DEF InQueue
  <2>2. \A w \in Running(k) : w \in Workers /\ Holding(w) /\ task[w] = k
    <3>1. NoTask # k  BY PoolAssumption
    <3>2. pc \in [Threads -> PCs]  BY <1>1 DEF IInv, TypeOK
    <3> QED  BY <1>1, <3>1, <3>2 DEF TasksPlaced, Holding, Threads, PCs
  <2>3. Running(k) # {} <=> Held(k)
    BY <2>2 DEF Held, Holding
  <2>4. Sent(k) # {} <=> Carried(k)
    BY DEF Carried, Carrying
  <2>5. /\ \A i, j \in Queued(k) : i = j
        /\ \A w, x \in Running(k) : w = x
        /\ \A t, u \in Sent(k) : t = u
    BY <1>1, <2>2 DEF TasksPlaced, Carrying
  <2>6. /\ Cardinality(Queued(k)) = IF InQueue(k) THEN 1 ELSE 0
        /\ Cardinality(Running(k)) = IF Held(k) THEN 1 ELSE 0
        /\ Cardinality(Sent(k)) = IF Carried(k) THEN 1 ELSE 0
    <3> HIDE DEF Queued, Running, Sent
    <3>1. /\ Cardinality(Queued(k)) = IF Queued(k) = {} THEN 0 ELSE 1
          /\ Cardinality(Running(k)) = IF Running(k) = {} THEN 0 ELSE 1
          /\ Cardinality(Sent(k)) = IF Sent(k) = {} THEN 0 ELSE 1
      BY <2>5, OneOrNone
    <3> QED  BY <2>1, <2>3, <2>4, <3>1
  <2>7. /\ Carried(k) \/ InQueue(k) \/ Held(k)
        /\ ~(Carried(k) /\ InQueue(k)) /\ ~(Carried(k) /\ Held(k)) /\ ~(InQueue(k) /\ Held(k))
    BY <1>1 DEF TasksPlaced
  <2> HIDE DEF Queued, Running, Sent
  <2> QED  BY <2>6, <2>7
<1>2. IInv /\ TasksPlaced => TaskInOnePlace
  <2> SUFFICES ASSUME IInv, TasksPlaced PROVE TaskInOnePlace
    OBVIOUS
  <2> QED  BY <1>1 DEF TaskInOnePlace
<1> QED  BY <1>2, InitPlaces, NextPlaces, Invariant, PTL DEF Spec

-----------------------------------------------------------------------------
(* The refinement.  A thread that is back from its wait, or about to raise,  *)
(* holds the channel's mutex (CallsExact), so between the test of its loop   *)
(* and its end nobody else has moved the ring; and the ring's three numbers  *)
(* agree (RingExact), so that a value written at tail is the last of the     *)
(* queue.                                                                    *)

\* The calls that may wait.
Blocking == {SendCall(c, v) : c \in Chans, v \in Vals} \cup {RecvCall(c) : c \in Chans}

\* A thread that waits is in a call; once woken it has the mutex; who is about
\* to raise could not go on.
CallsExact ==
  \A t \in Threads :
    /\ pc[t] \in {"asleep", "retest", "raise"} => call[t] \in Blocking
    /\ pc[t] \in {"retest", "raise"} => owner[call[t].chan] = t
    /\ pc[t] = "raise" => ~Ready(t)

RingExact == \A c \in Chans : tail[c] = (head[c] + count[c]) % Cap[c]

RInv == CallsExact /\ RingExact

-----------------------------------------------------------------------------
(* The mutexes *)

LEMMA BlockingType ==
  ASSUME NEW k \in Blocking
  PROVE  k.chan \in Chans /\ k.op \in {"send", "recv"}
BY DEF Blocking, SendCall, RecvCall

\* A thread that enters has the mutex or finds it free, so that no other one is
\* between its wait and the end of its turn.
LEMMA EntersAlone ==
  ASSUME CallsExact, NEW t \in Threads, NEW k \in Blocking, Enters(t, k)
  PROVE  /\ pc[t] \in {"run", "retest"} /\ owner[k.chan] \in {Nobody, t}
         /\ \A u \in Threads \ {t} :
              pc[u] \in {"retest", "raise"} => call[u].chan # k.chan
<1>1. pc[t] \in {"run", "retest"} /\ owner[k.chan] \in {Nobody, t}
  BY DEF Enters, Starts, Retries, CallsExact
<1>2. ASSUME NEW u \in Threads \ {t}, pc[u] \in {"retest", "raise"}, call[u].chan = k.chan
      PROVE  FALSE
  BY <1>1, <1>2, ChannelAssumption DEF CallsExact
<1> QED  BY <1>1, <1>2

\* A turn of a call that returns.
LEMMA LeavesCalls ==
  ASSUME TypeOK, CallsExact, NEW t \in Threads, NEW k \in Blocking, NEW outcome,
         Enters(t, k), Leaves(t, k, outcome),
         \A c \in Chans \ {k.chan} : count'[c] = count[c] /\ closed'[c] = closed[c]
  PROVE  CallsExact'
<1>1. pc' = [pc EXCEPT ![t] = "run"] /\ call' = [call EXCEPT ![t] = <<>>]
      /\ owner' = [owner EXCEPT ![k.chan] = Nobody]
  BY DEF Leaves
<1>2. \A u \in Threads \ {t} : pc'[u] = pc[u] /\ call'[u] = call[u]
  BY <1>1 DEF TypeOK, ChanTypeOK
<1>3. pc'[t] = "run"  BY <1>1 DEF TypeOK
<1>4. \A u \in Threads \ {t} :
        pc[u] \in {"retest", "raise"} => call[u].chan \in Chans \ {k.chan}
  BY EntersAlone, BlockingType DEF CallsExact
<1>5. \A c \in Chans \ {k.chan} : owner'[c] = owner[c]
  BY <1>1, BlockingType DEF TypeOK, ChanTypeOK
<1>6. ASSUME NEW u \in Threads \ {t}, pc[u] = "raise"  PROVE ~Ready(u)'
  BY <1>2, <1>4, <1>6 DEF CallsExact, Ready
<1> QED  BY <1>2, <1>3, <1>4, <1>5, <1>6 DEF CallsExact

\* A turn of a call that blocks, or finds a deadlock, where it could not go on.
LEMMA SleepCalls ==
  ASSUME TypeOK, CallsExact, NEW t \in Threads, NEW k \in Blocking, NEW opposite,
         Enters(t, k), Sleep(t, k, opposite),
         ~closed[k.chan], IF k.op = "send" THEN count[k.chan] = Cap[k.chan] ELSE count[k.chan] = 0
  PROVE  CallsExact'
<1>1. /\ pc' = [pc EXCEPT ![t] = IF Deadlocked(t) THEN "raise" ELSE "asleep"]
      /\ call' = [call EXCEPT ![t] = k]
      /\ owner' = [owner EXCEPT ![k.chan] = IF Deadlocked(t) THEN t ELSE Nobody]
      /\ UNCHANGED <<count, closed>>
  BY DEF Sleep, ringVars
<1>2. \A u \in Threads \ {t} : pc'[u] = pc[u] /\ call'[u] = call[u]
  BY <1>1 DEF TypeOK, ChanTypeOK
<1>3. /\ pc'[t] = IF Deadlocked(t) THEN "raise" ELSE "asleep"
      /\ call'[t] = k
      /\ owner'[k.chan] = IF Deadlocked(t) THEN t ELSE Nobody
  BY <1>1, BlockingType DEF TypeOK, ChanTypeOK
<1>4. \A u \in Threads \ {t} :
        pc[u] \in {"retest", "raise"} => call[u].chan \in Chans \ {k.chan}
  BY EntersAlone, BlockingType DEF CallsExact
<1>5. \A c \in Chans \ {k.chan} : owner'[c] = owner[c]
  BY <1>1, BlockingType DEF TypeOK, ChanTypeOK
<1>6. ASSUME NEW u \in Threads \ {t}, pc[u] = "raise"  PROVE ~Ready(u)'
  BY <1>1, <1>2, <1>6 DEF CallsExact, Ready
<1>7. ~Ready(t)'
  BY <1>1, <1>3 DEF Ready
<1> QED  BY <1>2, <1>3, <1>4, <1>5, <1>6, <1>7 DEF CallsExact

LEMMA ResumeCalls ==
  ASSUME TypeOK, CallsExact, NEW t \in Threads, Resume(t)
  PROVE  CallsExact'
<1>1. /\ pc[t] = "asleep" /\ pc' = [pc EXCEPT ![t] = "retest"]
      /\ owner[call[t].chan] = Nobody
      /\ owner' = [owner EXCEPT ![call[t].chan] = t]
      /\ UNCHANGED <<call, count, closed>>
  BY DEF Resume, Goto, ringVars
<1>2. call[t] \in Blocking /\ call[t].chan \in Chans
  BY <1>1, BlockingType DEF CallsExact
<1>3. owner'[call[t].chan] = t /\ pc'[t] = "retest"
      /\ \A u \in Threads \ {t} : pc'[u] = pc[u]
      /\ \A c \in Chans \ {call[t].chan} : owner'[c] = owner[c]
  BY <1>1, <1>2 DEF TypeOK, ChanTypeOK
<1>4. \A u \in Threads \ {t} :
        pc[u] \in {"retest", "raise"} => call[u].chan \in Chans \ {call[t].chan}
  BY <1>1, BlockingType, ChannelAssumption DEF CallsExact
<1>5. \A u \in Threads : Ready(u)' = Ready(u)
  BY <1>1 DEF Ready
<1> QED  BY <1>1, <1>2, <1>3, <1>4, <1>5 DEF CallsExact

LEMMA RaiseCalls ==
  ASSUME TypeOK, CallsExact, NEW t \in Threads, RaiseDeadlock(t)
  PROVE  CallsExact'
<1>1. /\ pc[t] = "raise" /\ pc' = [pc EXCEPT ![t] = "run"]
      /\ owner' = [owner EXCEPT ![call[t].chan] = Nobody]
      /\ call' = [call EXCEPT ![t] = <<>>]
      /\ UNCHANGED <<count, closed>>
  BY DEF RaiseDeadlock, Goto, ringVars
<1>2. call[t].chan \in Chans /\ owner[call[t].chan] = t
  BY <1>1, BlockingType DEF CallsExact
<1>3. /\ pc'[t] = "run"
      /\ \A u \in Threads \ {t} : pc'[u] = pc[u] /\ call'[u] = call[u]
      /\ \A c \in Chans \ {call[t].chan} : owner'[c] = owner[c]
  BY <1>1, <1>2 DEF TypeOK, ChanTypeOK
<1>4. \A u \in Threads \ {t} :
        pc[u] \in {"retest", "raise"} => call[u].chan \in Chans \ {call[t].chan}
  BY <1>2, BlockingType DEF CallsExact
<1>5. \A u \in Threads \ {t} : Ready(u)' = Ready(u)
  BY <1>1, <1>3 DEF Ready
<1> QED  BY <1>3, <1>4, <1>5 DEF CallsExact

\* A step of a thread that is in no blocking call, and stays in none.
LEMMA CallsUntouched ==
  ASSUME TypeOK, CallsExact, NEW t \in Threads, NEW to, pc' = [pc EXCEPT ![t] = to],
         to \notin {"asleep", "retest", "raise"}, UNCHANGED <<ringVars, owner, call>>
  PROVE  CallsExact'
<1>1. pc'[t] = to /\ \A u \in Threads \ {t} : pc'[u] = pc[u]
  BY DEF TypeOK
<1>2. \A u \in Threads : Ready(u)' = Ready(u)
  BY DEF Ready, ringVars
<1> QED  BY <1>1, <1>2 DEF CallsExact

LEMMA CallStepCalls ==
  ASSUME TypeOK, CallsExact, NEW t \in Threads, CallStep(t)
  PROVE  CallsExact'
<1>0. PICK c \in Chans :
        \/ \E v \in Vals : SendBlocks(t, c, v) \/ SendRefused(t, c, v) \/ SendDone(t, c, v)
        \/ RecvBlocks(t, c) \/ RecvDrained(t, c) \/ RecvDone(t, c)
        \/ TryRecv(t, c)
        \/ Close(t, c)
  BY DEF CallStep
<1> DEFINE r == RecvCall(c)
<1>r. r \in Blocking /\ r.chan = c /\ r.op = "recv"  BY DEF Blocking, RecvCall
<1>s. ASSUME NEW v \in Vals
      PROVE  LET s == SendCall(c, v) IN s \in Blocking /\ s.chan = c /\ s.op = "send"
  BY DEF Blocking, SendCall
<1>1. ASSUME NEW v \in Vals, SendBlocks(t, c, v)  PROVE CallsExact'
  BY <1>1, <1>s, SleepCalls DEF SendBlocks
<1>2. ASSUME NEW v \in Vals, SendRefused(t, c, v)  PROVE CallsExact'
  BY <1>2, <1>s, LeavesCalls DEF SendRefused, ringVars
<1>3. ASSUME NEW v \in Vals, SendDone(t, c, v)  PROVE CallsExact'
  <2>1. \A d \in Chans \ {c} : count'[d] = count[d] /\ closed'[d] = closed[d]
    BY <1>3 DEF SendDone, TypeOK, ChanTypeOK
  <2> QED  BY <1>3, <1>s, <2>1, LeavesCalls DEF SendDone
<1>4. CASE RecvBlocks(t, c)
  BY <1>4, <1>r, SleepCalls DEF RecvBlocks
<1>5. CASE RecvDrained(t, c)
  BY <1>5, <1>r, LeavesCalls DEF RecvDrained, ringVars
<1>6. ASSUME Take(t, c), Enters(t, r)  PROVE CallsExact'
  <2>1. \A d \in Chans \ {c} : count'[d] = count[d] /\ closed'[d] = closed[d]
    BY <1>6 DEF Take, TypeOK, ChanTypeOK
  <2> QED  BY <1>6, <1>r, <2>1, LeavesCalls DEF Take
<1>7. CASE TryRecv(t, c)
  BY <1>6, <1>7, <1>r, LeavesCalls DEF TryRecv, Enters, ringVars
<1>8. CASE Close(t, c)
  <2>1. \A d \in Chans \ {c} : count'[d] = count[d] /\ closed'[d] = closed[d]
    BY <1>8 DEF Close, TypeOK, ChanTypeOK
  <2> QED  BY <1>8, <1>r, <2>1, LeavesCalls DEF Close, Enters
<1> QED  BY <1>0, <1>1, <1>2, <1>3, <1>4, <1>5, <1>6, <1>7, <1>8 DEF RecvDone

\* The steps of the pool leave every call where it is.
LEMMA PoolStepCalls ==
  ASSUME TypeOK, CallsExact, NEW t \in Threads,
         \/ SubmitCall(t) \/ SubmitStep(t) \/ AwaitCall(t) \/ AwaitDone(t)
         \/ t \in Workers /\ (TaskTaken(t) \/ TaskStarts(t) \/ TaskReturns(t) \/ TaskLeft(t))
  PROVE  CallsExact'
<1> USE CallsUntouched DEF chanVars, ringVars, Goto
<1>1. ASSUME NEW k \in Tasks, Submit(t, k), UNCHANGED chanVars  PROVE CallsExact'
  <2> DEFINE to == IF isWorker[t] THEN "queue" ELSE "register"
  <2>1. pc' = [pc EXCEPT ![t] = to] /\ to \notin {"asleep", "retest", "raise"}
    BY <1>1 DEF Submit
  <2> QED  BY <1>1, <2>1
<1>2. CASE SubmitStep(t)
  BY <1>2 DEF SubmitStep, Register, TaskQueued, Enqueue
<1>3. CASE AwaitCall(t)
  BY <1>3 DEF AwaitCall, Await
<1>4. CASE AwaitDone(t)
  BY <1>4 DEF AwaitDone, AwaitReturn
<1>5. CASE TaskTaken(t) \/ TaskStarts(t) \/ TaskReturns(t) \/ TaskLeft(t)
  BY <1>5 DEF TaskTaken, Dequeue, TaskStarts, WorkerBegin, TaskReturns, Fulfil, TaskLeft, WorkerEnd
<1> QED  BY <1>1, <1>2, <1>3, <1>4, <1>5 DEF SubmitCall

LEMMA NextCalls ==
  ASSUME TypeOK, CallsExact, Next
  PROVE  CallsExact'
<1>1. PICK t \in Threads :
        \/ CallStep(t) \/ Resume(t) \/ RaiseDeadlock(t)
        \/ SubmitCall(t) \/ SubmitStep(t) \/ AwaitCall(t) \/ AwaitDone(t)
        \/ t \in Workers /\ (TaskTaken(t) \/ TaskStarts(t) \/ TaskReturns(t) \/ TaskLeft(t))
  BY DEF Next, Wake, Timeout, Threads
<1> QED  BY <1>1, CallStepCalls, ResumeCalls, RaiseCalls, PoolStepCalls

-----------------------------------------------------------------------------
(* The rings *)

\* Indices go round once at most.
LEMMA Wraps ==
  ASSUME NEW n \in Nat, n > 0, NEW i \in Nat, i < n + n
  PROVE  i % n = IF i < n THEN i ELSE i - n
OBVIOUS

\* The ring of channel c takes v, gives a value, or stays.
RingSends(c, v) ==
  /\ count[c] < Cap[c]
  /\ buf'[c] = [buf[c] EXCEPT ![tail[c]] = v]
  /\ tail'[c] = (tail[c] + 1) % Cap[c] /\ count'[c] = count[c] + 1 /\ head'[c] = head[c]
RingTakes(c) ==
  /\ count[c] > 0
  /\ head'[c] = (head[c] + 1) % Cap[c] /\ count'[c] = count[c] - 1
  /\ buf'[c] = buf[c] /\ tail'[c] = tail[c]
RingStays(c) ==
  buf'[c] = buf[c] /\ head'[c] = head[c] /\ tail'[c] = tail[c] /\ count'[c] = count[c]

LEMMA SendMoves ==
  ASSUME TypeOK, NEW t \in Threads, NEW c \in Chans, NEW v \in Vals, SendDone(t, c, v)
  PROVE  RingSends(c, v) /\ \A d \in Chans \ {c} : RingStays(d)
<1> USE DEF TypeOK, ChanTypeOK, SendDone
<1>1. count[c] < Cap[c]  BY CapType
<1> QED  BY <1>1 DEF RingSends, RingStays

LEMMA TakeMoves ==
  ASSUME TypeOK, NEW t \in Threads, NEW c \in Chans, Take(t, c)
  PROVE  RingTakes(c) /\ \A d \in Chans \ {c} : RingStays(d)
BY DEF TypeOK, ChanTypeOK, Take, RingTakes, RingStays

\* The three numbers of a ring agree after its move.
LEMMA RingMoves ==
  ASSUME TypeOK, NEW c \in Chans, tail[c] = (head[c] + count[c]) % Cap[c],
         RingStays(c) \/ RingTakes(c) \/ \E v \in Vals : RingSends(c, v)
  PROVE  tail'[c] = (head'[c] + count'[c]) % Cap[c]
<1> DEFINE n == Cap[c]
           h == head[c]
           k == count[c]
<1>0. n \in Nat /\ n > 0 /\ h \in Nat /\ h < n /\ k \in Nat /\ k <= n
  BY CapType DEF TypeOK, ChanTypeOK
<1> HIDE DEF n, h, k
<1>1. CASE RingStays(c)
  BY <1>1 DEF RingStays
<1>2. CASE RingTakes(c)
  <2>1. k > 0 /\ head'[c] = (h + 1) % n /\ count'[c] = k - 1 /\ tail'[c] = (h + k) % n
    BY <1>2 DEF RingTakes, n, h, k
  <2>2. (h + 1) % n = IF h + 1 < n THEN h + 1 ELSE 0
    BY <1>0, Wraps
  <2>3. (((h + 1) % n) + (k - 1)) % n = (h + k) % n
    BY <1>0, <2>1, <2>2, Wraps
  <2> QED  BY <2>1, <2>3 DEF n
<1>3. CASE \E v \in Vals : RingSends(c, v)
  <2>1. k < n /\ head'[c] = h /\ count'[c] = k + 1 /\ tail'[c] = (((h + k) % n) + 1) % n
    BY <1>3 DEF RingSends, n, h, k
  <2>2. (((h + k) % n) + 1) % n = (h + (k + 1)) % n
    BY <1>0, <2>1, Wraps
  <2> QED  BY <2>1, <2>2 DEF n
<1> QED  BY <1>1, <1>2, <1>3

\* A function on 1 .. k is a sequence: its head, its tail, what is appended.
LEMMA FunctionTail ==
  ASSUME NEW S, NEW k \in Nat, k > 0, NEW q \in [1 .. k -> S]
  PROVE  q # <<>> /\ Head(q) = q[1] /\ Tail(q) = [i \in 1 .. k - 1 |-> q[i + 1]]
<1> DEFINE a == Tail(q)
<1>1. q \in Seq(S) /\ Len(q) = k /\ q # <<>>  OBVIOUS
<1>2. /\ a \in Seq(S) /\ Len(a) = k - 1 /\ Head(q) = q[1]
      /\ \A i \in 1 .. k - 1 : a[i] = q[i + 1]
  BY <1>1, HeadTailProperties
<1> HIDE DEF a
<1>3. a = [i \in 1 .. k - 1 |-> a[i]]  BY <1>2
<1> QED  BY <1>1, <1>2, <1>3 DEF a

LEMMA FunctionAppend ==
  ASSUME NEW S, NEW k \in Nat, NEW q \in [1 .. k -> S], NEW e \in S
  PROVE  Append(q, e) = [i \in 1 .. k + 1 |-> IF i <= k THEN q[i] ELSE e]
<1> DEFINE a == Append(q, e)
<1>1. q \in Seq(S) /\ Len(q) = k  OBVIOUS
<1>2. /\ a \in Seq(S) /\ Len(a) = k + 1 /\ a[k + 1] = e
      /\ \A i \in 1 .. k : a[i] = q[i]
  BY <1>1, AppendProperties
<1> HIDE DEF a
<1>3. a = [i \in 1 .. k + 1 |-> a[i]]  BY <1>2
<1>4. ASSUME NEW i \in 1 .. k + 1  PROVE a[i] = IF i <= k THEN q[i] ELSE e
  BY <1>2
<1> QED  BY <1>3, <1>4 DEF a

\* What is in a ring is what its queue has.
LEMMA QueueType ==
  ASSUME TypeOK, NEW c \in Chans
  PROVE  Queue(c) \in [1 .. count[c] -> Vals \cup {0}]
<1>1. ASSUME NEW i \in 1 .. count[c]
      PROVE  (head[c] + i - 1) % Cap[c] \in 0 .. Cap[c] - 1
  <2>1. head[c] + i - 1 \in Nat  BY DEF TypeOK, ChanTypeOK
  <2> QED  BY <2>1, CapType, ModRange
<1>2. buf[c] \in [0 .. Cap[c] - 1 -> Vals \cup {0}]
  BY DEF TypeOK, ChanTypeOK
<1> QED  BY <1>1, <1>2 DEF Queue

\* A send puts its value at the end of the queue.
LEMMA SendAppends ==
  ASSUME TypeOK, RingExact, NEW c \in Chans, NEW v \in Vals, RingSends(c, v)
  PROVE  Queue(c)' = Append(Queue(c), v)
<1> DEFINE n == Cap[c]
           h == head[c]
           k == count[c]
<1>0. /\ n \in Nat /\ n > 0 /\ h \in Nat /\ h < n /\ k \in Nat /\ k < n
      /\ buf[c] \in [0 .. n - 1 -> Vals \cup {0}]
      /\ buf'[c] = [buf[c] EXCEPT ![(h + k) % n] = v]
      /\ head'[c] = h /\ count'[c] = k + 1
  BY CapType DEF TypeOK, ChanTypeOK, RingExact, RingSends
<1>1. Queue(c) = [i \in 1 .. k |-> buf[c][(h + i - 1) % n]]
      /\ Queue(c)' = [i \in 1 .. k + 1 |-> buf'[c][(h + i - 1) % n]]
  BY <1>0 DEF Queue, Cap
<1>2. Append(Queue(c), v) = [i \in 1 .. k + 1 |-> IF i <= k THEN Queue(c)[i] ELSE v]
  <2> DEFINE q == Queue(c)
             S == Vals \cup {0}
  <2>1. k \in Nat /\ v \in S /\ q \in [1 .. k -> S]  BY <1>0, QueueType
  <2> HIDE DEF k, q, S
  <2>2. Append(q, v) = [i \in 1 .. k + 1 |-> IF i <= k THEN q[i] ELSE v]
    BY <2>1, FunctionAppend
  <2> QED  BY <2>2 DEF q
<1> HIDE DEF n, h, k
<1>n. n \in Nat /\ n > 0 /\ h \in Nat /\ h < n /\ k \in Nat /\ k < n
  BY <1>0
<1>m. (h + k) % n = IF h + k < n THEN h + k ELSE h + k - n
  <2>1. h + k \in Nat /\ h + k < n + n  BY <1>n
  <2> QED  BY <1>n, <2>1, Wraps
<1>3. ASSUME NEW i \in 1 .. k
      PROVE  /\ (h + i - 1) % n \in 0 .. n - 1
             /\ (h + i - 1) % n # (h + k) % n
  <2>1. h + i - 1 \in Nat /\ h + i - 1 < n + n
    BY <1>n
  <2>2. (h + i - 1) % n = IF h + i - 1 < n THEN h + i - 1 ELSE h + i - 1 - n
    BY <1>n, <2>1, Wraps
  <2> QED  BY <1>n, <1>m, <2>1, <2>2
<1>4. (h + k) % n \in 0 .. n - 1
  <2>1. h + k \in Nat  BY <1>n
  <2> QED  BY <1>n, <2>1, ModRange
<1>5. ASSUME NEW i \in 1 .. k  PROVE buf'[c][(h + i - 1) % n] = Queue(c)[i]
  BY <1>0, <1>1, <1>3
<1>6. buf'[c][(h + (k + 1) - 1) % n] = v
  <2>1. h + (k + 1) - 1 = h + k  BY <1>0
  <2> QED  BY <1>0, <1>4, <2>1
<1>7. ASSUME NEW i \in 1 .. k + 1
      PROVE  buf'[c][(h + i - 1) % n] = IF i <= k THEN Queue(c)[i] ELSE v
  <2>1. CASE i <= k
    <3>1. i \in 1 .. k  BY <1>0, <2>1
    <3> QED  BY <1>5, <2>1, <3>1
  <2>2. CASE ~(i <= k)
    <3>1. i = k + 1  BY <1>0, <2>2
    <3> QED  BY <1>6, <2>2, <3>1
  <2> QED  BY <2>1, <2>2
<1> QED  BY <1>1, <1>2, <1>7

\* A receive takes the head of the queue.
LEMMA TakeHeads ==
  ASSUME TypeOK, NEW c \in Chans, RingTakes(c)
  PROVE  /\ Queue(c) # <<>> /\ Head(Queue(c)) = buf[c][head[c]]
         /\ Queue(c)' = Tail(Queue(c))
<1> DEFINE n == Cap[c]
           h == head[c]
           k == count[c]
<1>0. /\ n \in Nat /\ n > 0 /\ h \in Nat /\ h < n /\ k \in Nat /\ k > 0 /\ k <= n
      /\ buf'[c] = buf[c] /\ head'[c] = (h + 1) % n /\ count'[c] = k - 1
  BY CapType DEF TypeOK, ChanTypeOK, RingTakes
<1>1. Queue(c) = [i \in 1 .. k |-> buf[c][(h + i - 1) % n]]
      /\ Queue(c)' = [i \in 1 .. k - 1 |-> buf[c][(((h + 1) % n) + i - 1) % n]]
  BY <1>0 DEF Queue, Cap
<1>2. /\ Queue(c) # <<>> /\ Head(Queue(c)) = Queue(c)[1]
      /\ Tail(Queue(c)) = [i \in 1 .. k - 1 |-> Queue(c)[i + 1]]
  <2> DEFINE q == Queue(c)
             S == Vals \cup {0}
  <2>1. k \in Nat /\ k > 0 /\ q \in [1 .. k -> S]  BY <1>0, QueueType
  <2> HIDE DEF k, q, S
  <2>2. q # <<>> /\ Head(q) = q[1] /\ Tail(q) = [i \in 1 .. k - 1 |-> q[i + 1]]
    BY <2>1, FunctionTail
  <2> QED  BY <2>2 DEF q
<1> HIDE DEF n, h, k
<1>3. ASSUME NEW i \in 1 .. k - 1
      PROVE  (((h + 1) % n) + i - 1) % n = (h + (i + 1) - 1) % n
  <2>1. (h + 1) % n = IF h + 1 < n THEN h + 1 ELSE 0
    BY <1>0, Wraps
  <2>2. h + (i + 1) - 1 \in Nat /\ h + (i + 1) - 1 < n + n
    BY <1>0
  <2>3. CASE h + 1 < n
    <3>1. ((h + 1) % n) + i - 1 = h + (i + 1) - 1  BY <1>0, <2>1, <2>3
    <3> QED  BY <3>1
  <2>4. CASE ~(h + 1 < n)
    <3>1. ((h + 1) % n) + i - 1 = i - 1 /\ h + (i + 1) - 1 = n + (i - 1) /\ i - 1 < n
      BY <1>0, <2>1, <2>4
    <3>2. (i - 1) % n = i - 1 /\ (n + (i - 1)) % n = i - 1
      BY <1>0, <3>1, Wraps
    <3> QED  BY <3>1, <3>2
  <2> QED  BY <2>3, <2>4
<1>4. ASSUME NEW i \in 1 .. k - 1
      PROVE  buf[c][(((h + 1) % n) + i - 1) % n] = Queue(c)[i + 1]
  <2>1. i + 1 \in 1 .. k  BY <1>0
  <2> QED  BY <1>1, <1>3, <2>1
<1>5. Queue(c)[1] = buf[c][h]
  <2>1. (h + 1 - 1) % n = h /\ 1 \in 1 .. k  BY <1>0, Wraps
  <2> QED  BY <1>1, <2>1
<1> QED  BY <1>1, <1>2, <1>4, <1>5 DEF h

-----------------------------------------------------------------------------
(* The waiter counts *)

\* A step of a thread that does not sleep, before or after it.
LEMMA AwakeWaiters ==
  ASSUME TypeOK, WaitersExact, NEW t \in Threads, NEW to,
         pc[t] # "asleep", pc' = [pc EXCEPT ![t] = to], to # "asleep",
         \A u \in Threads \ {t} : call'[u] = call[u], UNCHANGED <<sendWaiters, recvWaiters>>
  PROVE  WaitersExact'
<1>1. ASSUME NEW op, NEW c  PROVE Sleepers(op, c)' = Sleepers(op, c)
  BY DEF Sleepers, TypeOK
<1> QED  BY <1>1 DEF WaitersExact

\* The counts move as the sets they count do.
LEMMA WaitersMove ==
  ASSUME TypeOK, WaitersExact, NEW op \in {"send", "recv"}, NEW c \in Chans, NEW d \in {1, 0 - 1},
         \A o \in {"send", "recv"}, e \in Chans :
           Cardinality(Sleepers(o, e)') = Cardinality(Sleepers(o, e))
                                            + (IF o = op /\ e = c THEN d ELSE 0),
         IF op = "send"
         THEN sendWaiters' = [sendWaiters EXCEPT ![c] = @ + d] /\ recvWaiters' = recvWaiters
         ELSE recvWaiters' = [recvWaiters EXCEPT ![c] = @ + d] /\ sendWaiters' = sendWaiters
  PROVE  WaitersExact'
<1>1. SUFFICES ASSUME NEW e \in Chans
               PROVE  /\ sendWaiters'[e] - Cardinality(Sleepers("send", e)') \in Garbage
                      /\ recvWaiters'[e] - Cardinality(Sleepers("recv", e)') \in Garbage
  BY DEF WaitersExact
<1>2. /\ Sleepers("send", e) \in SUBSET Threads /\ Sleepers("recv", e) \in SUBSET Threads
      /\ sendWaiters[e] \in Int /\ recvWaiters[e] \in Int
  BY DEF Sleepers, TypeOK, ChanTypeOK
<1>3. Cardinality(Sleepers("send", e)) \in Nat /\ Cardinality(Sleepers("recv", e)) \in Nat
  BY <1>2, Counted
<1>4. /\ sendWaiters'[e] = sendWaiters[e] + (IF op = "send" /\ e = c THEN d ELSE 0)
      /\ recvWaiters'[e] = recvWaiters[e] + (IF op = "recv" /\ e = c THEN d ELSE 0)
  BY <1>2 DEF TypeOK, ChanTypeOK
<1>5. /\ sendWaiters'[e] - Cardinality(Sleepers("send", e)')
           = sendWaiters[e] - Cardinality(Sleepers("send", e))
      /\ recvWaiters'[e] - Cardinality(Sleepers("recv", e)')
           = recvWaiters[e] - Cardinality(Sleepers("recv", e))
  BY <1>2, <1>3, <1>4
<1> QED  BY <1>5 DEF WaitersExact

LEMMA SleepWaiters ==
  ASSUME TypeOK, WaitersExact, NEW t \in Threads, NEW k \in Blocking, NEW opposite,
         Enters(t, k), Sleep(t, k, opposite)
  PROVE  WaitersExact'
<1>0. pc[t] # "asleep" /\ k.chan \in Chans /\ k.op \in {"send", "recv"}
  BY BlockingType DEF Enters, Starts, Retries
<1>1. call' = [call EXCEPT ![t] = k]  BY DEF Sleep
<1>2. CASE Deadlocked(t)
  <2>1. pc' = [pc EXCEPT ![t] = "raise"] /\ UNCHANGED <<sendWaiters, recvWaiters>>
    BY <1>0, <1>2 DEF Sleep, TypeOK, ChanTypeOK
  <2> QED  BY <1>0, <1>1, <2>1, AwakeWaiters DEF TypeOK, ChanTypeOK
<1>3. CASE ~Deadlocked(t)
  <2>1. pc' = [pc EXCEPT ![t] = "asleep"]  BY <1>3 DEF Sleep
  <2>2. ASSUME NEW op, NEW c
        PROVE  /\ t \notin Sleepers(op, c) /\ Sleepers(op, c) \in SUBSET Threads
               /\ Sleepers(op, c)' = IF op = k.op /\ c = k.chan THEN Sleepers(op, c) \cup {t}
                                                            ELSE Sleepers(op, c)
    BY <1>0, <1>1, <2>1 DEF Sleepers, TypeOK, ChanTypeOK
  <2>3. ASSUME NEW op, NEW c
        PROVE  Cardinality(Sleepers(op, c)') = Cardinality(Sleepers(op, c))
                                               + (IF op = k.op /\ c = k.chan THEN 1 ELSE 0)
    <3>1. Cardinality(Sleepers(op, c)) \in Nat  BY <2>2, Counted
    <3> QED  BY <2>2, <3>1, CountAdd
  <2>4. IF k.op = "send"
        THEN sendWaiters' = [sendWaiters EXCEPT ![k.chan] = @ + 1] /\ recvWaiters' = recvWaiters
        ELSE recvWaiters' = [recvWaiters EXCEPT ![k.chan] = @ + 1] /\ sendWaiters' = sendWaiters
    BY <1>3 DEF Sleep
  <2> QED  BY <1>0, <2>3, <2>4, WaitersMove
<1> QED  BY <1>2, <1>3

LEMMA ResumeWaiters ==
  ASSUME TypeOK, CallsExact, WaitersExact, NEW t \in Threads, Resume(t)
  PROVE  WaitersExact'
<1> DEFINE k == call[t]
<1>0. pc[t] = "asleep" /\ pc' = [pc EXCEPT ![t] = "retest"] /\ call' = call
      /\ k.chan \in Chans /\ k.op \in {"send", "recv"}
  BY BlockingType DEF Resume, Goto, CallsExact
<1>1. ASSUME NEW op, NEW c
      PROVE  /\ Sleepers(op, c) \in SUBSET Threads
             /\ t \in Sleepers(op, c) <=> op = k.op /\ c = k.chan
             /\ Sleepers(op, c)' = IF op = k.op /\ c = k.chan THEN Sleepers(op, c) \ {t}
                                                          ELSE Sleepers(op, c)
  BY <1>0 DEF Sleepers, TypeOK
<1>2. ASSUME NEW op, NEW c
      PROVE  Cardinality(Sleepers(op, c)') = Cardinality(Sleepers(op, c))
                                             + (IF op = k.op /\ c = k.chan THEN 0 - 1 ELSE 0)
  <2>1. Cardinality(Sleepers(op, c)) \in Nat  BY <1>1, Counted
  <2> QED  BY <1>1, <2>1, CountRemove
<1>3. IF k.op = "send"
      THEN sendWaiters' = [sendWaiters EXCEPT ![k.chan] = @ - 1] /\ recvWaiters' = recvWaiters
      ELSE recvWaiters' = [recvWaiters EXCEPT ![k.chan] = @ - 1] /\ sendWaiters' = sendWaiters
  BY DEF Resume
<1>4. \A n \in Int : n - 1 = n + (0 - 1)
  OBVIOUS
<1>5. IF k.op = "send"
      THEN sendWaiters' = [sendWaiters EXCEPT ![k.chan] = @ + (0 - 1)] /\ recvWaiters' = recvWaiters
      ELSE recvWaiters' = [recvWaiters EXCEPT ![k.chan] = @ + (0 - 1)] /\ sendWaiters' = sendWaiters
  BY <1>0, <1>3, <1>4 DEF TypeOK, ChanTypeOK
<1> QED  BY <1>0, <1>2, <1>5, WaitersMove

LEMMA LeavesWaiters ==
  ASSUME TypeOK, WaitersExact, NEW t \in Threads, NEW k, NEW outcome,
         Enters(t, k), Leaves(t, k, outcome)
  PROVE  WaitersExact'
<1>1. pc[t] # "asleep" /\ pc' = [pc EXCEPT ![t] = "run"]
      /\ call' = [call EXCEPT ![t] = <<>>] /\ UNCHANGED <<sendWaiters, recvWaiters>>
  BY DEF Enters, Starts, Retries, Leaves
<1> QED  BY <1>1, AwakeWaiters DEF TypeOK, ChanTypeOK

LEMMA CallStepWaiters ==
  ASSUME TypeOK, WaitersExact, NEW t \in Threads, CallStep(t)
  PROVE  WaitersExact'
<1>1. PICK c \in Chans :
        \/ \E v \in Vals : SendBlocks(t, c, v) \/ SendRefused(t, c, v) \/ SendDone(t, c, v)
        \/ RecvBlocks(t, c) \/ RecvDrained(t, c) \/ RecvDone(t, c)
        \/ TryRecv(t, c)
        \/ Close(t, c)
  BY DEF CallStep
<1>2. RecvCall(c) \in Blocking /\ \A v \in Vals : SendCall(c, v) \in Blocking
  BY DEF Blocking
<1>3. CASE (\E v \in Vals : SendBlocks(t, c, v)) \/ RecvBlocks(t, c)
  BY <1>2, <1>3, SleepWaiters DEF SendBlocks, RecvBlocks
<1>4. CASE (\E v \in Vals : SendRefused(t, c, v) \/ SendDone(t, c, v))
           \/ RecvDrained(t, c) \/ RecvDone(t, c)
  BY <1>4, LeavesWaiters DEF SendRefused, SendDone, RecvDrained, RecvDone, Take
<1>5. CASE TryRecv(t, c) \/ Close(t, c)
  BY <1>5, LeavesWaiters DEF TryRecv, Take, Close, Enters
<1> QED  BY <1>1, <1>3, <1>4, <1>5

LEMMA PoolStepWaiters ==
  ASSUME TypeOK, WaitersExact, NEW t \in Threads,
         \/ SubmitCall(t) \/ SubmitStep(t) \/ AwaitCall(t) \/ AwaitDone(t)
         \/ t \in Workers /\ (TaskTaken(t) \/ TaskStarts(t) \/ TaskReturns(t) \/ TaskLeft(t))
  PROVE  WaitersExact'
<1> USE AwakeWaiters DEF chanVars, Goto
<1>1. ASSUME NEW k \in Tasks, Submit(t, k), UNCHANGED chanVars  PROVE WaitersExact'
  <2> DEFINE to == IF isWorker[t] THEN "queue" ELSE "register"
  <2>1. pc[t] # "asleep" /\ pc' = [pc EXCEPT ![t] = to] /\ to # "asleep"
    BY <1>1 DEF Submit
  <2> QED  BY <1>1, <2>1
<1>2. CASE SubmitStep(t)
  BY <1>2 DEF SubmitStep, Register, TaskQueued, Enqueue
<1>3. CASE AwaitCall(t)
  BY <1>3 DEF AwaitCall, Await
<1>4. CASE AwaitDone(t)
  BY <1>4 DEF AwaitDone, AwaitReturn
<1>5. CASE TaskTaken(t) \/ TaskStarts(t) \/ TaskReturns(t) \/ TaskLeft(t)
  BY <1>5 DEF TaskTaken, Dequeue, TaskStarts, WorkerBegin, TaskReturns, Fulfil, TaskLeft, WorkerEnd
<1> QED  BY <1>1, <1>2, <1>3, <1>4, <1>5 DEF SubmitCall

LEMMA NextWaiters ==
  ASSUME TypeOK, CallsExact, WaitersExact, Next
  PROVE  WaitersExact'
<1>1. PICK t \in Threads :
        \/ CallStep(t) \/ Resume(t) \/ RaiseDeadlock(t)
        \/ SubmitCall(t) \/ SubmitStep(t) \/ AwaitCall(t) \/ AwaitDone(t)
        \/ t \in Workers /\ (TaskTaken(t) \/ TaskStarts(t) \/ TaskReturns(t) \/ TaskLeft(t))
  BY DEF Next, Wake, Timeout, Threads
<1>2. CASE RaiseDeadlock(t)
  <2>1. pc[t] # "asleep" /\ pc' = [pc EXCEPT ![t] = "run"]
        /\ call' = [call EXCEPT ![t] = <<>>] /\ UNCHANGED <<sendWaiters, recvWaiters>>
    BY <1>2 DEF RaiseDeadlock, Goto
  <2> QED  BY <2>1, AwakeWaiters DEF TypeOK, ChanTypeOK
<1> QED  BY <1>1, <1>2, CallStepWaiters, ResumeWaiters, PoolStepWaiters

-----------------------------------------------------------------------------
(* The invariants *)

LEMMA InitRInv == Init => RInv /\ WaitersExact
<1> SUFFICES ASSUME Init PROVE RInv /\ WaitersExact
  OBVIOUS
<1>1. CallsExact
  BY DEF Init, PoolInit, CallsExact
<1>2. RingExact
  BY CapType, Wraps DEF Init, RingExact
<1>3. WaitersExact
  <2>1. ASSUME NEW op, NEW c  PROVE Cardinality(Sleepers(op, c)) = 0
    <3>1. Sleepers(op, c) = {}  BY DEF Init, PoolInit, Sleepers
    <3> QED  BY <3>1, FS_EmptySet
  <2>2. ASSUME NEW c \in Chans
        PROVE  sendWaiters[c] - 0 \in Garbage /\ recvWaiters[c] - 0 \in Garbage
    <3>1. sendWaiters[c] \in Garbage /\ recvWaiters[c] \in Garbage  BY DEF Init
    <3>2. \A n \in Garbage : n - 0 = n  BY ChannelAssumption
    <3> QED  BY <3>1, <3>2
  <2> QED  BY <2>1, <2>2 DEF WaitersExact
<1> QED  BY <1>1, <1>2, <1>3 DEF RInv

\* Every step moves each ring in one of three ways.
LEMMA NextRings ==
  ASSUME TypeOK, RingExact, Next
  PROVE  RingExact'
<1>1. ASSUME \A c \in Chans : RingStays(c) \/ RingTakes(c) \/ \E v \in Vals : RingSends(c, v)
      PROVE  RingExact'
  BY <1>1, RingMoves DEF RingExact
<1>2. ASSUME NEW t \in Threads, NEW c \in Chans, NEW v \in Vals, SendDone(t, c, v)
      PROVE  RingExact'
  BY <1>1, <1>2, SendMoves
<1>3. ASSUME NEW t \in Threads, NEW c \in Chans, Take(t, c)  PROVE RingExact'
  BY <1>1, <1>3, TakeMoves
<1>4. CASE UNCHANGED <<buf, head, tail, count>>
  BY <1>1, <1>4 DEF RingStays
<1>5. ASSUME NEW t \in Threads, CallStep(t)  PROVE RingExact'
  BY <1>2, <1>3, <1>4, <1>5
  DEF CallStep, SendBlocks, SendRefused, RecvBlocks, RecvDrained, RecvDone, TryRecv, Close,
      Sleep, ringVars
<1>6. ASSUME NEW t \in Threads, Wake(t) \/ Timeout(t) \/ RaiseDeadlock(t) \/ AwaitCall(t)
      PROVE  RingExact'
  BY <1>4, <1>6 DEF Wake, Timeout, Resume, RaiseDeadlock, AwaitCall, ringVars
<1>7. CASE UNCHANGED chanVars
  BY <1>4, <1>7 DEF chanVars, ringVars
<1> QED
  BY <1>5, <1>6, <1>7
  DEF Next, SubmitCall, SubmitStep, AwaitDone, TaskTaken, TaskStarts, TaskReturns, TaskLeft

LEMMA NextRInv == IInv /\ RInv /\ WaitersExact /\ [Next]_vars => (RInv /\ WaitersExact)'
<1> SUFFICES ASSUME IInv, RInv, WaitersExact, [Next]_vars PROVE (RInv /\ WaitersExact)'
  OBVIOUS
<1>1. CASE Next
  BY <1>1, NextCalls, NextRings, NextWaiters DEF IInv, RInv
<1>2. CASE UNCHANGED vars
  <2>1. UNCHANGED <<pc, count, head, tail, closed, owner, call, sendWaiters, recvWaiters>>
    BY <1>2 DEF vars, poolVars, chanVars, ringVars
  <2>2. \A t \in Threads : Ready(t)' = Ready(t)  BY <2>1 DEF Ready
  <2>3. CallsExact'    BY <2>1, <2>2 DEF RInv, CallsExact
  <2>4. RingExact'     BY <2>1 DEF RInv, RingExact
  <2>5. \A op, c : Sleepers(op, c)' = Sleepers(op, c)  BY <2>1 DEF Sleepers
  <2>6. WaitersExact'  BY <2>1, <2>5 DEF WaitersExact
  <2> QED  BY <2>3, <2>4, <2>6 DEF RInv
<1> QED  BY <1>1, <1>2

LEMMA RInvariant == Spec => [](RInv /\ WaitersExact)
BY InitRInv, NextRInv, Invariant, PTL DEF Spec

\* A channel's waiter counts are its sleepers, off by what the memory held, for
\* any number of threads that block, time out, are woken and raise.
THEOREM WaitersCorrect == Spec => []WaitersExact
BY RInvariant, PTL

-----------------------------------------------------------------------------
(* The refinement *)

\* What the channels are to their callers.
Queues == [c \in Chans |-> Queue(c)]

\* A step that moves no ring, and closes nothing, moves no queue.
LEMMA QueuesStay ==
  ASSUME \A c \in Chans : RingStays(c)
  PROVE  Queues' = Queues
<1>1. \A c \in Chans : Queue(c)' = Queue(c)  BY DEF RingStays, Queue
<1> QED  BY <1>1 DEF Queues

LEMMA QueueEmpty ==
  ASSUME TypeOK, NEW c \in Chans
  PROVE  (Queue(c) = <<>> <=> count[c] = 0) /\ Len(Queue(c)) = count[c]
<1> DEFINE q == Queue(c)
           k == count[c]
           S == Vals \cup {0}
<1>1. k \in Nat /\ q \in [1 .. k -> S]  BY QueueType DEF TypeOK, ChanTypeOK
<1> HIDE DEF q, k, S
<1>2. (q = <<>> <=> k = 0) /\ Len(q) = k  BY <1>1
<1> QED  BY <1>2 DEF q, k

LEMMA InitRefines == Init => Abstract!Init
<1> SUFFICES ASSUME Init PROVE Abstract!Init
  OBVIOUS
<1>1. TypeOK  BY InitIInv DEF IInv
<1>2. \A c \in Chans : Queue(c) = <<>>
  BY <1>1, QueueEmpty DEF Init
<1> QED  BY <1>2 DEF Init, Abstract!Init

LEMMA SendRefines ==
  ASSUME TypeOK, RInv, NEW t \in Threads, NEW c \in Chans, NEW v \in Vals, SendDone(t, c, v)
  PROVE  Abstract!Send(t, c, v)
<1>1. RingSends(c, v) /\ \A d \in Chans \ {c} : RingStays(d)
  BY SendMoves
<1>2. Queue(c)' = Append(Queue(c), v) /\ \A d \in Chans \ {c} : Queue(d)' = Queue(d)
  <2>1. \A d \in Chans \ {c} : Queue(d)' = Queue(d)  BY <1>1 DEF RingStays, Queue
  <2> QED  BY <1>1, <2>1, SendAppends DEF RInv
<1>3. [d \in Chans |-> Queue(d)]' = [[d \in Chans |-> Queue(d)] EXCEPT ![c] = Append(@, v)]
  BY <1>2
<1>4. ~closed[c] /\ event' = <<"sent", t, c, v>> /\ closed' = closed
  BY DEF SendDone, Leaves
<1>5. Len(Queue(c)) < Cap[c]
  BY <1>1, QueueEmpty DEF RingSends
<1> QED  BY <1>3, <1>4, <1>5 DEF Abstract!Send

LEMMA TakeRefines ==
  ASSUME TypeOK, NEW t \in Threads, NEW c \in Chans, Take(t, c)
  PROVE  Abstract!Deliver(t, c)
<1>1. RingTakes(c) /\ \A d \in Chans \ {c} : RingStays(d)
  BY TakeMoves
<1>2. /\ Queue(c) # <<>> /\ Head(Queue(c)) = buf[c][head[c]]
      /\ Queue(c)' = Tail(Queue(c)) /\ \A d \in Chans \ {c} : Queue(d)' = Queue(d)
  <2>1. \A d \in Chans \ {c} : Queue(d)' = Queue(d)  BY <1>1 DEF RingStays, Queue
  <2> QED  BY <1>1, <2>1, TakeHeads
<1>3. [d \in Chans |-> Queue(d)]' = [[d \in Chans |-> Queue(d)] EXCEPT ![c] = Tail(@)]
  BY <1>2
<1>4. event' = <<"some", t, c, buf[c][head[c]]>> /\ closed' = closed
  BY DEF Take, Leaves
<1> QED  BY <1>2, <1>3, <1>4 DEF Abstract!Deliver

\* One turn of a call is the abstract call, or nothing.
LEMMA CallStepRefines ==
  ASSUME TypeOK, RInv, NEW t \in Threads, CallStep(t)
  PROVE  Abstract!Next \/ UNCHANGED <<Queues, closed, event>>
<1>0. PICK c \in Chans :
        \/ \E v \in Vals : SendBlocks(t, c, v) \/ SendRefused(t, c, v) \/ SendDone(t, c, v)
        \/ RecvBlocks(t, c) \/ RecvDrained(t, c) \/ RecvDone(t, c)
        \/ TryRecv(t, c)
        \/ Close(t, c)
  BY DEF CallStep
<1> DEFINE Same == Queues' = Queues
<1>e. count[c] = 0 => Queue(c) = <<>>  BY QueueEmpty
<1>s. UNCHANGED <<buf, head, tail, count>> => Same
  BY QueuesStay DEF RingStays
<1>n. ASSUME \/ \E v \in Vals : Abstract!Send(t, c, v)
             \/ Abstract!SendRefused(t, c) \/ Abstract!Deliver(t, c)
             \/ Abstract!Drained(t, c) \/ Abstract!Empty(t, c) \/ Abstract!Close(t, c)
      PROVE  Abstract!Next
  BY <1>n DEF Abstract!Next
<1>1. CASE (\E v \in Vals : SendBlocks(t, c, v)) \/ RecvBlocks(t, c)
  BY <1>1, <1>s DEF SendBlocks, RecvBlocks, Sleep, ringVars
<1>2. ASSUME NEW v \in Vals, SendRefused(t, c, v)  PROVE Abstract!Next
  BY <1>2, <1>n, <1>s
  DEF SendRefused, Leaves, ringVars, Queues, Abstract!SendRefused, Abstract!Returns
<1>3. ASSUME NEW v \in Vals, SendDone(t, c, v)  PROVE Abstract!Next
  BY <1>3, <1>n, SendRefines
<1>4. CASE RecvDrained(t, c)
  BY <1>4, <1>n, <1>s, <1>e
  DEF RecvDrained, Leaves, ringVars, Queues, Abstract!Drained, Abstract!Returns
<1>5. CASE Take(t, c)
  BY <1>5, <1>n, TakeRefines
<1>6. CASE TryRecv(t, c) /\ ~Take(t, c)
  BY <1>6, <1>n, <1>s, <1>e
  DEF TryRecv, Leaves, ringVars, Queues, Abstract!Empty, Abstract!Returns
<1>7. CASE Close(t, c)
  BY <1>7, <1>n, <1>s DEF Close, Leaves, Queues, Abstract!Close, Abstract!Returns
<1> QED  BY <1>0, <1>1, <1>2, <1>3, <1>4, <1>5, <1>6, <1>7 DEF RecvDone

\* A thread that raises could not have gone on: it has held the mutex since its
\* test.
LEMMA RaiseRefines ==
  ASSUME TypeOK, RInv, NEW t \in Threads, RaiseDeadlock(t)
  PROVE  Abstract!Next
<1> DEFINE c == call[t].chan
<1>1. c \in Chans /\ call[t].op \in {"send", "recv"} /\ ~Ready(t)
  BY BlockingType DEF RaiseDeadlock, Goto, RInv, CallsExact
<1>2. ~closed[c] /\ (count[c] = 0 \/ count[c] = Cap[c])
  BY <1>1 DEF Ready
<1>3. Queue(c) = <<>> \/ Len(Queue(c)) = Cap[c]
  BY <1>1, <1>2, QueueEmpty
<1>4. Queues' = Queues /\ closed' = closed /\ event' = <<"deadlock", t, c>>
  BY QueuesStay DEF RaiseDeadlock, ringVars, RingStays
<1> HIDE DEF c
<1>5. Abstract!GiveUp(t, c)
  BY <1>1, <1>2, <1>3, <1>4 DEF Queues, Abstract!GiveUp, Abstract!Returns
<1> QED  BY <1>1, <1>5 DEF Abstract!Next

LEMMA NextRefines == IInv /\ RInv /\ [Next]_vars => [Abstract!Next]_Abstract!vars
<1> SUFFICES ASSUME IInv, RInv, [Next]_vars
             PROVE  Abstract!Next \/ UNCHANGED <<Queues, closed, event>>
  BY DEF Abstract!vars, Queues
<1> USE DEF IInv
<1>1. ASSUME UNCHANGED <<buf, head, tail, count, closed, event>>
      PROVE  UNCHANGED <<Queues, closed, event>>
  BY <1>1, QueuesStay DEF RingStays
<1>2. ASSUME NEW t \in Threads, CallStep(t)
      PROVE  Abstract!Next \/ UNCHANGED <<Queues, closed, event>>
  BY <1>2, CallStepRefines
<1>3. ASSUME NEW t \in Threads, RaiseDeadlock(t)  PROVE Abstract!Next
  BY <1>3, RaiseRefines
<1>4. ASSUME NEW t \in Threads, Wake(t) \/ Timeout(t) \/ AwaitCall(t)
      PROVE  UNCHANGED <<Queues, closed, event>>
  BY <1>1, <1>4 DEF Wake, Timeout, Resume, AwaitCall, ringVars
<1>5. CASE UNCHANGED chanVars
  BY <1>1, <1>5 DEF chanVars, ringVars
<1>6. CASE Next
  BY <1>2, <1>3, <1>4, <1>5, <1>6
  DEF Next, SubmitCall, SubmitStep, AwaitDone, TaskTaken, TaskStarts, TaskReturns, TaskLeft
<1>7. CASE UNCHANGED vars
  BY <1>5, <1>7 DEF vars
<1> QED  BY <1>6, <1>7

\* Every behaviour of the channels, for any capacities, threads, tasks and calls,
\* any interleaving, timeouts and failing pthread_create, is one of the bounded
\* FIFOs of BoundedChannel.
THEOREM Refines == Spec => ImplementsBoundedChannel
<1>1. Spec => [](IInv /\ RInv)
  BY Invariant, RInvariant, PTL
<1>2. Spec => [][Abstract!Next]_Abstract!vars
  BY <1>1, NextRefines, PTL DEF Spec
<1>3. Spec => Abstract!Init
  BY InitRefines, PTL DEF Spec
<1> QED  BY <1>2, <1>3, PTL DEF ImplementsBoundedChannel, Abstract!Spec
=============================================================================
