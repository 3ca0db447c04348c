--------------------------- MODULE TaskGroupProofs ---------------------------
(***************************************************************************)
(* Theorems about TaskGroup, for every number of threads, tasks and groups *)
(* and every nesting of scopes.                                            *)
(*                                                                         *)
(* The argument, each part on those before it.  PoolInv: the pool's        *)
(* variables keep their types and a task is in one place.  Owners: a task  *)
(* is in the hands of one pool thread until that thread is idle again, and *)
(* a scope belongs to one actor; so a scope that is being left has nobody  *)
(* who starts a child in it.  Registered: the list of a group is the       *)
(* tasks that name it, and what the cursor has passed is complete.         *)
(* PendingCounted: pending_count.  Errors: a child that failed without     *)
(* having been skipped has recorded its error before its promise is        *)
(* complete.                                                               *)
(***************************************************************************)
EXTENDS TaskGroup, PoolProofs

Complete(k) == promise[k] \notin {"none", "pending"}
Active(t)   == t \in Externals \/ pc[t] # "idle"
Leaving(t)  == pc[t] \in {"awaitall", "ending"}

\* Where a task's own code is between its first and its last instruction.
BodyLabels == {"run", "register", "queue", "enqueue", "await", "awaitall", "ending"}

PoolInv == /\ pc \in [Threads -> PCs] /\ PoolTypeOK /\ TasksPlaced
           /\ ~initialized => workerThreads = 0

\* Who runs what.
OneWorker ==
  /\ \A w, x \in Workers : pc[w] # "idle" /\ pc[x] # "idle" /\ task[w] = task[x] => w = x
  /\ \A w \in Workers : pc[w] \in {"fulfilled", "end"} => Complete(task[w])

ScopeTypes == /\ group \in [Groups -> {"none", "open", "ended"}]
              /\ scopes \in [Actors -> Seq(Groups)]

Owners ==
  /\ \A t \in Threads : Leaving(t) => Inside(t) # <<>>
  /\ \A k \in Tasks : scopes[k] # <<>> => \E w \in Workers : task[w] = k /\ pc[w] \in BodyLabels
  /\ \A a, b \in Actors : \A i \in DOMAIN scopes[a], j \in DOMAIN scopes[b] :
       scopes[a][i] = scopes[b][j] => a = b /\ i = j
  /\ \A a \in Actors : \A i \in DOMAIN scopes[a] : group[scopes[a][i]] = "open"

ChildTypes == /\ children \in [Groups -> Seq(Tasks)]
              /\ groupOf \in [Tasks -> Groups \cup {NoGroup}]
              /\ cursor \in [Threads -> Nat]

Registered ==
  /\ \A g \in Groups : \A k \in Tasks : groupOf[k] = g <=> \E i \in DOMAIN children[g] : children[g][i] = k
  /\ \A k \in Tasks : groupOf[k] # NoGroup => promise[k] # "none"
  /\ \A t \in Threads : Leaving(t) =>
       \A i \in DOMAIN children[Scope(t)] : i < cursor[t] => Complete(children[Scope(t)][i])
  /\ \A g \in Groups : group[g] = "ended" => \A k \in ChildrenOf(g) : Complete(k)
  /\ \A w \in Workers : pc[w] \in {"record", "cancel", "fulfilled"} => Grouped(w)

Uncounted(g) == {k \in ChildrenOf(g) :
                   Unfinished(k) \/ \E w \in Workers : pc[w] = "fulfilled" /\ task[w] = k}

PendingCounted == \A g \in Groups : /\ IsFiniteSet(Uncounted(g))
                                    /\ pending[g] = Cardinality(Uncounted(g))

ErrorTypes == /\ cancelled \in [Groups -> BOOLEAN]
              /\ firstError \in [Groups -> Tasks \cup {NoTask}]
              /\ outcome \in [Groups -> {"none", "value", "error"}]
              /\ result \in [Tasks -> {"none", "ok", "raised", "skipped"}]
              /\ awaited \subseteq Tasks

Raising(w) == pc[w] \in {"record", "cancel", "fail"}

Errors ==
  /\ \A w \in Workers : Raising(w) => result[task[w]] = "raised"
  /\ \A w \in Workers : pc[w] = "cancel" \/ (pc[w] = "fail" /\ Grouped(w)) => HasError(groupOf[task[w]])
  /\ \A k \in Tasks : result[k] = "none" <=>
       ~Complete(k) /\ ~\E w \in Workers : task[w] = k /\ Raising(w)
  /\ \A g \in Groups : cancelled[g] => HasError(g)
  /\ \A g \in Groups : HasError(g) => firstError[g] \in ChildrenOf(g) /\ result[firstError[g]] = "raised"
  /\ \A k \in Tasks : groupOf[k] # NoGroup /\ Complete(k) /\ result[k] # "ok" => HasError(groupOf[k])

Outcomes ==
  /\ \A g \in Groups : group[g] = "none" => outcome[g] = "none"
  /\ \A t \in Threads : Active(t) => \A i \in DOMAIN Inside(t) :
       outcome[Inside(t)[i]] # "none" => pc[t] = "ending" /\ i = Len(Inside(t))
  /\ \A g \in Groups : outcome[g] = "value" => \A k \in ChildrenOf(g) : Complete(k) /\ result[k] = "ok"

IInv == /\ PoolInv /\ OneWorker /\ ScopeTypes /\ Owners /\ ChildTypes /\ Registered
        /\ PendingCounted /\ ErrorTypes /\ Errors /\ Outcomes

-----------------------------------------------------------------------------
(* The pool's part *)

Quiet == {"run", "await", "awaitall", "ending", "begun", "record", "cancel", "fail"}

\* A step that only moves a thread from one label to another.
LEMMA OnlyPcPool ==
  ASSUME PoolInv, NEW t \in Threads, NEW from, NEW to, Goto(t, from, to), OnlyPc,
         \/ from \in Quiet /\ to \in Quiet
         \/ from = "fulfilled" /\ to = "end"
  PROVE  PoolInv'
<1>1. pc' \in [Threads -> PCs]
  BY DEF PoolInv, Goto, Quiet, PCs
<1>2. PoolTypeOK' /\ (~initialized' => workerThreads' = 0)
  BY DEF PoolInv, OnlyPc, PoolTypeOK, taskVars, threadVars, counterVars, localVars
<1>3. TasksPlaced'
  BY PlacedMoves DEF PoolInv, Goto, Quiet, OnlyPc, taskVars
<1> QED  BY <1>1, <1>2, <1>3 DEF PoolInv

LEMMA FulfilPool ==
  ASSUME PoolInv, NEW w \in Workers, NEW from \in Quiet, NEW how \in {"done", "failed"},
         NEW to \in {"fulfilled", "end"}, Fulfil(w, from, how, to)
  PROVE  /\ PoolInv'
         /\ task[w] \in Tasks /\ promise[task[w]] = "pending"
         /\ promise' = [promise EXCEPT ![task[w]] = how]
<1>0. w \in Threads  BY DEF Threads
<1>1. pc' \in [Threads -> PCs]
  BY <1>0 DEF PoolInv, Fulfil, Goto, PCs
<1>2. TasksPlaced' /\ task[w] \in Tasks /\ promise[task[w]] = "pending"
  BY FulfilPlaces DEF PoolInv, Quiet
<1>3. promise' = [promise EXCEPT ![task[w]] = how]
  BY <1>2 DEF Fulfil
<1>4. promise' \in [Tasks -> {"none", "pending", "done", "failed", "freed"}]
  BY <1>3 DEF PoolInv, PoolTypeOK
<1>5. PoolTypeOK' /\ (~initialized' => workerThreads' = 0)
  BY <1>4 DEF PoolInv, Fulfil, PoolTypeOK, threadVars, counterVars, localVars
<1> QED  BY <1>1, <1>2, <1>3, <1>5 DEF PoolInv

\* How submit_task leaves the pool.
LEMMA SubmitPool ==
  ASSUME PoolInv, NEW t \in Threads, NEW k \in Tasks, Submit(t, k)
  PROVE  PoolInv'
<1>1. pc' \in [Threads -> PCs]
  BY DEF PoolInv, Submit, Goto, PCs
<1>2. Actor(t) \in Tasks \cup Externals \cup {NoTask}
  BY DEF PoolInv, PoolTypeOK, Actor, Threads
<1>3. workerThreads' \in 0 .. MaxThreads /\ initialized'
  <2>1. CASE initialized
    BY <2>1 DEF PoolInv, PoolTypeOK, Submit
  <2>2. CASE ~initialized
    <3>1. PICK n \in IF CreateMayFail THEN 0 .. PoolSize ELSE {PoolSize} :
            workerThreads' = workerThreads + n
      BY <2>2 DEF Submit, StartWorkers
    <3>2. n \in 0 .. PoolSize /\ workerThreads = 0
      BY <2>2, PoolAssumption DEF PoolInv
    <3> QED  BY <3>1, <3>2, PoolAssumption DEF Submit
  <2> QED  BY <2>1, <2>2
<1>4. PoolTypeOK'
  BY <1>2, <1>3 DEF PoolInv, PoolTypeOK, Submit, counterVars, localVars
<1> QED  BY <1>1, <1>3, <1>4, SubmitPlaces DEF PoolInv

LEMMA SubmitStepPool ==
  ASSUME PoolInv, NEW t \in Threads, Register(t) \/ TaskQueued(t) \/ Enqueue(t)
  PROVE  PoolInv'
<1> USE DEF PoolInv, PoolTypeOK, taskVars, threadVars, counterVars, localVars
<1>1. CASE Register(t)
  <2>1. TasksPlaced'  BY <1>1, PlacedMoves DEF Register, Goto
  <2> QED  BY <1>1, <2>1 DEF Register, RegisterExternal, Goto, PCs
<1>2. CASE TaskQueued(t)
  <2>1. TasksPlaced'  BY <1>2, PlacedMoves DEF TaskQueued, Goto
  <2> QED  BY <1>2, <2>1 DEF TaskQueued, Goto, PCs
<1>3. CASE Enqueue(t)
  <2>1. TasksPlaced'  BY <1>3, EnqueuePlaces
  <2>2. arg[t] \in Tasks  BY <1>3 DEF Enqueue, Goto, TasksPlaced, Carrying
  <2> QED  BY <1>3, <2>1, <2>2 DEF Enqueue, Goto, PCs
<1> QED  BY <1>1, <1>2, <1>3

LEMMA AwaitPool ==
  ASSUME PoolInv, NEW t \in Threads, NEW k \in Tasks, Await(t, k)
  PROVE  PoolInv'
<1> USE DEF PoolInv, PoolTypeOK, taskVars, threadVars, counterVars, localVars
<1>1. \A u \in Threads : Carrying(u) => arg'[u] = arg[u]
  BY DEF Await, Goto, Carrying
<1>2. TasksPlaced'
  BY <1>1, PlacedMoves DEF Await, Goto
<1> QED  BY <1>2 DEF Await, Goto, PCs

\* A promise that is complete is left as it is or freed.
LEMMA AwaitReturnPool ==
  ASSUME PoolInv, NEW t \in Threads, NEW after,
         after = "freed" \/ after = promise[arg[t]], AwaitReturn(t, after)
  PROVE  PoolInv'
<1> USE DEF PoolInv, PoolTypeOK, taskVars, threadVars, counterVars, localVars
<1>1. \A u \in Threads : Carrying(u) => arg'[u] = arg[u]
  BY DEF AwaitReturn, Goto, Carrying
<1>2. \A k \in Tasks : promise'[k] = "pending" <=> promise[k] = "pending"
  BY DEF AwaitReturn
<1>3. TasksPlaced'
  BY <1>1, <1>2, PlacedMoves DEF AwaitReturn, Goto
<1> QED  BY <1>3 DEF AwaitReturn, Goto, PCs

LEMMA DestroyPool ==
  ASSUME PoolInv, NEW t \in Threads, DestroyChild(t)
  PROVE  PoolInv'
<1> USE DEF PoolInv, PoolTypeOK, threadVars, counterVars, localVars
<1>1. \A k \in Tasks : promise'[k] = "pending" <=> promise[k] = "pending"
  BY DEF DestroyChild, ChildComplete
<1>2. TasksPlaced'
  BY <1>1, PlacedKept DEF DestroyChild, Carrying, Holding
<1> QED  BY <1>2 DEF DestroyChild

LEMMA WorkerPoolStep ==
  ASSUME PoolInv, NEW w \in Workers, Dequeue(w) \/ WorkerBegin(w, "begun") \/ WorkerEnd(w)
  PROVE  PoolInv'
<1> USE DEF PoolInv, PoolTypeOK, taskVars, threadVars, counterVars, localVars
<1>0. w \in Threads  BY DEF Threads
<1>1. CASE Dequeue(w)
  <2>1. TasksPlaced'  BY <1>1, DequeuePlaces
  <2>2. Head(taskQueue) \in Tasks /\ Tail(taskQueue) \in Seq(Tasks)
    BY <1>1 DEF Dequeue
  <2> QED  BY <1>0, <1>1, <2>1, <2>2 DEF Dequeue, Goto, PCs
<1>2. CASE WorkerBegin(w, "begun")
  <2>1. TasksPlaced'  BY <1>0, <1>2, PlacedMoves DEF WorkerBegin, Goto
  <2> QED  BY <1>0, <1>2, <2>1 DEF WorkerBegin, Goto, Dec, PCs
<1>3. CASE WorkerEnd(w)
  <2>1. TasksPlaced'  BY <1>3, WorkerEndPlaces
  <2>2. runningWorkers' \in Nat /\ blockedWorkers' \in Nat
        /\ waitKind' \in [Threads -> 0 .. 2]
    BY <1>0, <1>3 DEF WorkerEnd, Dec
  <2>3. pc' \in [Threads -> PCs] /\ task' \in [Workers -> Tasks \cup {NoTask}]
        /\ isWorker' \in [Threads -> BOOLEAN]
    BY <1>0, <1>3 DEF WorkerEnd, Goto, PCs
  <2> QED  BY <1>3, <2>1, <2>2, <2>3 DEF WorkerEnd
<1> QED  BY <1>1, <1>2, <1>3

LEMMA NextPool == PoolInv /\ Next => PoolInv'
<1> SUFFICES ASSUME PoolInv, Next PROVE PoolInv'
  OBVIOUS
<1> USE DEF Quiet
<1>1. ASSUME NEW t \in Threads, Program(t) \/ ParentStep(t) \/ LeavesBody(t)
      PROVE  PoolInv'
  <2>1. ASSUME NEW k \in Tasks, StartChild(t, k) \/ Spawn(t, k) \/ AwaitCall(t, k)
        PROVE  PoolInv'
    BY <2>1, SubmitPool, AwaitPool DEF StartChild, Spawn, AwaitCall
  <2>2. ASSUME UNCHANGED poolVars  PROVE PoolInv'
    BY <2>2, PlacedKept DEF PoolInv, PoolTypeOK, poolVars, taskVars, threadVars, counterVars,
                             localVars, Carrying, Holding
  <2>3. ASSUME NEW g \in Groups, LetBegin(t, g)  PROVE PoolInv'
    BY <2>2, <2>3 DEF LetBegin
  <2>4. CASE AwaitChild(t)
    BY <2>2, <2>4 DEF AwaitChild
  <2>5. CASE AwaitAllReturns(t) \/ FreeGroup(t) \/ LeavesBody(t)
    <3>1. CASE AwaitAllReturns(t)  BY <3>1, OnlyPcPool DEF AwaitAllReturns
    <3>2. CASE FreeGroup(t)        BY <3>2, OnlyPcPool DEF FreeGroup
    <3>3. CASE BodyEnds(t)         BY <3>3, OnlyPcPool DEF BodyEnds
    <3>4. CASE BodyRaises(t)       BY <3>4, OnlyPcPool DEF BodyRaises
    <3> QED  BY <2>5, <3>1, <3>2, <3>3, <3>4 DEF LeavesBody
  <2>6. CASE SubmitStep(t)
    BY <2>6, SubmitStepPool DEF SubmitStep
  <2>7. CASE AwaitDone(t)
    BY <2>7, AwaitReturnPool DEF AwaitDone
  <2>8. CASE DestroyChild(t)
    BY <2>8, DestroyPool
  <2> QED  BY <1>1, <2>1, <2>3, <2>4, <2>5, <2>6, <2>7, <2>8 DEF Program, ParentStep
<1>2. ASSUME NEW w \in Workers,
             TaskTaken(w) \/ TaskStarts(w) \/ TaskEnds(w) \/ ChildStep(w) \/ TaskLeft(w)
      PROVE  PoolInv'
  <2>0. w \in Threads  BY DEF Threads
  <2>1. CASE TaskTaken(w) \/ TaskStarts(w) \/ TaskLeft(w)
    BY <2>1, WorkerPoolStep DEF TaskTaken, TaskStarts, TaskLeft
  <2>2. CASE TaskReturns(w)
    BY <2>2, FulfilPool DEF TaskReturns, AfterPromise
  <2>3. CASE Skip(w)
    BY <2>3, FulfilPool DEF Skip
  <2>4. CASE FailPromise(w)
    BY <2>4, FulfilPool DEF FailPromise, AfterPromise
  <2>5. CASE TaskRaises(w)   BY <2>0, <2>5, OnlyPcPool DEF TaskRaises
  <2>6. CASE Run(w)          BY <2>0, <2>6, OnlyPcPool DEF Run
  <2>7. CASE RecordError(w)  BY <2>0, <2>7, OnlyPcPool DEF RecordError
  <2>8. CASE CancelGroup(w)  BY <2>0, <2>8, OnlyPcPool DEF CancelGroup
  <2>9. CASE CountOut(w)     BY <2>0, <2>9, OnlyPcPool DEF CountOut
  <2> QED  BY <1>2, <2>1, <2>2, <2>3, <2>4, <2>5, <2>6, <2>7, <2>8, <2>9 DEF TaskEnds, ChildStep
<1> QED  BY <1>1, <1>2 DEF Next

-----------------------------------------------------------------------------
(* Frames *)

BodyStep(t)   == Program(t) \/ ParentStep(t) \/ LeavesBody(t)
WorkerStep(w) == TaskTaken(w) \/ TaskStarts(w) \/ TaskEnds(w) \/ ChildStep(w) \/ TaskLeft(w)

\* A thread's step in its own code leaves it there, and completes no promise.
StaysInBody(t) ==
  /\ pc[t] \in BodyLabels /\ pc'[t] \in BodyLabels
  /\ \A u \in Threads : u # t => pc'[u] = pc[u]
  /\ UNCHANGED <<task, cancelled, firstError, result>>
  /\ \A k \in Tasks : /\ Complete(k)' <=> Complete(k)
                      /\ promise[k] # "none" => promise'[k] # "none"

LEMMA BodyFrame ==
  ASSUME PoolInv, NEW t \in Threads, BodyStep(t)
  PROVE  StaysInBody(t)
<1> USE DEF PoolInv, PoolTypeOK, BodyLabels, Goto, Complete, StaysInBody, taskVars, groupVars
<1>1. ASSUME NEW k \in Tasks, StartChild(t, k) \/ Spawn(t, k)  PROVE StaysInBody(t)
  BY <1>1 DEF StartChild, Spawn, Submit, NewTask
<1>2. ASSUME NEW k \in Tasks, AwaitCall(t, k)  PROVE StaysInBody(t)
  BY <1>2 DEF AwaitCall, Await
<1>3. ASSUME NEW g \in Groups, LetBegin(t, g)  PROVE StaysInBody(t)
  BY <1>3 DEF LetBegin, poolVars
<1>4. CASE SubmitStep(t)
  BY <1>4 DEF SubmitStep, Register, TaskQueued, Enqueue
<1>5. CASE AwaitDone(t)
  BY <1>5 DEF AwaitDone, AwaitReturn
<1>6. CASE AwaitChild(t) \/ AwaitAllReturns(t) \/ FreeGroup(t) \/ LeavesBody(t)
  BY <1>6 DEF AwaitChild, AwaitAllReturns, FreeGroup, LeavesBody, BodyEnds, BodyRaises, OnlyPc,
              poolVars
<1>7. CASE DestroyChild(t)
  BY <1>7 DEF DestroyChild, ChildComplete
<1> QED  BY <1>1, <1>2, <1>3, <1>4, <1>5, <1>6, <1>7 DEF BodyStep, Program, ParentStep

\* A pool thread's step outside of a task's code leaves the scopes alone.
LEMMA WorkerFrame ==
  ASSUME NEW w \in Workers, WorkerStep(w)
  PROVE  /\ UNCHANGED <<group, scopes, children, groupOf, cursor, awaited, outcome>>
         /\ \E to : pc' = [pc EXCEPT ![w] = to]
BY DEF WorkerStep, TaskTaken, TaskStarts, TaskLeft, TaskEnds, TaskReturns, TaskRaises, ChildStep,
       Skip, Run, RecordError, CancelGroup, FailPromise, CountOut, Unchanged, groupVars, Goto,
       Dequeue, WorkerBegin, WorkerEnd, Fulfil

\* What it does to its task: it takes one, drops one, completes the promise or
\* goes on to another of the steps in between.
WorkerMoves(w) ==
  \/ Dequeue(w)
  \/ WorkerEnd(w)
  \/ /\ pc[w] \in {"popped", "begun", "run", "record", "cancel"}
     /\ \E to \in {"begun", "run", "record", "cancel", "fail"} : pc' = [pc EXCEPT ![w] = to]
     /\ UNCHANGED <<task, promise>>
  \/ /\ pc[w] \in {"begun", "run", "fail"} /\ promise[task[w]] = "pending"
     /\ \E to \in {"fulfilled", "end"} : pc' = [pc EXCEPT ![w] = to]
     /\ \E how \in {"done", "failed"} : promise' = [promise EXCEPT ![task[w]] = how]
     /\ UNCHANGED task
  \/ Goto(w, "fulfilled", "end") /\ UNCHANGED <<task, promise>>

LEMMA WorkerStepMoves ==
  ASSUME PoolInv, NEW w \in Workers, WorkerStep(w)
  PROVE  WorkerMoves(w)
<1> USE DEF WorkerMoves, Goto, taskVars
<1>1. CASE TaskTaken(w) \/ TaskLeft(w)
  BY <1>1 DEF TaskTaken, TaskLeft
<1>2. CASE TaskStarts(w)
  BY <1>2 DEF TaskStarts, WorkerBegin
<1>3. CASE TaskRaises(w) \/ Run(w) \/ RecordError(w) \/ CancelGroup(w) \/ CountOut(w)
  BY <1>3 DEF TaskRaises, Run, RecordError, CancelGroup, CountOut, OnlyPc
<1>4. CASE TaskReturns(w) \/ Skip(w) \/ FailPromise(w)
  <2>1. PICK from \in Quiet, how \in {"done", "failed"}, to \in {"fulfilled", "end"} :
          Fulfil(w, from, how, to) /\ from \in {"begun", "run", "fail"}
    BY <1>4 DEF TaskReturns, Skip, FailPromise, AfterPromise, Quiet
  <2> QED  BY <2>1, FulfilPool DEF Fulfil
<1> QED  BY <1>1, <1>2, <1>3, <1>4 DEF WorkerStep, TaskEnds, ChildStep

-----------------------------------------------------------------------------
(* Owners *)

LEMMA NextOneWorker == PoolInv /\ OneWorker /\ Next => OneWorker'
<1> SUFFICES ASSUME PoolInv, OneWorker, Next PROVE OneWorker'
  OBVIOUS
<1>1. ASSUME NEW t \in Threads, BodyStep(t)  PROVE OneWorker'
  <2>1. StaysInBody(t)  BY <1>1, BodyFrame
  <2>2. \A w \in Workers : pc[w] \in {"fulfilled", "end"} => task[w] \in Tasks
    BY DEF PoolInv, TasksPlaced
  <2> QED  BY <2>1, <2>2 DEF StaysInBody, OneWorker, BodyLabels, Threads
<1>2. ASSUME NEW w \in Workers, WorkerStep(w)  PROVE OneWorker'
  <2>0. WorkerMoves(w) /\ w \in Threads  BY <1>2, WorkerStepMoves DEF Threads
  <2>1. \A x \in Workers : IF pc[x] = "idle" THEN task[x] = NoTask ELSE task[x] \in Tasks
    BY DEF PoolInv, TasksPlaced
  <2>2. CASE Dequeue(w)
    <3> DEFINE k == taskQueue[1]
    <3>1. /\ pc' = [pc EXCEPT ![w] = "popped"] /\ task' = [task EXCEPT ![w] = k]
          /\ pc[w] = "idle" /\ promise' = promise /\ k \in Tasks /\ InQueue(k)
      BY <2>2 DEF Dequeue, Goto, PoolInv, PoolTypeOK, InQueue
    <3>2. promise[k] = "pending" /\ ~Held(k)
      BY <3>1 DEF PoolInv, TasksPlaced
    <3>3. \A x \in Workers : pc[x] # "idle" => task[x] # k
      BY <2>1, <3>2 DEF OneWorker, Held, Holding, Complete
    <3>4. /\ pc'[w] = "popped" /\ task'[w] = k
          /\ \A x \in Workers : x # w => pc'[x] = pc[x] /\ task'[x] = task[x]
      BY <2>0, <3>1 DEF PoolInv, PoolTypeOK, Threads
    <3> HIDE DEF k
    <3> QED  BY <3>1, <3>3, <3>4 DEF OneWorker, Complete
  <2>3. CASE WorkerEnd(w)
    BY <2>0, <2>3 DEF WorkerEnd, Goto, PoolInv, PoolTypeOK, OneWorker, Complete, Threads
  <2>4. CASE ~Dequeue(w) /\ ~WorkerEnd(w)
    <3>1. /\ task' = task /\ pc[w] # "idle" /\ pc'[w] # "idle"
          /\ \A x \in Workers : x # w => pc'[x] = pc[x]
          /\ pc'[w] \in {"fulfilled", "end"} => Complete(task[w])'
      BY <2>0, <2>1, <2>4 DEF WorkerMoves, Goto, PoolInv, PoolTypeOK, OneWorker, Complete, Threads
    <3>2. \A j \in Tasks : Complete(j) => Complete(j)'
      BY <2>0, <2>1, <2>4 DEF WorkerMoves, PoolInv, PoolTypeOK, Complete
    <3> QED  BY <2>1, <3>1, <3>2 DEF OneWorker, Complete
  <2> QED  BY <2>2, <2>3, <2>4
<1> QED  BY <1>1, <1>2 DEF Next, BodyStep, WorkerStep

\* An actor is on one thread.
LEMMA ActorDistinct ==
  ASSUME PoolInv, OneWorker, NEW t \in Threads, Active(t)
  PROVE  /\ Actor(t) \in Actors
         /\ \A u \in Threads : Active(u) /\ Actor(u) = Actor(t) => u = t
<1>1. \A u \in Threads : u \in Workers <=> u \notin Externals
  BY PoolAssumption DEF Threads, Workers
<1>2. \A w \in Workers : pc[w] # "idle" => task[w] \in Tasks
  BY DEF PoolInv, TasksPlaced
<1> QED  BY <1>1, <1>2, PoolAssumption DEF OneWorker, Active, Actor, Actors, Threads

\* So is a scope.
LEMMA ScopeDistinct ==
  ASSUME PoolInv, OneWorker, ScopeTypes, Owners, NEW t \in Threads, Active(t), Inside(t) # <<>>
  PROVE  /\ Len(Inside(t)) \in DOMAIN Inside(t) /\ Scope(t) \in Groups /\ group[Scope(t)] = "open"
         /\ \A u \in Threads : Active(u) /\ Inside(u) # <<>> /\ Scope(u) = Scope(t) => u = t
<1>1. \A u \in Threads : Active(u) => Actor(u) \in Actors /\ Inside(u) \in Seq(Groups)
  BY ActorDistinct DEF ScopeTypes, Inside
<1>2. \A u \in Threads : Active(u) /\ Inside(u) # <<>> => Len(Inside(u)) \in DOMAIN Inside(u)
  BY <1>1
<1>3. Scope(t) \in Groups /\ group[Scope(t)] = "open"
  BY <1>1, <1>2 DEF Scope, Owners, Inside
<1>4. ASSUME NEW u \in Threads, Active(u), Inside(u) # <<>>, Scope(u) = Scope(t)  PROVE u = t
  <2>1. Actor(u) = Actor(t)
    BY <1>1, <1>2, <1>4 DEF Scope, Owners, Inside
  <2> QED  BY <1>4, <2>1, ActorDistinct
<1> QED  BY <1>2, <1>3, <1>4

\* The scopes change only where one is opened or freed.
LEMMA ScopesUntouched ==
  ASSUME NEW t \in Threads, BodyStep(t), ~FreeGroup(t), \A g \in Groups : ~LetBegin(t, g)
  PROVE  UNCHANGED <<group, scopes>>
BY DEF BodyStep, Program, ParentStep, LeavesBody, StartChild, Spawn, AwaitCall, SubmitStep, AwaitDone,
       AwaitChild, AwaitAllReturns, DestroyChild, BodyEnds, BodyRaises, groupVars

LEMMA LetBeginOwners ==
  ASSUME PoolInv, OneWorker, ScopeTypes, Owners, NEW t \in Threads, NEW g \in Groups, LetBegin(t, g)
  PROVE  ScopeTypes' /\ Owners'
<1> DEFINE a == Actor(t)
           n == Len(scopes[a]) + 1
<1>1. /\ pc[t] = "run" /\ group[g] = "none" /\ group' = [group EXCEPT ![g] = "open"]
      /\ scopes' = [scopes EXCEPT ![a] = Append(@, g)] /\ UNCHANGED <<pc, task>>
  BY DEF LetBegin, NewGroup, poolVars, taskVars
<1>2. a \in Actors /\ scopes[a] \in Seq(Groups)
  BY <1>1, ActorDistinct DEF Active, ScopeTypes
<1>3. ScopeTypes'
  BY <1>1, <1>2 DEF ScopeTypes
<1>4. /\ scopes'[a] \in Seq(Groups) /\ n \in DOMAIN scopes'[a] /\ scopes'[a][n] = g
      /\ DOMAIN scopes'[a] = DOMAIN scopes[a] \cup {n} /\ scopes'[a] # <<>>
      /\ \A i \in DOMAIN scopes[a] : scopes'[a][i] = scopes[a][i]
      /\ \A b \in Actors : b # a => scopes'[b] = scopes[b]
  BY <1>1, <1>2 DEF ScopeTypes
<1>5. \A b \in Actors : \A i \in DOMAIN scopes[b] : scopes[b][i] \in Groups /\ scopes[b][i] # g
  BY <1>1 DEF Owners, ScopeTypes
<1>6. \A b \in Actors : scopes[b] # <<>> => scopes'[b] # <<>>
  BY <1>4
<1>7. ASSUME NEW u \in Threads, Leaving(u)'  PROVE Inside(u)' # <<>>
  <2>1. Active(u) /\ Inside(u) # <<>>  BY <1>1, <1>7 DEF Leaving, Active, Owners
  <2>2. Actor(u) \in Actors /\ Actor(u)' = Actor(u)  BY <1>1, <2>1, ActorDistinct DEF Actor
  <2> QED  BY <1>6, <2>1, <2>2 DEF Inside
<1>8. ASSUME NEW k \in Tasks, scopes'[k] # <<>>
      PROVE  \E w \in Workers : task'[w] = k /\ pc'[w] \in BodyLabels
  <2>1. CASE k = a
    <3>1. t \in Workers /\ task[t] = k
      BY <2>1, PoolAssumption DEF Actor, Threads
    <3> QED  BY <1>1, <3>1 DEF BodyLabels
  <2>2. CASE k # a
    BY <1>1, <1>4, <1>8, <2>2 DEF Owners, Actors
  <2> QED  BY <2>1, <2>2
<1> HIDE DEF a, n
<1>9. \A b, c \in Actors : \A i \in DOMAIN scopes'[b], j \in DOMAIN scopes'[c] :
        scopes'[b][i] = scopes'[c][j] => b = c /\ i = j
  BY <1>4, <1>5 DEF Owners
<1>10. \A b \in Actors : \A i \in DOMAIN scopes'[b] : group'[scopes'[b][i]] = "open"
  <2>1. group'[g] = "open" /\ \A h \in Groups : h # g => group'[h] = group[h]
    BY <1>1 DEF ScopeTypes
  <2> QED  BY <1>4, <1>5, <2>1 DEF Owners
<1> QED  BY <1>3, <1>7, <1>8, <1>9, <1>10 DEF Owners

LEMMA FreeGroupOwners ==
  ASSUME PoolInv, OneWorker, ScopeTypes, Owners, NEW t \in Threads, FreeGroup(t)
  PROVE  ScopeTypes' /\ Owners'
<1> DEFINE a == Actor(t)
           n == Len(scopes[a])
           g == Scope(t)
<1>1. /\ pc[t] = "ending" /\ pc' = [pc EXCEPT ![t] = "run"] /\ group' = [group EXCEPT ![g] = "ended"]
      /\ scopes' = [scopes EXCEPT ![a] = SubSeq(@, 1, Len(@) - 1)] /\ UNCHANGED task
  BY DEF FreeGroup, OnlyPc, Goto, taskVars
<1>2. a \in Actors /\ scopes[a] \in Seq(Groups) /\ scopes[a] # <<>>
  BY <1>1, ActorDistinct DEF Active, ScopeTypes, Owners, Leaving, Inside
<1>3. n \in DOMAIN scopes[a] /\ scopes[a][n] = g /\ g \in Groups
  BY <1>2 DEF Scope, Inside
<1>4. /\ scopes'[a] \in Seq(Groups) /\ DOMAIN scopes'[a] = DOMAIN scopes[a] \ {n}
      /\ \A i \in DOMAIN scopes'[a] : scopes'[a][i] = scopes[a][i]
      /\ \A b \in Actors : b # a => scopes'[b] = scopes[b]
  BY <1>1, <1>2 DEF ScopeTypes
<1>5. ScopeTypes'
  BY <1>1, <1>4 DEF ScopeTypes
<1>6. /\ pc'[t] = "run" /\ \A u \in Threads : u # t => pc'[u] = pc[u]
  BY <1>1 DEF PoolInv
<1>7. ASSUME NEW u \in Threads, Leaving(u)'  PROVE Inside(u)' # <<>>
  <2>1. u # t /\ Leaving(u) /\ Active(u) /\ Active(t)
    BY <1>1, <1>6, <1>7 DEF Leaving, Active
  <2>2. Actor(u) # a /\ Actor(u) \in Actors /\ Actor(u)' = Actor(u)
    BY <1>1, <2>1, ActorDistinct DEF Actor
  <2> QED  BY <1>4, <2>1, <2>2 DEF Inside, Owners
<1>8. ASSUME NEW k \in Tasks, scopes'[k] # <<>>
      PROVE  \E w \in Workers : task'[w] = k /\ pc'[w] \in BodyLabels
  <2>1. scopes[k] # <<>>
    BY <1>2, <1>4, <1>8 DEF Actors
  <2> QED  BY <1>1, <1>6, <2>1 DEF Owners, BodyLabels, Threads
<1> HIDE DEF a, n, g
<1>9. \A b, c \in Actors : \A i \in DOMAIN scopes'[b], j \in DOMAIN scopes'[c] :
        scopes'[b][i] = scopes'[c][j] => b = c /\ i = j
  BY <1>4 DEF Owners
<1>10. \A b \in Actors : \A i \in DOMAIN scopes'[b] : group'[scopes'[b][i]] = "open"
  <2>1. \A h \in Groups : h # g => group'[h] = group[h]
    BY <1>1 DEF ScopeTypes
  <2>2. \A b \in Actors : \A i \in DOMAIN scopes'[b] : /\ i \in DOMAIN scopes[b] /\ scopes'[b][i] = scopes[b][i]
                                                     /\ scopes[b][i] \in Groups /\ scopes[b][i] # g
    BY <1>2, <1>3, <1>4 DEF Owners, ScopeTypes
  <2> QED  BY <2>1, <2>2 DEF Owners
<1> QED  BY <1>5, <1>7, <1>8, <1>9, <1>10 DEF Owners

LEMMA NextOwners == PoolInv /\ OneWorker /\ ScopeTypes /\ Owners /\ Next => ScopeTypes' /\ Owners'
<1> SUFFICES ASSUME PoolInv, OneWorker, ScopeTypes, Owners, Next PROVE ScopeTypes' /\ Owners'
  OBVIOUS
<1>1. ASSUME NEW t \in Threads, BodyStep(t), ~FreeGroup(t), \A g \in Groups : ~LetBegin(t, g)
      PROVE  ScopeTypes' /\ Owners'
  <2>1. StaysInBody(t) /\ UNCHANGED <<group, scopes>>
    BY <1>1, BodyFrame, ScopesUntouched
  <2>2. \A u \in Threads : Inside(u)' = Inside(u)
    BY <2>1 DEF StaysInBody, Inside, Actor
  <2>3. Leaving(t)' => Leaving(t) \/ Inside(t) # <<>>
    BY <1>1, <2>1 DEF BodyStep, Program, ParentStep, LeavesBody, StartChild, Spawn, AwaitCall, SubmitStep,
       AwaitDone, AwaitChild, AwaitAllReturns, DestroyChild, BodyEnds, BodyRaises, StaysInBody, Leaving,
       Submit, Await, Register, TaskQueued, Enqueue, AwaitReturn, Goto, PoolInv, poolVars
  <2>4. \A u \in Threads : Leaving(u)' => Inside(u)' # <<>>
    BY <2>1, <2>2, <2>3 DEF StaysInBody, Leaving, Owners
  <2>5. \A w \in Workers : pc[w] \in BodyLabels => pc'[w] \in BodyLabels
    BY <2>1 DEF StaysInBody, Threads
  <2> QED  BY <2>1, <2>4, <2>5 DEF StaysInBody, Owners, ScopeTypes
<1>2. ASSUME NEW w \in Workers, WorkerStep(w)  PROVE ScopeTypes' /\ Owners'
  <2>1. WorkerMoves(w) /\ w \in Threads /\ UNCHANGED <<group, scopes>>
    BY <1>2, WorkerStepMoves, WorkerFrame DEF Threads
  <2>2. /\ \A u \in Threads : u # w => pc'[u] = pc[u] /\ Inside(u)' = Inside(u)
        /\ ~Leaving(w)'
    BY <2>1 DEF WorkerMoves, Dequeue, WorkerEnd, Goto, Leaving, Inside, Actor, PoolInv, PoolTypeOK
  <2>3. pc[w] \in BodyLabels => task'[w] = task[w] /\ (pc'[w] \in BodyLabels \/ Inside(w) = <<>>)
    <3>1. CASE TaskTaken(w) \/ TaskStarts(w) \/ TaskLeft(w) \/ ChildStep(w)
      BY <3>1 DEF TaskTaken, TaskStarts, TaskLeft, ChildStep, Skip, Run, RecordError, CancelGroup, FailPromise,
         CountOut, Fulfil, Dequeue, WorkerBegin, WorkerEnd, Goto, BodyLabels
    <3>2. CASE TaskEnds(w)
      BY <3>2 DEF TaskEnds, TaskReturns, TaskRaises, Fulfil, OnlyPc, taskVars
    <3> QED  BY <1>2, <3>1, <3>2 DEF WorkerStep
  <2>4. ASSUME NEW k \in Tasks, scopes[k] # <<>>
        PROVE  \E x \in Workers : task'[x] = k /\ pc'[x] \in BodyLabels
    <3>1. PICK x \in Workers : task[x] = k /\ pc[x] \in BodyLabels  BY <2>4 DEF Owners
    <3>2. x \in Threads  BY DEF Threads
    <3>3. CASE x = w
      BY <2>3, <2>4, <3>1, <3>3 DEF Inside, Actor
    <3>4. CASE x # w
      <4>1. task'[x] = task[x]
        BY <2>1, <3>4 DEF WorkerMoves, Dequeue, WorkerEnd, PoolInv, PoolTypeOK
      <4> QED  BY <2>2, <3>1, <3>2, <3>4, <4>1
    <3> QED  BY <3>3, <3>4
  <2>5. \A u \in Threads : Leaving(u)' => Inside(u)' # <<>>
    BY <2>2 DEF Leaving, Owners
  <2> QED  BY <2>1, <2>4, <2>5 DEF Owners, ScopeTypes
<1> QED  BY <1>1, <1>2, LetBeginOwners, FreeGroupOwners DEF Next, BodyStep, WorkerStep

-----------------------------------------------------------------------------
(* Registered *)

\* What a thread's step leaves of the others: their scopes and their cursors.
LEMMA BodyKeeps ==
  ASSUME PoolInv, OneWorker, ScopeTypes, ChildTypes, NEW t \in Threads, BodyStep(t)
  PROVE  \A u \in Threads : u # t => /\ Active(u) => Inside(u)' = Inside(u)
                                     /\ cursor'[u] = cursor[u]
<1> SUFFICES ASSUME NEW u \in Threads, u # t
             PROVE  (Active(u) => Inside(u)' = Inside(u)) /\ cursor'[u] = cursor[u]
  OBVIOUS
<1>1. StaysInBody(t)  BY BodyFrame
<1>2. Active(u) => Actor(u)' = Actor(u) /\ Actor(u) # Actor(t) /\ Actor(u) \in Actors
  BY <1>1, ActorDistinct DEF StaysInBody, Actor, Active, BodyLabels
<1>3. cursor' = cursor \/ \E n : cursor' = [cursor EXCEPT ![t] = n]
  BY DEF BodyStep, Program, ParentStep, LeavesBody, LetBegin, StartChild, Spawn, AwaitCall, SubmitStep,
     AwaitDone, AwaitChild, AwaitAllReturns, DestroyChild, FreeGroup, BodyEnds, BodyRaises, groupVars
<1>4. scopes' = scopes \/ \E q : scopes' = [scopes EXCEPT ![Actor(t)] = q]
  BY DEF BodyStep, Program, ParentStep, LeavesBody, LetBegin, StartChild, Spawn, AwaitCall, SubmitStep,
     AwaitDone, AwaitChild, AwaitAllReturns, DestroyChild, FreeGroup, BodyEnds, BodyRaises, groupVars
<1>5. cursor'[u] = cursor[u]
  BY <1>3 DEF ChildTypes
<1>6. Active(u) => Inside(u)' = Inside(u)
  BY <1>2, <1>4 DEF Inside, ScopeTypes
<1> QED  BY <1>5, <1>6

\* What a pool thread's step between two tasks leaves of the others.
LEMMA WorkerKeeps ==
  ASSUME PoolInv, OneWorker, NEW w \in Workers, WorkerStep(w)
  PROVE  /\ \A u \in Threads : u # w => pc'[u] = pc[u] /\ Inside(u)' = Inside(u) /\ Actor(u)' = Actor(u)
         /\ ~Leaving(w)'
         /\ \A k \in Tasks : (Complete(k) => Complete(k)') /\ (promise[k] # "none" => promise'[k] # "none")
<1>1. WorkerMoves(w) /\ w \in Threads /\ scopes' = scopes
  BY WorkerStepMoves, WorkerFrame DEF Threads
<1>2. /\ \A u \in Threads : u # w => pc'[u] = pc[u] /\ Inside(u)' = Inside(u) /\ Actor(u)' = Actor(u)
      /\ ~Leaving(w)'
  BY <1>1 DEF WorkerMoves, Dequeue, WorkerEnd, Goto, Leaving, Inside, Actor, PoolInv, PoolTypeOK
<1>3. \A k \in Tasks : (Complete(k) => Complete(k)') /\ (promise[k] # "none" => promise'[k] # "none")
  BY <1>1 DEF WorkerMoves, Dequeue, WorkerEnd, Complete, PoolInv, PoolTypeOK
<1> QED  BY <1>2, <1>3

\* Only submit_task with a group registers a child.
LEMMA ChildrenUntouched ==
  ASSUME NEW t \in Threads, BodyStep(t), \A k \in Tasks : ~StartChild(t, k)
  PROVE  UNCHANGED <<children, groupOf, pending>>
BY DEF BodyStep, Program, ParentStep, LeavesBody, LetBegin, Spawn, AwaitCall, SubmitStep,
   AwaitDone, AwaitChild, AwaitAllReturns, DestroyChild, FreeGroup, BodyEnds, BodyRaises, groupVars

SInv == PoolInv /\ OneWorker /\ ScopeTypes /\ Owners

\* A child starts in a scope whose actor is in its body.
LEMMA StartChildMoves ==
  ASSUME SInv, ChildTypes, Registered, NEW t \in Threads, NEW k \in Tasks, StartChild(t, k)
  PROVE  /\ Scope(t) \in Groups /\ group[Scope(t)] = "open" /\ group' = group /\ scopes' = scopes
         /\ pc[t] = "run" /\ promise[k] = "none" /\ groupOf[k] = NoGroup
         /\ promise' = [promise EXCEPT ![k] = "pending"]
         /\ groupOf' = [groupOf EXCEPT ![k] = Scope(t)]
         /\ children' = [children EXCEPT ![Scope(t)] = Append(@, k)]
         /\ pending' = [pending EXCEPT ![Scope(t)] = @ + 1]
         /\ \A u \in Threads : Leaving(u) \/ Leaving(u)' =>
              /\ u # t /\ Leaving(u) /\ Scope(u) # Scope(t) /\ Scope(u) \in Groups
              /\ Scope(u)' = Scope(u) /\ cursor'[u] = cursor[u]
<1>1. /\ pc[t] = "run" /\ promise[k] = "none" /\ Inside(t) # <<>> /\ UNCHANGED <<group, scopes, cursor>>
      /\ promise' = [promise EXCEPT ![k] = "pending"]
      /\ groupOf' = [groupOf EXCEPT ![k] = Scope(t)]
      /\ children' = [children EXCEPT ![Scope(t)] = Append(@, k)]
      /\ pending' = [pending EXCEPT ![Scope(t)] = @ + 1]
      /\ pc'[t] \in {"queue", "register"} /\ \A u \in Threads : u # t => pc'[u] = pc[u]
      /\ task' = task
  BY DEF StartChild, Submit, NewTask, Goto, SInv, PoolInv
<1>2. groupOf[k] = NoGroup
  BY <1>1 DEF Registered
<1>3. /\ Active(t) /\ Scope(t) \in Groups /\ group[Scope(t)] = "open"
      /\ \A u \in Threads : Active(u) /\ Inside(u) # <<>> /\ Scope(u) = Scope(t) => u = t
  BY <1>1, ScopeDistinct DEF Active, SInv
<1>4. ASSUME NEW u \in Threads, Leaving(u) \/ Leaving(u)'
      PROVE  /\ u # t /\ Leaving(u) /\ Scope(u) # Scope(t) /\ Scope(u) \in Groups
             /\ Scope(u)' = Scope(u) /\ cursor'[u] = cursor[u]
  <2>1. u # t /\ Leaving(u) /\ Active(u) /\ Inside(u) # <<>>
    BY <1>1, <1>4 DEF Leaving, Active, SInv, Owners
  <2>2. Scope(u) # Scope(t) /\ Scope(u) \in Groups
    BY <1>3, <2>1, ScopeDistinct DEF SInv
  <2> QED  BY <1>1, <2>1, <2>2 DEF Scope, Inside, Actor
<1> QED  BY <1>1, <1>2, <1>3, <1>4

LEMMA StartChildRegisters ==
  ASSUME SInv, ChildTypes, Registered, NEW t \in Threads, NEW k \in Tasks, StartChild(t, k)
  PROVE  ChildTypes' /\ Registered'
<1> DEFINE g == Scope(t)
           n == Len(children[g]) + 1
<1>1. StaysInBody(t)
  BY BodyFrame DEF BodyStep, Program, SInv
<1>2. /\ g \in Groups /\ group[g] = "open" /\ group' = group /\ groupOf[k] = NoGroup
      /\ promise' = [promise EXCEPT ![k] = "pending"]
      /\ groupOf' = [groupOf EXCEPT ![k] = g] /\ children' = [children EXCEPT ![g] = Append(@, k)]
      /\ \A u \in Threads : Leaving(u)' => /\ Leaving(u) /\ Scope(u) # g /\ Scope(u) \in Groups
                                           /\ Scope(u)' = Scope(u) /\ cursor'[u] = cursor[u]
  BY StartChildMoves
<1>3. children[g] \in Seq(Tasks)
  BY <1>2 DEF ChildTypes
<1>4. /\ DOMAIN children'[g] = DOMAIN children[g] \cup {n} /\ children'[g][n] = k
      /\ \A i \in DOMAIN children[g] : children'[g][i] = children[g][i]
      /\ \A h \in Groups : h # g => children'[h] = children[h]
  BY <1>2, <1>3 DEF ChildTypes
<1>5. groupOf'[k] = g /\ \A j \in Tasks : j # k => groupOf'[j] = groupOf[j]
  BY <1>2 DEF ChildTypes
<1>6. ChildTypes'
  <2>1. cursor' = cursor  BY DEF StartChild
  <2> QED  BY <1>2, <1>3, <2>1 DEF ChildTypes
<1>7. ASSUME NEW u \in Threads, Leaving(u)'
      PROVE  \A i \in DOMAIN children'[Scope(u)'] : i < cursor'[u] => Complete(children[Scope(u)][i])'
  <2>1. children'[Scope(u)'] = children[Scope(u)] /\ children[Scope(u)] \in Seq(Tasks) /\ cursor'[u] = cursor[u]
    BY <1>2, <1>4, <1>7 DEF ChildTypes
  <2>2. \A i \in DOMAIN children[Scope(u)] : i < cursor[u] => Complete(children[Scope(u)][i])
    BY <1>2, <1>7 DEF Registered
  <2>3. \A i \in DOMAIN children[Scope(u)] : children[Scope(u)][i] \in Tasks
    BY <2>1
  <2> QED  BY <1>1, <2>1, <2>2, <2>3 DEF StaysInBody, Complete
<1>8. \A h \in Groups : group'[h] = "ended" => \A j \in ChildrenOf(h)' : Complete(j)'
  BY <1>1, <1>2, <1>5 DEF Registered, ChildrenOf, StaysInBody
<1>9. \A w \in Workers : pc'[w] \in {"record", "cancel", "fulfilled"} => Grouped(w)'
  <2>1. \A w \in Workers : pc'[w] \in {"record", "cancel", "fulfilled"} => pc'[w] = pc[w] /\ task'[w] \in Tasks
    BY <1>1 DEF StaysInBody, BodyLabels, Threads, SInv, PoolInv, TasksPlaced
  <2>2. NoGroup # g  BY <1>2, GroupAssumption
  <2> QED  BY <1>1, <1>5, <2>1, <2>2 DEF Registered, Grouped, StaysInBody
<1> HIDE DEF g, n
<1>10. \A h \in Groups : \A j \in Tasks :
         groupOf'[j] = h <=> \E i \in DOMAIN children'[h] : children'[h][i] = j
  BY <1>2, <1>4, <1>5, GroupAssumption DEF Registered
<1>11. \A j \in Tasks : groupOf'[j] # NoGroup => promise'[j] # "none"
  BY <1>2, <1>5 DEF Registered, SInv, PoolInv, PoolTypeOK
<1> QED  BY <1>6, <1>7, <1>8, <1>9, <1>10, <1>11 DEF Registered, Complete

\* What the cursor of a thread that is leaving its scope has passed.
Passed(t) == \A i \in DOMAIN children[Scope(t)] : i < cursor[t] => Complete(children[Scope(t)][i])

\* The steps of a thread that leaves its scope, and the others of its code that
\* register no child.
LEMMA CursorPasses ==
  ASSUME SInv, ChildTypes, Registered, NEW t \in Threads, BodyStep(t), \A k \in Tasks : ~StartChild(t, k)
  PROVE  cursor' \in [Threads -> Nat] /\ (Leaving(t)' => Passed(t)')
<1> USE DEF SInv, Passed
<1>1. StaysInBody(t) /\ UNCHANGED <<children, groupOf>>
  BY BodyFrame, ChildrenUntouched
<1>2. Leaving(t) => Active(t) /\ Inside(t) # <<>> /\ Scope(t) \in Groups /\ Passed(t)
  BY ScopeDistinct DEF Leaving, Active, Owners, Registered
<1>3. \A g \in Groups : \A i \in DOMAIN children[g] : children[g][i] \in Tasks /\ i \in Nat \ {0}
  BY DEF ChildTypes
<1>4. CASE AwaitChild(t) \/ DestroyChild(t)
  <2>1. /\ cursor' = [cursor EXCEPT ![t] = @ + 1] /\ Leaving(t) /\ ChildComplete(t)
        /\ UNCHANGED <<pc, scopes>>
    BY <1>4 DEF AwaitChild, DestroyChild, poolVars, Leaving
  <2>2. Scope(t)' = Scope(t) /\ Scope(t) \in Groups
    BY <1>1, <1>2, <2>1 DEF StaysInBody, Scope, Inside, Actor
  <2>3. cursor' \in [Threads -> Nat] /\ cursor'[t] = cursor[t] + 1 /\ cursor[t] \in Nat
    BY <2>1 DEF ChildTypes
  <2>4. ASSUME NEW i \in DOMAIN children[Scope(t)], i < cursor[t] + 1
        PROVE  Complete(children[Scope(t)][i])
    <3>1. i < cursor[t] \/ i = cursor[t]
      BY <1>3, <2>2, <2>3, <2>4
    <3> QED  BY <1>2, <2>1, <2>4, <3>1 DEF ChildComplete, Complete
  <2>5. \A i \in DOMAIN children[Scope(t)] : i < cursor'[t] => Complete(children[Scope(t)][i])'
    <3>1. \A i \in DOMAIN children[Scope(t)] : i < cursor'[t] => Complete(children[Scope(t)][i])
      BY <2>3, <2>4
    <3> QED  BY <1>1, <1>3, <2>2, <3>1 DEF StaysInBody, Complete
  <2> QED  BY <1>1, <2>2, <2>3, <2>5
<1>5. CASE AwaitAllReturns(t) \/ LeavesBody(t)
  <2>1. cursor' = [cursor EXCEPT ![t] = 1] /\ UNCHANGED scopes
    BY <1>5 DEF AwaitAllReturns, LeavesBody, BodyEnds, BodyRaises
  <2>2. Inside(t) # <<>> /\ Active(t)
    BY <1>5, <1>2 DEF AwaitAllReturns, LeavesBody, BodyEnds, BodyRaises, Goto, Leaving, Active
  <2>3. Scope(t)' = Scope(t) /\ Scope(t) \in Groups
    BY <1>1, <2>1, <2>2, ScopeDistinct DEF StaysInBody, Scope, Inside, Actor
  <2>4. cursor' \in [Threads -> Nat] /\ cursor'[t] = 1
    BY <2>1 DEF ChildTypes
  <2> QED  BY <1>1, <1>3, <2>3, <2>4
<1>6. CASE FreeGroup(t)
  BY <1>6 DEF FreeGroup, Goto, Leaving, PoolInv, ChildTypes
<1>7. CASE SubmitStep(t) \/ AwaitDone(t) \/ Program(t)
  <2>1. cursor' = cursor
    BY <1>7 DEF SubmitStep, AwaitDone, Program, LetBegin, StartChild, Spawn, AwaitCall, groupVars
  <2>2. ~Leaving(t)'
    BY <1>7 DEF SubmitStep, AwaitDone, Program, LetBegin, StartChild, Spawn, AwaitCall, Submit, Await,
       Register, TaskQueued, Enqueue, AwaitReturn, Goto, Leaving, PoolInv, poolVars
  <2> QED  BY <2>1, <2>2 DEF ChildTypes
<1> QED  BY <1>4, <1>5, <1>6, <1>7 DEF BodyStep, ParentStep

\* A cursor at the end has passed all the children.
LEMMA AllPassed ==
  ASSUME SInv, ChildTypes, Registered, NEW t \in Threads, Leaving(t), cursor[t] > Len(children[Scope(t)])
  PROVE  \A k \in ChildrenOf(Scope(t)) : Complete(k)
<1>1. Active(t) /\ Inside(t) # <<>> /\ Scope(t) \in Groups
  BY ScopeDistinct DEF Leaving, Active, Owners, SInv
<1>2. \A i \in DOMAIN children[Scope(t)] : i < cursor[t]
  BY <1>1 DEF ChildTypes
<1> QED  BY <1>1, <1>2 DEF Registered, ChildrenOf

LEMMA NextRegistered == SInv /\ ChildTypes /\ Registered /\ Next => ChildTypes' /\ Registered'
<1> SUFFICES ASSUME SInv, ChildTypes, Registered, Next PROVE ChildTypes' /\ Registered'
  OBVIOUS
<1>0. \A w \in Workers : pc[w] \in {"record", "cancel", "fulfilled"} => task[w] \in Tasks
  BY DEF SInv, PoolInv, TasksPlaced
<1>1. ASSUME NEW t \in Threads, BodyStep(t), \A k \in Tasks : ~StartChild(t, k)
      PROVE  ChildTypes' /\ Registered'
  <2>1. StaysInBody(t) /\ UNCHANGED <<children, groupOf>>
    BY <1>1, BodyFrame, ChildrenUntouched DEF SInv
  <2>2. ChildTypes'
    BY <1>1, <2>1, CursorPasses DEF ChildTypes
  <2>3. ASSUME NEW u \in Threads, Leaving(u)'  PROVE Passed(u)'
    <3>1. CASE u = t  BY <1>1, <2>3, <3>1, CursorPasses
    <3>2. CASE u # t
      <4>1. Leaving(u) /\ Active(u) /\ Scope(u)' = Scope(u) /\ cursor'[u] = cursor[u]
        BY <1>1, <2>1, <2>3, <3>2, BodyKeeps DEF StaysInBody, Leaving, Active, Scope, SInv
      <4>2. Scope(u) \in Groups
        BY <4>1, ScopeDistinct DEF SInv, Owners
      <4>3. \A i \in DOMAIN children[Scope(u)] : children[Scope(u)][i] \in Tasks
        BY <4>2 DEF ChildTypes
      <4> QED  BY <2>1, <4>1, <4>3 DEF Passed, Registered, StaysInBody, Complete
    <3> QED  BY <3>1, <3>2
  <2>4. \A g \in Groups : group'[g] = "ended" => group[g] = "ended" \/ \A k \in ChildrenOf(g) : Complete(k)
    <3>1. CASE FreeGroup(t)
      BY <3>1, AllPassed DEF FreeGroup, Leaving, SInv, ScopeTypes
    <3>2. CASE ~FreeGroup(t)
      BY <1>1, <3>2, ScopesUntouched DEF LetBegin, SInv, ScopeTypes
    <3> QED  BY <3>1, <3>2
  <2>5. \A w \in Workers : pc'[w] \in {"record", "cancel", "fulfilled"} => pc'[w] = pc[w]
    BY <2>1 DEF StaysInBody, BodyLabels, Threads
  <2> QED  BY <2>1, <2>2, <2>3, <2>4, <2>5 DEF StaysInBody, Registered, ChildrenOf, Grouped, Passed
<1>2. ASSUME NEW w \in Workers, WorkerStep(w)  PROVE ChildTypes' /\ Registered'
  <2>1. /\ UNCHANGED <<group, children, groupOf, cursor>>
        /\ \A u \in Threads : u # w => pc'[u] = pc[u] /\ Inside(u)' = Inside(u)
        /\ ~Leaving(w)'
    BY <1>2, WorkerFrame, WorkerKeeps DEF SInv
  <2>9. /\ UNCHANGED <<group, children, groupOf>>
        /\ \A k \in Tasks : (Complete(k) => Complete(k)') /\ (promise[k] # "none" => promise'[k] # "none")
    BY <1>2, WorkerFrame, WorkerKeeps DEF SInv
  <2>2. ASSUME NEW u \in Threads, Leaving(u)'  PROVE Passed(u)'
    <3>1. Leaving(u) /\ Active(u) /\ Scope(u)' = Scope(u)
      BY <2>1, <2>2 DEF Leaving, Active, Scope
    <3>2. Scope(u) \in Groups
      BY <3>1, ScopeDistinct DEF SInv, Owners
    <3>3. \A i \in DOMAIN children[Scope(u)] : children[Scope(u)][i] \in Tasks
      BY <3>2 DEF ChildTypes
    <3>4. \A i \in DOMAIN children[Scope(u)] : i < cursor[u] => Complete(children[Scope(u)][i])
      BY <3>1 DEF Registered
    <3>5. \A i \in DOMAIN children[Scope(u)] : i < cursor[u] => Complete(children[Scope(u)][i])'
      BY <2>9, <3>1, <3>3, <3>4 DEF Complete
    <3> QED  BY <2>1, <3>1, <3>5 DEF Passed
  <2>3. w \in Threads  BY DEF Threads
  <2>4. pc'[w] \in {"record", "cancel", "fulfilled"} => Grouped(w) /\ task'[w] = task[w]
    <3>1. CASE TaskTaken(w) \/ TaskStarts(w) \/ TaskLeft(w)
      BY <2>3, <3>1 DEF TaskTaken, TaskStarts, TaskLeft, Dequeue, WorkerBegin, WorkerEnd, Goto, SInv, PoolInv
    <3>2. CASE Run(w) \/ RecordError(w) \/ CancelGroup(w) \/ CountOut(w) \/ TaskRaises(w)
      BY <2>3, <3>2 DEF Run, RecordError, CancelGroup, CountOut, TaskRaises, OnlyPc, Goto, SInv, PoolInv,
         Registered, taskVars
    <3>3. CASE Skip(w) \/ FailPromise(w) \/ TaskReturns(w)
      BY <2>3, <3>3 DEF Skip, FailPromise, TaskReturns, AfterPromise, Fulfil, Goto, SInv, PoolInv
    <3> QED  BY <1>2, <3>1, <3>2, <3>3 DEF WorkerStep, TaskEnds, ChildStep
  <2>5. \A x \in Workers : x # w /\ pc'[x] \in {"record", "cancel", "fulfilled"} => Grouped(x) /\ task'[x] = task[x]
    <3>1. \A x \in Workers : x # w => task'[x] = task[x]
      BY <1>2, WorkerStepMoves DEF WorkerMoves, Dequeue, WorkerEnd, SInv, PoolInv, PoolTypeOK
    <3> QED  BY <2>1, <3>1 DEF Registered, Threads
  <2>6. \A x \in Workers : pc'[x] \in {"record", "cancel", "fulfilled"} => Grouped(x)'
    BY <2>1, <2>4, <2>5 DEF Grouped
  <2>7. \A g \in Groups : group'[g] = "ended" => \A k \in ChildrenOf(g)' : Complete(k)'
    BY <2>9 DEF Registered, ChildrenOf, Complete
  <2>8. ChildTypes'
    BY <2>1 DEF ChildTypes
  <2> QED  BY <2>2, <2>6, <2>7, <2>8, <2>9 DEF Registered, Passed
<1> QED  BY <1>1, <1>2, StartChildRegisters DEF Next, BodyStep, WorkerStep

-----------------------------------------------------------------------------
(* pending_count *)

CountingOut(k) == \E w \in Workers : pc[w] = "fulfilled" /\ task[w] = k

\* A step that leaves every child on the same side of the count.
LEMMA PendingKept ==
  ASSUME PendingCounted, UNCHANGED <<groupOf, pending>>,
         \A k \in Tasks : groupOf[k] \in Groups =>
           (Unfinished(k)' \/ CountingOut(k)' <=> Unfinished(k) \/ CountingOut(k))
  PROVE  PendingCounted'
<1>1. \A g \in Groups : Uncounted(g)' = Uncounted(g)
  BY DEF Uncounted, ChildrenOf, CountingOut
<1> QED  BY <1>1 DEF PendingCounted

LEMMA StartChildPending ==
  ASSUME SInv, ChildTypes, Registered, PendingCounted, pending \in [Groups -> Nat],
         NEW t \in Threads, NEW k \in Tasks, StartChild(t, k)
  PROVE  PendingCounted' /\ pending' \in [Groups -> Nat]
<1>0. PICK g \in Groups : g = Scope(t)
  BY StartChildMoves
<1>1. /\ promise[k] = "none" /\ groupOf[k] = NoGroup
      /\ promise' = [promise EXCEPT ![k] = "pending"] /\ groupOf' = [groupOf EXCEPT ![k] = g]
      /\ pending' = [pending EXCEPT ![g] = @ + 1]
  BY <1>0, StartChildMoves
<1>2. StaysInBody(t)  BY BodyFrame DEF BodyStep, Program, SInv
<1>3. \A j : CountingOut(j)' <=> CountingOut(j)
  BY <1>2 DEF StaysInBody, BodyLabels, CountingOut, Threads
<1>4. /\ promise'[k] = "pending" /\ groupOf'[k] = g
      /\ \A j \in Tasks : j # k => promise'[j] = promise[j] /\ groupOf'[j] = groupOf[j]
  BY <1>1 DEF ChildTypes, SInv, PoolInv, PoolTypeOK
<1>5. k \notin Uncounted(g) /\ Uncounted(g)' = Uncounted(g) \cup {k}
  BY <1>1, <1>3, <1>4, GroupAssumption DEF Uncounted, ChildrenOf, CountingOut, Unfinished
<1>6. \A h \in Groups : h # g => Uncounted(h)' = Uncounted(h)
  BY <1>1, <1>3, <1>4, GroupAssumption DEF Uncounted, ChildrenOf, CountingOut, Unfinished
<1>7. pending' \in [Groups -> Nat] /\ pending'[g] = pending[g] + 1
      /\ \A h \in Groups : h # g => pending'[h] = pending[h]
  BY <1>1
<1>8. IsFiniteSet(Uncounted(g)') /\ Cardinality(Uncounted(g)') = Cardinality(Uncounted(g)) + 1
  BY <1>1, <1>5, FS_AddElement DEF PendingCounted
<1>9. pending'[g] = Cardinality(Uncounted(g)')
  BY <1>1, <1>7, <1>8 DEF PendingCounted
<1>10. \A h \in Groups : IsFiniteSet(Uncounted(h)') /\ pending'[h] = Cardinality(Uncounted(h)')
  BY <1>6, <1>7, <1>8, <1>9 DEF PendingCounted
<1> QED  BY <1>7, <1>10 DEF PendingCounted

LEMMA CountOutPending ==
  ASSUME SInv, ChildTypes, Registered, PendingCounted, pending \in [Groups -> Nat],
         NEW w \in Workers, CountOut(w)
  PROVE  PendingCounted' /\ pending' \in [Groups -> Nat]
<1>0. w \in Threads  BY DEF Threads
<1>1. /\ pc[w] = "fulfilled" /\ pc' = [pc EXCEPT ![w] = "end"] /\ UNCHANGED <<task, promise, groupOf>>
      /\ pending' = [pending EXCEPT ![groupOf[task[w]]] = @ - 1]
  BY DEF CountOut, Goto, OnlyPc, taskVars, Unchanged
<1>2. PICK k \in Tasks, g \in Groups : k = task[w] /\ g = groupOf[k] /\ Complete(k)
  <2>1. task[w] \in Tasks /\ Complete(task[w]) /\ groupOf[task[w]] # NoGroup
    BY <1>1 DEF SInv, PoolInv, TasksPlaced, OneWorker, Registered, Grouped
  <2> QED  BY <2>1 DEF ChildTypes
<1>3. pc'[w] = "end" /\ \A x \in Workers : x # w => pc'[x] = pc[x]
  BY <1>0, <1>1 DEF SInv, PoolInv, Threads
<1>4. \A x \in Workers : x # w /\ pc[x] = "fulfilled" => task[x] # k
  BY <1>1, <1>2 DEF SInv, OneWorker
<1>5. \A j : CountingOut(j)' <=> j # k /\ CountingOut(j)
  BY <1>1, <1>2, <1>3, <1>4 DEF CountingOut
<1>6. CountingOut(k)
  BY <1>1, <1>2 DEF CountingOut
<1>7. k \in Uncounted(g) /\ Uncounted(g)' = Uncounted(g) \ {k}
  BY <1>1, <1>2, <1>5, <1>6 DEF Uncounted, ChildrenOf, CountingOut, Unfinished, Complete
<1>8. \A h \in Groups : h # g => Uncounted(h)' = Uncounted(h)
  BY <1>1, <1>2, <1>5 DEF Uncounted, ChildrenOf, CountingOut, Unfinished, Complete
<1>9. /\ IsFiniteSet(Uncounted(g)) /\ Cardinality(Uncounted(g)) \in Nat
      /\ IsFiniteSet(Uncounted(g)') /\ Cardinality(Uncounted(g)') = Cardinality(Uncounted(g)) - 1
      /\ Cardinality(Uncounted(g)') \in Nat
  <2>1. IsFiniteSet(Uncounted(g))  BY <1>2 DEF PendingCounted
  <2>2. IsFiniteSet(Uncounted(g) \ {k}) /\ Cardinality(Uncounted(g) \ {k}) = Cardinality(Uncounted(g)) - 1
    BY <1>7, <2>1, FS_RemoveElement
  <2>3. IsFiniteSet(Uncounted(g)') /\ Cardinality(Uncounted(g)') = Cardinality(Uncounted(g)) - 1
    BY <1>7, <2>2
  <2> QED  BY <2>1, <2>3, FS_CardinalityType
<1>10. pending'[g] = pending[g] - 1 /\ \A h \in Groups : h # g => pending'[h] = pending[h]
  BY <1>1, <1>2
<1>11. pending[g] = Cardinality(Uncounted(g))
  BY <1>2 DEF PendingCounted
<1>12. pending'[g] = Cardinality(Uncounted(g)') /\ pending'[g] \in Nat
  BY <1>9, <1>10, <1>11
<1>13. \A h \in Groups : IsFiniteSet(Uncounted(h)') /\ pending'[h] = Cardinality(Uncounted(h)')
  BY <1>8, <1>9, <1>10, <1>12 DEF PendingCounted
<1>14. pending' \in [Groups -> Nat]
  BY <1>1, <1>2, <1>12
<1> QED  BY <1>13, <1>14 DEF PendingCounted

LEMMA NextPending ==
  SInv /\ ChildTypes /\ Registered /\ PendingCounted /\ pending \in [Groups -> Nat] /\ Next
    => PendingCounted' /\ pending' \in [Groups -> Nat]
<1> SUFFICES ASSUME SInv, ChildTypes, Registered, PendingCounted, pending \in [Groups -> Nat], Next
             PROVE  PendingCounted' /\ pending' \in [Groups -> Nat]
  OBVIOUS
<1>1. ASSUME NEW t \in Threads, BodyStep(t), \A k \in Tasks : ~StartChild(t, k)
      PROVE  PendingCounted' /\ pending' \in [Groups -> Nat]
  <2>1. StaysInBody(t) /\ UNCHANGED <<groupOf, pending>>
    BY <1>1, BodyFrame, ChildrenUntouched DEF SInv
  <2>2. \A k : CountingOut(k)' <=> CountingOut(k)
    BY <2>1 DEF StaysInBody, BodyLabels, CountingOut, Threads
  <2>3. \A k \in Tasks : groupOf[k] \in Groups => (Unfinished(k)' <=> Unfinished(k))
    BY <2>1, GroupAssumption DEF StaysInBody, Complete, Unfinished, Registered
  <2> QED  BY <2>1, <2>2, <2>3, PendingKept
<1>2. ASSUME NEW w \in Workers, WorkerStep(w), ~CountOut(w)
      PROVE  PendingCounted' /\ pending' \in [Groups -> Nat]
  <2>0. w \in Threads  BY DEF Threads
  <2> USE DEF SInv, PoolInv, PoolTypeOK
  <2>1. groupOf' = groupOf /\ pending' = pending
    BY <1>2 DEF WorkerStep, TaskTaken, TaskStarts, TaskLeft, TaskEnds, TaskReturns, TaskRaises,
       ChildStep, Skip, Run, RecordError, CancelGroup, FailPromise, Unchanged, groupVars
  <2>2. CASE Skip(w) \/ FailPromise(w) \/ TaskReturns(w)
    <3>1. PICK from \in Quiet, how \in {"done", "failed"}, to \in {"fulfilled", "end"} :
            Fulfil(w, from, how, to) /\ (to = "end" => ~Grouped(w))
      BY <2>2 DEF TaskReturns, Skip, FailPromise, AfterPromise, Quiet
    <3>2. task[w] \in Tasks /\ promise[task[w]] = "pending" /\ promise' = [promise EXCEPT ![task[w]] = how]
      BY <3>1, FulfilPool
    <3>3. task' = task /\ pc[w] = from /\ pc'[w] = to /\ \A x \in Workers : x # w => pc'[x] = pc[x]
      BY <2>0, <3>1 DEF Fulfil, Goto, Threads
    <3>4. \A k : k # task[w] => (CountingOut(k)' <=> CountingOut(k))
      BY <3>1, <3>3 DEF CountingOut, Quiet
    <3>6. \A k \in Tasks : k # task[w] => promise'[k] = promise[k]
      BY <3>2
    <3>8. \A k \in Tasks : groupOf[k] \in Groups =>
            (Unfinished(k)' \/ CountingOut(k)' <=> Unfinished(k) \/ CountingOut(k))
      <4> SUFFICES ASSUME NEW k \in Tasks, groupOf[k] \in Groups
                   PROVE  Unfinished(k)' \/ CountingOut(k)' <=> Unfinished(k) \/ CountingOut(k)
        OBVIOUS
      <4>1. CASE k = task[w]
        <5>1. CountingOut(k)'  BY <3>1, <3>3, <4>1, GroupAssumption DEF CountingOut, Grouped
        <5> QED  BY <3>2, <4>1, <5>1 DEF Unfinished
      <4>2. CASE k # task[w]
        BY <3>4, <3>6, <4>2 DEF Unfinished, CountingOut
      <4> QED  BY <4>1, <4>2
    <3> QED  BY <2>1, <3>8, PendingKept
  <2>3. CASE TaskTaken(w) \/ TaskStarts(w) \/ TaskLeft(w) \/ Run(w) \/ RecordError(w) \/ CancelGroup(w)
               \/ TaskRaises(w)
    <3>1. /\ promise' = promise /\ pc[w] # "fulfilled" /\ pc'[w] # "fulfilled"
          /\ \A x \in Workers : x # w => pc'[x] = pc[x] /\ task'[x] = task[x]
      BY <2>0, <2>3 DEF TaskTaken, TaskStarts, TaskLeft, Run, RecordError, CancelGroup, TaskRaises, OnlyPc,
         Dequeue, WorkerBegin, WorkerEnd, Goto, taskVars, Threads
    <3>2. \A k : CountingOut(k)' <=> CountingOut(k)
      BY <3>1 DEF CountingOut
    <3>3. \A k \in Tasks : Unfinished(k)' <=> Unfinished(k)
      BY <3>1 DEF Unfinished
    <3> QED  BY <2>1, <3>2, <3>3, PendingKept
  <2> QED  BY <1>2, <2>2, <2>3 DEF WorkerStep, TaskEnds, ChildStep
<1> QED  BY <1>1, <1>2, StartChildPending, CountOutPending DEF Next, BodyStep, WorkerStep

-----------------------------------------------------------------------------
(* Errors *)

EInv == ErrorTypes /\ Errors

\* A step that changes no error: what a task is child of stays where it matters.
LEMMA ErrorsKept ==
  ASSUME SInv, ChildTypes, Registered, Errors, UNCHANGED <<cancelled, firstError, result>>,
         \A k \in Tasks : /\ Complete(k)' <=> Complete(k)
                          /\ promise[k] # "none" => groupOf'[k] = groupOf[k],
         \A w \in Workers : /\ Raising(w)' <=> Raising(w)
                            /\ Raising(w) => task'[w] = task[w] /\ pc'[w] = pc[w]
  PROVE  Errors'
<1>1. \A w \in Workers : Raising(w) => task[w] \in Tasks /\ promise[task[w]] # "none"
  BY DEF SInv, PoolInv, TasksPlaced, Held, Holding, Raising
<1>2. \A w \in Workers : Raising(w)' => result'[task'[w]] = "raised"
  BY DEF Errors
<1>3. \A w \in Workers : pc'[w] = "cancel" \/ (pc'[w] = "fail" /\ Grouped(w)') => HasError(groupOf[task[w]])'
  <2> SUFFICES ASSUME NEW w \in Workers, pc'[w] = "cancel" \/ (pc'[w] = "fail" /\ Grouped(w)')
               PROVE  HasError(groupOf[task[w]])'
    OBVIOUS
  <2>1. Raising(w) /\ task'[w] = task[w] /\ pc'[w] = pc[w]
    BY DEF Raising
  <2>2. groupOf'[task[w]] = groupOf[task[w]]
    BY <1>1, <2>1
  <2> QED  BY <2>1, <2>2 DEF Errors, Grouped, HasError
<1>4. \A k \in Tasks : result'[k] = "none" <=> ~Complete(k)' /\ ~\E w \in Workers : task'[w] = k /\ Raising(w)'
  BY DEF Errors
<1>5. \A g \in Groups : cancelled'[g] => HasError(g)'
  BY DEF Errors, HasError
<1>6. \A g \in Groups : HasError(g)' => firstError'[g] \in ChildrenOf(g)' /\ result'[firstError'[g]] = "raised"
  BY GroupAssumption DEF Errors, HasError, ChildrenOf, Registered
<1>7. \A k \in Tasks : groupOf'[k] # NoGroup /\ Complete(k)' /\ result'[k] # "ok" => HasError(groupOf[k])'
  BY DEF Errors, HasError, Complete
<1> QED  BY <1>2, <1>3, <1>4, <1>5, <1>6, <1>7 DEF Errors, HasError

\* What a pool thread with a task in hand knows: nobody else has it.
LEMMA TaskOwned ==
  ASSUME SInv, NEW w \in Workers, Holding(w)
  PROVE  /\ task[w] \in Tasks /\ promise[task[w]] = "pending" /\ ~Complete(task[w])
         /\ \A x \in Workers : Raising(x) /\ task[x] = task[w] => x = w
BY DEF SInv, PoolInv, TasksPlaced, OneWorker, Held, Holding, Complete, Raising

\* A task that has neither raised nor ended comes to its end, one way or another.
LEMMA SettleErrors ==
  ASSUME SInv, ChildTypes, Registered, EInv, NEW w \in Workers, pc[w] \in {"begun", "run"},
         NEW what \in {"ok", "raised", "skipped"}, result' = [result EXCEPT ![task[w]] = what],
         UNCHANGED <<task, groupOf, cancelled, firstError>>,
         \A x \in Workers : x # w => pc'[x] = pc[x],
         IF what = "raised" THEN /\ promise' = promise
                                 /\ pc'[w] = IF Grouped(w) THEN "record" ELSE "fail"
         ELSE /\ \E how \in {"done", "failed"} : promise' = [promise EXCEPT ![task[w]] = how]
              /\ pc'[w] \in {"fulfilled", "end"}
              /\ what = "skipped" => Grouped(w) /\ cancelled[groupOf[task[w]]]
  PROVE  Errors'
<1>1. PICK k \in Tasks : k = task[w]
  BY TaskOwned DEF Holding
<1>2. /\ promise[k] = "pending" /\ ~Complete(k) /\ ~Raising(w)
      /\ \A x \in Workers : Raising(x) => task[x] # k
  BY <1>1, TaskOwned DEF Holding, Raising
<1>3. result[k] = "none"
  BY <1>2 DEF EInv, Errors
<1>4. result'[k] = what /\ \A j : j \in Tasks /\ j # k => result'[j] = result[j]
  BY <1>1 DEF EInv, ErrorTypes
<1>5. /\ \A x \in Workers : x # w => (Raising(x)' <=> Raising(x)) /\ pc'[x] = pc[x]
      /\ Raising(w)' <=> what = "raised"
  BY DEF Raising
<1>6. \A x \in Workers : Raising(x) => task[x] \in Tasks
  BY TaskOwned DEF Raising, Holding
<1>7. Complete(k)' <=> what # "raised"
  BY <1>1, <1>2 DEF Complete, SInv, PoolInv, PoolTypeOK
<1>8. \A j \in Tasks : j # k => (Complete(j)' <=> Complete(j))
  BY <1>1 DEF Complete, SInv, PoolInv, PoolTypeOK
<1>9. \A x \in Workers : Raising(x)' => result'[task'[x]] = "raised"
  BY <1>1, <1>2, <1>4, <1>5, <1>6 DEF EInv, Errors
<1>10. \A x \in Workers : pc'[x] = "cancel" \/ (pc'[x] = "fail" /\ Grouped(x)') => HasError(groupOf[task[x]])'
  BY <1>5 DEF EInv, Errors, HasError, Grouped
<1>11. \A j \in Tasks : result'[j] = "none" <=> ~Complete(j)' /\ ~\E x \in Workers : task'[x] = j /\ Raising(x)'
  <2> SUFFICES ASSUME NEW j \in Tasks
               PROVE  result'[j] = "none" <=> ~Complete(j)' /\ ~\E x \in Workers : task'[x] = j /\ Raising(x)'
    OBVIOUS
  <2>1. CASE j = k
    BY <1>1, <1>4, <1>5, <1>7, <2>1
  <2>2. CASE j # k
    BY <1>1, <1>4, <1>5, <1>8, <2>2 DEF EInv, Errors
  <2> QED  BY <2>1, <2>2
<1>12. \A g \in Groups : cancelled'[g] => HasError(g)'
  BY DEF EInv, Errors, HasError
<1>13. \A g \in Groups : HasError(g)' => firstError'[g] \in ChildrenOf(g)' /\ result'[firstError'[g]] = "raised"
  BY <1>3, <1>4 DEF EInv, Errors, HasError, ChildrenOf
<1>14. \A j \in Tasks : groupOf'[j] # NoGroup /\ Complete(j)' /\ result'[j] # "ok" => HasError(groupOf[j])'
  <2> SUFFICES ASSUME NEW j \in Tasks, groupOf[j] # NoGroup, Complete(j)', result'[j] # "ok"
               PROVE  HasError(groupOf[j])
    BY DEF HasError
  <2>1. CASE j = k
    <3>1. what = "skipped"  BY <1>4, <1>7, <2>1
    <3>2. cancelled[groupOf[k]] /\ groupOf[k] \in Groups
      BY <1>1, <2>1, <3>1 DEF ChildTypes
    <3> QED  BY <2>1, <3>2 DEF EInv, Errors
  <2>2. CASE j # k
    BY <1>4, <1>8, <2>2 DEF EInv, Errors
  <2> QED  BY <2>1, <2>2
<1> QED  BY <1>9, <1>10, <1>11, <1>12, <1>13, <1>14 DEF Errors, HasError

\* The three steps of a child that raised: the error, the flag, the promise.
LEMMA RaisingErrors ==
  ASSUME SInv, ChildTypes, Registered, EInv, NEW w \in Workers,
         RecordError(w) \/ CancelGroup(w) \/ FailPromise(w)
  PROVE  Errors'
<1>0. w \in Threads /\ Raising(w) /\ Holding(w)
  BY DEF Threads, RecordError, CancelGroup, FailPromise, Goto, Raising, Holding
<1>1. PICK k \in Tasks : k = task[w]
  BY <1>0, TaskOwned
<1>2. /\ promise[k] = "pending" /\ ~Complete(k) /\ result[k] = "raised"
      /\ \A x \in Workers : Raising(x) /\ x # w => task[x] # k
  BY <1>0, <1>1, TaskOwned DEF EInv, Errors
<1>3. UNCHANGED <<task, groupOf, result>> /\ \A x \in Workers : x # w => pc'[x] = pc[x]
  BY DEF RecordError, CancelGroup, FailPromise, Fulfil, Goto, OnlyPc, Unchanged, taskVars, groupVars, SInv,
     PoolInv, Threads
<1>4. \A x \in Workers : Raising(x) => task[x] \in Tasks
  BY TaskOwned DEF Raising, Holding
<1>5. \A j \in Tasks : j # k => (Complete(j)' <=> Complete(j))
  BY <1>1 DEF RecordError, CancelGroup, FailPromise, Fulfil, OnlyPc, taskVars, Complete, SInv, PoolInv, PoolTypeOK
<1>6. CASE FailPromise(w)
  <2>1. /\ UNCHANGED <<cancelled, firstError>> /\ pc[w] = "fail" /\ pc'[w] \in {"fulfilled", "end"}
        /\ Complete(k)'
    BY <1>0, <1>1, <1>2, <1>6 DEF FailPromise, AfterPromise, Fulfil, Goto, groupVars, Complete, SInv, PoolInv,
       PoolTypeOK
  <2>2. \A x \in Workers : (Raising(x)' <=> x # w /\ Raising(x)) /\ (x # w => pc'[x] = pc[x])
    BY <1>3, <2>1 DEF Raising
  <2>3. \A j \in Tasks : result'[j] = "none" <=> ~Complete(j)' /\ ~\E x \in Workers : task'[x] = j /\ Raising(x)'
    <3> SUFFICES ASSUME NEW j \in Tasks
                 PROVE  result[j] = "none" <=> ~Complete(j)' /\ ~\E x \in Workers : task[x] = j /\ Raising(x)'
      BY <1>3
    <3>1. CASE j = k  BY <1>2, <2>1, <3>1
    <3>2. CASE j # k  BY <1>1, <1>5, <2>2, <3>2 DEF EInv, Errors
    <3> QED  BY <3>1, <3>2
  <2>4. groupOf[k] # NoGroup => HasError(groupOf[k])
    BY <1>1, <2>1 DEF EInv, Errors, Grouped
  <2>5. \A j \in Tasks : groupOf[j] # NoGroup /\ Complete(j)' /\ result[j] # "ok" => HasError(groupOf[j])
    BY <1>5, <2>4 DEF EInv, Errors
  <2>6. \A x \in Workers : pc'[x] = "cancel" \/ (pc'[x] = "fail" /\ Grouped(x)) => HasError(groupOf[task[x]])
    BY <2>1, <2>2 DEF EInv, Errors
  <2>7. \A x \in Workers : Raising(x)' => result[task[x]] = "raised"
    BY <2>2 DEF EInv, Errors
  <2> QED  BY <1>3, <2>1, <2>3, <2>5, <2>6, <2>7 DEF EInv, Errors, HasError, Grouped, ChildrenOf
<1>7. CASE RecordError(w) \/ CancelGroup(w)
  <2>1. PICK g \in Groups : g = groupOf[k]
    BY <1>1, <1>7 DEF RecordError, CancelGroup, Goto, Registered, Grouped, ChildTypes
  <2>2. /\ promise' = promise
        /\ \/ /\ pc[w] = "record" /\ pc'[w] = "cancel" /\ cancelled' = cancelled
              /\ firstError' = [firstError EXCEPT ![g] = IF HasError(g) THEN @ ELSE k]
           \/ /\ pc[w] = "cancel" /\ pc'[w] = "fail" /\ firstError' = firstError
              /\ cancelled' = [cancelled EXCEPT ![g] = TRUE]
    BY <1>0, <1>1, <1>7, <2>1 DEF RecordError, CancelGroup, Goto, OnlyPc, taskVars, Unchanged, SInv, PoolInv
  <2>3. /\ \A x \in Workers : (Raising(x)' <=> Raising(x)) /\ (x # w => pc'[x] = pc[x])
        /\ pc'[w] \in {"cancel", "fail"}
    BY <1>3, <2>2 DEF Raising
  <2>4. /\ \A h \in Groups : HasError(h) => firstError'[h] = firstError[h] /\ HasError(h)'
        /\ \A h \in Groups : HasError(h)' => HasError(h) \/ (h = g /\ firstError'[h] = k)
        /\ HasError(g)' /\ \A h \in Groups : cancelled'[h] => cancelled[h] \/ h = g
    <3>1. NoTask # k  BY PoolAssumption
    <3> QED  BY <1>1, <2>1, <2>2, <3>1 DEF HasError, EInv, ErrorTypes, Errors
  <2>5. \A j \in Tasks : Complete(j)' <=> Complete(j)
    BY <2>2 DEF Complete
  <2>6. \A x \in Workers : Raising(x)' => result[task[x]] = "raised"
    BY <2>3 DEF EInv, Errors
  <2>7. \A x \in Workers : pc'[x] = "cancel" \/ (pc'[x] = "fail" /\ Grouped(x))
                             => groupOf[task[x]] \in Groups /\ HasError(groupOf[task[x]])'
    <3> SUFFICES ASSUME NEW x \in Workers, pc'[x] = "cancel" \/ (pc'[x] = "fail" /\ Grouped(x))
                 PROVE  groupOf[task[x]] \in Groups /\ HasError(groupOf[task[x]])'
      OBVIOUS
    <3>1. CASE x = w
      BY <1>1, <1>3, <2>1, <2>4, <3>1
    <3>2. CASE x # w
      <4>1. /\ pc'[x] = pc[x] /\ HasError(groupOf[task[x]]) /\ task[x] \in Tasks
            /\ pc[x] = "cancel" => Grouped(x)
        BY <1>4, <2>3, <3>2 DEF EInv, Errors, Raising, Registered
      <4>2. groupOf[task[x]] \in Groups
        BY <4>1, <3>2 DEF ChildTypes, Grouped
      <4> QED  BY <1>3, <2>4, <4>1, <4>2 DEF HasError
    <3> QED  BY <3>1, <3>2
  <2>8. \A h \in Groups : cancelled'[h] => HasError(h)'
    BY <2>4 DEF EInv, Errors
  <2>9. \A h \in Groups : HasError(h)' => firstError'[h] \in ChildrenOf(h) /\ result[firstError'[h]] = "raised"
    BY <1>2, <2>1, <2>4 DEF EInv, Errors, ChildrenOf
  <2>10. \A j \in Tasks : groupOf[j] # NoGroup /\ Complete(j)' /\ result[j] # "ok" => HasError(groupOf[j])'
    BY <1>3, <2>4, <2>5 DEF EInv, Errors, ChildTypes, HasError
  <2>11. \A j \in Tasks : result[j] = "none" <=> ~Complete(j)' /\ ~\E x \in Workers : task[x] = j /\ Raising(x)'
    BY <2>3, <2>5 DEF EInv, Errors
  <2> QED  BY <1>3, <2>6, <2>7, <2>8, <2>9, <2>10, <2>11 DEF Errors, Grouped, ChildrenOf, HasError
<1> QED  BY <1>6, <1>7

LEMMA BodyErrors ==
  ASSUME SInv, ChildTypes, Registered, EInv, NEW t \in Threads, BodyStep(t)
  PROVE  EInv'
<1>1. StaysInBody(t)  BY BodyFrame DEF SInv
<1>2. \A w \in Workers : (Raising(w)' <=> Raising(w)) /\ (Raising(w) => task'[w] = task[w] /\ pc'[w] = pc[w])
  BY <1>1 DEF StaysInBody, BodyLabels, Raising, Threads
<1>3. \A k \in Tasks : (Complete(k)' <=> Complete(k)) /\ (promise[k] # "none" => groupOf'[k] = groupOf[k])
  <2>1. CASE \E k \in Tasks : StartChild(t, k)
    BY <1>1, <2>1, StartChildMoves DEF StaysInBody, ChildTypes
  <2>2. CASE \A k \in Tasks : ~StartChild(t, k)
    BY <1>1, <2>2, ChildrenUntouched DEF StaysInBody
  <2> QED  BY <2>1, <2>2
<1>4. UNCHANGED <<cancelled, firstError, result>>
  BY <1>1 DEF StaysInBody
<1>5. Errors'
  BY <1>2, <1>3, <1>4, ErrorsKept DEF EInv
<1>6. awaited' \subseteq Tasks
  BY DEF BodyStep, Program, ParentStep, LeavesBody, LetBegin, StartChild, Spawn, AwaitCall, SubmitStep,
     AwaitDone, AwaitChild, AwaitAllReturns, DestroyChild, FreeGroup, BodyEnds, BodyRaises, groupVars,
     EInv, ErrorTypes
<1>7. outcome' = outcome \/ \E how \in {"value", "error"} : outcome' = [outcome EXCEPT ![Scope(t)] = how]
  BY DEF BodyStep, Program, ParentStep, LeavesBody, LetBegin, StartChild, Spawn, AwaitCall, SubmitStep,
     AwaitDone, AwaitChild, AwaitAllReturns, DestroyChild, FreeGroup, BodyEnds, BodyRaises, Leave, groupVars
<1>8. outcome' \in [Groups -> {"none", "value", "error"}]
  BY <1>7 DEF EInv, ErrorTypes
<1> QED  BY <1>4, <1>5, <1>6, <1>8 DEF EInv, ErrorTypes

LEMMA WorkerErrors ==
  ASSUME SInv, ChildTypes, Registered, EInv, NEW w \in Workers, WorkerStep(w)
  PROVE  EInv'
<1>0. w \in Threads /\ UNCHANGED <<groupOf, awaited, outcome>>
  BY WorkerFrame DEF Threads
<1>1. CASE TaskTaken(w) \/ TaskStarts(w) \/ TaskLeft(w) \/ Run(w) \/ CountOut(w)
  <2>1. /\ UNCHANGED <<cancelled, firstError, result, promise>> /\ ~Raising(w) /\ ~Raising(w)'
        /\ \A x \in Workers : x # w => pc'[x] = pc[x] /\ task'[x] = task[x]
    BY <1>0, <1>1 DEF TaskTaken, TaskStarts, TaskLeft, Run, CountOut, Dequeue, WorkerBegin, WorkerEnd, Goto,
       OnlyPc, Unchanged, taskVars, groupVars, Raising, SInv, PoolInv, PoolTypeOK, Threads
  <2>2. \A x \in Workers : (Raising(x)' <=> Raising(x)) /\ (Raising(x) => task'[x] = task[x] /\ pc'[x] = pc[x])
    BY <2>1 DEF Raising
  <2>3. \A k \in Tasks : (Complete(k)' <=> Complete(k)) /\ groupOf'[k] = groupOf[k]
    BY <1>0, <2>1 DEF Complete
  <2>4. Errors'
    BY <2>1, <2>2, <2>3, ErrorsKept DEF EInv
  <2> QED  BY <1>0, <2>1, <2>4 DEF EInv, ErrorTypes
<1>2. CASE RecordError(w) \/ CancelGroup(w) \/ FailPromise(w)
  <2>1. Errors'  BY <1>2, RaisingErrors
  <2>2. task[w] \in Tasks
    BY <1>2, TaskOwned DEF RecordError, CancelGroup, FailPromise, Goto, Holding
  <2>3. ErrorTypes'
    BY <1>0, <1>2, <2>2 DEF RecordError, CancelGroup, FailPromise, EInv, ErrorTypes, Unchanged, groupVars
  <2> QED  BY <2>1, <2>3 DEF EInv
<1>3. CASE Skip(w) \/ TaskEnds(w)
  <2>0. pc[w] \in {"begun", "run"} /\ Holding(w)
    BY <1>3 DEF Skip, TaskEnds, TaskReturns, TaskRaises, Holding
  <2>1. PICK what \in {"ok", "raised", "skipped"} : result' = [result EXCEPT ![task[w]] = what]
    BY <1>3 DEF Skip, TaskEnds, TaskReturns, TaskRaises, Settles
  <2>2. ErrorTypes'
    BY <1>0, <1>3, <2>1 DEF Skip, TaskEnds, TaskReturns, TaskRaises, EInv, ErrorTypes
  <2>3. UNCHANGED <<task, cancelled, firstError>> /\ \A x \in Workers : x # w => pc'[x] = pc[x]
    BY <1>3 DEF Skip, TaskEnds, TaskReturns, TaskRaises, Fulfil, Goto, OnlyPc, taskVars, SInv, PoolInv, Threads
  <2>4. promise[task[w]] = "pending"
    BY <2>0, TaskOwned
  <2>5. CASE Skip(w)
    <3>1. /\ promise' = [promise EXCEPT ![task[w]] = "failed"] /\ pc'[w] = "fulfilled"
          /\ Grouped(w) /\ cancelled[groupOf[task[w]]]
          /\ result' = [result EXCEPT ![task[w]] = "skipped"]
      BY <1>0, <2>4, <2>5 DEF Skip, Fulfil, Goto, Settles, SInv, PoolInv
    <3>2. Errors'
      BY <1>0, <2>0, <2>3, <3>1, SettleErrors
    <3> QED  BY <2>2, <3>2 DEF EInv
  <2>6. CASE TaskReturns(w)
    <3>1. /\ promise' = [promise EXCEPT ![task[w]] = "done"] /\ pc'[w] \in {"fulfilled", "end"}
          /\ result' = [result EXCEPT ![task[w]] = "ok"]
      BY <1>0, <2>4, <2>6 DEF TaskReturns, AfterPromise, Fulfil, Goto, Settles, SInv, PoolInv
    <3>2. Errors'
      BY <1>0, <2>0, <2>3, <3>1, SettleErrors
    <3> QED  BY <2>2, <3>2 DEF EInv
  <2>7. CASE TaskRaises(w)
    <3>1. /\ promise' = promise /\ pc'[w] = IF Grouped(w) THEN "record" ELSE "fail"
          /\ result' = [result EXCEPT ![task[w]] = "raised"]
      BY <1>0, <2>7 DEF TaskRaises, OnlyPc, Goto, Settles, taskVars, SInv, PoolInv
    <3>2. Errors'
      BY <1>0, <2>0, <2>3, <3>1, SettleErrors
    <3> QED  BY <2>2, <3>2 DEF EInv
  <2> QED  BY <1>3, <2>5, <2>6, <2>7 DEF TaskEnds
<1> QED  BY <1>1, <1>2, <1>3 DEF WorkerStep, ChildStep

LEMMA NextErrors == SInv /\ ChildTypes /\ Registered /\ EInv /\ Next => EInv'
BY BodyErrors, WorkerErrors DEF Next, BodyStep, WorkerStep

-----------------------------------------------------------------------------
(* Outcomes *)

GInv == SInv /\ ChildTypes /\ Registered /\ EInv

\* What is settled stays: a child that ended well is not touched again, and
\* a scope that has an outcome gets no other child.
LEMMA ValueKept ==
  ASSUME GInv, Outcomes, NEW g \in Groups, outcome[g] = "value", Next
  PROVE  \A k \in ChildrenOf(g)' : Complete(k)' /\ result'[k] = "ok"
<1> USE DEF GInv
<1>1. ASSUME NEW t \in Threads, BodyStep(t)
      PROVE  \A k \in ChildrenOf(g)' : Complete(k)' /\ result'[k] = "ok"
  <2>1. StaysInBody(t)  BY <1>1, BodyFrame DEF SInv
  <2>2. ChildrenOf(g)' = ChildrenOf(g)
    <3>1. ASSUME NEW k \in Tasks, StartChild(t, k)  PROVE ChildrenOf(g)' = ChildrenOf(g)
      <4>1. Active(t) /\ Inside(t) # <<>> /\ pc[t] = "run"
        BY <3>1 DEF StartChild, Submit, Goto, Active
      <4>2. Len(Inside(t)) \in DOMAIN Inside(t)
        BY <4>1, ScopeDistinct DEF SInv
      <4>3. outcome[Scope(t)] = "none"
        BY <4>1, <4>2 DEF Outcomes, Scope
      <4>4. groupOf' = [groupOf EXCEPT ![k] = Scope(t)] /\ groupOf[k] = NoGroup /\ Scope(t) # g
        BY <3>1, <4>3, StartChildMoves
      <4> QED  BY <4>4, GroupAssumption DEF ChildrenOf, ChildTypes
    <3>2. ASSUME \A k \in Tasks : ~StartChild(t, k)  PROVE ChildrenOf(g)' = ChildrenOf(g)
      BY <1>1, <3>2, ChildrenUntouched DEF ChildrenOf
    <3> QED  BY <3>1, <3>2
  <2>3. \A k \in ChildrenOf(g) : k \in Tasks /\ Complete(k) /\ result[k] = "ok"
    BY DEF Outcomes, ChildrenOf
  <2> QED  BY <2>1, <2>2, <2>3 DEF StaysInBody, Complete
<1>2. ASSUME NEW w \in Workers, WorkerStep(w)
      PROVE  \A k \in ChildrenOf(g)' : Complete(k)' /\ result'[k] = "ok"
  <2>1. ChildrenOf(g)' = ChildrenOf(g)
    BY <1>2, WorkerFrame DEF ChildrenOf
  <2>2. \A k \in Tasks : Complete(k) => Complete(k)'
    BY <1>2, WorkerKeeps DEF SInv
  <2>3. \A k \in ChildrenOf(g) : k \in Tasks /\ Complete(k) /\ result[k] = "ok"
    BY DEF Outcomes, ChildrenOf
  <2>4. result' = result \/ \E what : Holding(w) /\ result' = [result EXCEPT ![task[w]] = what]
    BY <1>2 DEF WorkerStep, TaskTaken, TaskStarts, TaskLeft, TaskEnds, TaskReturns, TaskRaises,
       ChildStep, Skip, Run, RecordError, CancelGroup, FailPromise, CountOut, Settles, groupVars, Holding
  <2>5. Holding(w) => ~Complete(task[w])
    BY TaskOwned
  <2>6. \A k \in ChildrenOf(g) : result'[k] = "ok"
    BY <2>3, <2>4, <2>5 DEF EInv, ErrorTypes
  <2> QED  BY <2>1, <2>2, <2>3, <2>6 DEF Complete
<1> QED  BY <1>1, <1>2 DEF Next, BodyStep, WorkerStep

\* No scope a thread is inside of has an outcome, but the one it is ending.
Undecided(t) == \A i \in DOMAIN Inside(t) : outcome[Inside(t)[i]] # "none" => pc[t] = "ending" /\ i = Len(Inside(t))

\* The two steps that give a scope its outcome.
Decides(t) == BodyRaises(t) \/ AwaitAllReturns(t)

LEMMA DecidesMoves ==
  ASSUME GInv, NEW t \in Threads, Decides(t)
  PROVE  /\ Active(t) /\ Inside(t) # <<>> /\ Scope(t) \in Groups /\ group[Scope(t)] = "open" /\ pc[t] # "ending"
         /\ pc'[t] = "ending" /\ scopes' = scopes /\ Inside(t)' = Inside(t)
         /\ \E how \in {"value", "error"} : outcome' = [outcome EXCEPT ![Scope(t)] = how]
<1> USE DEF GInv, SInv
<1>1. /\ pc[t] \in {"run", "awaitall"} /\ pc'[t] = "ending" /\ UNCHANGED <<scopes, task>>
      /\ \E how \in {"value", "error"} : outcome' = [outcome EXCEPT ![Scope(t)] = how]
  BY DEF Decides, BodyRaises, AwaitAllReturns, Goto, OnlyPc, taskVars, Leave, PoolInv
<1>2. Active(t) /\ Inside(t) # <<>>
  BY <1>1 DEF Decides, BodyRaises, AwaitAllReturns, Active, Owners, Leaving
<1> QED  BY <1>1, <1>2, ScopeDistinct DEF Inside, Actor

LEMMA OutcomeUntouched ==
  ASSUME NEW t \in Threads, BodyStep(t), ~Decides(t)
  PROVE  outcome' = outcome
BY DEF BodyStep, Program, ParentStep, LeavesBody, LetBegin, StartChild, Spawn, AwaitCall, SubmitStep,
   AwaitDone, AwaitChild, DestroyChild, FreeGroup, BodyEnds, Decides, groupVars

LEMMA BodyUndecided ==
  ASSUME GInv, Outcomes, NEW t \in Threads, BodyStep(t), NEW u \in Threads, Active(u)'
  PROVE  Undecided(u)'
<1> USE DEF GInv, SInv
<1>1. StaysInBody(t) /\ Active(t)
  BY BodyFrame DEF StaysInBody, BodyLabels, Active
<1>2. Active(u) /\ Undecided(u) /\ Actor(u) \in Actors
  <2>1. Active(u)  BY <1>1 DEF StaysInBody, BodyLabels, Active
  <2> QED  BY <2>1, ActorDistinct DEF Outcomes, Undecided
<1>3. Inside(u) \in Seq(Groups)
  BY <1>2 DEF Inside, ScopeTypes
<1>4. CASE u # t
  <2>1. Inside(u)' = Inside(u) /\ pc'[u] = pc[u]
    BY <1>1, <1>2, <1>4, BodyKeeps DEF StaysInBody
  <2>2. \A i \in DOMAIN Inside(u) : outcome'[Inside(u)[i]] = outcome[Inside(u)[i]]
    <3>1. CASE Decides(t)
      <4>1. /\ Inside(t) # <<>> /\ \E how \in {"value", "error"} : outcome' = [outcome EXCEPT ![Scope(t)] = how]
        BY <3>1, DecidesMoves
      <4>2. Len(Inside(t)) \in DOMAIN Inside(t) /\ Actor(t) # Actor(u) /\ Actor(t) \in Actors
        BY <1>1, <1>2, <1>4, <4>1, ScopeDistinct, ActorDistinct
      <4>3. \A i \in DOMAIN Inside(u) : Inside(u)[i] # Scope(t) /\ Inside(u)[i] \in Groups
        BY <1>2, <1>3, <4>2 DEF Owners, Inside, Scope
      <4> QED  BY <4>1, <4>3 DEF EInv, ErrorTypes
    <3>2. CASE ~Decides(t)
      BY <3>2, OutcomeUntouched
    <3> QED  BY <3>1, <3>2
  <2> QED  BY <1>2, <2>1, <2>2 DEF Undecided
<1>5. CASE u = t /\ Decides(t)
  <2>1. /\ Inside(t) # <<>> /\ pc[t] # "ending" /\ pc'[t] = "ending" /\ Inside(t)' = Inside(t)
        /\ \E how \in {"value", "error"} : outcome' = [outcome EXCEPT ![Scope(t)] = how]
    BY <1>5, DecidesMoves
  <2>2. \A i \in DOMAIN Inside(t) : outcome[Inside(t)[i]] = "none" /\ Inside(t)[i] \in Groups
    BY <1>2, <1>3, <1>5, <2>1 DEF Undecided
  <2>3. \A i \in DOMAIN Inside(t) : Inside(t)[i] = Scope(t) => i = Len(Inside(t))
    <3>1. Len(Inside(t)) \in DOMAIN Inside(t)
      BY <1>1, <2>1, ScopeDistinct
    <3> QED  BY <1>2, <1>5, <3>1 DEF Owners, Inside, Scope
  <2>4. \A i \in DOMAIN Inside(t) : outcome'[Inside(t)[i]] # "none" => i = Len(Inside(t))
    BY <2>1, <2>2, <2>3 DEF EInv, ErrorTypes
  <2> QED  BY <1>5, <2>1, <2>4 DEF Undecided
<1>6. CASE u = t /\ ~Decides(t) /\ ~FreeGroup(t) /\ \A g \in Groups : ~LetBegin(t, g)
  <2>1. outcome' = outcome /\ Inside(t)' = Inside(t)
    BY <1>1, <1>6, OutcomeUntouched, ScopesUntouched DEF StaysInBody, Inside, Actor
  <2>2. pc[t] = "ending" => pc'[t] = "ending"
    BY <1>6 DEF BodyStep, Program, ParentStep, LeavesBody, StartChild, Spawn, AwaitCall, SubmitStep,
       AwaitDone, AwaitChild, DestroyChild, BodyEnds, Decides, Submit, Await, Register, TaskQueued, Enqueue,
       AwaitReturn, Goto, poolVars
  <2> QED  BY <1>2, <1>6, <2>1, <2>2 DEF Undecided
<1>7. CASE u = t /\ FreeGroup(t)
  <2>1. outcome' = outcome /\ pc[t] = "ending" /\ scopes' = [scopes EXCEPT ![Actor(t)] = SubSeq(@, 1, Len(@) - 1)]
    BY <1>7 DEF FreeGroup
  <2>2. Inside(t) # <<>>
    BY <2>1 DEF Owners, Leaving
  <2>3. Inside(t)' = SubSeq(Inside(t), 1, Len(Inside(t)) - 1)
    BY <1>1, <1>2, <1>7, <2>1 DEF StaysInBody, Inside, Actor, ScopeTypes
  <2>4. \A i \in DOMAIN Inside(t)' : i \in DOMAIN Inside(t) /\ i # Len(Inside(t)) /\ Inside(t)'[i] = Inside(t)[i]
    BY <1>3, <1>7, <2>2, <2>3
  <2>5. \A i \in DOMAIN Inside(t)' : outcome'[Inside(t)'[i]] = "none"
    BY <1>2, <1>7, <2>1, <2>4 DEF Undecided
  <2> QED  BY <1>7, <2>5 DEF Undecided
<1>8. ASSUME u = t, NEW g \in Groups, LetBegin(t, g)  PROVE Undecided(u)'
  <2>1. /\ outcome' = outcome /\ group[g] = "none" /\ pc[t] = "run"
        /\ scopes' = [scopes EXCEPT ![Actor(t)] = Append(@, g)]
    BY <1>8 DEF LetBegin, NewGroup
  <2>2. Inside(t)' = Append(Inside(t), g)
    BY <1>1, <1>2, <1>8, <2>1 DEF StaysInBody, Inside, Actor, ScopeTypes
  <2>3. \A i \in DOMAIN Inside(t)' : (i \in DOMAIN Inside(t) /\ Inside(t)'[i] = Inside(t)[i]) \/ Inside(t)'[i] = g
    BY <1>3, <1>8, <2>2
  <2>4. outcome[g] = "none"
    BY <2>1 DEF Outcomes
  <2>5. \A i \in DOMAIN Inside(t)' : outcome'[Inside(t)'[i]] = "none"
    BY <1>2, <1>8, <2>1, <2>3, <2>4 DEF Undecided
  <2> QED  BY <1>8, <2>5 DEF Undecided
<1> QED  BY <1>4, <1>5, <1>6, <1>7, <1>8

LEMMA WorkerUndecided ==
  ASSUME GInv, Outcomes, NEW w \in Workers, WorkerStep(w), NEW u \in Threads, Active(u)'
  PROVE  Undecided(u)'
<1> USE DEF GInv, SInv
<1>0. /\ WorkerMoves(w) /\ w \in Threads /\ UNCHANGED <<scopes, outcome>>
      /\ \A x \in Threads : x # w => pc'[x] = pc[x] /\ Inside(x)' = Inside(x)
  BY WorkerStepMoves, WorkerFrame, WorkerKeeps DEF Threads
<1>1. CASE u # w
  <2>1. Active(u)  BY <1>0, <1>1 DEF Active
  <2> QED  BY <1>0, <1>1, <2>1 DEF Outcomes, Undecided
<1>2. CASE u = w /\ Dequeue(w)
  <2>1. PICK k \in Tasks : /\ k = taskQueue[1] /\ InQueue(k) /\ task'[w] = k
    BY <1>2 DEF Dequeue, PoolInv, PoolTypeOK, InQueue
  <2>2. ~Held(k)
    BY <2>1 DEF PoolInv, TasksPlaced
  <2>3. scopes[k] = <<>>
    BY <2>2 DEF Owners, Held, Holding, BodyLabels
  <2>4. Inside(w)' = <<>>
    BY <1>0, <2>1, <2>3 DEF Inside, Actor
  <2> QED  BY <1>2, <2>4 DEF Undecided
<1>3. CASE u = w /\ WorkerEnd(w)
  <2>1. pc'[w] = "idle" /\ w \notin Externals
    BY <1>0, <1>3, PoolAssumption DEF WorkerEnd, Goto, PoolInv, Workers
  <2> QED  BY <1>3, <2>1 DEF Active
<1>4. CASE u = w /\ ~Dequeue(w) /\ ~WorkerEnd(w)
  <2>1. task' = task /\ pc[w] \notin {"idle", "ending"}
    BY <1>4, <1>0 DEF WorkerMoves, Goto
  <2>2. Inside(w)' = Inside(w) /\ Active(w)
    BY <1>0, <2>1 DEF Inside, Actor, Active
  <2>3. \A i \in DOMAIN Inside(w) : outcome[Inside(w)[i]] = "none"
    BY <1>0, <2>1, <2>2 DEF Outcomes
  <2> QED  BY <1>0, <1>4, <2>2, <2>3 DEF Undecided
<1> QED  BY <1>1, <1>2, <1>3, <1>4

\* A scope yields its value when all its children are complete and none left an error.
LEMMA ValueDecided ==
  ASSUME GInv, NEW t \in Threads, Decides(t), NEW g \in Groups, outcome[g] # "value", outcome'[g] = "value"
  PROVE  \A k \in ChildrenOf(g)' : Complete(k)' /\ result'[k] = "ok"
<1> USE DEF GInv, SInv
<1>1. AwaitAllReturns(t) /\ g = Scope(t) /\ ~HasError(g)
  <2>1. CASE BodyRaises(t)
    BY <2>1 DEF BodyRaises, Leave, EInv, ErrorTypes
  <2>2. CASE AwaitAllReturns(t)
    BY <2>2 DEF AwaitAllReturns, Leave, EInv, ErrorTypes
  <2> QED  BY <2>1, <2>2 DEF Decides
<1>2. \A k \in ChildrenOf(g) : k \in Tasks /\ groupOf[k] = g /\ Complete(k)
  BY <1>1, AllPassed DEF AwaitAllReturns, Leaving, ChildrenOf
<1>3. \A k \in ChildrenOf(g) : result[k] = "ok"
  BY <1>1, <1>2, GroupAssumption DEF EInv, Errors
<1>4. UNCHANGED <<promise, groupOf, result>>
  BY <1>1 DEF AwaitAllReturns, OnlyPc, taskVars
<1> QED  BY <1>2, <1>3, <1>4 DEF ChildrenOf, Complete

LEMMA NextOutcomes == GInv /\ Outcomes /\ Next => Outcomes'
<1> SUFFICES ASSUME GInv, Outcomes, Next PROVE Outcomes'
  OBVIOUS
<1>1. \A u \in Threads : Active(u)' => Undecided(u)'
  BY BodyUndecided, WorkerUndecided DEF Next, BodyStep, WorkerStep
<1>2. ASSUME NEW g \in Groups, group'[g] = "none"  PROVE outcome'[g] = "none"
  <2>1. ASSUME NEW t \in Threads, BodyStep(t)  PROVE outcome'[g] = "none"
    <3>1. group[g] = "none"
      BY <1>2, <2>1, ScopesUntouched DEF LetBegin, FreeGroup, GInv, SInv, ScopeTypes
    <3>2. CASE Decides(t)
      <4>1. group[Scope(t)] = "open" /\ \E how \in {"value", "error"} : outcome' = [outcome EXCEPT ![Scope(t)] = how]
        BY <3>2, DecidesMoves
      <4> QED  BY <3>1, <4>1 DEF Outcomes, GInv, EInv, ErrorTypes
    <3>3. CASE ~Decides(t)
      BY <2>1, <3>1, <3>3, OutcomeUntouched DEF Outcomes
    <3> QED  BY <3>2, <3>3
  <2>2. ASSUME NEW w \in Workers, WorkerStep(w)  PROVE outcome'[g] = "none"
    BY <1>2, <2>2, WorkerFrame DEF Outcomes
  <2> QED  BY <2>1, <2>2 DEF Next, BodyStep, WorkerStep
<1>3. ASSUME NEW g \in Groups, outcome'[g] = "value"
      PROVE  \A k \in ChildrenOf(g)' : Complete(k)' /\ result'[k] = "ok"
  <2>1. CASE outcome[g] = "value"
    BY <2>1, ValueKept
  <2>2. CASE outcome[g] # "value"
    <3>1. ASSUME NEW t \in Threads, BodyStep(t)
          PROVE  \A k \in ChildrenOf(g)' : Complete(k)' /\ result'[k] = "ok"
      <4>1. Decides(t)
        BY <1>3, <2>2, <3>1, OutcomeUntouched
      <4> QED  BY <1>3, <2>2, <4>1, ValueDecided
    <3>2. ASSUME NEW w \in Workers, WorkerStep(w)  PROVE FALSE
      BY <1>3, <2>2, <3>2, WorkerFrame
    <3> QED  BY <3>1, <3>2 DEF Next, BodyStep, WorkerStep
  <2> QED  BY <2>1, <2>2
<1> QED  BY <1>1, <1>2, <1>3 DEF Outcomes, Undecided

-----------------------------------------------------------------------------
(* The theorems *)

LEMMA InitIInv == Init => IInv /\ pending \in [Groups -> Nat]
<1> SUFFICES ASSUME Init PROVE IInv /\ pending \in [Groups -> Nat]
  OBVIOUS
<1>1. /\ pc \in [Threads -> PCs] /\ \A t \in Threads : pc[t] = IF t \in Externals THEN "run" ELSE "idle"
      /\ \A w \in Workers : pc[w] = "idle" /\ w \in Threads /\ task[w] = NoTask
      /\ taskQueue = <<>> /\ \A k \in Tasks : promise[k] = "none"
  BY PoolAssumption DEF Init, PoolInit, Threads, Workers, PCs
<1>2. \A k : ~Carried(k) /\ ~InQueue(k) /\ ~Held(k)
  BY <1>1 DEF Carried, Carrying, InQueue, Held, Holding
<1>3. TasksPlaced
  BY <1>1, <1>2 DEF TasksPlaced, Carrying, Holding
<1>4. PoolTypeOK
  <2>1. /\ task \in [Workers -> Tasks \cup {NoTask}]
        /\ arg \in [Threads -> Tasks \cup {NoTask}]
        /\ submitter \in [Tasks -> Tasks \cup Externals \cup {NoTask}]
        /\ promise \in [Tasks -> {"none", "pending", "done", "failed", "freed"}]
    BY DEF Init, PoolInit
  <2>2. taskQueue \in Seq(Tasks)
    BY <1>1
  <2>3. /\ isWorker \in [Threads -> BOOLEAN] /\ registered \in [Threads -> BOOLEAN]
        /\ waitKind \in [Threads -> 0 .. 2] /\ candidateSeen \in [Threads -> BOOLEAN]
    BY DEF Init, PoolInit
  <2>4. initialized = FALSE /\ workerThreads = 0 /\ 0 \in 0 .. MaxThreads
    BY PoolAssumption DEF Init, PoolInit
  <2>5. /\ queuedTasks \in Nat /\ runningWorkers \in Nat /\ blockedWorkers \in Nat
        /\ activeExternal \in Nat /\ externalWaiters \in Nat
    BY DEF Init, PoolInit
  <2> QED  BY <2>1, <2>2, <2>3, <2>4, <2>5 DEF PoolTypeOK
<1>5. PoolInv /\ OneWorker
  BY <1>1, <1>3, <1>4 DEF PoolInv, OneWorker, Init, PoolInit
<1>6. \A a \in Actors : scopes[a] = <<>>
  BY DEF Init
<1>7. ScopeTypes /\ Owners
  BY <1>1, <1>6 DEF Init, ScopeTypes, Owners, Leaving, Actors
<1>8. \A g \in Groups : children[g] = <<>> /\ ChildrenOf(g) = {} /\ group[g] = "none" /\ pending[g] = 0
  BY GroupAssumption DEF Init, ChildrenOf
<1>9. ChildTypes /\ Registered
  <2>1. ChildTypes
    BY DEF Init, ChildTypes
  <2>2. \A g \in Groups : \A k \in Tasks : groupOf[k] # g /\ DOMAIN children[g] = {}
    BY <1>8 DEF ChildrenOf
  <2> QED  BY <1>1, <1>8, <2>1, <2>2 DEF Registered, Leaving, Init
<1>10. PendingCounted /\ pending \in [Groups -> Nat]
  <2>1. \A g \in Groups : Uncounted(g) = {}
    BY <1>8 DEF Uncounted
  <2> QED  BY <1>8, <2>1, FS_EmptySet DEF PendingCounted, Init
<1>11. ErrorTypes /\ Errors
  BY <1>1 DEF Init, ErrorTypes, Errors, Raising, Complete, HasError
<1>12. Outcomes
  <2>1. \A t \in Threads : Active(t) => Inside(t) = <<>>
    <3>1. \A t \in Threads : Active(t) => Actor(t) \in Actors
      BY <1>5, ActorDistinct
    <3> QED  BY <1>6, <3>1 DEF Inside
  <2> QED  BY <2>1 DEF Outcomes, Init
<1> QED  BY <1>5, <1>7, <1>9, <1>10, <1>11, <1>12 DEF IInv

LEMMA NextIInv == IInv /\ pending \in [Groups -> Nat] /\ [Next]_vars => (IInv /\ pending \in [Groups -> Nat])'
<1> SUFFICES ASSUME IInv, pending \in [Groups -> Nat], [Next]_vars
             PROVE  (IInv /\ pending \in [Groups -> Nat])'
  OBVIOUS
<1>1. CASE Next
  <2>1. PoolInv' /\ OneWorker' /\ ScopeTypes' /\ Owners'
    BY <1>1, NextPool, NextOneWorker, NextOwners DEF IInv
  <2>2. SInv /\ EInv /\ GInv
    BY DEF IInv, SInv, EInv, GInv
  <2>3. ChildTypes' /\ Registered'
    BY <1>1, <2>2, NextRegistered DEF IInv
  <2>4. PendingCounted' /\ pending' \in [Groups -> Nat]
    BY <1>1, <2>2, NextPending DEF IInv
  <2>5. EInv'
    BY <1>1, <2>2, NextErrors DEF IInv
  <2>6. Outcomes'
    BY <1>1, <2>2, NextOutcomes DEF IInv
  <2> QED  BY <2>1, <2>3, <2>4, <2>5, <2>6 DEF IInv, EInv
<1>2. CASE UNCHANGED vars
  <2> USE <1>2 DEF vars, poolVars, groupVars, taskVars, threadVars, counterVars, localVars
  <2>1. PoolInv' /\ OneWorker'
    BY PlacedKept DEF IInv, PoolInv, PoolTypeOK, OneWorker, Complete, Carrying, Holding
  <2>2. ScopeTypes' /\ Owners' /\ ChildTypes' /\ pending' \in [Groups -> Nat]
    BY DEF IInv, ScopeTypes, Owners, ChildTypes, Leaving, Inside, Actor
  <2>3. Registered'
    BY DEF IInv, Registered, Leaving, Scope, Inside, Actor, Complete, ChildrenOf, Grouped
  <2>4. PendingCounted'
    BY PendingKept DEF IInv, Unfinished, CountingOut
  <2>5. ErrorTypes' /\ Errors'
    BY DEF IInv, ErrorTypes, Errors, Raising, HasError, Grouped, Complete, ChildrenOf
  <2>6. Outcomes'
    BY DEF IInv, Outcomes, Active, Inside, Actor, Complete, ChildrenOf
  <2> QED  BY <2>1, <2>2, <2>3, <2>4, <2>5, <2>6 DEF IInv
<1> QED  BY <1>1, <1>2

\* The inductive invariant holds of every behaviour.
THEOREM Invariant == Spec => [](IInv /\ pending \in [Groups -> Nat])
BY InitIInv, NextIInv, PTL DEF Spec

\* Every variable keeps its type, pending_count included: it never goes below zero.
THEOREM TypeCorrect == Spec => []TypeOK
<1>1. IInv /\ pending \in [Groups -> Nat] => TypeOK
  BY DEF IInv, PoolInv, ScopeTypes, ChildTypes, ErrorTypes, TypeOK
<1> QED  BY <1>1, Invariant, PTL

\* A group is freed only when every task started in it is over, however the
\* scope ends and however deep scopes nest.
THEOREM ChildrenOver == Spec => []ScopeOutlivesChildren
<1>1. IInv => ScopeOutlivesChildren
  BY DEF IInv, Registered, ScopeOutlivesChildren, Complete, Unfinished
<1> QED  BY <1>1, Invariant, PTL

\* A scope that yields its value had no child that failed or was skipped, and
\* the error it would raise is that of a child that raised.
THEOREM ErrorsReach == Spec => []ErrorsPropagate
<1>1. IInv => ErrorsPropagate
  BY DEF IInv, Outcomes, Errors, ErrorsPropagate
<1> QED  BY <1>1, Invariant, PTL

\* pending_count is the number of children that have not counted themselves
\* out, in a group of any size.
THEOREM PendingCorrect == Spec => []PendingExact
<1>1. IInv => PendingExact
  BY DEF IInv, PendingCounted, Uncounted, PendingExact
<1> QED  BY <1>1, Invariant, PTL
=============================================================================
