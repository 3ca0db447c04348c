------------------------------ MODULE TaskGroup ------------------------------
(***************************************************************************)
(* Structured concurrency (src/runtime/platform/async_posix.c and the code *)
(* src/codegen/CodegenExpr.cpp emits for a `let` of several bindings): a   *)
(* task group collects the promises of the tasks started in it, the first  *)
(* error cancels the siblings, and the scope awaits its children, re-raises*)
(* the error and frees the group.                                          *)
(*                                                                         *)
(* A scope may be opened by main or by a task, and nests.  A child touches *)
(* its group several times after its own code is over: it records the      *)
(* error, cancels, completes the promise and then counts itself out.  Each *)
(* of these is an action, because the parent may run in between.           *)
(***************************************************************************)
EXTENDS WorkerPool

CONSTANTS
  Groups,     \* group identities; each is begun at most once
  NoGroup

ASSUME GroupAssumption == NoGroup \notin Groups

Actors == Externals \cup Tasks

VARIABLES
  group,       \* "none", "open", "ended" (freed)
  scopes,      \* the groups an actor is inside of, innermost last
  children,    \* the tasks registered with a group, in order
  groupOf,     \* the group of a task, or NoGroup
  pending,     \* pending_count
  cancelled,
  firstError,  \* has_error and first_error_symbol: the task that raised first
  cursor,      \* the child await_all or group_end has reached, per thread
  awaited,     \* bound: a body awaits each promise once
  outcome,     \* history: how a scope was left: "none", "value", "error"
  result       \* history: what a task did: "none", "ok", "raised", "skipped"

groupVars == <<group, scopes, children, groupOf, pending, cancelled, firstError,
               cursor, awaited, outcome, result>>
vars      == <<poolVars, groupVars>>

Init ==
  /\ PoolInit
  /\ group = [g \in Groups |-> "none"]
  /\ scopes = [a \in Actors |-> <<>>]
  /\ children = [g \in Groups |-> <<>>]
  /\ groupOf = [k \in Tasks |-> NoGroup]
  /\ pending = [g \in Groups |-> 0]
  /\ cancelled = [g \in Groups |-> FALSE]
  /\ firstError = [g \in Groups |-> NoTask]
  /\ cursor = [t \in Threads |-> 0]
  /\ awaited = {}
  /\ outcome = [g \in Groups |-> "none"]
  /\ result = [k \in Tasks |-> "none"]

Inside(t) == scopes[Actor(t)]
Scope(t)  == Inside(t)[Len(Inside(t))]
HasError(g) == firstError[g] # NoTask

\* The step changes nothing but pc among the pool's variables.
OnlyPc == UNCHANGED <<arg, taskVars, threadVars, counterVars, localVars>>

-----------------------------------------------------------------------------
(* The parent, up to the end of its body. *)

\* calloc gives a new group its identity: one fixed choice of the unused ones.
NewGroup(g) == /\ group[g] = "none"
               /\ g = CHOOSE h \in Groups : group[h] = "none"

\* group_begin, and group_arena_bind_push for the unwinder.
LetBegin(t, g) ==
  /\ pc[t] = "run" /\ NewGroup(g)
  /\ group' = [group EXCEPT ![g] = "open"]
  /\ scopes' = [scopes EXCEPT ![Actor(t)] = Append(@, g)]
  /\ UNCHANGED <<poolVars, children, groupOf, pending, cancelled, firstError,
                 cursor, awaited, outcome, result>>

\* Mutant: the child is registered and not counted.
StartChildUncounted(t, k) ==
  /\ Submit(t, k)
  /\ Inside(t) # <<>>
  /\ children' = [children EXCEPT ![Scope(t)] = Append(@, k)]
  /\ groupOf' = [groupOf EXCEPT ![k] = Scope(t)]
  /\ UNCHANGED <<group, scopes, pending, cancelled, firstError, cursor, awaited,
                 outcome, result>>

\* submit_task in the scope's group: registered before it is queued.
StartChild(t, k) ==
  /\ Submit(t, k)
  /\ Inside(t) # <<>>
  /\ children' = [children EXCEPT ![Scope(t)] = Append(@, k)]
  /\ pending' = [pending EXCEPT ![Scope(t)] = @ + 1]
  /\ groupOf' = [groupOf EXCEPT ![k] = Scope(t)]
  /\ UNCHANGED <<group, scopes, cancelled, firstError, cursor, awaited, outcome,
                 result>>

\* Std\Task.spawn: no group, whatever the scope.
Spawn(t, k) == Submit(t, k) /\ UNCHANGED groupVars

SubmitStep(t) == (Register(t) \/ TaskQueued(t) \/ Enqueue(t)) /\ UNCHANGED groupVars

AwaitCall(t, k) ==
  /\ k \notin awaited /\ awaited' = awaited \cup {k}
  /\ Await(t, k)
  /\ UNCHANGED <<group, scopes, children, groupOf, pending, cancelled, firstError,
                 cursor, outcome, result>>

\* Inside a scope the compiler emits await_keep, outside of one async_await,
\* which frees the promise.  Neither looks at the promise's error.
AwaitDone(t) ==
  /\ pc[t] = "await"
  /\ AwaitReturn(t, IF Inside(t) = <<>> THEN "freed" ELSE promise[arg[t]])
  /\ UNCHANGED groupVars

-----------------------------------------------------------------------------
(* The parent leaves the scope. *)

Leave(t, how) == outcome' = [outcome EXCEPT ![Scope(t)] = how]

\* The body is over: group_await_all.
BodyEnds(t) ==
  /\ Goto(t, "run", "awaitall") /\ OnlyPc
  /\ Inside(t) # <<>>
  /\ cursor' = [cursor EXCEPT ![t] = 1]
  /\ UNCHANGED <<group, scopes, children, groupOf, pending, cancelled, firstError,
                 awaited, outcome, result>>

\* The body raises: no await_all, the unwinder goes straight to group_end.
BodyRaises(t) ==
  /\ Goto(t, "run", "ending") /\ OnlyPc
  /\ Inside(t) # <<>>
  /\ Leave(t, "error")
  /\ cursor' = [cursor EXCEPT ![t] = 1]
  /\ UNCHANGED <<group, scopes, children, groupOf, pending, cancelled, firstError,
                 awaited, result>>

\* The child the cursor is at is complete.
ChildComplete(t) ==
  /\ cursor[t] <= Len(children[Scope(t)])
  /\ promise[children[Scope(t)][cursor[t]]] \in {"done", "failed"}

AwaitChild(t) ==
  /\ pc[t] = "awaitall" /\ ChildComplete(t)
  /\ cursor' = [cursor EXCEPT ![t] = @ + 1]
  /\ UNCHANGED <<poolVars, group, scopes, children, groupOf, pending, cancelled,
                 firstError, awaited, outcome, result>>

\* All are: the first error is raised again, or the scope has its value.
\* Either way group_end is next, called by the unwinder or by the scope.
AwaitAllReturns(t) ==
  /\ pc[t] = "awaitall" /\ cursor[t] > Len(children[Scope(t)])
  /\ Goto(t, "awaitall", "ending") /\ OnlyPc
  /\ Leave(t, IF HasError(Scope(t)) THEN "error" ELSE "value")
  /\ cursor' = [cursor EXCEPT ![t] = 1]
  /\ UNCHANGED <<group, scopes, children, groupOf, pending, cancelled, firstError,
                 awaited, result>>

\* Mutant: group_end does not wait.
DestroyAtOnce(t) ==
  /\ pc[t] = "ending" /\ cursor[t] <= Len(children[Scope(t)])
  /\ cursor' = [cursor EXCEPT ![t] = @ + 1]
  /\ UNCHANGED <<poolVars, group, scopes, children, groupOf, pending, cancelled,
                 firstError, awaited, outcome, result>>

\* group_end destroys the promises, each when it is complete ...
DestroyChild(t) ==
  /\ pc[t] = "ending" /\ ChildComplete(t)
  /\ promise' = [promise EXCEPT ![children[Scope(t)][cursor[t]]] = "freed"]
  /\ cursor' = [cursor EXCEPT ![t] = @ + 1]
  /\ UNCHANGED <<pc, arg, task, submitter, taskQueue, threadVars, counterVars,
                 localVars, group, scopes, children, groupOf, pending, cancelled,
                 firstError, awaited, outcome, result>>

\* ... and frees the group.
FreeGroup(t) ==
  /\ pc[t] = "ending" /\ cursor[t] > Len(children[Scope(t)])
  /\ Goto(t, "ending", "run") /\ OnlyPc
  /\ group' = [group EXCEPT ![Scope(t)] = "ended"]
  /\ scopes' = [scopes EXCEPT ![Actor(t)] = SubSeq(@, 1, Len(@) - 1)]
  /\ cursor' = [cursor EXCEPT ![t] = 0]
  /\ UNCHANGED <<children, groupOf, pending, cancelled, firstError, awaited,
                 outcome, result>>

-----------------------------------------------------------------------------
(* The child, on a pool thread. *)

Settles(w, what) == result' = [result EXCEPT ![task[w]] = what]
Grouped(w) == groupOf[task[w]] # NoGroup
Unchanged(w) == UNCHANGED <<group, scopes, children, groupOf, cursor, awaited, outcome>>

\* Where a thread goes once its promise is complete: only a grouped child has
\* its group to count itself out of.
AfterPromise(w) == IF Grouped(w) THEN "fulfilled" ELSE "end"

TaskTaken(w)  == Dequeue(w) /\ UNCHANGED groupVars
TaskStarts(w) == WorkerBegin(w, "begun") /\ UNCHANGED groupVars
TaskLeft(w)   == WorkerEnd(w) /\ UNCHANGED groupVars

\* Mutant: the skipped child does not count itself out.
SkipUncounted(w) ==
  /\ pc[w] = "begun" /\ Grouped(w) /\ cancelled[groupOf[task[w]]]
  /\ Fulfil(w, "begun", "failed", "end")
  /\ Settles(w, "skipped")
  /\ Unchanged(w) /\ UNCHANGED <<pending, cancelled, firstError>>

\* A child of a cancelled group is not run: its promise fails at once.
Skip(w) ==
  /\ pc[w] = "begun" /\ Grouped(w) /\ cancelled[groupOf[task[w]]]
  /\ Fulfil(w, "begun", "failed", "fulfilled")
  /\ Settles(w, "skipped")
  /\ Unchanged(w) /\ UNCHANGED <<pending, cancelled, firstError>>

Run(w) ==
  /\ pc[w] = "begun" /\ ~(Grouped(w) /\ cancelled[groupOf[task[w]]])
  /\ Goto(w, "begun", "run") /\ OnlyPc
  /\ UNCHANGED groupVars

\* The task's own code is over, with no scope left open.
TaskReturns(w) ==
  /\ pc[w] = "run" /\ Inside(w) = <<>>
  /\ Fulfil(w, "run", "done", AfterPromise(w))
  /\ Settles(w, "ok")
  /\ Unchanged(w) /\ UNCHANGED <<pending, cancelled, firstError>>

\* Mutant: the promise is completed before the error is recorded.
TaskRaisesLate(w) ==
  /\ pc[w] = "run" /\ Inside(w) = <<>>
  /\ Fulfil(w, "run", "failed", IF Grouped(w) THEN "record" ELSE "end")
  /\ Settles(w, "raised")
  /\ Unchanged(w) /\ UNCHANGED <<pending, cancelled, firstError>>

TaskRaises(w) ==
  /\ pc[w] = "run" /\ Inside(w) = <<>>
  /\ Goto(w, "run", IF Grouped(w) THEN "record" ELSE "fail") /\ OnlyPc
  /\ Settles(w, "raised")
  /\ Unchanged(w) /\ UNCHANGED <<pending, cancelled, firstError>>

\* Under the group's mutex: the first error is kept.
RecordError(w) ==
  /\ Goto(w, "record", "cancel") /\ OnlyPc
  /\ LET g == groupOf[task[w]]
     IN  firstError' = [firstError EXCEPT ![g] = IF HasError(g) THEN @ ELSE task[w]]
  /\ Unchanged(w) /\ UNCHANGED <<pending, cancelled, result>>

\* yona_rt_group_cancel: the flag, and nothing else.
CancelGroup(w) ==
  /\ Goto(w, "cancel", "fail") /\ OnlyPc
  /\ cancelled' = [cancelled EXCEPT ![groupOf[task[w]]] = TRUE]
  /\ Unchanged(w) /\ UNCHANGED <<pending, firstError, result>>

\* Mutant: a task that raised leaves its promise pending.
FailSilently(w) ==
  /\ Goto(w, "fail", "end") /\ OnlyPc
  /\ UNCHANGED groupVars

FailPromise(w) ==
  /\ pc[w] = "fail"
  /\ Fulfil(w, "fail", "failed", AfterPromise(w))
  /\ UNCHANGED groupVars

\* promise_complete, past the promise's mutex: pending_count and, at zero, a
\* signal nobody waits for.
CountOut(w) ==
  /\ Goto(w, "fulfilled", "end") /\ OnlyPc
  /\ pending' = [pending EXCEPT ![groupOf[task[w]]] = @ - 1]
  /\ Unchanged(w) /\ UNCHANGED <<cancelled, firstError, result>>

-----------------------------------------------------------------------------
\* What the program's code on thread t does next.
Program(t) ==
  \/ \E g \in Groups : LetBegin(t, g)
  \/ \E k \in Tasks : StartChild(t, k) \/ Spawn(t, k) \/ AwaitCall(t, k)

ParentStep(t) ==
  SubmitStep(t) \/ AwaitDone(t) \/ AwaitChild(t) \/ AwaitAllReturns(t)
    \/ DestroyChild(t) \/ FreeGroup(t)

LeavesBody(t) == BodyEnds(t) \/ BodyRaises(t)
TaskEnds(w)   == TaskReturns(w) \/ TaskRaises(w)

ChildStep(w) ==
  Skip(w) \/ Run(w) \/ RecordError(w) \/ CancelGroup(w) \/ FailPromise(w) \/ CountOut(w)

Next ==
  \/ \E t \in Threads : Program(t) \/ ParentStep(t) \/ LeavesBody(t)
  \/ \E w \in Workers : TaskTaken(w) \/ TaskStarts(w) \/ TaskEnds(w) \/ ChildStep(w)
                          \/ TaskLeft(w)

Spec == Init /\ [][Next]_vars

\* Threads run, and a task's own code ends, its scopes before it.
Fairness ==
  /\ \A t \in Threads : WF_vars(ParentStep(t))
  /\ \A w \in Workers :
       /\ WF_vars(TaskTaken(w)) /\ WF_vars(TaskStarts(w)) /\ WF_vars(ChildStep(w))
       /\ WF_vars(TaskLeft(w))
       /\ WF_vars(TaskEnds(w) \/ LeavesBody(w))

LiveSpec == Spec /\ Fairness

-----------------------------------------------------------------------------
(* Properties *)

PCs == {"run", "register", "queue", "enqueue", "await", "awaitall", "ending",
        "idle", "popped", "begun", "record", "cancel", "fail", "fulfilled", "end"}

\* The types of all the variables.
TypeOK ==
  /\ pc \in [Threads -> PCs]
  /\ PoolTypeOK
  /\ group \in [Groups -> {"none", "open", "ended"}]
  /\ scopes \in [Actors -> Seq(Groups)]
  /\ children \in [Groups -> Seq(Tasks)]
  /\ groupOf \in [Tasks -> Groups \cup {NoGroup}]
  /\ pending \in [Groups -> Nat]
  /\ cancelled \in [Groups -> BOOLEAN]
  /\ firstError \in [Groups -> Tasks \cup {NoTask}]
  /\ cursor \in [Threads -> Nat]
  /\ awaited \subseteq Tasks
  /\ outcome \in [Groups -> {"none", "value", "error"}]
  /\ result \in [Tasks -> {"none", "ok", "raised", "skipped"}]

ChildrenOf(g) == {k \in Tasks : groupOf[k] = g}
Unfinished(k) == promise[k] = "pending"

\* A scope is not left while a task started in it can still run: whichever way
\* a scope ends, its group is freed after every child's own code, error
\* included, is over (docs/structured-concurrency.md:19).
ScopeOutlivesChildren ==
  \A g \in Groups : group[g] = "ended" => \A k \in ChildrenOf(g) : ~Unfinished(k)

\* A scope that yields its value had no child that failed, was skipped or is
\* still to finish; the error one raises instead is that of a child that raised.
ErrorsPropagate ==
  \A g \in Groups :
    /\ outcome[g] = "value" => \A k \in ChildrenOf(g) : result[k] = "ok"
    /\ HasError(g) => firstError[g] \in ChildrenOf(g) /\ result[firstError[g]] = "raised"

\* pending_count is the number of children that have not counted themselves out.
PendingExact ==
  \A g \in Groups :
    pending[g] = Cardinality({k \in ChildrenOf(g) :
      Unfinished(k) \/ \E w \in Workers : pc[w] = "fulfilled" /\ task[w] = k})

\* No pool thread is left to run a queued task: each that was started waits,
\* and only a worker's channel wait would have another one started.
PoolExhausted ==
  /\ taskQueue # <<>>
  /\ \A w \in 1 .. workerThreads : pc[w] \in {"await", "awaitall", "ending"}

\* A scope that is being left is left, every child completing, started or not,
\* unless the pool is exhausted for good: await and await_all tell no counter,
\* so that scopes inside tasks can take every pool thread from the children they
\* wait for (async_posix.c:472).  Nothing else keeps a scope.
ScopesEnd ==
  \A g \in Groups :
    (\E t \in Threads : pc[t] \in {"awaitall", "ending"} /\ Scope(t) = g)
      ~> (group[g] = "ended" \/ []PoolExhausted)

\* No thread touches a group that was freed: who has still to record an error,
\* cancel, check for cancellation or count itself out finds its group there.
NoUseAfterFree ==
  \A w \in Workers :
    pc[w] \in {"begun", "record", "cancel", "fulfilled"} /\ Grouped(w)
      => group[groupOf[task[w]]] = "open"

=============================================================================
