# Yona: the runtime, specified and checked

Yona compiles to native code that runs on a C runtime. This directory specifies
the parts of that runtime where a test hardly reaches: where several threads meet
(the worker pool, promises, task groups, channels, the io_uring layer, the GPU
backends and their fence thread), where a step of many may fail (the GPU calls),
and where a long sequence of legal calls must keep hidden state right (exceptions
through frames, groups and tries; sequences updated in place). TLC checks the
modules on small instances. TLAPS proves, for every instance, the central
invariants of the channels, the task groups, the ring, the unwinder, the GPU calls
and the fence thread, and that the channels implement a bounded queue.

Source paths are relative to the repository's root; `PROJECT.json` prefixes them
with `src/`.

## 1. The system

### Parts, their state and their operations

| Part | Source | State it keeps | Operations |
|---|---|---|---|
| Worker pool | `src/runtime/platform/async_posix.c` | FIFO of tasks (`yona_task_head`), number of threads, "initialised" flag; all under `yona_pool_mutex` | `submit_task`, `yona_pool_worker`, `yona_pool_init`, compensation workers |
| Promises | same file | `completed`, `result`, `error`, each with a mutex and a condition | `promise_create`, `promise_complete`, `async_await`, `await_keep` |
| Liveness counters | same file | queued tasks, running and blocked workers, active and waiting externals (`yona_liveness_mutex`); thread-locals: is a worker, is registered, wait kind, candidate seen | `worker_begin`/`_end`, `task_queued`, `register_external`, `channel_wait_begin`/`_end` |
| Channels | `src/runtime/platform/channel_posix.c` | ring (`buf`, `head`, `tail`, `count`), `closed`, two waiter counts, one mutex, two conditions | `new`, `send`, `recv`, `tryRecv`, `close`, `length`, `isClosed`; `Task.spawn` |
| Task groups | `async_posix.c`, code emitted by `src/codegen/CodegenExpr.cpp` and `CodegenApply.cpp` | children, `pending_count`, `cancelled`, first error | `begin`, `register`, `cancel`, `await_all`, `end` |
| Exceptions | `src/runtime/exceptions.c` | per thread: handler stack, frames to clean up, groups to end | `try_begin`/`_end`, `raise`, bind push/pop |
| io_uring layer | `src/runtime/platform/uring_linux.c` and its users | ring, submission ids, stash of completions, table of contexts | submit, `ring_await`, `io_await`, cancel |
| GPU int64 backend | `src/runtime/gpu_vulkan_ops.c`, `gpu_vulkan_compute.c`, `gpu_vulkan_device.c` | device, pipelines built once, one mutex for building and one for submitting | `map`, `reduce`, `filter` (marks, scan, scatter), map-reduce graphs, shutdown |
| GPU float backend | `src/runtime/gpu_stub.c` | context, pipelines, pinned buffers, queue of jobs, fence thread | `ctx_init`/`_shutdown`, `scale`, `sum`, `scale_async`, `alloc_pinned`/`free_pinned` |
| Sequences | `src/runtime/seq.c` | flat arrays with an offset; trees of head buffer, chain of chunks, trie and tail buffer; reference counts | `cons`, `snoc`, `tail`, `join`, `difference`, `get`; in place when the count is one |
| Other values | `src/compiled_runtime.c`, `hamt.c` | reference counts, pools of blocks, hash tries | inc/dec, conversions, sets and dicts |
| Compiler | lexer, parser, type checker, linearity, analyses, codegen | syntax trees and environments | sequential passes |
| Legacy pools | `src/thread_pool.cpp` | a C++ queue, mutex, stop flag | submit, shutdown |

`PROJECT.json` lists every part, the ones left out too, with the reason.

### How they interact

* Program code runs on `main` and on the pool's threads. A `let` whose bindings
  are asynchronous begins a group, submits a task per binding, awaits them all,
  and ends the group. `Task.spawn` submits a task with no group.
* A channel call that must wait tells the pool first (`wait_begin`), sleeps at
  most 100 ms on the channel's condition, then tells the pool again
  (`wait_end`) and tests once more. `wait_begin` may start a compensation worker,
  and answers whether the caller is deadlocked: it found, for the second time in
  a row, that no counter leaves it anyone to wait for.
* A task's promise is what ties it to its group: a worker records an error in
  the group, cancels it, completes the promise, and then counts the child out.
* A raise unwinds the groups begun since the handler: `group_end`, without
  `await_all`.
* Input and output: a call submits an operation to the process's ring and files a
  context under its id, which is the promise. `io_await` takes the context, waits
  in `ring_await` and post-processes. All threads share the ring: who waits
  drains the completion queue and stashes the completions of the others. Io
  operations are never registered with a group.
* A raise goes to the innermost try. On the way it releases the parameters of the
  functions it leaves, through a chain of frames that functions link only while
  there is a handler, and ends the groups of the `let`s it leaves, by comparing
  the depth each was recorded at.
* A GPU call of compiled code runs on the thread that makes it. Calls build what
  is missing under one mutex and use the device under another.
  `scale_async` submits, queues a job and returns a promise; the fence thread
  polls the device and the promise's group, copies the result into the caller's
  array and completes the promise.
* Compiled code gives a sequence one reference for each use of its name, so that
  the runtime may update in place what only one name has.

### What is hard, and what makes it correct

`PROJECT.json` "hazards" names each line. In short:

* counters kept by five operations of many threads, every decrement clamped at
  zero, so that a lost update would never show: *the counters are exact*;
* a decision ("nobody is left") read from counters other threads are changing:
  *who finds a deadlock is alone*;
* two conditions per channel, one signal per value, timeouts racing signals,
  callers that never slept overtaking woken ones: *every call takes effect at
  once on a bounded FIFO, and no wakeup is lost*;
* threads that block while the task that would unblock them is queued: *every
  queued task starts*;
* a scope that ends by its value, by a child's error or by a raise, while
  children are queued, running, failing or counting themselves out: *a scope
  outlives its children, an error is raised again, a scope being left is left*;
* completions reaped by whoever waits, kept in a stash of fixed size and a table
  with open addressing: *each operation is answered once, with its context, to
  who awaits it*;
* four stacks that a raise cuts at once, one of them linked only in parts:
  *a raise goes to a live handler and ends exactly what it leaves*;
* some fifty acquisitions per GPU call with one label for all failures, barriers
  between dependent dispatches: *nothing is leaked, freed twice or freed in use,
  and every read sees the last write*;
* a fence thread that answers a cancelled group early: *the caller's array is not
  written late, promises are completed once, truthfully, and in the end*;
* sequences updated in place through shared parts: *nobody else's list changes,
  nothing is freed too early*.

## 2. The modules

| Module | Contents |
|---|---|
| `WorkerPool` | Variables and actions of the pool, promises and counters. No `Next` of its own: modules that give tasks something to do EXTEND it. |
| `Channel` | Channels on the pool: every call, its wait loop, timeouts, signals, `:Deadlock`; tasks that call channels; submit and await. |
| `ChannelProperties` | What must hold of `Channel`. |
| `BoundedChannel` | Abstract specification: a bounded FIFO with atomic calls, no threads. `Channel` implements it with `queue <- Queue(c)`, `closed`, `event`. |
| `TaskGroup` | Scopes, children, errors, cancellation on the pool, with the properties. |
| `Uring` | The ring, the stash, the table of contexts and the awaits of io promises, with the properties. |
| `Unwind` | Handlers, frames, group bindings and `yona_try_depth` through any nesting of functions, tries and `let`s, with the properties. |
| `GpuCalls` | What a step of a GPU call does to handles, objects, barriers, caches and locks, for any scripts; the properties. |
| `GpuSteps` | The steps scripts are made of. |
| `GpuMemory` | What the Vulkan memory model says of a buffer. |
| `VulkanScripts` | The calls of the int64 backend as scripts: each label of each function, its steps in order. |
| `FloatScripts` | The calls of the float backend, and one turn of its fence thread, as scripts. |
| `GpuPrograms` | The two backends' scripts, put together. |
| `GpuViews` | What one call knows of itself at each step, whatever others do, and the rules its steps keep: what the theorems about `GpuCalls` ask of a script. |
| `GpuScriptsChecked` | Computes the views of every script and checks, as an ASSUME, that they keep the rules. |
| `GpuAsync` | Promises, groups, cancellation, the job queue and the fence thread of `scale_async`, with the properties. |
| `PersistentSeq` | Sequences on a heap of counted objects, the operations, and programs that use them; the properties. |
| `MCChannel`, `MCTaskGroup`, `MCUring`, `MCVulkan`, `MCGpuAsync` | Sets, and in `MCVulkan` programs, for the `.cfg` files. |
| `PoolProofs` | Lemmas: what each action of `WorkerPool` does to the counters and to the place a task is in. |
| `ChannelProofs` | Theorems about `Channel`: types, counters, tasks, deadlocks, the waiter counts; `Channel` implements `BoundedChannel`. |
| `TaskGroupProofs` | Theorems about `TaskGroup`. |
| `UnwindProofs` | Theorems about `Unwind`. |
| `UringProofs` | Theorems about `Uring`. |
| `GpuProofs` | Theorems about `GpuCalls`, then those about `GpuAsync`. |

Operators whose comment begins with "Mutant:" are plausible bugs of the
definition that follows them. No module uses one; `PROJECT.json` "mutants" says
which property each of them must break.

### WorkerPool

Each action is one critical section: between two of them a thread touches only
its own locals, so finer steps would add interleavings and no behaviours.

| Code | Model |
|---|---|
| position of a thread in the code | `pc[t]`; `idle` is `pthread_cond_wait` in `yona_pool_worker` |
| `submit_task` | `Submit` (promise, `pool_init`), `Register` (externals only), `TaskQueued` (counter), `Enqueue` (FIFO): the counter and the queue have different mutexes, so they are apart |
| `yona_pool_worker` | `Dequeue`, `WorkerBegin`, the task's own code, `Fulfil`, `WorkerEnd` |
| `channel_wait_begin` / `_end` | `WaitBegin` (counters, `SpawnCompensation`, `DeadlockCandidate`) / `WaitEnd` |
| `async_await`, `await_keep` | `Await`, `AwaitReturn` |
| `if (n > 0) n--` | `Dec(n)` |
| `pthread_create` in `start_pool_worker_unlocked` | `StartWorkers`, which may start fewer if `CreateMayFail` |

A task is an identity submitted at most once. Which unused identity a new task
takes is immaterial (`NewTask` takes a fixed one), since nothing compares them.

### Channel

| Code | Model |
|---|---|
| `pthread_mutex_lock(&ch->lock)` ... `unlock` | one action; if the thread keeps the mutex from one action to the next (woken, or about to raise), `owner[c]` is that thread |
| `while (count == capacity && !closed) {` | `SendBlocks` when the test holds, `SendRefused`/`SendDone` when it does not |
| body up to `timedwait` | `Sleep`: `wait_begin`, then the waiter count, then the mutex is released; or the deadlock exit |
| `timedwait` returns | `Wake` (a signal) or `Timeout` (100 ms, or spurious): mutex back, waiter count, `wait_end`; next is the test again |
| `pthread_cond_signal` | `Signal`: one of the sleepers not yet signalled |
| the two waiter fields, never initialised | any value of `Garbage` |
| `raise(:Deadlock)` | `RaiseDeadlock`; the program may go on |

A program is any sequence of calls of its threads: the model does not fix one.
`AwaitCall` is limited to `Awaiters`, `MaxCalls` bounds channel calls and awaits
of a behaviour.

### TaskGroup

| Code | Model |
|---|---|
| code of a grouped `let` | `LetBegin`, `StartChild`, ..., `BodyEnds`, or `BodyRaises` at any point of the body |
| `group_await_all` | `AwaitChild` per child, `AwaitAllReturns` (value or first error) |
| `group_end` | `DestroyChild` per child, `FreeGroup` |
| worker, cancelled group | `Skip` |
| worker, task raises | `RecordError`, `CancelGroup`, `FailPromise`, `CountOut`: four steps, since the parent may run between them |
| worker, task returns | `TaskReturns`, `CountOut` |

Scopes nest, on `main` and inside tasks.

### Uring

One action is one critical section of `yona_ring_mutex` or of `io_ctx_mutex`, or
one system call.

| Code | Model |
|---|---|
| `ring_submit_sqe` | `Submit`, which also sets the ring up; kind `promise` goes on to `io_ctx_put`, kind `bare` (`httpGet`, the chunk iterator) to `ring_await` |
| `ring_submit_sqe` returns 0 | the file and console calls do their work at once and file a direct result (`Direct`, also when a file cannot be opened); `httpGet` awaits 0 (`SubmitBareRefused`); the other network calls return 0, whose await returns 0: no state changes |
| `io_ctx_put`, `io_ctx_take` | `Put`, `Taken`: linear probing, and the search that stops at the first free slot (`Found`) |
| `yona_rt_io_await` | `Await` (take, and look whether it is a direct result), `PutBack`, `ring_await`, `Finish` |
| `ring_await`, one turn of its loop | `NoRing`, `TakeStashed` or `Drain` under the mutex, then `Enter` without it |
| `pending_put` | in `Drain`: kept as long as there is `Room` |
| kernel | `Complete`: posts a completion and wakes every thread asleep in `io_uring_enter` |

A set stands for the completion queue: its order decides only which completions
a full stash loses, and the model allows any. A promise stays with the thread
that has it.

### Unwind

One thread, one action per runtime call or piece of emitted code. The C stack is
`stack`; a function, try or `let` is named by its position in it.

| Code | Model |
|---|---|
| `yona_rt_try_push` / `_end`, `yona_exc.depth`, `yona_try_depth` | `TryBegin`, `TryEnd`, `TryTooDeep` (abort) |
| frame setup of a function with a heap parameter: `if (yona_try_depth)` ... `frame_push` | `Call` with `Setup`: no frame, a frame that is linked, or one that is set up and not linked, since the runtime looks at `depth` and the code at `yona_try_depth` |
| `yona_rt_frame_transfer` | `HandOver`: clears the parameter in the current frame, whoever's that is |
| `frame_pop` in the epilogue | `Return` |
| `bind_push` / `_pop` and the group | `LetBegin`, `LetEnd` |
| `yona_rt_raise` | `Raise`: `unwind_frames_to` (`Walk`, `Stops`, `Passed`), `group_arena_unwind_to` (`Unbound`), the jump |
| use of a group that is gone, walking into memory never written | `status = "undefined"` |

### GpuCalls, VulkanScripts, FloatScripts

The calls are long, branch only to labels, and differ in data: each is a script.
A script maps a label of the C function to its steps; a step that may fail names
the label it jumps to. `GpuCalls` interprets them, one step at a time, with any
step failing.

| Code | Model |
|---|---|
| `vkCreate...`, `vkAllocate...`, `malloc` and their failure | `New(class, name)`, `Or(label, ...)` |
| `if (x) vkDestroy...(x)` at a label | `Free`; `FreeOnly` where the variable is not cleared |
| `vkCmdDispatch`, `vkCmdCopyBuffer`, `vkCmdPipelineBarrier` | `Dispatch`, `Copy`, `Barrier` with stages and buffers; a buffer's `view` follows the Vulkan memory model |
| `vkQueueSubmit`, `vkWaitForFences` | `Submit` (the thread has `Work` on the device), `Wait` |
| `pthread_mutex_lock` / `unlock` | `Lock`, `Unlock` |
| a pipeline or a device that is kept | `KeepAs` a flag; `IfSet`, `Take` |
| a retry without staging buffers | the script of the inner function, with its own failure label |

Lists of 1 to 5 elements have 0 to 3 passes of the scan, so `filter0`, `filter2`,
`filter3` and `graph0`, `graph2` stand for all the shapes of the loop.

### GpuAsync

What matters of `scale_async` beside its objects: `step[c]` is where the caller
is, `promise[c]` and `device[c]` what became of the call.

| Code | Model |
|---|---|
| `scale_async` submits, registers the promise and makes the job | `Call`, one critical section of `g_mu` |
| a step fails, or `elements` is null: `promise_complete(p, ..., NULL)` | `CallFails` |
| `count == 0` | `CallEmpty`: completed as ok, with no group |
| the group is cancelled before the submission (-887) | `CallCancelled`: completed with a group the promise was never registered with |
| no pipeline for doubles (-20) | `CallInPlace` (scales, registers), `InPlaceDone` (completes) |
| `fence_worker_ensure_started`, `fence_job_enqueue` | `EnsureStarted`, `EnqueueJob`: two critical sections of `jobs`' mutex |
| `promise_complete` with a group | `Complete` under the promise's mutex, and then, in a step of its own, `CountOut` of `pending_count`: `CallerCountsOut`, `CountOutEarly`, `CountOutLast` |
| the fence thread, one job | `TakeJob`, `Poll` (reads the group's flag), `DeliverEarly`, `WaitRound` (a timeline or fence wait of one millisecond), `CopyBack`, `Deliver` |
| `promise_delivered` | `Delivered` |

### PersistentSeq

| Code | Model |
|---|---|
| the objects of `seq.c` | records in `heap`; an address is a position, and after each operation what can be reached is renumbered (`Compacted`), so that states are equal up to addresses |
| `B = 32`, shift and mask | `B`, division and remainder (`Slot`) |
| arrays with their unused parts | only what can be read again; past the end of a flat array a read gives 0 |
| `rc_inc`, `rc_dec` | `Inc`, `Dec`, recursive over `Pointers` |
| `cons`, `tail`, `snoc`, `join`, `difference` | `SeqCons` ... `SeqDifference`, with the paths of the code (`FlatCons`, `HeadFull`, `FromChain`, `FromTrie`, `PushBuf`, ...) |
| compiled code around a call | a use of a name consumes its reference unless the result is the same object (`Gives`, `Consumes`); `Share` is the reference "Seq protection" adds |

`CarefulSpec` is the programs that keep away from four defects (section 5), `Spec`
is every program.

## 3. What TLC checks

| Run | Question | Instance | Distinct states |
|---|---|---|---|
| `two_channels` | Are channels bounded FIFOs, the counters exact and the finder of a deadlock alone, through raises, retries on another channel, failing `pthread_create`? | `main`, 1 initial worker, at most 2; 2 tasks; capacities 2 and 0 (raised to 1); 2 values; 4 calls | 985,559 |
| `channel_live` | Do signals suffice without timeouts? With them: does every queued task start, is a lone deadlock on one channel reported? | same pool; capacity 1; 1 value; 4 calls | 58,407 |
| `groups` | Scopes and their children, safety and liveness | 2 scopes, 2 tasks; 2 workers, of which `pthread_create` starts 0, 1 or 2 | 270,523 |
| `ring` | Is each operation answered once, is its context kept, is what somebody awaits reaped? | 2 callers; 3 operations, 2 outstanding; 1 direct result; stash of 2; table of 4; 2 awaits a promise | 454,885 |
| `unwind` | Does a raise go to a live handler, and end and release exactly what it leaves? | nesting of 5; 3 handlers; 2 bindings | 995,071 |
| `gpu_ops` | Whatever fails: are objects given back once, reads synchronised, submissions serialised? | 22 calls; three programs: int64 calls, float calls beside the fence thread, two mapping threads | 621,081 |
| `gpu_async` | Are promises completed once, truthfully, and in the end? Before it begins: do the scripts keep the rules that the theorems about `GpuCalls` assume? | 3 calls, 2 of them in a group; the 20 calls of both backends | 86,280 |
| `sequences` | Do operations in place, through shared parts, keep every name's list? | buffers of 2; lists of up to 4; 8 elements pushed into a trie (three levels); 2 names | 93,736 |
| `group_use_after_free`, `lost_wakeup`, `stale_depth`, `shared_chunk` | Four places where the code does otherwise than it says | see section 5 | |

Properties, all with a comment that states them at their definition:

* **FIFO**: `ImplementsBoundedChannel` (refinement).
* **Counters**: `CountersExact`, `QueuedExact`, `WaitersExact`, `TaskInOnePlace`.
* **Deadlock detection**: `DeadlockOnlyWhenAlone` (safe), `LoneDeadlockReported`
  (live, for what the code does report: a program stuck on one channel, with one
  blocked worker at most).
* **Progress**: `SignalsSuffice` (under `SignalSpec`: even if no timeout ever
  elapses), `QueuedTaskStarts`, `ScopesEnd` (a scope being left is left, unless the
  pool is exhausted for good).
* **Scopes**: `ScopeOutlivesChildren`, `ErrorsPropagate`, `PendingExact`.
* **Io**: `InOnePlace` (nothing dropped, nothing given twice), `ContextsKept`,
  `AwaitedIsReaped` (live: the completion is given to the waiter or is in the
  stash for it; that the waiter then takes it is what `lost_wakeup` refutes).
* **Unwinding**: `HandlersLive`, `ChainIntact` (the frames a try saved are met),
  `GroupsEndedAsLeft`, `ParamsReleasedOnce`.
* **GPU calls**: `NothingLeaks`, `NothingFreedTwice`, `NothingFreedInUse`,
  `ReadsTheLatest` (barriers), `OneAtATime` (locks).
* **GPU promises**: `JobInOnePlace`, `UsedWhileOpen`, `ArrayLeftAlone`,
  `PromiseTellsTheTruth`, `CancelledCallsReturn` and `EveryCallReturns` (live).
* **Sequences**: `CountsExact` (no count is below the references there are),
  `ImmutableLists` (every name still has the list that the operations on lists
  give).

### Bounds, and why they are enough

* *Two workers and main.* All detection is about "another worker", "another
  external" and "queued"; two workers and main give every combination of
  {running, blocked, idle} for a worker, its sibling and the external. One
  initial worker with a limit of two makes the compensation worker start while
  the first is blocked.
* *Capacity 2 and 1.* Indices wrap within four calls, and full, partly full and
  empty all differ. A requested capacity of 0 exercises the correction.
* *Two values* tell a swap from a repetition.
* *Calls* (`MaxCalls` 4): `TypeOK` keeps `calls` at most `MaxCalls`. Four calls
  suffice for two sleepers, a call that overtakes them and a close; a thread that
  loops in one call (timeout, test, sleep) uses none.
* *Two tasks, two scopes* give siblings, nested scopes, a task with no group
  beside a grouped one, and a child skipped because of its sibling. Three
  siblings differ from two only in who is last. With a pool of one thread, or none,
  a task that awaits its own child keeps the child in the queue for ever; that,
  `PoolExhausted`, is what `ScopesEnd` allows for, and without it TLC finds
  `ScopesEnd` violated.
* *One channel* in `channel_live`: `LoneDeadlockReported` is about threads stuck on
  one channel. The same `.cfg` with `Chans <- TwoChans`, `Requested <- CapZeroOne`
  and `MaxCalls = 3` passes too (100,278 states), and there the conjunct
  `OnOneChannel` is needed: without it `main` on one channel and a worker on the
  other time out and test in turn, and neither is ever alone in `wait_begin`.

* *Three operations, two outstanding, a stash of two*: a drain meets the waiter's
  own completion, another's, both or neither, and fills the stash exactly when
  the waiter's own is not among them (a second await of the same promise, or
  the id 0 of a refused submission). The first direct id, 9, has the home slot
  of the ring's id 1, so contexts collide and probe past each other; four slots
  hold every context there can be. Two awaits per promise are what a name used
  twice compiles to.
* *Nesting of five* holds a try, a raise caught in it, and after that another try
  with a `let` and two functions inside: every pair of a stale depth, an unlinked
  frame and a handler. The limits of 3 handlers and 2 bindings are reached.
* *GPU*: a call is a script, so its length is the code's. Two threads suffice for
  who builds, who submits; three asynchronous calls put one behind another in the
  queue while a third is in the fence thread's hands.
* *Sequences*: with buffers of two, four elements make a tree of head, two chunks
  and a tail; eight pushed elements make a trie with two levels of nodes, a full
  root and a push that copies a path. Two names are enough for "somebody else". Elements
  that lie next to each other differ.

`CHECK_DEADLOCK FALSE` in every configuration but `GpuOps.cfg`: a program may
stop, once its bounded calls are made and its tasks done. (The GPU's programs can
always make another call, so there a deadlock of its locks would be found. The
notes of what went wrong, which are left out, are written under the device's mutex,
in places with another one held; nothing is taken under it.)

### Fairness, and why the code justifies it

* Threads run: weak fairness of every step that is straight-line code (tests of
  the loop, submit, the worker's steps, the end of an await).
* `SF(Wake(t))`: a thread that was signalled contends for the channel's mutex,
  which its holders always release; strong, as the mutex may be taken and
  released any number of times before.
* `SF(Timeout(t))`, only in `LiveSpec`: the 100 ms of a `timedwait` elapse. Strong
  for the same reason. `SignalSpec` leaves it out, to show that signals alone
  suffice.
* `WF(TaskReturns(w))`: a task that is in no call returns sooner or later. What
  a program calls is never required: `CallStep` is fair only inside a call's
  loop.
* `TaskGroup`: a body ends, by value or by a raise, and so does a task's code.
* `Uring`: a call in progress goes on (weak: its steps stay enabled, the
  mutexes are held for single actions), and the kernel completes every operation
  it was given. That the program awaits a promise is never required.
* `GpuAsync`: the fence thread goes on, and a caller that is about to queue its
  job does. Nothing is assumed of the device: `CancelledCallsReturn` holds though
  it hangs, and `EveryCallReturns` has the end of its commands as a hypothesis.

## 4. What is proved

`PoolProofs` and `ChannelProofs`, for all values of the constants that satisfy
`PoolAssumption` and `ChannelAssumption`: any finite set of externals, any pool
size and limit, any tasks, channels, capacities, values and number of calls, and
**any** initial contents of the waiter counts.

| Theorem | Statement |
|---|---|
| `TypeCorrect` | `Spec => []TypeOK`, which includes that head, tail and count of a ring stay in its buffer |
| `LocalsCorrect` | `Spec => []LocalsExact` |
| `CountersCorrect` | `Spec => []CountersExact` |
| `QueuedCorrect` | `Spec => []QueuedExact` |
| `OnlyWhenAlone` | `Spec => DeadlockOnlyWhenAlone` |
| `TasksCorrect` | `Spec => []TaskInOnePlace` |
| `WaitersCorrect` | `Spec => []WaitersExact` |
| `Refines` | `Spec => ImplementsBoundedChannel` |

**The assumptions** are those of the code: the pool starts no more threads than
its limit, externals are not pool threads, `0` is a possible content of a
waiter count.

**The argument.** The inductive invariant is

    IInv == TypeOK /\ LocalsExact /\ CountersExact /\ QueuedExact

`CountersExact` is not inductive alone: `worker_end` or `wait_end` takes one off a
counter, and whether that is right depends on the thread's own locals (was it
counted as running? in which kind of wait?). `LocalsExact` ties those to `pc`.
`QueuedExact` is needed because `worker_begin` clamps.

1. A step of `Channel` is, for the pool, one of a few moves (`NextMoves`): a call
   returns, a call blocks, a wait ends, or a step of submit, await or a worker.
2. Each move keeps the types and the thread-locals (`ThreadTypes`, `WorkerTypes`,
   `ThreadLocals`, `WorkerLocals`), and with them, by the lemmas of `PoolProofs`,
   the counters: the sets counted gain or lose one thread (`CountAdd`,
   `CountRemove`).
3. `OnlyWhenAlone`: a step that finds a deadlock is a call that blocks with the
   counters at their limits (`FindingBlocks`); the counters are exact before and
   after, so the sets they count are empty but for the caller, and
   `queued_tasks = 0` leaves no task in the queue or on its way (`NothingQueued`).
4. `TasksCorrect` is about cardinalities; what is inductive is `TasksPlaced`
   (`PoolProofs`): the queue has no task twice, and a pending task is queued, on
   its way in or in hand, with nobody else.
5. `Refines` and `WaitersCorrect` need `CallsExact` (whoever is between a wait and
   the end of its turn holds the channel's mutex, so nobody has moved the ring
   since its test; and who is about to raise `:Deadlock` could not go on) and
   `RingExact` (`tail = (head + count) % Cap`, so a value written at `tail` is the
   last of the queue). Then every step maps to a step of `BoundedChannel` or
   leaves queue, `closed` and `event` alone (`NextRefines`).

`TaskGroupProofs`, for any finite set of externals, any pool, any tasks and any
groups:

| Theorem | Statement |
|---|---|
| `TypeCorrect` | `Spec => []TypeOK` of `TaskGroup` (`pending_count` never goes below zero) |
| `ChildrenOver` | `Spec => []ScopeOutlivesChildren` |
| `ErrorsReach` | `Spec => []ErrorsPropagate` |
| `PendingCorrect` | `Spec => []PendingExact` |

The inductive invariant grows in parts, each proved on those before it. A task is
in one place (`TasksPlaced`, from `PoolProofs`), so one worker at most runs it;
a scope belongs to one actor, and that actor runs on one thread. So while a
scope is being left nobody starts a child in it, and its list of children, which
is exactly the tasks that name the group, does not grow: the cursor of
`await_all` has passed only complete promises when it is at the end. A child
counts itself out once, after its promise (`PendingCounted`), and records its
error before it (`Errors`), so a parent that has seen every promise has seen the
error.

`UringProofs`, for all values of the constants that satisfy `UringAssumption`
(direct results are numbered above the ring's operations) and
`OutstandingAssumption` (no more operations are outstanding than the stash can
take, which nothing in the code enforces: 256 of them):

| Theorem | Statement |
|---|---|
| `RingTypes` | `Spec => []TypeOK` of `Uring` |
| `RingAnswersOnce` | `Spec => []InOnePlace` |
| `ContextsWithRoom` | `Spec /\ []TableHasRoom => []ContextsKept` |

The inductive invariant is

    IInv == TypeOK /\ AboutAnId /\ BareWaits /\ InOnePlace /\ FewOutstanding

`InOnePlace` needs the count of what is outstanding: queue and stash are disjoint
parts of it, so a drain has room for every completion that is not its own
(`RoomForAll`, `DrainKeepsAll`), and `FewOutstanding` needs `InOnePlace`, since
only what was answered makes room for another submission. `AboutAnId` and
`BareWaits` say that only a bare wait is about no operation.

`ContextsKept` has a hypothesis, because `io_ctx_put` gives up when the table is
full: `TableHasRoom`, that whoever files a context finds a free slot. No bound on
the promises outstanding gives that, since a context `io_ctx_take` does not find
(section 5) stays in the table for good. What is inductive is then that an id is issued to one caller, which
awaits only what it holds (`OneOwner`), that no slot's context is in another slot
(`OneSlot`) and that a context not yet taken is in some slot (`Filed`). Which slot
an id hashes to does not matter to the proof.

`UnwindProofs`, for programs of any depth, any number of handlers and bindings:

| Theorem | Statement |
|---|---|
| `TypeCorrect` | `Spec => []TypeOK` of `Unwind` |
| `HandlersCorrect` | `Spec => []HandlersLive` |
| `GroupsCorrect` | `Spec => GroupsEndedAsLeft` |
| `ChainCorrect` | `Spec => []ChainIntact` |
| `ParamsCorrect` | `Spec => ParamsReleasedOnce` |

The first inductive invariant is

    IInv == TypeOK /\ FramesKnown /\ Handlers /\ Bound /\ Recorded /\ ExactOpen
              /\ Counted

A raise must unbind just the lets inside the try it goes to, and it knows only
depths. `Handlers` and `Bound` say that tries and open lets are in their stacks in
order; `Recorded` that the depth recorded with a let is above that of every try
around it, and of no other if it is exact. So what is unbound is a suffix
(`UnboundSuffix`) that has every let being left (`RaiseIs`), and no other whose
depth is exact (`RaiseExact`). What `yona_try_depth` counts too much after a raise
(section 5) makes a depth inexact, never too low, which is why a group may end
too early and never too late.

The chain of frames is followed by a recursive function, `Walk`, and what it meets
cannot be had by induction over the chain here. It is had from an invariant that
does not speak of walks: `Chained` says that the linked functions are those called
inside the tries, and that the current frame, each `prev` and each saved frame is
that of the linked function next below, if there is one, and otherwise the frame
the outermost try found. That is kept by every step, one linked function at a time
(`ChainInvariant`, with `IInv`). What the walk then meets follows from a least
counterexample: the recursion has a solution, since `prev` is always further down
(`WalkExists`), and from the innermost frame it passes exactly the functions
called inside the innermost try (`WalkToHandler`). With `Owned`, that a linked
frame drops its parameter just as long as the function has it, a raise releases
the parameters of the functions it leaves.

`GpuProofs`, about `GpuCalls`, for any number of threads, any well-formed scripts
(`ScriptAssumption`: a label ends with a jump or a return, jumps lead to labels),
any locks and buffers, and programs that make the calls in any order:

| Theorem | Statement | for calls with |
|---|---|---|
| `TypeCorrect` | `Spec => []TypeOK` | |
| `NothingLeft` | `Spec => []NothingLeaks` | views that keep the rules (`Obeyed`) |
| `FreedOnce` | `Spec => []NothingFreedTwice` | also `Frugal` |
| `FreedWhenDone` | `Spec => []NothingFreedInUse` | also `Frugal`, `DeviceLast` |
| `OneCaller` | `Spec => []OneAtATime` | also `Exclusive` |
| `ReadsLatest` | `Spec => []ReadsTheLatest` | pictures (`PObeyed`) |

What a script does is what its steps add up to, so nothing can be proved of
scripts in general. The theorems therefore divide the work. A *view* is what a
thread knows at a step though other threads run beside it: where it is, its
handles, objects and locks, and the flags that the locks it holds guard. A set of
views that begins with the entries and is closed under the steps, failing ones
included, says what one call alone does; it is finite and small, and does not
depend on the number of threads. The theorems say that this is enough:

1. `VStep`: if every call's views keep the rules for locks and flags
   (`Disciplined`: a lock is released by its owner with its flags as at rest, a
   flag is set under its guard, a call returns with nothing), every running thread
   is at one of its views, in every interleaving. A step of one thread leaves the
   views of the others true because a flag has one guard and a lock one owner
   (`SharedStep`, `OthersSee`).
2. So whatever every view has, every thread has (`FreedOnce`, `NothingLeft`), and
   what one view knows of a lock no other thread can have (`OneCaller`,
   `FreedWhenDone`).
3. A *picture* is a view with the buffers. Buffers are shared by all callers of a
   backend, so a thread knows them only while it holds one lock, the key:
   they are blank when it takes it and when it gives it back, and nobody
   touches them without it (`KeyGuards`, `KeyMoves`, `PNext`).

The hypotheses are about the scripts, which are finite, so TLC decides them:
`RulesAreKept` in `GpuScriptsChecked` computes all views and pictures of all 20
calls, and is evaluated whenever the run `gpu_async` begins. It holds for

* `Disciplined` and `Frugal`: every call but `unpin`;
* `Exclusive`: all int64 calls; the float calls without `async`, `pin`, `unpin`
  and `job`;
* `DeviceLast`: the same float calls. (For the int64 calls `close` destroys the
  device under one lock while another call might hold the other, see section 5:
  which is why `gpu_ops` closes the device from the thread that uses it.)
* `Pictured`: the int64 calls but `close`, key `submit`, with `filterHost` not
  observed (section 5: it does not synchronise, and `RulesAreKept` is false with
  it); the same float calls, key `g_mu`.

The four calls that are left out keep these properties only in programs that see
to something the code does not: `unpin` returns a buffer's memory only while there
is a context, at most one pinned buffer and one job are modelled at a time, and the
job's work is waited for without a lock. `gpu_ops` checks them in such programs.

`GpuProofs`, about `GpuAsync`, for any finite set of calls, any of them in the group:

| Theorem | Statement |
|---|---|
| `AsyncTypes` | `AsyncSpec => []AsyncTypeOK` |
| `JobsKept` | `AsyncSpec => []JobInOnePlace` |
| `OpenWhileUsed` | `AsyncSpec => []UsedWhileOpen` |
| `ArrayNotWrittenLate` | `AsyncSpec => ArrayLeftAlone` |
| `PromisesTrue` | `AsyncSpec => PromiseTellsTheTruth` |

The inductive invariant is

    IInv == AsyncTypeOK /\ CallersExact /\ QueueExact /\ JobExact /\ PendingHeld
              /\ Discards /\ Truth

`QueueExact` and `JobExact` say what is true of a call whose job is in the queue
or in the fence thread's hands, `PendingHeld` that a pending promise has its job
in one of the places; `Discards` that a job whose promise was given early is
marked, which is why its array is not written, and `Truth` that only a result
that was copied is called one. `OpenWhileUsed` is of use up to the completion of
the promise: in `CountOutLast`, which comes after it, the group may be freed
(section 5, 1).

**Only model-checked**: `PersistentSeq` (its operations on counts and tries are
RECURSIVE, which the prover does not take, and its properties need induction over
data), the `GpuCalls` properties of the four calls named above, `NothingFreedInUse`
of the int64 calls (its first half, a thread's own work, is `DoneWith`), that the
scripts keep the rules, and every liveness property (liveness under fairness is out of this
prover's reach).

## 5. Where the code does otherwise than it says

### Found violated by a run

Each is a run TLC must find violated; `PROJECT.json` "findings" quotes the lines.

1. `group_use_after_free`: a parent that sees the last promise complete frees the
   group while the child has still to decrement its `pending_count`. The GPU's fence
   thread completes the promises of its jobs by the same function, and `GpuAsync`
   has the same race (`CountOutLast`).
2. `lost_wakeup`: `ring_await` releases the mutex before it goes to sleep in the
   kernel; a completion stashed for it in between is never seen.
3. `stale_depth`: `yona_rt_raise` does not lower `yona_try_depth`, so that a `let`
   in the code after a caught raise is recorded too deep, and its group ended by
   an inner raise that is caught inside it.
4. `shared_chunk`: `tail` of a tree whose root is unique severs its first chunk
   from the list though a clone of the tree holds that chunk as well: the clone
   loses its other elements.

### Seen while modelling, without a run of their own

The pool and the groups:

* `yona_deadlock_candidate_seen` outlives the wait in which it was set
  (`async_posix.c:272`): a worker that was once a candidate is deadlocked at its
  next first wait, though `main` was signalled and is about to run. What *is*
  guaranteed is `DeadlockOnlyWhenAlone`: every other external counts itself as
  waiting, which is not the same as being stuck.
* Two blocked workers vouch for each other: such a deadlock is never reported.
  What *is* reported is `LoneDeadlockReported`.
* An error of a spawned task is put in its promise, which `yona_rt_async_await`
  does not look at.

The ring:

* An io promise used twice, in a `let` of several bindings, is awaited twice, and
  the second await never returns: `AwaitedIsReaped` is therefore about operations not yet answered.
* A context that collided is not found once the slot before it is free
  (`uring_linux.c:241`), and the raw result is returned as the value.

Sequences (`seq.c`); `CarefulSpec` keeps away from 4 and the next three:

* `snoc` on a flat sequence that was shortened in place copies from the start of
  the array, with the offset (612-621): wrong elements, and reads past the end.
* `join` puts a flat operand's offset into the flags of the result (697-699).
* `flat_to_rbt_for_cons` (318-333) overruns a chunk if the flat sequence is longer
  than 32, `flat_to_rbt_for_snoc` if it is longer than 64.
* A `snoc` on a shared tree with a full tail leaves one reference too many on the
  old root, and `trie_push_leaf` one on a shared child of a unique node: leaks.
  `CountsExact` therefore says "not below" and not "equal".
* A sequence used as a queue never gives back the front of its trie.

The GPU backends:

* `filterHost`, where staging buffers are used and the prefix is summed on the
  host, does not make the marks visible to the shader that scatters
  (`gpu_vulkan_ops.c:2203-2222`, `2303-2341`); `ReadsTheLatest` leaves this call
  out.
* `scale_async` destroys its timeline semaphore twice if the `calloc` of its job
  fails after the submission (`gpu_stub.c:1899`, `1963`). The scripts do so too.
  The constant `Twice` names this one handle at this one label as the exception
  that `NothingFreedTwice` and `Frugal` allow; with `Twice` empty both are violated.
* After an early delivery to a cancelled caller the fence thread goes on to use
  the group and the device, which that caller may end (246, 270; 638-677).
  `UsedWhileOpen` is about the other jobs.
* The fence thread frees command buffers of the shared pool (285) without `g_mu`,
  under which the callers use it (docs/gpu-architecture.md:89).
* A group cancelled after the fence thread read its flag gets its error though
  the array is written. (docs/design-gpu-async.md 8.3 allows that.)
* A call cancelled before its submission completes with a group it was never
  registered with (1822-1832): `pending_count` is decremented once too often
  (`CallCancelled`). Nothing but the unused `done_cond` reads it.
* `enabled_feats` of `gpu_vulkan_device.c` (691-699) is read after its block has
  ended (718-727); `device_shutdown` (817-823) destroys the cached pipelines under
  one of their two mutexes.
* The fence thread may not start (355-369); the promise is then pending until a
  later call starts one. `EveryCallReturns` assumes one has started.
* `vkWaitForFences` that fails without the loss of the device is taken for the
  end of its commands; the model assumes it fails for no other reason.

## 6. What is abstracted or left out

* A value is an element of `Vals`; a task's own code is its calls; an error
  carries only who raised it.
* `length`, `isClosed` and `capacity` read a field. `ch->waiters` is written and
  never read. A channel is destroyed at reference count zero, when no call is in
  progress. `ch->group` is always `NULL`, so the cancellation tests of the channel
  calls never hold and are not in the model.
* In `Channel` a task that raises is the same as one that returns: with no group,
  only the promise's error field differs, which nobody reads.
* `yona_pool_init` has an unguarded flag: two threads could both be first.
  In a compiled program only `main` can be.
* Io operations as children of a group: the code registers none
  (`yona_rt_group_register_io` and `ring_cancel` have no caller).
* The submission ring: `io_uring_enter` may fail to take an entry and its result
  is ignored, a listed hazard; in the model the kernel takes every entry. Signals
  that interrupt `io_uring_enter`: they would only wake a waiter. Post-processing
  is whether the context was found, not what is done with a buffer. After 2^31
  operations the ring's ids reach the direct results'; the model assumes not.
* Functions without heap parameters, symbols and messages of exceptions: they
  touch neither frames nor depths.
* Sizes, numbers and shaders of the GPU calls, the choice of memory types and
  queue families, and the host fallbacks: loops over arrays. What is modelled of a
  call is every object, lock, barrier and submission.
* The counts of a sequence's own elements, and arenas.

### Not modelled

* **Lexer, parser, type checker, checkers and analyses, code generator, lowering**
  (most of the lines of the repository): sequential functions from syntax trees to
  syntax trees or to LLVM's. They have no state that outlives a call and nothing
  happens beside them; what could be wrong in them is how a program of some shape is
  translated, and small instances of programs are what the test suite has by the
  hundred. The *protocols* the generator emits calls of (scopes of a `let`,
  handlers and frames, consumed arguments) are modelled, with the runtime they
  call.
* **kqueue and Windows ports**: the same contracts on other kernels, as
  alternatives to the modelled files.
* **Hash tries, closures, json, regex, utf16, the standard library**: sequential
  conversions and memory layouts. Of the hash tries what is hard is the layout of
  nodes of 32 slots, which a small instance loses.
* **Legacy C++ thread pools**: no compiled program reaches them.
* **Language server, driver, linking**: one request or file at a time.

What is left that could be modelled: tasks blocked on channels inside a cancelled
group, the composition of `Channel` and `TaskGroup` (the nested awaits that
exhaust the pool), and an abstract specification of the ring.

## 7. Running

    tlc -workers 2 -config TwoChannels.cfg MCChannel
    tlc -workers 2 -config Ring.cfg MCUring
    tlc -workers 2 -config Unwind.cfg Unwind
    tlc -workers 2 -config GpuOps.cfg MCVulkan
    tlc -workers 2 -config Sequences.cfg PersistentSeq
    tlapm ChannelProofs.tla
    tlapm TaskGroupProofs.tla
    tlapm UringProofs.tla
    tlapm UnwindProofs.tla
    tlapm GpuProofs.tla

`PROJECT.json` gives the configuration of each run, the source lines behind every
definition, the mutants, and the theorems.
