------------------------------- MODULE GpuAsync --------------------------------
(***************************************************************************)
(* Asynchronous calls of the float backend (gpu_stub.c, scale_async) and   *)
(* the thread that completes their promises.  A call submits commands,     *)
(* registers its promise with its task group, if it has one, and queues a  *)
(* job; if the device cannot scale it does so itself.  The fence thread    *)
(* takes the jobs one at a time, polls the device and, between two polls,  *)
(* the group: a cancelled group gets its promise back at once, and the job *)
(* goes on without its result.  Whoever completes the promise of a group's *)
(* child counts it out of the group afterwards.                            *)
(*                                                                         *)
(* What the steps do to the objects of the device is in FloatScripts; this *)
(* module is about promises, groups, the queue and the caller's array.     *)
(***************************************************************************)
EXTENDS Integers, Sequences, FiniteSets

CONSTANTS Calls,     \* the calls a program makes, each once
          Grouped,   \* those made in the task group; the others are Std\GPU's
          NoCall     \* the fence thread has no job

ASSUME CallAssumption == Grouped \subseteq Calls /\ NoCall \notin Calls

VARIABLES
  step,      \* call -> where its caller is in scale_async
  promise,   \* call -> "none", "pending" or how it was completed
  device,    \* call -> "idle", "running", "done", "lost": its commands
  copied,    \* call -> the result is in the caller's array
  discard,   \* call -> discard_host_write
  queue,     \* the jobs that wait, in order
  started,   \* the fence thread exists
  job,       \* the job it has
  pc,        \* where it is with that job
  group,     \* "open", "ended" (freed)
  cancelled, \* the group's flag
  children,  \* the calls registered with the group
  pending,   \* its pending_count
  ctx        \* "open", "ended": the device

callerVars == <<step, started, queue>>
groupVars == <<group, cancelled, children, pending>>
asyncVars == <<step, promise, device, copied, discard, queue, started, job, pc, groupVars, ctx>>

AsyncInit ==
  /\ step = [c \in Calls |-> "none"]
  /\ promise = [c \in Calls |-> "none"]
  /\ device = [c \in Calls |-> "idle"]
  /\ copied = [c \in Calls |-> FALSE]
  /\ discard = [c \in Calls |-> FALSE]
  /\ queue = <<>> /\ started = FALSE /\ job = NoCall /\ pc = "idle"
  /\ group = "open" /\ cancelled = FALSE /\ children = {} /\ pending = 0
  /\ ctx = "open"

IsCancelled(c) == c \in Grouped /\ cancelled
(* yona_rt_promise_complete, up to the promise's own mutex: the first result *)
(* stays.  Then, if it is told of a group, CountOut.                         *)
Complete(c, r) == promise' = [promise EXCEPT ![c] = IF @ \in {"none", "pending"} THEN r ELSE @]
CountOut == pending' = pending - 1 /\ UNCHANGED <<group, cancelled, children>>

(* yona_rt_group_register, if there is a group. *)
Register(c) ==
  /\ children' = IF c \in Grouped THEN children \cup {c} ELSE children
  /\ pending' = IF c \in Grouped THEN pending + 1 ELSE pending
  /\ UNCHANGED <<group, cancelled>>
-----------------------------------------------------------------------------
(* A caller.  While the group is open it can make calls in it. *)
MayCall(c) == step[c] = "none" /\ ctx = "open" /\ (c \in Grouped => group = "open")
CallerAt(c, from, to) == step[c] = from /\ step' = [step EXCEPT ![c] = to]

(* Under g_mu: the commands are submitted and the promise is registered. *)
Call(c) ==
  /\ MayCall(c) /\ ~IsCancelled(c)
  /\ step' = [step EXCEPT ![c] = "submitted"]
  /\ promise' = [promise EXCEPT ![c] = "pending"]
  /\ device' = [device EXCEPT ![c] = "running"]
  /\ Register(c)
  /\ UNCHANGED <<copied, discard, queue, started, job, pc, ctx>>

(* A step fails, or the array is empty and needs no step: the promise is *)
(* completed here, and not registered.                                   *)
CallFails(c) ==
  /\ MayCall(c)
  /\ step' = [step EXCEPT ![c] = "returned"]
  /\ Complete(c, "failed")
  /\ UNCHANGED <<device, copied, discard, queue, started, job, pc, groupVars, ctx>>

CallEmpty(c) ==
  /\ MayCall(c)
  /\ step' = [step EXCEPT ![c] = "returned"]
  /\ Complete(c, "ok") /\ copied' = [copied EXCEPT ![c] = TRUE]
  /\ UNCHANGED <<device, discard, queue, started, job, pc, groupVars, ctx>>

(* The group is cancelled already.  The promise is counted out of it, which *)
(* it was never registered with.                                            *)
CallCancelled(c) ==
  /\ MayCall(c) /\ IsCancelled(c)
  /\ step' = [step EXCEPT ![c] = "counting"]
  /\ Complete(c, "cancelled")
  /\ UNCHANGED <<device, copied, discard, queue, started, job, pc, groupVars, ctx>>

(* No pipeline for doubles (-20): the array is scaled in place, which may *)
(* fail, before the promise is registered and completed.                  *)
CallInPlace(c) ==
  /\ MayCall(c)
  /\ step' = [step EXCEPT ![c] = "scaled"]
  /\ promise' = [promise EXCEPT ![c] = "pending"]
  /\ \E done \in BOOLEAN : copied' = [copied EXCEPT ![c] = done]
  /\ Register(c)
  /\ UNCHANGED <<device, discard, queue, started, job, pc, ctx>>

InPlaceDone(c) ==
  /\ CallerAt(c, "scaled", IF c \in Grouped THEN "counting" ELSE "returned")
  /\ Complete(c, IF copied[c] THEN "ok" ELSE "failed")
  /\ UNCHANGED <<device, copied, discard, queue, started, job, pc, groupVars, ctx>>

CallerCountsOut(c) ==
  /\ CallerAt(c, "counting", "returned")
  /\ CountOut
  /\ UNCHANGED <<promise, device, copied, discard, queue, started, job, pc, ctx>>

(* yona_gpu_fence_worker_ensure_started; pthread_create may fail, which nobody is told. *)
EnsureStarted(c) ==
  /\ CallerAt(c, "submitted", "ensured")
  /\ started' \in {started, TRUE}
  /\ UNCHANGED <<promise, device, copied, discard, queue, job, pc, groupVars, ctx>>

\* Mutant: a job behind another one is not linked to it.
EnqueueJobUnlinked(c) ==
  /\ CallerAt(c, "ensured", "returned")
  /\ queue' = IF queue = <<>> THEN <<c>> ELSE queue
  /\ UNCHANGED <<promise, device, copied, discard, started, job, pc, groupVars, ctx>>

EnqueueJob(c) ==
  /\ CallerAt(c, "ensured", "returned")
  /\ queue' = Append(queue, c)
  /\ UNCHANGED <<promise, device, copied, discard, started, job, pc, groupVars, ctx>>

Cancel ==
  /\ group = "open" /\ ~cancelled /\ cancelled' = TRUE
  /\ UNCHANGED <<callerVars, promise, device, copied, discard, job, pc, group, children, pending, ctx>>

(* yona_rt_group_end, by the thread that made the grouped calls: it waits for *)
(* the promises of the children, and frees the group.                         *)
GroupEnd ==
  /\ group = "open" /\ \A c \in Grouped : step[c] \in {"none", "returned"}
  /\ \A c \in children : promise[c] # "pending"
  /\ group' = "ended"
  /\ UNCHANGED <<callerVars, promise, device, copied, discard, job, pc, cancelled, children, pending, ctx>>

(* yona_gpu_vulkan_ctx_shutdown, when every call has been awaited; the device *)
(* is idle first.                                                             *)
Shutdown ==
  /\ ctx = "open" /\ \A c \in Calls : step[c] \in {"none", "returned"} /\ promise[c] # "pending"
  /\ \A c \in Calls : device[c] # "running"
  /\ ctx' = "ended"
  /\ UNCHANGED <<callerVars, promise, device, copied, discard, job, pc, groupVars>>
-----------------------------------------------------------------------------
(* The device. *)
Finish(c) ==
  /\ device[c] = "running"
  /\ \E d \in {"done", "lost"} : device' = [device EXCEPT ![c] = d]
  /\ UNCHANGED <<callerVars, promise, copied, discard, job, pc, groupVars, ctx>>
-----------------------------------------------------------------------------
(* The fence thread, yona_gpu_fence_worker_main and _do_one. *)
FenceAt(l) == pc = l
FenceTo(l) == pc' = l

TakeJob ==
  /\ FenceAt("idle") /\ started /\ queue # <<>>
  /\ job' = Head(queue) /\ queue' = Tail(queue) /\ FenceTo("poll")
  /\ UNCHANGED <<step, promise, device, copied, discard, started, groupVars, ctx>>

\* Mutant: the result is not discarded.
PollKeeping ==
  /\ FenceAt("poll")
  /\ FenceTo(IF IsCancelled(job) THEN "early" ELSE "wait")
  /\ UNCHANGED <<callerVars, promise, device, copied, discard, job, groupVars, ctx>>

\* Mutant: the result is discarded, and the caller goes on waiting.
PollSilent ==
  /\ FenceAt("poll") /\ FenceTo("wait")
  /\ discard' = [discard EXCEPT ![job] = @ \/ IsCancelled(job)]
  /\ UNCHANGED <<callerVars, promise, device, copied, job, groupVars, ctx>>

Poll ==
  /\ FenceAt("poll")
  /\ IF IsCancelled(job) THEN FenceTo("early") /\ discard' = [discard EXCEPT ![job] = TRUE]
                         ELSE FenceTo("wait") /\ UNCHANGED discard
  /\ UNCHANGED <<callerVars, promise, device, copied, job, groupVars, ctx>>

(* promise_delivered: a job completes its promise once. *)
Delivered == promise[job] # "pending"

DeliverEarly ==
  /\ FenceAt("early") /\ FenceTo(IF Delivered THEN "wait" ELSE "earlyOut")
  /\ IF Delivered THEN UNCHANGED promise ELSE Complete(job, "cancelled")
  /\ UNCHANGED <<callerVars, device, copied, discard, job, groupVars, ctx>>

CountOutEarly ==
  /\ FenceAt("earlyOut") /\ FenceTo("wait") /\ CountOut
  /\ UNCHANGED <<callerVars, promise, device, copied, discard, job, ctx>>

\* Mutant: a lost device is waited for.
WaitForever ==
  /\ FenceAt("wait")
  /\ IF device[job] # "done" THEN FenceTo("poll") ELSE FenceTo("drained")
  /\ UNCHANGED <<callerVars, promise, device, copied, discard, job, groupVars, ctx>>

(* One round of waiting: the commands are over, or a millisecond is. *)
WaitRound ==
  /\ FenceAt("wait")
  /\ IF device[job] = "running" THEN FenceTo("poll") ELSE FenceTo("drained")
  /\ UNCHANGED <<callerVars, promise, device, copied, discard, job, groupVars, ctx>>

\* Mutant: the promise is delivered before the device's objects are freed.
CopyBackDelivers ==
  /\ FenceAt("drained") /\ FenceTo("copied")
  /\ copied' = [copied EXCEPT ![job] = device[job] = "done" /\ ~discard[job]]
  /\ Complete(job, IF device[job] = "lost" THEN "failed" ELSE "ok")
  /\ UNCHANGED <<callerVars, device, discard, job, groupVars, ctx>>

(* The command buffer is freed, and the result copied unless nobody wants it. *)
CopyBack ==
  /\ FenceAt("drained") /\ FenceTo("copied")
  /\ copied' = [copied EXCEPT ![job] = device[job] = "done" /\ ~discard[job]]
  /\ UNCHANGED <<callerVars, promise, device, discard, job, groupVars, ctx>>

\* Mutant: the device's answer is not looked at.
OutcomeUnchecked(c) == IF IsCancelled(c) THEN "cancelled" ELSE "ok"
Outcome(c) == CASE device[c] = "lost" -> "failed" [] IsCancelled(c) -> "cancelled" [] OTHER -> "ok"

LetGo == FenceTo("idle") /\ job' = NoCall

(* Memory, buffer and pool are freed; then a promise that was not delivered *)
(* is, and the job is freed once it is counted out.                         *)
Deliver ==
  /\ FenceAt("copied")
  /\ IF Delivered THEN UNCHANGED promise ELSE Complete(job, Outcome(job))
  /\ IF Delivered \/ job \notin Grouped THEN LetGo ELSE FenceTo("out") /\ UNCHANGED job
  /\ UNCHANGED <<callerVars, device, copied, discard, groupVars, ctx>>

\* Mutant: the job is not let go of.
CountOutHolding ==
  /\ FenceAt("out") /\ FenceTo("idle") /\ CountOut
  /\ UNCHANGED <<callerVars, promise, device, copied, discard, job, ctx>>

CountOutLast ==
  /\ FenceAt("out") /\ LetGo /\ CountOut
  /\ UNCHANGED <<callerVars, promise, device, copied, discard, ctx>>

Worker ==
  TakeJob \/ Poll \/ DeliverEarly \/ CountOutEarly \/ WaitRound \/ CopyBack \/ Deliver \/ CountOutLast
Caller(c) ==
  \/ Call(c) \/ CallFails(c) \/ CallEmpty(c) \/ CallCancelled(c)
  \/ CallInPlace(c) \/ InPlaceDone(c) \/ CallerCountsOut(c)
  \/ EnsureStarted(c) \/ EnqueueJob(c)
AsyncNext == \/ \E c \in Calls : Caller(c) \/ Finish(c)
             \/ Cancel \/ GroupEnd \/ Shutdown \/ Worker
AsyncSpec == AsyncInit /\ [][AsyncNext]_asyncVars

(* The fence thread goes on when it can; a caller inside a call does too. *)
(* Nothing is assumed of the device.                                      *)
AsyncLiveSpec == AsyncSpec /\ WF_asyncVars(Worker) /\ \A c \in Calls : WF_asyncVars(EnqueueJob(c))
-----------------------------------------------------------------------------
(* The types of the variables, and what the fence thread has. *)
AsyncTypeOK ==
  /\ step \in [Calls -> {"none", "submitted", "ensured", "scaled", "counting", "returned"}]
  /\ promise \in [Calls -> {"none", "pending", "ok", "failed", "cancelled"}]
  /\ device \in [Calls -> {"idle", "running", "done", "lost"}]
  /\ copied \in [Calls -> BOOLEAN] /\ discard \in [Calls -> BOOLEAN]
  /\ queue \in Seq(Calls) /\ started \in BOOLEAN
  /\ job \in Calls \cup {NoCall} /\ (job = NoCall <=> pc = "idle")
  /\ pc \in {"idle", "poll", "early", "earlyOut", "wait", "drained", "copied", "out"}
  /\ group \in {"open", "ended"} /\ cancelled \in BOOLEAN /\ children \subseteq Grouped /\ pending \in Int
  /\ ctx \in {"open", "ended"}

(* The caller's array is written only while its promise is not completed:   *)
(* what was cancelled early is never written afterwards, when the array may *)
(* be gone or hold something else.                                          *)
ArrayLeftAlone ==
  [][\A c \in Calls : copied'[c] /\ ~copied[c] => promise[c] \in {"none", "pending"}]_asyncVars

(* A promise tells the truth, once and for all: it is completed as ok only if *)
(* the result has been copied, as failed only if it has not, and it stays.    *)
PromiseTellsTheTruth ==
  [][\A c \in Calls :
       /\ promise[c] \in {"none", "pending"} \/ promise'[c] = promise[c]
       /\ promise'[c] = "ok" => copied'[c]
       /\ promise'[c] = "failed" => ~copied'[c]]_asyncVars

(* A job is not lost: what is submitted and not completed is with its caller, *)
(* in the queue, once, or in the fence thread's hands.                        *)
JobInOnePlace ==
  \A c \in Calls :
    LET places == Cardinality({i \in DOMAIN queue : queue[i] = c}) + (IF job = c THEN 1 ELSE 0)
                    + (IF step[c] \in {"submitted", "ensured", "scaled"} THEN 1 ELSE 0)
    IN  places <= 1 /\ (promise[c] = "pending" => places = 1)

(* "no UAF on early `raise` or group cancel" (docs/design-gpu-async.md): when *)
(* the fence thread looks at the group of its job, the group is there, and    *)
(* when it waits, copies or frees, so is the device.  That holds for jobs     *)
(* whose group is not cancelled, up to the completion of their promise.  Not  *)
(* for the last step, CountOutLast, which nobody waits for: the group may be  *)
(* freed then, as in TaskGroup's NoUseAfterFree.  (And a cancelled call has   *)
(* its promise early; its caller may then end the group and the device under  *)
(* the fence thread's hands.)                                                 *)
TouchesGroup == pc \in {"poll", "copied"} /\ job \in Grouped
TouchesDevice == pc \in {"wait", "drained", "copied"}
UsedWhileOpen ==
  job # NoCall /\ ~IsCancelled(job) =>
    (TouchesGroup => group = "open") /\ (TouchesDevice => ctx = "open")

(* Once the fence thread has a call whose group is cancelled, the caller gets *)
(* its promise, even if the device never finishes.                            *)
CancelledCallsReturn == \A c \in Calls : job = c /\ IsCancelled(c) ~> promise[c] # "pending"

(* Every job that is queued when there is a fence thread is completed, if the *)
(* commands of every call come to an end.                                     *)
Finishes == \A c \in Calls : WF_asyncVars(Finish(c))
EveryCallReturns ==
  Finishes => \A c \in Calls : (started /\ step[c] = "returned") ~> promise[c] # "pending"
==============================================================================
