-------------------------- MODULE ChannelProperties --------------------------
(***************************************************************************)
(* What must hold of Channel.  The invariants come first, then the action  *)
(* properties, the refinement of BoundedChannel, and liveness.             *)
(***************************************************************************)
EXTENDS Channel

PCs == {"run", "register", "queue", "enqueue", "await", "asleep", "retest",
        "raise", "idle", "popped", "end"}
Calls == {<<>>} \cup {SendCall(c, v) : c \in Chans, v \in Vals}
                \cup {RecvCall(c) : c \in Chans}

ChanTypeOK ==
  /\ DOMAIN buf = Chans /\ \A c \in Chans : buf[c] \in [0 .. Cap[c] - 1 -> Vals \cup {0}]
  /\ head \in [Chans -> Nat] /\ tail \in [Chans -> Nat] /\ count \in [Chans -> Nat]
  /\ \A c \in Chans : head[c] < Cap[c] /\ tail[c] < Cap[c] /\ count[c] <= Cap[c]
  /\ closed \in [Chans -> BOOLEAN]
  /\ sendWaiters \in [Chans -> Int] /\ recvWaiters \in [Chans -> Int]
  /\ owner \in [Chans -> Threads \cup {Nobody}]
  /\ call \in [Threads -> Calls]
  /\ signalled \subseteq Threads
  /\ calls \in 0 .. MaxCalls

\* The types of all the variables; the indices and the count of each ring stay
\* within its buffer.
TypeOK == pc \in [Threads -> PCs] /\ PoolTypeOK /\ ChanTypeOK

-----------------------------------------------------------------------------
(* Invariants; CountersExact and QueuedExact are WorkerPool's. *)

\* What a thread's thread-locals say of it agrees with where it stands, whatever
\* was raised, caught or timed out before: a pool thread counts as a worker from
\* its begin to its end, a wait kind is set exactly during a wait, and only the
\* pool's own threads are not registered as externals.
LocalsExact ==
  /\ \A t \in Threads :
       /\ pc[t] \in {"register", "queue", "enqueue"} => arg[t] \in Tasks /\ initialized
       /\ pc[t] = "register" => t \in Externals
       /\ isWorker[t] <=> t \in Workers /\ pc[t] \notin {"idle", "popped"}
       /\ registered[t] => t \in Externals
       /\ waitKind[t] = IF pc[t] \notin {"asleep", "raise"} THEN 0
                        ELSE IF isWorker[t] THEN 1 ELSE 2
       /\ waitKind[t] = 2 => registered[t]
  /\ ~initialized => workerThreads = 0 /\ queuedTasks = 0

\* A channel's waiter counts are the threads asleep on each side, off by no
\* more than what the field held when the channel was made.
WaitersExact ==
  \A c \in Chans :
    /\ sendWaiters[c] - Cardinality(Sleepers("send", c)) \in Garbage
    /\ recvWaiters[c] - Cardinality(Sleepers("recv", c)) \in Garbage

\* A submitted task whose promise is pending is in exactly one place: on its
\* way into the queue, in the queue once, or in the hands of one pool thread.
TaskInOnePlace ==
  \A k \in Tasks :
    promise[k] = "pending" =>
      Cardinality({i \in DOMAIN taskQueue : taskQueue[i] = k})
        + Cardinality({w \in Workers : task[w] = k /\ pc[w] # "end"})
        + Cardinality({t \in Threads : pc[t] \in {"register", "queue", "enqueue"}
                                        /\ arg[t] = k}) = 1

-----------------------------------------------------------------------------
(* Deadlock detection: what it never does. *)

\* The test of the wait loop a thread is in has turned false: it would go on.
Ready(t) ==
  LET c == call[t].chan
  IN  closed[c] \/ IF call[t].op = "send" THEN count[c] # Cap[c] ELSE count[c] # 0

FindsDeadlock(t) == pc[t] # "raise" /\ pc'[t] = "raise"

\* :Deadlock is found only by a thread that is alone: nothing is queued or on
\* its way, every other worker is between tasks, and every other external that
\* ever used the pool is itself waiting (async_posix.c:168, "only when every
\* known worker task is blocked and no queued task can make progress").
DeadlockOnlyWhenAlone ==
  [][\A t \in Threads : FindsDeadlock(t) =>
       /\ taskQueue = <<>>
       /\ \A w \in Workers \ {t} : pc[w] = "idle"
       /\ \A e \in Externals \ {t} : registered[e] => pc[e] \in {"asleep", "raise"}
    ]_vars

-----------------------------------------------------------------------------
(* The channels are bounded FIFO queues. *)

Queue(c) == [i \in 1 .. count[c] |-> buf[c][(head[c] + i - 1) % Cap[c]]]

Abstract == INSTANCE BoundedChannel
              WITH Clients <- Threads, Capacity <- Cap,
                   queue <- [c \in Chans |-> Queue(c)]

\* Every call, blocked or not, takes effect at one instant on a bounded FIFO:
\* nothing is lost, duplicated or reordered, a closed channel takes no value
\* and is drained before recv returns None, and a call gives up only where it
\* could not have gone on.
ImplementsBoundedChannel == Abstract!Spec

-----------------------------------------------------------------------------
(* Liveness *)

\* The signals suffice: without one timeout ever elapsing, no thread sleeps for
\* good on a channel that would let it go on (no wakeup is lost between the
\* test and the wait, to a thief, or at a close).
SignalsSuffice ==
  \A t \in Threads : []<>~(pc[t] = "asleep" /\ Ready(t))

\* As timeouts elapse, a queued task is started, even when every pool thread is blocked in a
\* channel call: compensation workers are created for it.
QueuedTaskStarts == TimeoutFairness =>
  \A k \in Tasks : (\E i \in DOMAIN taskQueue : taskQueue[i] = k)
                     ~> (\E w \in Workers : task[w] = k)

\* Every thread of the program waits for another one, for good.
Hopeless(t) ==
  \/ pc[t] = "idle"
  \/ pc[t] = "await" /\ promise[arg[t]] = "pending"
  \/ pc[t] \in {"asleep", "retest", "raise"} /\ ~Ready(t)

Stuck == /\ taskQueue = <<>>
         /\ \A t \in Threads : Hopeless(t)
         /\ \E t \in Threads : pc[t] # "idle"

\* One channel is all the program is stuck on.
OnOneChannel ==
  \E c \in Chans : \A t \in Threads :
    pc[t] \in {"asleep", "retest", "raise"} => call[t].chan = c

\* A program that gets stuck on one channel is told, as timeouts elapse: some
\* call raises :Deadlock, so that it is stuck no more (docs/channels.md:137),
\* where one worker at most is in a channel call and nobody awaits a promise.
\* Neither condition can be dropped.  Two blocked workers vouch for each other
\* and are never told.  And the mutex of one channel is what keeps two threads'
\* turns of the wait loop apart: of main and a worker stuck on two channels, each
\* can find the other between its wait_end and its wait_begin for ever.
LoneDeadlockReported == TimeoutFairness =>
  []<>~(/\ Stuck /\ OnOneChannel
        /\ \A t \in Threads : pc[t] # "await"
        /\ Cardinality({w \in Workers : pc[w] # "idle"}) <= 1)
=============================================================================
