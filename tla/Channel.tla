------------------------------- MODULE Channel -------------------------------
(***************************************************************************)
(* Bounded channels (src/runtime/platform/channel_posix.c) on the worker   *)
(* pool: a ring buffer, a mutex and two condition variables per channel,   *)
(* and the wait loop that raises :Deadlock when the pool's counters say    *)
(* twice in a row that nobody is left to wait for.                         *)
(*                                                                         *)
(* A call that does not wait is one critical section of the channel's      *)
(* mutex, one action.  A call that waits is split where other threads can  *)
(* see it: going to sleep (the mutex is released by timedwait), waking     *)
(* with the mutex back (the waiter counts and wait_end), and the next turn *)
(* of the loop.  owner[c] is the thread that holds the mutex between two   *)
(* actions.                                                                *)
(***************************************************************************)
EXTENDS WorkerPool

CONSTANTS
  Chans,      \* the channels
  Requested,  \* Requested[c]: the capacity channel c was created with
  Vals,       \* what is sent
  Garbage,    \* what the uninitialised waiter counts may hold at first
  Awaiters,   \* the threads that may await a task's promise
  MaxCalls,   \* bound: channel calls and awaits in a behaviour
  Patient,    \* TRUE: every wait is cut short of its 100 ms by a signal
  Nobody

\* yona_rt_channel_new raises a capacity below 1 to 1.
Cap == [c \in Chans |-> IF Requested[c] < 1 THEN 1 ELSE Requested[c]]

ASSUME ChannelAssumption ==
  /\ Requested \in [Chans -> Int]
  /\ Garbage \subseteq Int /\ 0 \in Garbage
  /\ Awaiters \subseteq Threads
  /\ MaxCalls \in Nat /\ Patient \in BOOLEAN
  /\ Nobody \notin Threads

VARIABLES
  buf, head, tail, count,    \* the ring of each channel
  closed,
  sendWaiters, recvWaiters,  \* read by the other side's wait_begin
  owner,                     \* who holds the channel's mutex, or Nobody
  call,                      \* the blocking call a thread is in, <<>> if none
  signalled,                 \* sleepers whose condition variable was signalled
  calls,                     \* calls made so far
  event                      \* history: the latest call that returned

ringVars  == <<buf, head, tail, count, closed>>
chanVars  == <<ringVars, sendWaiters, recvWaiters, owner, call, signalled,
               calls, event>>
vars      == <<poolVars, chanVars>>

-----------------------------------------------------------------------------
\* yona_rt_channel_new: memory from the allocator, with every field set but
\* the two waiter counts.
Init ==
  /\ PoolInit
  /\ buf = [c \in Chans |-> [i \in 0 .. Cap[c] - 1 |-> 0]]
  /\ head = [c \in Chans |-> 0]
  /\ tail = [c \in Chans |-> 0]
  /\ count = [c \in Chans |-> 0]
  /\ closed = [c \in Chans |-> FALSE]
  /\ sendWaiters \in [Chans -> Garbage]
  /\ recvWaiters \in [Chans -> Garbage]
  /\ owner = [c \in Chans |-> Nobody]
  /\ call = [t \in Threads |-> <<>>]
  /\ signalled = {}
  /\ calls = 0
  /\ event = <<"start">>

\* The threads asleep on one of a channel's condition variables: not_full
\* for op "send", not_empty for op "recv".
Sleepers(op, c) == {t \in Threads : pc[t] = "asleep" /\ call[t].op = op
                                                     /\ call[t].chan = c}

\* pthread_cond_signal wakes one of the sleepers it has not woken yet.
Signal(op, c) ==
  LET idle == Sleepers(op, c) \ signalled
  IN  IF idle = {} THEN UNCHANGED signalled
      ELSE \E t \in idle : signalled' = signalled \cup {t}

Broadcast(c) ==
  signalled' = signalled \cup Sleepers("send", c) \cup Sleepers("recv", c)

-----------------------------------------------------------------------------
\* Thread t may run a critical section of channel c for call k: it starts
\* the call and finds the mutex free, or it is back at the loop's test.
Starts(t, k) ==
  /\ pc[t] = "run" /\ owner[k.chan] = Nobody
  /\ calls < MaxCalls /\ calls' = calls + 1

Retries(t, k) ==
  /\ pc[t] = "retest" /\ call[t] = k
  /\ UNCHANGED calls

Enters(t, k) == Starts(t, k) \/ Retries(t, k)

\* The call ends: the mutex is released and the outcome is the caller's.
Leaves(t, k, outcome) ==
  /\ pc' = [pc EXCEPT ![t] = "run"]
  /\ call' = [call EXCEPT ![t] = <<>>]
  /\ owner' = [owner EXCEPT ![k.chan] = Nobody]
  /\ event' = outcome
  /\ UNCHANGED <<sendWaiters, recvWaiters, arg, taskVars, threadVars,
                 counterVars, localVars>>

SendCall(c, v) == [op |-> "send", chan |-> c, val |-> v]
RecvCall(c)    == [op |-> "recv", chan |-> c]

\* Mutant: the waiter is counted before the deadlock test, which leaves the loop.
SleepCountsEarly(t, k, opposite) ==
  /\ WaitBegin(t, opposite)
  /\ call' = [call EXCEPT ![t] = k]
  /\ pc' = [pc EXCEPT ![t] = IF Deadlocked(t) THEN "raise" ELSE "asleep"]
  /\ owner' = [owner EXCEPT ![k.chan] = IF Deadlocked(t) THEN t ELSE Nobody]
  /\ IF k.op = "send"
     THEN /\ sendWaiters' = [sendWaiters EXCEPT ![k.chan] = @ + 1]
          /\ UNCHANGED recvWaiters
     ELSE /\ recvWaiters' = [recvWaiters EXCEPT ![k.chan] = @ + 1]
          /\ UNCHANGED sendWaiters
  /\ UNCHANGED <<ringVars, signalled, event>>

\* The wait loop's body up to the sleep.  A thread that finds itself
\* deadlocked keeps the mutex and goes on to RaiseDeadlock.
Sleep(t, k, opposite) ==
  /\ WaitBegin(t, opposite)
  /\ call' = [call EXCEPT ![t] = k]
  /\ pc' = [pc EXCEPT ![t] = IF Deadlocked(t) THEN "raise" ELSE "asleep"]
  /\ owner' = [owner EXCEPT ![k.chan] = IF Deadlocked(t) THEN t ELSE Nobody]
  /\ LET one == IF Deadlocked(t) THEN 0 ELSE 1
     IN  IF k.op = "send"
         THEN /\ sendWaiters' = [sendWaiters EXCEPT ![k.chan] = @ + one]
              /\ UNCHANGED recvWaiters
         ELSE /\ recvWaiters' = [recvWaiters EXCEPT ![k.chan] = @ + one]
              /\ UNCHANGED sendWaiters
  /\ UNCHANGED <<ringVars, signalled, event>>

-----------------------------------------------------------------------------
(* yona_rt_channel_send *)

SendBlocks(t, c, v) ==
  /\ count[c] = Cap[c] /\ ~closed[c]
  /\ Enters(t, SendCall(c, v))
  /\ Sleep(t, SendCall(c, v), recvWaiters[c])

SendRefused(t, c, v) ==
  /\ closed[c]
  /\ Enters(t, SendCall(c, v))
  /\ Leaves(t, SendCall(c, v), <<"refused", t, c>>)
  /\ UNCHANGED <<ringVars, signalled>>

\* Mutant: `if` for `while`, a sender that was woken does not look again.
SendDoneUnchecked(t, c, v) ==
  /\ count[c] # Cap[c] \/ pc[t] = "retest"
  /\ ~closed[c]
  /\ Enters(t, SendCall(c, v))
  /\ buf' = [buf EXCEPT ![c][tail[c]] = v]
  /\ tail' = [tail EXCEPT ![c] = (@ + 1) % Cap[c]]
  /\ count' = [count EXCEPT ![c] = @ + 1]
  /\ Signal("recv", c)
  /\ Leaves(t, SendCall(c, v), <<"sent", t, c, v>>)
  /\ UNCHANGED <<head, closed>>

\* Mutant: tail is one past the buffer before it wraps.
SendDoneWrapsLate(t, c, v) ==
  /\ count[c] # Cap[c] /\ ~closed[c]
  /\ Enters(t, SendCall(c, v))
  /\ buf' = [buf EXCEPT ![c][tail[c]] = v]
  /\ tail' = [tail EXCEPT ![c] = (@ + 1) % (Cap[c] + 1)]
  /\ count' = [count EXCEPT ![c] = @ + 1]
  /\ Signal("recv", c)
  /\ Leaves(t, SendCall(c, v), <<"sent", t, c, v>>)
  /\ UNCHANGED <<head, closed>>

SendDone(t, c, v) ==
  /\ count[c] # Cap[c] /\ ~closed[c]
  /\ Enters(t, SendCall(c, v))
  /\ buf' = [buf EXCEPT ![c][tail[c]] = v]
  /\ tail' = [tail EXCEPT ![c] = (@ + 1) % Cap[c]]
  /\ count' = [count EXCEPT ![c] = @ + 1]
  /\ Signal("recv", c)
  /\ Leaves(t, SendCall(c, v), <<"sent", t, c, v>>)
  /\ UNCHANGED <<head, closed>>

-----------------------------------------------------------------------------
(* yona_rt_channel_recv and yona_rt_channel_try_recv *)

RecvBlocks(t, c) ==
  /\ count[c] = 0 /\ ~closed[c]
  /\ Enters(t, RecvCall(c))
  /\ Sleep(t, RecvCall(c), sendWaiters[c])

RecvDrained(t, c) ==
  /\ count[c] = 0 /\ closed[c]
  /\ Enters(t, RecvCall(c))
  /\ Leaves(t, RecvCall(c), <<"drained", t, c>>)
  /\ UNCHANGED <<ringVars, signalled>>

\* The common end of both: the value at head is taken, one sender signalled.
Take(t, c) ==
  /\ count[c] # 0
  /\ head' = [head EXCEPT ![c] = (@ + 1) % Cap[c]]
  /\ count' = [count EXCEPT ![c] = @ - 1]
  /\ Signal("send", c)
  /\ Leaves(t, RecvCall(c), <<"some", t, c, buf[c][head[c]]>>)
  /\ UNCHANGED <<buf, tail, closed>>

RecvDone(t, c) == Enters(t, RecvCall(c)) /\ Take(t, c)

TryRecv(t, c) ==
  /\ Starts(t, RecvCall(c))
  /\ \/ Take(t, c)
     \/ /\ count[c] = 0
        /\ Leaves(t, RecvCall(c), <<"empty", t, c>>)
        /\ UNCHANGED <<ringVars, signalled>>

\* Mutant: a close signals one receiver.
CloseSignalsOne(t, c) ==
  /\ Starts(t, RecvCall(c))
  /\ closed' = [closed EXCEPT ![c] = TRUE]
  /\ Signal("recv", c)
  /\ Leaves(t, RecvCall(c), <<"closed", t, c>>)
  /\ UNCHANGED <<buf, head, tail, count>>

(* yona_rt_channel_close *)
Close(t, c) ==
  /\ Starts(t, RecvCall(c))
  /\ closed' = [closed EXCEPT ![c] = TRUE]
  /\ Broadcast(c)
  /\ Leaves(t, RecvCall(c), <<"closed", t, c>>)
  /\ UNCHANGED <<buf, head, tail, count>>

-----------------------------------------------------------------------------
(* The rest of the wait loop, for both sides. *)

\* timedwait returns with the mutex, whatever made it return: the waiter is
\* uncounted, wait_end runs, and the loop's test is next.
Resume(t) ==
  LET k == call[t]
  IN  /\ owner[k.chan] = Nobody
      /\ owner' = [owner EXCEPT ![k.chan] = t]
      /\ Goto(t, "asleep", "retest")
      /\ IF k.op = "send"
         THEN /\ sendWaiters' = [sendWaiters EXCEPT ![k.chan] = @ - 1]
              /\ UNCHANGED recvWaiters
         ELSE /\ recvWaiters' = [recvWaiters EXCEPT ![k.chan] = @ - 1]
              /\ UNCHANGED sendWaiters
      /\ WaitEnd(t)
      /\ signalled' = signalled \ {t}
      /\ UNCHANGED <<ringVars, call, calls, event>>

Wake(t)    == pc[t] = "asleep" /\ t \in signalled /\ Resume(t)
Timeout(t) == ~Patient /\ pc[t] = "asleep" /\ t \notin signalled /\ Resume(t)

\* Mutant: the raise skips wait_end.
RaiseInsideWait(t) ==
  LET k == call[t]
  IN  /\ Goto(t, "raise", "run")
      /\ owner' = [owner EXCEPT ![k.chan] = Nobody]
      /\ call' = [call EXCEPT ![t] = <<>>]
      /\ event' = <<"deadlock", t, k.chan>>
      /\ UNCHANGED <<ringVars, sendWaiters, recvWaiters, signalled, calls, arg,
                     taskVars, threadVars, counterVars, localVars>>

\* wait_end, unlock, raise.  The program may catch it and go on.
RaiseDeadlock(t) ==
  LET k == call[t]
  IN  /\ Goto(t, "raise", "run")
      /\ WaitEnd(t)
      /\ owner' = [owner EXCEPT ![k.chan] = Nobody]
      /\ call' = [call EXCEPT ![t] = <<>>]
      /\ event' = <<"deadlock", t, k.chan>>
      /\ UNCHANGED <<ringVars, sendWaiters, recvWaiters, signalled, calls>>

-----------------------------------------------------------------------------
\* One channel call of thread t, or one more turn of a call's loop.
CallStep(t) ==
  \E c \in Chans :
    \/ \E v \in Vals : SendBlocks(t, c, v) \/ SendRefused(t, c, v) \/ SendDone(t, c, v)
    \/ RecvBlocks(t, c) \/ RecvDrained(t, c) \/ RecvDone(t, c)
    \/ TryRecv(t, c)
    \/ Close(t, c)

\* submit_task, after the promise is made.
SubmitStep(t) == (Register(t) \/ TaskQueued(t) \/ Enqueue(t)) /\ UNCHANGED chanVars

\* A program submits a task, or waits for one it submitted.
SubmitCall(t) == \E k \in Tasks : Submit(t, k) /\ UNCHANGED chanVars

AwaitCall(t) ==
  /\ t \in Awaiters
  /\ calls < MaxCalls /\ calls' = calls + 1
  /\ \E k \in Tasks : Await(t, k)
  /\ UNCHANGED <<ringVars, sendWaiters, recvWaiters, owner, call, signalled, event>>

AwaitDone(t) == AwaitReturn(t, "freed") /\ UNCHANGED chanVars

TaskTaken(w)    == Dequeue(w) /\ UNCHANGED chanVars
TaskStarts(w)   == WorkerBegin(w, "run") /\ UNCHANGED chanVars
TaskReturns(w)  == Fulfil(w, "run", "done", "end") /\ UNCHANGED chanVars
TaskLeft(w)     == WorkerEnd(w) /\ UNCHANGED chanVars

Next ==
  \/ \E t \in Threads :
       \/ CallStep(t)
       \/ Wake(t) \/ Timeout(t) \/ RaiseDeadlock(t)
       \/ SubmitCall(t) \/ SubmitStep(t)
       \/ AwaitCall(t) \/ AwaitDone(t)
  \/ \E w \in Workers : TaskTaken(w) \/ TaskStarts(w) \/ TaskReturns(w) \/ TaskLeft(w)

Spec == Init /\ [][Next]_vars

\* Threads run: the code between two waits is straight-line, and a task's own
\* code ends.  A thread woken by a signal gets the mutex sooner or later (SF:
\* whoever holds it lets it go).  What a program calls next is its own affair.
SignalFairness ==
  /\ \A t \in Threads :
       /\ WF_vars(pc[t] = "retest" /\ CallStep(t))
       /\ SF_vars(Wake(t))
       /\ WF_vars(RaiseDeadlock(t)) /\ WF_vars(SubmitStep(t)) /\ WF_vars(AwaitDone(t))
  /\ \A w \in Workers :
       /\ WF_vars(TaskTaken(w)) /\ WF_vars(TaskStarts(w))
       /\ WF_vars(TaskReturns(w)) /\ WF_vars(TaskLeft(w))

\* The 100 ms of each timedwait elapse.
TimeoutFairness == \A t \in Threads : SF_vars(Timeout(t))

SignalSpec == Spec /\ SignalFairness
=============================================================================
