------------------------------- MODULE Uring -------------------------------
(***************************************************************************)
(* Asynchronous input and output on Linux                                  *)
(* (src/runtime/platform/uring_linux.c, file_linux.c, net_linux.c).        *)
(* A call submits an operation to the one io_uring of the process, files   *)
(* a context under its id and returns the id as a promise; io_await takes  *)
(* the context, waits for the completion in ring_await and post-processes. *)
(* Whoever waits drains the completion queue and stashes what is not his.  *)
(*                                                                         *)
(* Each action is one critical section of yona_ring_mutex or io_ctx_mutex, *)
(* or one system call; callers are the threads of the program.             *)
(* The order of the completion queue is left out: it decides only which    *)
(* completions a full stash loses, and here any may be.                    *)
(***************************************************************************)
EXTENDS Integers, FiniteSets, FiniteSetsExt

CONSTANTS
  Callers,
  StashMax,        \* RING_PENDING_MAX
  TableSize,       \* IO_CTX_TABLE_SIZE
  DirectBase,      \* the first id of a direct result
  InitMayFail,     \* the kernel may refuse a ring
  MaxOps,          \* bound: operations submitted to the ring
  MaxDirect,       \* bound: direct results
  MaxOutstanding,  \* bound: operations submitted and not answered
  MaxUses          \* bound: awaits of one promise

ASSUME UringAssumption ==
  /\ StashMax \in Nat /\ TableSize \in Nat \ {0}
  /\ MaxOps \in Nat /\ MaxDirect \in Nat /\ MaxOutstanding \in Nat /\ MaxUses \in Nat
  /\ DirectBase \in Nat /\ DirectBase > MaxOps
  /\ InitMayFail \in BOOLEAN

\* The stash is large enough for the program: nothing in the code enforces it.
ASSUME OutstandingAssumption == MaxOutstanding <= StashMax

RingIds   == 1..MaxOps
DirectIds == DirectBase..(DirectBase + MaxDirect - 1)
Ids       == RingIds \cup DirectIds
Slots     == 0..(TableSize - 1)

VARIABLES
  initialized,  \* the ring exists
  nextId, nextDirect,
  inflight,     \* operations the kernel has
  cq,           \* completions nobody has reaped
  stash,        \* ring_pending: completions reaped for somebody else
  table,        \* io_ctx_table: the id in each slot, 0 when it is free
  holds,        \* the promises a caller's program has
  pc, cur,      \* where a caller is, and the id it is about
  bare,         \* the caller is in ring_await without a context
  used,         \* bound: awaits of each promise so far
  answered      \* history: ids whose result somebody was given

ringVars == <<initialized, nextId, inflight, cq, stash>>
vars == <<ringVars, nextDirect, table, holds, pc, cur, bare, used, answered>>

Submitted   == 1..(nextId - 1)
Outstanding == Submitted \ answered

Init ==
  /\ initialized = FALSE
  /\ nextId = 1 /\ nextDirect = DirectBase
  /\ inflight = {} /\ cq = {} /\ stash = {}
  /\ table = [s \in Slots |-> 0]
  /\ holds = [t \in Callers |-> {}]
  /\ pc = [t \in Callers |-> "run"]
  /\ cur = [t \in Callers |-> 0]
  /\ bare = [t \in Callers |-> FALSE]
  /\ used = [i \in Ids |-> 0]
  /\ answered = {}

Goto(t, where) == pc' = [pc EXCEPT ![t] = where]
About(t, id)   == cur' = [cur EXCEPT ![t] = id]

-----------------------------------------------------------------------------
(* The table of contexts: open addressing, linear probing. *)

Probe(id, i) == (id + i) % TableSize
FreeAt(id)   == {i \in Slots : table[Probe(id, i)] = 0}
HeldAt(id)   == {i \in Slots : table[Probe(id, i)] = id}

\* Mutant: the home slot, whoever has it.
PutAtHome(id) == [table EXCEPT ![Probe(id, 0)] = id]

\* io_ctx_put: the first free slot; a full table loses the context.
Put(id) == IF FreeAt(id) = {} THEN table
           ELSE [table EXCEPT ![Probe(id, Min(FreeAt(id)))] = id]

\* io_ctx_take looks no further than the first free slot.
Found(id) == \E i \in HeldAt(id) : \A j \in FreeAt(id) : i < j
Taken(id) == IF Found(id) THEN [table EXCEPT ![Probe(id, Min(HeldAt(id)))] = 0]
             ELSE table

-----------------------------------------------------------------------------
(* Submitting. *)

\* Mutant: the id is the counter's new value.
SubmitNumbersLate(t, kind) ==
  /\ pc[t] = "run" /\ nextId \in RingIds /\ Cardinality(Outstanding) < MaxOutstanding
  /\ initialized' = TRUE
  /\ nextId' = nextId + 1
  /\ inflight' = inflight \cup {nextId'}
  /\ About(t, nextId')
  /\ Goto(t, IF kind = "promise" THEN "attach" ELSE "reap")
  /\ bare' = [bare EXCEPT ![t] = kind = "bare"]
  /\ UNCHANGED <<cq, stash, nextDirect, table, holds, used, answered>>

\* ring_submit_sqe, which sets the ring up if it has to.  httpGet and the chunk
\* iterator submit "bare" operations, which they wait for at once.
Submit(t, kind) ==
  /\ pc[t] = "run" /\ nextId \in RingIds /\ Cardinality(Outstanding) < MaxOutstanding
  /\ initialized' = TRUE
  /\ nextId' = nextId + 1
  /\ inflight' = inflight \cup {nextId}
  /\ About(t, nextId)
  /\ Goto(t, IF kind = "promise" THEN "attach" ELSE "reap")
  /\ bare' = [bare EXCEPT ![t] = kind = "bare"]
  /\ UNCHANGED <<cq, stash, nextDirect, table, holds, used, answered>>

\* No ring: ring_submit_sqe returns 0, and httpGet waits for the id 0.
SubmitBareRefused(t) ==
  /\ pc[t] = "run" /\ InitMayFail /\ ~initialized
  /\ About(t, 0) /\ Goto(t, "reap")
  /\ bare' = [bare EXCEPT ![t] = TRUE]
  /\ UNCHANGED <<ringVars, nextDirect, table, holds, used, answered>>

\* io_register_direct_result: no ring, or a file that could not be opened, so
\* the call was made at once and only its result is filed.
Direct(t) ==
  /\ pc[t] = "run" /\ nextDirect \in DirectIds
  /\ nextDirect' = nextDirect + 1
  /\ About(t, nextDirect) /\ Goto(t, "attach")
  /\ bare' = [bare EXCEPT ![t] = FALSE]
  /\ UNCHANGED <<ringVars, table, holds, used, answered>>

\* io_ctx_put, and the id is the caller's promise.
Attach(t) ==
  /\ pc[t] = "attach"
  /\ table' = Put(cur[t])
  /\ holds' = [holds EXCEPT ![t] = @ \cup {cur[t]}]
  /\ Goto(t, "run")
  /\ UNCHANGED <<ringVars, nextDirect, cur, bare, used, answered>>

-----------------------------------------------------------------------------
(* Awaiting.  The compiler emits an io_await at every use of a promise. *)

\* io_await up to its first io_ctx_take.
Await(t, id) ==
  /\ pc[t] = "run" /\ id \in holds[t] /\ used[id] < MaxUses
  /\ used' = [used EXCEPT ![id] = @ + 1]
  /\ table' = Taken(id)
  /\ About(t, id)
  /\ bare' = [bare EXCEPT ![t] = FALSE]
  /\ \/ ~Found(id) /\ Goto(t, "reap") /\ UNCHANGED answered
     \/ Found(id) /\ id \in RingIds /\ Goto(t, "putback") /\ UNCHANGED answered
     \/ Found(id) /\ id \in DirectIds /\ UNCHANGED pc /\ answered' = answered \cup {id}
  /\ UNCHANGED <<ringVars, nextDirect, holds>>

PutBack(t) ==
  /\ pc[t] = "putback"
  /\ table' = Put(cur[t])
  /\ Goto(t, "reap")
  /\ UNCHANGED <<ringVars, nextDirect, holds, cur, bare, used, answered>>

\* ring_await returns to io_await, or to a caller that has no context.
Returns(t) == Goto(t, IF bare[t] THEN "run" ELSE "finish")
Given(t)   == answered' = answered \cup {cur[t]}
OnlyRing   == UNCHANGED <<initialized, nextId, inflight, nextDirect, table, holds,
                          cur, bare, used>>

NoRing(t) ==
  /\ pc[t] = "reap" /\ ~initialized
  /\ Returns(t)
  /\ OnlyRing /\ UNCHANGED <<cq, stash, answered>>

TakeStashed(t) ==
  /\ pc[t] = "reap" /\ initialized /\ cur[t] \in stash
  /\ stash' = stash \ {cur[t]}
  /\ Returns(t) /\ Given(t)
  /\ OnlyRing /\ UNCHANGED cq

Room == StashMax - Cardinality(stash)

\* Mutant: what is not awaited here is skipped.
DrainDropsOthers(t) ==
  /\ pc[t] = "reap" /\ initialized /\ cur[t] \notin stash
  /\ cq' = {}
  /\ \/ cur[t] \in cq /\ Returns(t) /\ Given(t)
     \/ cur[t] \notin cq /\ Goto(t, "enter") /\ UNCHANGED answered
  /\ OnlyRing /\ UNCHANGED stash

\* Mutant: the loop stops at its own completion, the head moves to the tail.
DrainStopsWhenFound(t) ==
  /\ pc[t] = "reap" /\ initialized /\ cur[t] \notin stash
  /\ \E seen \in SUBSET (cq \ {cur[t]}) :
       /\ cur[t] \notin cq => seen = cq
       /\ stash' = stash \cup seen
  /\ cq' = {}
  /\ \/ cur[t] \in cq /\ Returns(t) /\ Given(t)
     \/ cur[t] \notin cq /\ Goto(t, "enter") /\ UNCHANGED answered
  /\ OnlyRing

\* The whole queue is consumed; the others' completions are stashed as long as
\* there is room, and the result of pending_put is not looked at.
Drain(t) ==
  /\ pc[t] = "reap" /\ initialized /\ cur[t] \notin stash
  /\ LET others == cq \ {cur[t]} IN
     \E kept \in SUBSET others :
       /\ kept = others \/ Cardinality(kept) = Room
       /\ Cardinality(kept) <= Room
       /\ stash' = stash \cup kept
  /\ cq' = {}
  /\ \/ cur[t] \in cq /\ Returns(t) /\ Given(t)
     \/ cur[t] \notin cq /\ Goto(t, "enter") /\ UNCHANGED answered
  /\ OnlyRing

\* io_uring_enter with min_complete 1, after the mutex was released: returns at
\* once when the queue is not empty, and otherwise sleeps.
Enter(t) ==
  /\ pc[t] = "enter"
  /\ Goto(t, IF cq = {} THEN "asleep" ELSE "reap")
  /\ UNCHANGED <<ringVars, nextDirect, table, holds, cur, bare, used, answered>>

\* The rest of io_await: the context decides what is done with the result.
Finish(t) ==
  /\ pc[t] = "finish"
  /\ table' = Taken(cur[t])
  /\ Goto(t, "run")
  /\ UNCHANGED <<ringVars, nextDirect, holds, cur, bare, used, answered>>

\* The kernel posts a completion and wakes everybody asleep in io_uring_enter.
Complete(id) ==
  /\ id \in inflight
  /\ inflight' = inflight \ {id}
  /\ cq' = cq \cup {id}
  /\ pc' = [t \in Callers |-> IF pc[t] = "asleep" THEN "reap" ELSE pc[t]]
  /\ UNCHANGED <<initialized, nextId, stash, nextDirect, table, holds, cur, bare,
                 used, answered>>

-----------------------------------------------------------------------------
Kinds == {"promise", "bare"}

Program(t) == \/ \E kind \in Kinds : Submit(t, kind)
              \/ SubmitBareRefused(t)
              \/ Direct(t)
              \/ \E id \in holds[t] : Await(t, id)

AwaitStep(t) == \/ Attach(t) \/ PutBack(t)
                \/ NoRing(t) \/ TakeStashed(t) \/ Drain(t)
                \/ Enter(t) \/ Finish(t)

Next == \/ \E t \in Callers : Program(t) \/ AwaitStep(t)
        \/ \E id \in inflight : Complete(id)

Spec == Init /\ [][Next]_vars

\* A call in progress goes on, and the kernel completes every operation; the
\* program need not await anything.
Fairness == /\ \A t \in Callers : WF_vars(AwaitStep(t))
            /\ \A id \in RingIds : WF_vars(Complete(id))

LiveSpec == Spec /\ Fairness

-----------------------------------------------------------------------------
(* Properties. *)

Waiting == {"reap", "enter", "asleep"}

\* Every variable has its type; ids stay within the counters that issue them.
TypeOK ==
  /\ initialized \in BOOLEAN
  /\ nextId \in 1..(MaxOps + 1)
  /\ nextDirect \in DirectBase..(DirectBase + MaxDirect)
  /\ inflight \subseteq Submitted /\ cq \subseteq Submitted /\ stash \subseteq Submitted
  /\ table \in [Slots -> Ids \cup {0}]
  /\ holds \in [Callers -> SUBSET Ids]
  /\ pc \in [Callers -> {"run", "attach", "putback", "finish"} \cup Waiting]
  /\ cur \in [Callers -> Ids \cup {0}]
  /\ bare \in [Callers -> BOOLEAN]
  /\ used \in [Ids -> 0..MaxUses]
  /\ answered \subseteq Ids

\* A submitted operation is in exactly one place: with the kernel, in the
\* queue, in the stash, or given to whoever awaited it.  None is dropped or
\* given twice, whoever reaps it, as long as no more are outstanding than the
\* stash can take (uring_linux.c:113-114).
InOnePlace ==
  /\ Submitted = inflight \cup cq \cup stash \cup (answered \cap RingIds)
  /\ inflight \cap (cq \cup stash \cup answered) = {}
  /\ cq \cap (stash \cup answered) = {}
  /\ stash \cap answered = {}

\* The context of a promise nobody has awaited is in the table, once, however
\* other ids collide with it and move in and out of the slots it was put in.
ContextsKept ==
  \A t \in Callers : \A id \in holds[t] :
    used[id] = 0 => Cardinality({s \in Slots : table[s] = id}) = 1

\* An operation that somebody waits for is reaped: its completion is given to
\* the caller that waits for it or is in the stash for it.
AwaitedIsReaped ==
  \A id \in RingIds :
    (id \notin answered /\ \E t \in Callers : pc[t] \in Waiting /\ cur[t] = id)
      ~> (id \in answered \cup stash)

\* An await returns (uring.h:4-5, docs/async.md:39).
AwaitReturns == \A t \in Callers : pc[t] \in Waiting ~> pc[t] = "run"

=============================================================================
