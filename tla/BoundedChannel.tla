--------------------------- MODULE BoundedChannel ---------------------------
(***************************************************************************)
(* What Std\Channel promises its callers (docs/api/Channel.md): a bounded  *)
(* multi-producer multi-consumer FIFO on which every call takes effect at  *)
(* one instant.  There is no thread, no lock, no wait here: a call that    *)
(* cannot take effect is not taken.                                        *)
(***************************************************************************)
EXTENDS Integers, Sequences

CONSTANTS
  Clients,   \* whoever calls
  Chans,     \* the channels
  Vals,      \* what is sent
  Capacity   \* Capacity[c]: how many values channel c holds

VARIABLES
  queue,     \* queue[c]: values sent and not received, oldest first
  closed,    \* closed[c]
  event      \* the latest call that returned: who, on which channel, outcome

vars == <<queue, closed, event>>

Init ==
  /\ queue = [c \in Chans |-> <<>>]
  /\ closed = [c \in Chans |-> FALSE]
  /\ event = <<"start">>

Returns(t, c, outcome) == event' = <<outcome, t, c>>

\* A send succeeds on an open channel with room.
Send(t, c, v) ==
  /\ ~closed[c] /\ Len(queue[c]) < Capacity[c]
  /\ queue' = [queue EXCEPT ![c] = Append(@, v)]
  /\ event' = <<"sent", t, c, v>>
  /\ UNCHANGED closed

\* It raises on a closed one.
SendRefused(t, c) ==
  /\ closed[c]
  /\ Returns(t, c, "refused")
  /\ UNCHANGED <<queue, closed>>

\* recv and tryRecv deliver the oldest value, closed or not.
Deliver(t, c) ==
  /\ queue[c] # <<>>
  /\ event' = <<"some", t, c, Head(queue[c])>>
  /\ queue' = [queue EXCEPT ![c] = Tail(@)]
  /\ UNCHANGED closed

\* recv returns None once the channel is closed and drained.
Drained(t, c) ==
  /\ closed[c] /\ queue[c] = <<>>
  /\ Returns(t, c, "drained")
  /\ UNCHANGED <<queue, closed>>

\* tryRecv returns None on an empty channel.
Empty(t, c) ==
  /\ queue[c] = <<>>
  /\ Returns(t, c, "empty")
  /\ UNCHANGED <<queue, closed>>

Close(t, c) ==
  /\ closed' = [closed EXCEPT ![c] = TRUE]
  /\ Returns(t, c, "closed")
  /\ UNCHANGED queue

\* A call gives up with :Deadlock only where it could not have taken effect.
GiveUp(t, c) ==
  /\ ~closed[c] /\ (queue[c] = <<>> \/ Len(queue[c]) = Capacity[c])
  /\ Returns(t, c, "deadlock")
  /\ UNCHANGED <<queue, closed>>

Next ==
  \E t \in Clients, c \in Chans :
    \/ \E v \in Vals : Send(t, c, v)
    \/ SendRefused(t, c)
    \/ Deliver(t, c)
    \/ Drained(t, c)
    \/ Empty(t, c)
    \/ Close(t, c)
    \/ GiveUp(t, c)

Spec == Init /\ [][Next]_vars
=============================================================================
