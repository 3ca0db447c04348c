------------------------------ MODULE MCChannel ------------------------------
(* Small instances of Channel for TLC. *)
EXTENDS ChannelProperties

CONSTANTS main, k1, k2, c1, c2, v1, v2

MainOnly     == {main}
TwoTasks     == {k1, k2}
OneChan      == {c1}
TwoChans     == {c1, c2}
OneVal       == {v1}
TwoVals      == {v1, v2}
NoAwait      == {}
Clean        == {0}
CapOne       == [c \in {c1} |-> 1]
\* A capacity of 0 is raised to 1.
CapZeroOne   == [c \in {c1, c2} |-> IF c = c1 THEN 0 ELSE 1]
CapTwoZero   == [c \in {c1, c2} |-> IF c = c1 THEN 2 ELSE 0]
=============================================================================
