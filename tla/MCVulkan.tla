------------------------------- MODULE MCVulkan -------------------------------
(* Three programs that call the GPU backends. *)
EXTENDS GpuCalls, GpuPrograms

CONSTANTS main, worker

TwoCallers == [one |-> SimpleMap("mapmul", FALSE), other |-> SimpleMap("mapmul", FALSE)]
AllScripts == Int64Scripts @@ FloatScriptsAll @@ JobScript @@ TwoCallers

Int64Ops == {"map32", "map64", "reduce32", "reduce64", "filterHost", "filter0", "filter2", "filter3",
             "graph0", "graph2", "close"}
FloatOps == {"init", "scale", "sum", "nop", "async", "pin", "unpin", "shutdown"}
AllOps == Int64Ops \cup FloatOps \cup {"job", "one", "other"}
EveryBuffer == AllBuffers \cup Float!FloatBuffers

(* Three programs: one thread and the int64 backend; one thread, the float  *)
(* backend and its fence thread; two threads that both map.                 *)
Own == [o \in AllOps |-> IF o \in {"job", "one", "other"} THEN {o} ELSE IF o \in FloatOps THEN FloatOps ELSE Int64Ops]
With(o, p) == [t \in Threads |-> IF t = main THEN o ELSE p]
StartsOf == {With("map32", "job"), With("init", "job"), With("one", "other")}
Waiting == AllOps \ {"async", "job"}

(* filterHost leaves the marks invisible to the scatter when it stages. *)
Synchronised == AllOps \ {"filterHost"}
==============================================================================
