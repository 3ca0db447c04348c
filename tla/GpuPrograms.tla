----------------------------- MODULE GpuPrograms -----------------------------
(* The calls of both backends.  Lists of 1 to 5 elements have 0 to 3 passes of *)
(* the scan.                                                                   *)
EXTENDS VulkanScripts
Float == INSTANCE FloatScripts

Int64Scripts ==
  [map32 |-> SimpleMap("mapadd", TRUE), map64 |-> SimpleMap("mapmul", FALSE),
   reduce32 |-> Reduce("reduce", TRUE), reduce64 |-> Reduce("reduce", FALSE),
   filterHost |-> Filter(FALSE, 0, TRUE),
   filter0 |-> Filter(TRUE, 0, TRUE), filter2 |-> Filter(TRUE, 2, FALSE), filter3 |-> Filter(TRUE, 3, TRUE),
   graph0 |-> Graph(0, FALSE), graph2 |-> Graph(2, TRUE), close |-> DeviceShutdown]
FloatScriptsAll ==
  [init |-> Float!Init, scale |-> Float!ScaleInplace, sum |-> Float!ReduceSum, nop |-> Float!DispatchNop,
   async |-> Float!ScaleAsync, pin |-> Float!AllocPinned, unpin |-> Float!FreePinned,
   shutdown |-> Float!CtxShutdown]
JobScript == [job |-> Float!Job]

(* Where a call destroys what it has destroyed already: a job that cannot be *)
(* allocated has its timeline semaphore destroyed, and again at async_fail.  *)
DestroyedTwice == {<<"async", "async_fail", <<"sem", Float!One>>>>}
==============================================================================
