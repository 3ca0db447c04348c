---------------------------- MODULE VulkanScripts ----------------------------
(***************************************************************************)
(* The calls of gpu_vulkan_ops.c as scripts for module GpuCalls.  A handle *)
(* is a pair of a class and a name; buffers, memories and mappings are     *)
(* named by the list they hold and by where they are: "dev" (device        *)
(* local), "stg" (its staging copy) or "host" (host visible, used by the   *)
(* device directly when there is no staging).                              *)
(***************************************************************************)
EXTENDS GpuSteps

(* ensure_*_pipe: nothing to do for a pipeline that is ready; otherwise build_*,   *)
(* whose three labels fall through, and the flag.  A failure ends the call.       *)
Parts(pipe) == {<<c, At(pipe, "")>> : c \in {"sm", "dsl", "pl", "pipe"}}
BuildOne(pipe) ==
  LET p == At(pipe, "") IN
    Or("failed", New("sm", p)) \o Or("fail_sm " \o pipe, New("dsl", p))
      \o Or("fail_dsl " \o pipe, New("pl", p)) \o Or("fail_pl " \o pipe, New("pipe", p))
BuildTwo(pipe) == BuildOne(pipe)
BuildThree(pipe) == BuildOne(pipe)
BuildFour(pipe) == BuildOne(pipe)
Build(pipe) ==
  CASE pipe \in {"mark", "flags_to", "prefix", "reduce"} -> BuildTwo(pipe)
    [] pipe = "inc_to_exc" -> BuildThree(pipe)
    [] pipe = "scatter" -> BuildFour(pipe)
    [] OTHER -> BuildOne(pipe)
BuildFails(pipe) ==
  LET p == At(pipe, "") IN
    ("fail_pl " \o pipe) :> Free("pl", p) \o Then("fail_dsl " \o pipe)
      @@ ("fail_dsl " \o pipe) :> Free("dsl", p) \o Then("fail_sm " \o pipe)
      @@ ("fail_sm " \o pipe) :> Free("sm", p) \o Then("failed")
Ensure(pipe, next) ==
  ("ensure " \o pipe) :> IfSet(pipe, "submit", next) \o Build(pipe)
                          \o KeepAs({pipe}, Parts(pipe), "submit") \o Then(next)
    @@ BuildFails(pipe)
Leave == Unlock("submit") \o Exit

(***************************************************************************)
(* yona_gpu_vulkan_device_try_init: the loader, the instance, the device   *)
(* with the features there are, with fewer, with none.  Any failure after  *)
(* the loader is remembered, and destroy_all gives back what there is.     *)
(***************************************************************************)
Gpu == At("int64", "")
DeviceObjects == {<<"inst", Gpu>>, <<"dev", Gpu>>}
Loader == {<<"dl", Gpu>>}
CloseAll == Free("dev", Gpu) \o Free("inst", Gpu) \o Take("loader", Loader, "device") \o Free("dl", Gpu)
TryInit(next) ==
  "try_init" :> Lock("device") \o IfSet("device", "device", "ready") \o IfSet("no device", "device", "not ready")
         \o Or("not ready", Can("loader")) \o Or("opened", New("dl", Gpu))
         \o KeepAs({"loader"}, Loader, "device") \o Then("opened")
    @@ "opened" :> Or("no loader", Can("loader symbols")) \o Or("no device", New("inst", Gpu)
         \o Can("instance symbols") \o Can("devices") \o New("malloc", Gpu))
         \o Or("no choice", Can("devices") \o Can("compute queue")) \o Free("malloc", Gpu)
         \o Or("plain", Can("modern") \o New("dev", Gpu)) \o Then("got device")
    @@ "plain" :> Or("bare", New("dev", Gpu)) \o Then("got device")
    @@ "bare" :> Or("no device", Can("features to give up") \o New("dev", Gpu)) \o Then("got device")
    @@ "got device" :> Or("no device", Can("device symbols") \o Can("queue"))
         \o KeepAs({"device"}, DeviceObjects, "device") \o Then("ready")
    @@ "no choice" :> Free("malloc", Gpu) \o Then("no device")
    @@ "no device" :> CloseAll \o KeepAs({"no device"}, {}, "device") \o Then("not ready")
    @@ "no loader" :> CloseAll \o Then("not ready")
    @@ "ready" :> Unlock("device") \o Then(next)
    @@ "not ready" :> Unlock("device") \o Then("declined")
    @@ "declined" :> Exit

(* yona_gpu_vulkan_device_shutdown, with the cached pipelines *)
Pipelines == <<"mapadd", "mapmul", "mapsquare", "reduce", "mark", "scatter", "flags_to", "prefix", "inc_to_exc">>
DestroySimple(pipe) ==
  LET p == At(pipe, "") IN
    Take(pipe, Parts(pipe), "device") \o Free("pipe", p) \o Free("pl", p) \o Free("dsl", p) \o Free("sm", p)
DestroyCached == Each(DestroySimple, Pipelines)
DeviceShutdown ==
  "entry" :> Lock("device") \o IfSet("device", "device", "destroy") \o Then("untried")
    @@ "destroy" :> Wait \o DestroyCached \o Take("device", DeviceObjects, "device") \o Then("untried")
    @@ "untried" :> CloseAll \o Take("no device", {}, "device") \o Unlock("device") \o Exit

\* Mutant: the lock is not taken.
EnterUnlocked(next) ==
  "entry" :> Or("declined", Can("switched on")) \o Then("try_init")
    @@ TryInit("precheck")
    @@ "precheck" :> Or("declined", Can("precheck")) \o Then(next)
    @@ "failed" :> Leave
(* A call is switched off, has no device, a list too short, too long or with    *)
(* values that do not fit, or finds an entry point missing; or it takes the lock. *)
Enter(next) ==
  "entry" :> Or("declined", Can("switched on")) \o Then("try_init")
    @@ TryInit("precheck")
    @@ "precheck" :> Or("declined", Can("precheck")) \o Lock("submit") \o Then(next)
    @@ "failed" :> Leave
-----------------------------------------------------------------------------
(* yona_vk_try_dev_stg_pair: a device-local buffer and its staging copy; what is *)
(* null is passed over when the caller, who sees 0, gives all four back.         *)
HalfPair(b) == New("buf", b) \o Can("memory type") \o New("mem", b) \o Can("bind")
Pair(n) == HalfPair(At(n, "dev")) \o HalfPair(At(n, "stg"))
DeviceLocal(n) == HalfPair(At(n, "dev"))
FreeBuffer(b) == Free("buf", b) \o Free("mem", b)
FreePair(n) == FreeBuffer(At(n, "stg")) \o FreeBuffer(At(n, "dev"))

(* Host buffers: the buffers, their memory types, the memories, the mappings. *)
HostBuffers(ns, where) ==
  Each(LAMBDA n : New("buf", At(n, where)), ns) \o Can("memory type")
    \o Each(LAMBDA n : New("mem", At(n, where)) \o Can("bind"), ns)
    \o Each(LAMBDA n : New("map", At(n, where)), ns)
FreeHost(ns) == Each(LAMBDA n : Free("buf", At(n, "host")), ns) \o Each(LAMBDA n : Free("mem", At(n, "host")), ns)
Maps(ns, where) == Each(LAMBDA n : New("map", At(n, where)), ns)
Unmaps(ns, where) == Each(LAMBDA n : Free("map", At(n, where)), ns)

Pools == New("dpool", One) \o New("dset", One)
Commands == New("cpool", One) \o New("cmd", One) \o New("fence", One) \o Can("begin")
FreeCommands == Free("fence", One) \o Free("cmd", One) \o Free("cpool", One)
\* Mutant: nobody waits.
RunUnawaited == Can("end") \o Submit("submit")
Run == Can("end") \o Submit("submit") \o Wait
Packed(i32) == If(i32, New("malloc", At("packed", "")))
FreePacked == Free("malloc", At("packed", ""))
(* A memory barrier is about every buffer. *)
Lists == {"col", "in", "flags", "prefix", "out", "sums", "scan0", "scan1", "count"}
Places == {"dev", "stg", "host"}
AllBuffers == Lists \X Places
Memory(from, to) == Barrier(from, to, AllBuffers)

(* The copies to and from a device-local buffer, with their barriers. *)
Upload(n) ==
  Barrier({"host"}, {"transfer"}, {At(n, "stg")}) \o Copy(At(n, "stg"), At(n, "dev"))
    \o Barrier({"transfer"}, {"shader"}, {At(n, "dev")})
Readback(n) ==
  Barrier({"shader"}, {"transfer"}, {At(n, "dev")}) \o Barrier({"transfer"}, {"transfer"}, {At(n, "stg")})
    \o Copy(At(n, "dev"), At(n, "stg")) \o Barrier({"transfer"}, {"host"}, {At(n, "stg")})
(* A destination that nothing has used: the barrier waits for nothing. *)
Virgin(n) == Barrier({}, {"shader"}, {At(n, "dev")})

(* Where the shaders find a list, and where the host does. *)
OnDevice(staged) == IF staged THEN "dev" ELSE "host"
Mapped(staged) == IF staged THEN "stg" ELSE "host"

(* Staging buffers are tried, given back if one of them cannot be had, and then *)
(* host buffers do; what fails after that is the end of the call.               *)
Either(prep, pairs, unpair, staged, hosted, fail) ==
  "prep" :> prep \o Then("stage")
    @@ "stage" :> Or("unstage", pairs) \o Then("staged")
    @@ "unstage" :> unpair \o Then("hosted")
    @@ "staged" :> Or("fail", staged) \o Leave
    @@ "hosted" :> Or("fail", hosted) \o Leave
    @@ "fail" :> fail \o Leave
-----------------------------------------------------------------------------
(* yona_vk_run_simple_map: one list, mapped in place. *)
MapRecorded(staged) ==
  LET b == At("col", OnDevice(staged)) IN
    If(staged, Upload("col")) \o Dispatch({b}, {b})
      \o (IF staged THEN Readback("col") ELSE Memory({"shader"}, {"host"}))
MapTail(staged) ==
  LET m == At("col", Mapped(staged)) IN
    HostWrites({m}) \o Commands \o MapRecorded(staged) \o Run
      \o HostReads({m}) \o Can("int_array_alloc") \o Free("map", m) \o FreeCommands
      \o (IF staged THEN FreePair("col") ELSE FreeBuffer(At("col", "host")))
      \o Free("dpool", One) \o FreePacked
\* Mutant: the staging buffers are forgotten.
MapFailLeaky ==
  FreePacked \o Unmaps(<<"col">>, "stg") \o Unmaps(<<"col">>, "host") \o FreeCommands
    \o FreeBuffer(At("col", "host")) \o Free("dpool", One)
MapFail ==
  FreePacked \o Unmaps(<<"col">>, "stg") \o Unmaps(<<"col">>, "host") \o FreeCommands
    \o FreePair("col") \o FreeBuffer(At("col", "host")) \o Free("dpool", One)
RunSimpleMap(i32) ==
  Either(Or("failed", Packed(i32)) \o Or("fail", Pools), Pair("col"), FreePair("col"),
         Maps(<<"col">>, "stg") \o MapTail(TRUE), HostBuffers(<<"col">>, "host") \o MapTail(FALSE), MapFail)
SimpleMap(pipe, i32) == Enter("ensure " \o pipe) @@ Ensure(pipe, "prep") @@ RunSimpleMap(i32)
-----------------------------------------------------------------------------
(* yona_gpu_vulkan_try_reduce_int64: one sum per workgroup, added by the host. *)
InSums == <<"in", "sums">>
ReducePairs == Each(Pair, InSums)
ReduceRecorded(staged) ==
  If(staged, Upload("in") \o Virgin("sums"))
    \o Dispatch({At("in", OnDevice(staged))}, {At("sums", OnDevice(staged))})
    \o (IF staged THEN Readback("sums") ELSE Memory({"shader"}, {"host"}))
ReduceTail(staged) ==
  LET w == Mapped(staged) IN
    HostWrites({At("in", w), At("sums", w)}) \o Commands \o ReduceRecorded(staged) \o Run
      \o HostReads({At("sums", w)}) \o Unmaps(InSums, w) \o FreeCommands
      \o (IF staged THEN FreePair("in") \o FreePair("sums") ELSE FreeHost(InSums))
      \o Free("dpool", One) \o FreePacked
ReduceFail ==
  Unmaps(InSums, "stg") \o Unmaps(InSums, "host") \o FreeCommands \o FreePair("in") \o FreePair("sums")
    \o FreeHost(InSums) \o Free("dpool", One) \o FreePacked
ReduceHost == HostBuffers(InSums, "host")
Reduce(pipe, i32) ==
  Enter("ensure " \o pipe) @@ Ensure(pipe, "prep")
    @@ Either(Or("failed", Packed(i32)), ReducePairs, FreePair("sums") \o FreePair("in"),
              Pools \o Maps(InSums, "stg") \o ReduceTail(TRUE), Pools \o ReduceHost \o ReduceTail(FALSE),
              ReduceFail)
-----------------------------------------------------------------------------
(* yona_gpu_vulkan_try_filter_int64: mark, exclusive prefix sums of the marks, *)
(* scatter.  The sums are made by the device (gpu, in a number of passes that  *)
(* doubles the stride each time) or by the host between two submissions.      *)
Columns == <<"in", "flags", "prefix", "out">>
Scans == <<"scan0", "scan1">>
FilterPairs == Each(Pair, Columns)
FilterHost == HostBuffers(Columns, "host")
ScanHost == HostBuffers(Scans, "host")
ScanDevice == DeviceLocal("scan0") \o DeviceLocal("scan1") \o HostBuffers(<<"count">>, "stg")
FreeScans == FreeBuffer(At("scan0", "dev")) \o FreeBuffer(At("scan1", "dev")) \o FreeBuffer(At("count", "stg"))
(* The scan buffer that holds the inclusive sums after the last pass. *)
Inclusive(passes) == IF passes % 2 = 1 THEN "scan1" ELSE "scan0"

\* Mutant: a pass does not wait for the one before.
ScanPassAtOnce(i, w) ==
  LET odd == i % 2 = 1 IN
    Dispatch({At(IF odd THEN "scan0" ELSE "scan1", w)}, {At(IF odd THEN "scan1" ELSE "scan0", w)})
ScanPass(i, w) ==
  LET odd == i % 2 = 1 IN
    Dispatch({At(IF odd THEN "scan0" ELSE "scan1", w)}, {At(IF odd THEN "scan1" ELSE "scan0", w)})
      \o Memory({"shader"}, {"shader"})
GpuPrefix(staged, passes) ==
  LET w == OnDevice(staged)  inc == At(Inclusive(passes), w) IN
    Barrier({"shader"}, {"shader"}, {At("flags", w)}) \o Dispatch({At("flags", w)}, {At("scan0", w)})
      \o Barrier({"shader"}, {"shader"}, {At("scan0", w)})
      \o FlattenSeq([i \in 1 .. passes |-> ScanPass(i, w)])
      \o Barrier({"shader"}, {IF staged THEN "transfer" ELSE "host"}, {inc})
      \o If(staged, Copy(inc, At("count", "stg")) \o Barrier({"transfer"}, {"host"}, {At("count", "stg")}))
MarksToHost(staged) == IF staged THEN Readback("flags") ELSE Memory({"shader"}, {"host"})
FirstBuffer(staged, gpu, passes) ==
  LET w == OnDevice(staged) IN
    If(staged, Upload("in") \o Virgin("flags")) \o Dispatch({At("in", w)}, {At("flags", w)})
      \o (IF gpu THEN GpuPrefix(staged, passes) ELSE MarksToHost(staged))
CountMarks(staged, passes) ==
  HostReads({IF staged THEN At("count", "stg") ELSE At(Inclusive(passes), "host")})
HostPrefix(staged) ==
  HostReads({At("flags", Mapped(staged))}) \o HostWrites({At("prefix", Mapped(staged))})
PrefixToShader(staged, gpu, passes) ==
  LET w == OnDevice(staged)  inc == At(Inclusive(passes), w) IN
    IF gpu THEN Barrier({}, {"shader"}, {inc}) \o Dispatch({inc, At("flags", w)}, {At("prefix", w)})
                  \o Barrier({"shader"}, {"shader"}, {At("prefix", w)})
    ELSE IF staged THEN Upload("prefix") ELSE Memory({"host"}, {"shader"})
SecondBuffer(staged, gpu, passes) ==
  LET w == OnDevice(staged) IN
    PrefixToShader(staged, gpu, passes)
      \o Dispatch({At("in", w), At("flags", w), At("prefix", w)}, {At("out", w)})
      \o (IF staged THEN Readback("out") ELSE Memory({"shader"}, {"host"}))
FilterWrites(staged, gpu) ==
  LET m == Mapped(staged) IN
    {At("in", m), At("flags", m), At("prefix", m), At("out", m)}
      \cup (IF ~gpu THEN {} ELSE IF staged THEN {At("count", "stg")} ELSE {At("scan0", "host"), At("scan1", "host")})
FilterUnmaps(w) == Unmaps(Columns \o Scans \o <<"count">>, w)
FilterDone(staged) ==
  FilterUnmaps(Mapped(staged)) \o FreeCommands
    \o (IF staged THEN Each(FreePair, Columns) \o FreeScans
        ELSE Each(LAMBDA n : Free("buf", At(n, "host")), Columns) \o FreeHost(Scans)
               \o Each(LAMBDA n : Free("mem", At(n, "host")), Columns))
    \o Free("dpool", One) \o FreePacked
FilterTail(staged, gpu, passes) ==
  If(gpu, IF staged THEN ScanDevice ELSE ScanHost) \o HostWrites(FilterWrites(staged, gpu)) \o Commands
    \o FirstBuffer(staged, gpu, passes) \o Run
    \o (IF gpu THEN CountMarks(staged, passes) ELSE HostPrefix(staged))
    \o Can("reset fence") \o Can("begin") \o SecondBuffer(staged, gpu, passes) \o Run
    \o HostReads({At("out", Mapped(staged))}) \o Can("int_array_alloc") \o FilterDone(staged)
FilterFail ==
  FilterUnmaps("stg") \o FilterUnmaps("host") \o FreeCommands
    \o Each(FreePair, Columns) \o FreeScans \o FreeHost(Columns \o Scans)
    \o Free("dpool", One) \o FreePacked
FilterEnsures(gpu) ==
  Ensure("mark", "ensure scatter") @@ Ensure("scatter", IF gpu THEN "ensure flags_to" ELSE "prep")
    @@ Ensure("flags_to", "ensure prefix") @@ Ensure("prefix", "ensure inc_to_exc")
    @@ Ensure("inc_to_exc", "prep")
FilterPrep(i32) == Or("failed", Packed(i32)) \o Or("fail", Pools)
Filter(gpu, passes, i32) ==
  Enter("ensure mark") @@ FilterEnsures(gpu)
    @@ Either(FilterPrep(i32), FilterPairs, Each(FreePair, <<"out", "prefix", "flags", "in">>),
              Maps(Columns, "stg") \o FilterTail(TRUE, gpu, passes),
              FilterHost \o FilterTail(FALSE, gpu, passes), FilterFail)
-----------------------------------------------------------------------------
(* yona_gpu_vulkan_try_map_reduce_graph_int64: several maps in place and a     *)
(* reduction in one submission, in host buffers only; the fence is a timeline  *)
(* semaphore when the device has them, made after the recording.               *)
GraphEnsures ==
  Ensure("mapadd", "ensure mapmul") @@ Ensure("mapmul", "ensure mapsquare")
    @@ Ensure("mapsquare", "ensure reduce") @@ Ensure("reduce", "prep")
GraphRecorded(stages) ==
  LET b == At("in", "host")  all == Memory({"shader"}, {"shader"}) IN
    Memory({"host"}, {"shader"}) \o FlattenSeq([i \in 1 .. stages |-> Dispatch({b}, {b}) \o all])
      \o Dispatch({b}, {At("sums", "host")}) \o Memory({"shader"}, {"host"})
GraphSets == New("dpool", One) \o FlattenSeq([i \in 1 .. 4 |-> New("dset", At("", <<"1", "2", "3", "4">>[i]))])
GraphBuffers ==
  Each(LAMBDA n : New("buf", At(n, "host")), InSums) \o Can("memory type")
    \o Each(LAMBDA n : New("mem", At(n, "host")), InSums) \o Can("bind") \o Can("bind") \o Maps(InSums, "host")
GraphRun == Can("end") \o New("fence", One) \o Submit("submit") \o Wait
GraphFrees ==
  Unmaps(InSums, "host") \o Free("fence", One) \o Free("cmd", One) \o Free("cpool", One)
    \o FreeHost(InSums) \o Free("dpool", One) \o FreePacked
(* What 32-bit values would become is tried first, on a copy. *)
DryRun(i32) ==
  If(i32, Or("declined", New("malloc", At("scratch", ""))) \o Or("misfit", Can("fits"))
            \o Free("malloc", At("scratch", "")))
Graph(stages, i32) ==
  "entry" :> Or("declined", Can("switched on")) \o Then("try_init")
    @@ TryInit("stages")
    @@ "stages" :> Or("declined", Can("precheck")) \o DryRun(i32) \o Or("declined", Can("entry points"))
         \o Lock("submit") \o Then("ensure mapadd")
    @@ "misfit" :> Free("malloc", At("scratch", "")) \o Exit
    @@ "failed" :> Leave
    @@ GraphEnsures
    @@ "prep" :> Or("failed", Packed(i32))
         \o Or("fail", GraphSets \o GraphBuffers \o HostWrites({At("in", "host"), At("sums", "host")})
                         \o New("cpool", One) \o New("cmd", One) \o Can("begin") \o GraphRecorded(stages)
                         \o GraphRun) \o HostReads({At("sums", "host")}) \o GraphFrees \o Leave
    @@ "fail" :> GraphFrees \o Leave
=============================================================================
