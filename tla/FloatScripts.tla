---------------------------- MODULE FloatScripts -----------------------------
(***************************************************************************)
(* The calls of the float backend, gpu_stub.c, as scripts for GpuCalls.    *)
(* They share one device, under one mutex; what is made for good belongs   *)
(* to the flags "ctx" (the device) and to one flag for each pipeline.  An  *)
(* asynchronous call hands its objects to a job, which the fence thread    *)
(* finishes.  At most one job and one pinned buffer exist at a time.       *)
(***************************************************************************)
EXTENDS GpuSteps

(* Buffers: of synchronous calls, of the job, and pinned. *)
Elements == At("elements", "call")
Input == At("in", "call")
Sums == At("sums", "call")
OfJob == At("elements", "job")
Pinned == At("floats", "pinned")
FloatBuffers == {Elements, Input, Sums, OfJob, Pinned}
Nop == At("nop", "")

Leave == Unlock("g_mu") \o Exit
Failed == "failed" :> Leave @@ "declined" :> Exit
HaveDevice(next) == Lock("g_mu") \o IfSet("ctx", "g_mu", next) \o Then("failed")
Fill(b) == HostWrites({b})
Memory(from, to) == Barrier(from, to, FloatBuffers)
Run == Can("end") \o Submit("g_mu") \o Wait
-----------------------------------------------------------------------------
(* yona_gpu_vulkan_ctx_init, on the way to next, or to none if there is no device. *)
Device == {<<"inst", One>>, <<"dev", One>>, <<"cpool", One>>, <<"sm", Nop>>, <<"pl", Nop>>, <<"pipe", Nop>>}

(* Once in a process: is there a device that computes? *)
Probe ==
  "probe" :> KeepAs({"probed"}, {}, "g_mu") \o Or("create", New("inst", At("probe", "")))
               \o Or("unprobe", Can("enumerate") \o Can("compute queue"))
               \o KeepAs({"compute"}, {}, "g_mu") \o Then("unprobe")
    @@ "unprobe" :> Free("inst", At("probe", "")) \o Then("create")
Undo ==
  "no_pipe" :> Free("pl", Nop) \o Then("no_layout")
    @@ "no_layout" :> Free("sm", Nop) \o Then("no_shader")
    @@ "no_shader" :> Free("cpool", One) \o Then("no_pool")
    @@ "no_pool" :> Free("dev", One) \o Then("no_device")
    @@ "no_device" :> Free("inst", One) \o Then("no_ctx")
(* A device with timeline semaphores, if there is one, or else without. *)
CtxInit(next, none) ==
  "ctx" :> Lock("g_mu") \o IfSet("ctx", "g_mu", "have_ctx") \o IfSet("probed", "g_mu", "create") \o Then("probe")
    @@ Probe
    @@ "create" :> IfSet("compute", "g_mu", "instance") \o Then("no_ctx")
    @@ "instance" :> Or("no_ctx", New("inst", One)) \o Or("no_device", Can("compute queue"))
         \o Take("shaderFloat64", {}, "g_mu") \o Take("modern", {}, "g_mu")
         \o Or("device", Can("shaderFloat64")) \o KeepAs({"shaderFloat64"}, {}, "g_mu") \o Then("device")
    @@ "device" :> Or("plain", Can("modern") \o New("dev", One)) \o Or("pool", Can("entry points"))
         \o KeepAs({"modern"}, {}, "g_mu") \o Then("pool")
    @@ "plain" :> Or("no_device", New("dev", One)) \o Then("pool")
    @@ "pool" :> Or("no_pool", New("cpool", One)) \o Or("no_shader", New("sm", Nop)) \o Or("no_layout", New("pl", Nop))
         \o Or("no_pipe", New("pipe", Nop)) \o KeepAs({"ctx"}, Device, "g_mu") \o Then("have_ctx")
    @@ Undo
    @@ "have_ctx" :> Unlock("g_mu") \o Then(next)
    @@ "no_ctx" :> Unlock("g_mu") \o Then(none)
Init == "entry" :> Then("ctx") @@ CtxInit("leave", "leave") @@ "leave" :> Exit
-----------------------------------------------------------------------------
(* The ensure functions: a pipeline whose building failed once is not tried  *)
(* again; one of 64 bits is not tried on a device that cannot, and the call  *)
(* goes on at other.                                                         *)
Latch(pipe) == "failed to build " \o pipe
Parts(pipe) == {<<c, At(pipe, "")>> : c \in {"sm", "dsl", "pl", "pipe"}}
BuildParts(pipe) ==
  LET p == At(pipe, "") IN
    Or("latch " \o pipe, New("sm", p)) \o Or("no_dsl " \o pipe, New("dsl", p))
      \o Or("no_pl " \o pipe, New("pl", p)) \o Or("no_pipe " \o pipe, New("pipe", p))
BuildFails(pipe) ==
  LET p == At(pipe, "") IN
    ("no_pipe " \o pipe) :> Free("pl", p) \o Then("no_pl " \o pipe)
      @@ ("no_pl " \o pipe) :> Free("dsl", p) \o Then("no_dsl " \o pipe)
      @@ ("no_dsl " \o pipe) :> Free("sm", p) \o Then("latch " \o pipe)
      @@ ("latch " \o pipe) :> KeepAs({Latch(pipe)}, {}, "g_mu") \o Then("failed")
Ensure(pipe, next, other) ==
  LET build == "build " \o pipe IN
    ("ensure " \o pipe) :> IfSet(pipe, "g_mu", next) \o IfSet(Latch(pipe), "g_mu", "failed")
        \o (IF other = "" THEN Then(build) ELSE IfSet("shaderFloat64", "g_mu", build) \o Then(other))
      @@ build :> BuildParts(pipe) \o KeepAs({pipe}, Parts(pipe), "g_mu") \o Then(next)
      @@ BuildFails(pipe)
EnsureF64(next, other) == Ensure("f64", next, other)
EnsureF32(next) == Ensure("f32", next, "")
EnsureReduce(next) == Ensure("reduce64", next, "ensure reduce32") @@ Ensure("reduce32", next, "")
-----------------------------------------------------------------------------
Backed(b) == New("buf", b) \o Can("memory type") \o New("mem", b) \o Can("bind") \o New("map", b)
Pools == New("dpool", One) \o New("dset", One)
Dispatched(rs, ws) == Memory({"host"}, {"shader"}) \o Dispatch(rs, ws) \o Memory({"shader"}, {"host"})
FreeBacked(b) == Free("map", b) \o Free("mem", b) \o Free("buf", b)

(* yona_gpu_vulkan_float64_buffer_scale_inplace, from its beginning at start. *)
ScaleFrom(start) ==
  start :> HaveDevice("ensure f64")
    @@ EnsureF64("scale", "ensure f32") @@ EnsureF32("scale")
    @@ "scale" :> Or("cleanup", Backed(Elements) \o Fill(Elements) \o Pools \o New("fence", One) \o New("cmd", Elements)
                       \o Can("begin") \o Dispatched({Elements}, {Elements}) \o Run)
         \o HostReads({Elements}) \o Then("cleanup")
    @@ "cleanup" :> Free("cmd", Elements) \o Free("fence", One) \o Free("dpool", One) \o FreeBacked(Elements) \o Leave
    @@ Failed
ScaleInplace == "entry" :> Or("declined", Can("arguments")) \o Then("locked") @@ ScaleFrom("locked")

(* yona_gpu_stub_alloc_host_ssbo gives back what it made before it fails. *)
Alloc(b, w) ==
  Or("cleanup", New("buf", b)) \o Or("unbuf " \o w, Can("memory type") \o New("mem", b))
    \o Or("unmem " \o w, Can("bind") \o New("map", b))
\* Mutant: the caller is left with the handles.
AllocFailsDangling(b, w) == ("unmem " \o w) :> FreeOnly("mem", b) \o Then("unbuf " \o w)
                      @@ ("unbuf " \o w) :> FreeOnly("buf", b) \o Then("cleanup")
AllocFails(b, w) == ("unmem " \o w) :> Free("mem", b) \o Then("unbuf " \o w)
                      @@ ("unbuf " \o w) :> Free("buf", b) \o Then("cleanup")
(* yona_gpu_vulkan_float64_buffer_reduce_sum *)
ReduceSum ==
  "entry" :> Or("declined", Can("arguments")) \o HaveDevice("ensure reduce64")
    @@ EnsureReduce("reduce")
    @@ "reduce" :> Alloc(Input, "in") \o Alloc(Sums, "sums")
         \o Or("cleanup", Fill(Input) \o Fill(Sums) \o Pools \o New("fence", One) \o New("cmd", Elements)
                 \o Can("begin") \o Dispatched({Input}, {Sums}) \o Run)
         \o HostReads({Sums}) \o Then("cleanup")
    @@ AllocFails(Input, "in") @@ AllocFails(Sums, "sums")
    @@ "cleanup" :> Free("cmd", Elements) \o Free("fence", One) \o Free("dpool", One)
         \o Free("map", Input) \o Free("map", Sums) \o Free("mem", Input) \o Free("mem", Sums)
         \o Free("buf", Input) \o Free("buf", Sums) \o Leave
    @@ Failed
-----------------------------------------------------------------------------
(* yona_gpu_vulkan_float64_buffer_scale_async.  What becomes the job's; which *)
(* of the two it waits on is one flag more.                                   *)
JobObjects == {<<"cmd", OfJob>>, <<"dpool", One>>, <<"dset", One>>, <<"map", OfJob>>, <<"mem", OfJob>>,
               <<"buf", OfJob>>, <<"malloc", OfJob>>, <<"work", One>>}
FreeJob == Free("map", OfJob) \o Free("mem", OfJob) \o Free("buf", OfJob)
HandOver(by, h) ==
  Unlock("g_mu") \o Lock("jobs") \o KeepAs({"job", "pending", by}, JobObjects \cup {<<h, One>>}, "jobs")
    \o Unlock("jobs") \o Exit
(* A job that cannot be allocated waits for the device first, and fails; the   *)
(* timeline semaphore is destroyed then, but its handle is not set to null.    *)
NewJob(l) == Or(l, New("malloc", OfJob))
ScaleAsync ==
  "entry" :> When({}, {"pending"}) \o Or("declined", Can("arguments")) \o Then("ctx")
    @@ CtxInit("async", "declined")
    @@ "async" :> Lock("g_mu") \o IfSet("ctx", "g_mu", "ensure f64 async") \o Then("failed")
    @@ "ensure f64 async" :> IfSet("f64", "g_mu", "record") \o IfSet(Latch("f64"), "g_mu", "failed")
         \o IfSet("shaderFloat64", "g_mu", "build async") \o Unlock("g_mu") \o Then("locked")
    @@ "build async" :> BuildParts("f64") \o KeepAs({"f64"}, Parts("f64"), "g_mu") \o Then("record")
    @@ ScaleFrom("locked")
    @@ "record" :> Or("async_fail", Backed(OfJob) \o Fill(OfJob) \o Pools \o New("cmd", OfJob) \o Can("begin")
                        \o Dispatched({OfJob}, {OfJob}) \o Can("end"))
         \o IfSet("modern", "g_mu", "timeline") \o Then("fence")
    @@ "fence" :> Or("async_fail", New("fence", One)) \o Or("cancelled", Can("not cancelled"))
         \o Or("async_fail", Submit("g_mu")) \o NewJob("no_job") \o HandOver("by fence", "fence")
    @@ "timeline" :> Or("fence", Can("YONA_GPU_ASYNC_TIMELINE")) \o Or("cancelled", Can("not cancelled"))
         \o Or("async_fail", New("sem", One) \o Submit("g_mu")) \o NewJob("no_job_timeline")
         \o HandOver("by timeline", "sem")
    @@ "no_job" :> Or("async_fail", Wait) \o Then("async_fail")
    @@ "no_job_timeline" :> Or("no_sem", Wait) \o Then("no_sem")
    @@ "no_sem" :> FreeOnly("sem", One) \o Then("async_fail")
    @@ "cancelled" :> Free("cmd", OfJob) \o Free("fence", One) \o Free("dpool", One) \o FreeJob \o Leave
    @@ "async_fail" :> Free("cmd", OfJob) \o Free("fence", One) \o Free("sem", One) \o Free("dpool", One) \o FreeJob
         \o Leave

(* yona_gpu_fence_worker_main, one turn; what is done without a lock is so there. *)
Job ==
  "entry" :> When({"job"}, {}) \o Lock("jobs") \o Take("job", JobObjects, "jobs") \o Take("by fence", {<<"fence", One>>}, "jobs")
               \o Take("by timeline", {<<"sem", One>>}, "jobs") \o Unlock("jobs")
               \o Or("lost", Wait) \o Free("sem", One) \o Free("fence", One) \o Free("cmd", OfJob)
               \o Or("done", Can("not discarded")) \o HostReads({OfJob}) \o Then("done")
    @@ "lost" :> Free("sem", One) \o Free("fence", One) \o Free("cmd", OfJob) \o Then("done")
    @@ "done" :> FreeJob \o Free("dpool", One) \o Lock("promise") \o Take("pending", {}, "promise") \o Unlock("promise")
         \o Free("malloc", OfJob) \o Exit
-----------------------------------------------------------------------------
(* yona_gpu_vulkan_dispatch_nop_once *)
DispatchNop ==
  "entry" :> HaveDevice("nop")
    @@ "nop" :> Or("failed", New("fence", One)) \o Or("unfence", New("cmd", Nop))
         \o Or("uncmd", Can("begin") \o Dispatch({}, {}) \o Run) \o Then("uncmd")
    @@ "uncmd" :> Free("cmd", Nop) \o Then("unfence")
    @@ "unfence" :> Free("fence", One) \o Leave
    @@ Failed

(* yona_gpu_vulkan_alloc_pinned_floats, _free_pinned_floats *)
PinnedObjects == {<<c, Pinned>> : c \in {"malloc", "buf", "mem", "map"}}
AllocPinned ==
  "entry" :> When({}, {"pinned"}) \o Or("declined", Can("arguments")) \o Then("ctx")
    @@ CtxInit("pin", "declined")
    @@ "pin" :> HaveDevice("alloc")
    @@ "alloc" :> Or("failed", New("malloc", Pinned)) \o Or("unmalloc", New("buf", Pinned))
         \o Or("unbuf", Can("memory type") \o New("mem", Pinned)) \o Or("unmem", Can("bind") \o New("map", Pinned))
         \o Fill(Pinned) \o KeepAs({"pinned"}, PinnedObjects, "g_mu") \o Leave
    @@ "unmem" :> Free("mem", Pinned) \o Then("unbuf")
    @@ "unbuf" :> Free("buf", Pinned) \o Then("unmalloc")
    @@ "unmalloc" :> Free("malloc", Pinned) \o Leave
    @@ Failed
FreePinned ==
  "entry" :> When({"pinned"}, {}) \o Lock("g_mu") \o Take("pinned", PinnedObjects, "g_mu")
               \o IfSet("ctx", "g_mu", "unpin") \o Then("drop")
    @@ "unpin" :> Free("map", Pinned) \o Free("buf", Pinned) \o Free("mem", Pinned) \o Then("drop")
    @@ "drop" :> Unlock("g_mu") \o Free("malloc", Pinned) \o Exit

(* yona_gpu_vulkan_ctx_shutdown, when the promise is complete and the floats *)
(* are closed.                                                               *)
Teardown(pipe) ==
  LET p == At(pipe, "") IN
    Take(pipe, Parts(pipe), "g_mu") \o Free("pipe", p) \o Free("pl", p) \o Free("dsl", p) \o Free("sm", p)
      \o Take(Latch(pipe), {}, "g_mu")
CtxShutdown ==
  "entry" :> When({}, {"pinned", "pending"}) \o Lock("g_mu") \o IfSet("ctx", "g_mu", "idle device") \o Then("failed")
    @@ "idle device" :> Wait \o Each(Teardown, <<"f64", "f32", "reduce64", "reduce32">>)
         \o Take("ctx", Device, "g_mu") \o Free("pipe", Nop) \o Free("pl", Nop) \o Free("sm", Nop)
         \o Free("cpool", One) \o Free("dev", One) \o Free("inst", One) \o Take("modern", {}, "g_mu") \o Leave
    @@ Failed
==============================================================================
