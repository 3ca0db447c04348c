-------------------------- MODULE GpuScriptsChecked --------------------------
(***************************************************************************)
(* The calls of the two backends keep the rules of module GpuViews, which  *)
(* is what the theorems of module GpuProofs ask of them.  The views of a   *)
(* call depend on no other call and on no number of threads, so that they  *)
(* are few and can all be computed.                                        *)
(***************************************************************************)
LOCAL INSTANCE GpuPrograms
LOCAL INSTANCE FiniteSets

Scripts == Int64Scripts @@ FloatScriptsAll @@ JobScript
Table == [o \in DOMAIN Scripts |-> [l \in DOMAIN Scripts[o] |-> Scripts[o][l]]]

(* Which lock guards what.  The int64 backend has a device, with its loader or *)
(* without, or knows that there is none, or has not looked; the float backend  *)
(* has pipelines only while it has a context.  Other flags may be cleared      *)
(* without their lock.                                                         *)
OfDevice == {"device", "loader", "no device"}
OfPipes == {"f64", "f32", "reduce64", "reduce32"}
Guard ==
  [f \in OfDevice |-> "device"] @@ [f \in {Pipelines[i] : i \in DOMAIN Pipelines} |-> "submit"]
    @@ [f \in {"ctx", "probed", "compute", "shaderFloat64", "modern", "pinned"} |-> "g_mu"]
    @@ [f \in OfPipes \cup {Float!Latch(p) : p \in OfPipes} |-> "g_mu"]
    @@ [f \in {"job", "pending", "by fence", "by timeline"} |-> "jobs"]
Rest ==
  [m \in {"submit", "jobs", "promise"} |-> {{}}]
    @@ "device" :> {{}, {"no device"}, {"device"}, {"device", "loader"}}
    @@ "g_mu" :> {{}} \cup {{"ctx"} \cup pipes : pipes \in SUBSET OfPipes}
V == INSTANCE GpuViews WITH Tight <- OfDevice \cup {"ctx"} \cup OfPipes, Twice <- DestroyedTwice,
                         Buffers <- AllBuffers \cup Float!FloatBuffers

(* The pictures of a call, and its views: the first one, and those that steps *)
(* lead to.                                                                   *)
RECURSIVE Reached(_, _)
Reached(known, new) ==
  IF new = {} THEN known
  ELSE Reached(known \cup new, UNION {V!PicturesAfter(p) : p \in new} \ (known \cup new))
PicturesBy == [o \in DOMAIN Table |-> Reached({}, {V!Picture(V!Entry(o), V!Blank)})]
PicturesOf(calls) == UNION {PicturesBy[o] : o \in calls}
ViewsOf(calls) == {p.v : p \in PicturesOf(calls)}

(* The rules, for the calls that keep them whatever a program does.  A pinned *)
(* buffer is given back in full only while there is a context, so unpin needs *)
(* a program that sees to it, and so do pin, async and job: of the first two  *)
(* there is one at a time, and the job's work is done without a lock.         *)
KeptBy(calls) == LET views == ViewsOf(calls) IN V!Disciplined(calls, views) /\ V!Frugal(views)
Relying == {"async", "pin", "unpin", "job"}
PicturedBy(calls, observed, key) == V!Pictured(calls, observed, key, PicturesOf(calls))
Int64Maps == DOMAIN Int64Scripts \ {"close"}
FloatAlone == DOMAIN FloatScriptsAll \ Relying

ASSUME RulesAreKept ==
  /\ KeptBy(DOMAIN Table \ {"unpin"})
  /\ \A calls \in {DOMAIN Int64Scripts, FloatAlone} : V!Exclusive(ViewsOf(calls), calls)
  /\ PicturedBy(Int64Maps, Int64Maps \ {"filterHost"}, "submit")
  /\ PicturedBy(FloatAlone, FloatAlone, "g_mu")
  /\ V!DeviceLast(ViewsOf(FloatAlone), V!OwnersOf({Table[o] : o \in FloatAlone}))
==============================================================================
