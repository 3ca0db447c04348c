------------------------------- MODULE GpuViews -------------------------------
(***************************************************************************)
(* One call of a GPU backend seen from the inside: what its thread knows   *)
(* at a step, whatever other threads do.  A view is                        *)
(*                                                                         *)
(*   [op, label, at, named, live, held, seen]                              *)
(*                                                                         *)
(* that is where the call is, its handles and its objects as in GpuCalls,  *)
(* the locks it holds, and the flags that may be set among those its locks *)
(* guard.  A flag is set under its guard only.  A tight one is cleared     *)
(* under its guard only, too, so that a view knows it exactly; a loose one *)
(* may be cleared by anybody.  While nobody holds a lock, the tight flags  *)
(* it guards are one of the sets the table Rest allows.                    *)
(***************************************************************************)
EXTENDS GpuSteps, GpuMemory

CONSTANTS Table,   \* call -> label -> the steps there
          Guard,   \* flag -> the lock under which it is set
          Tight,   \* the tight flags
          Rest,    \* lock -> the sets its tight flags may be while it is free
          Twice,   \* <<call, label, handle>>: destroyed there though it may be gone
          Buffers  \* the buffers that commands are recorded about

Guarded(m) == {f \in DOMAIN Guard : Guard[f] = m}
GuardedBy(ms) == {f \in DOMAIN Guard : Guard[f] \in ms}

StepOf(v) == Table[v.op][v.label][v.at]
Entry(o) == [op |-> o, label |-> "entry", at |-> 1, named |-> {}, live |-> {}, held |-> {}, seen |-> {}]
(* The same view somewhere else, with other objects, with other locks and flags. *)
Moved(v, l, i) == [op |-> v.op, label |-> l, at |-> i,
                   named |-> v.named, live |-> v.live, held |-> v.held, seen |-> v.seen]
Having(v, n, o) == [op |-> v.op, label |-> v.label, at |-> v.at,
                    named |-> n, live |-> o, held |-> v.held, seen |-> v.seen]
Knowing(v, h, fs) == [op |-> v.op, label |-> v.label, at |-> v.at,
                      named |-> v.named, live |-> v.live, held |-> h, seen |-> fs]
To(v, l) == Moved(v, l, 1)
Past(v) == Moved(v, v.label, v.at + 1)

(* What a view says of a flag. *)
MayBeSet(v, f) == Guard[f] \in v.held => f \in v.seen
MayBeClear(v, f) == f \in Tight /\ Guard[f] \in v.held => f \notin v.seen

(* The views after a step that does not fail. *)
Locked(v, s) ==
  {Knowing(Past(v), v.held \cup {s.m}, v.seen \cup r \cup (Guarded(s.m) \ Tight)) : r \in Rest[s.m]}
Unlocked(v, s) == Knowing(Past(v), v.held \ {s.m}, v.seen \ Guarded(s.m))
Created(v, s) == Having(Past(v), v.named \cup {s.h}, v.live \cup {s.h})
Destroyed(v, s) ==
  IF s.h \in v.named
  THEN Having(Past(v), IF s.nulls THEN v.named \ {s.h} ELSE v.named, Without(v.live, s.h))
  ELSE Past(v)
Kept(v, s) == Knowing(Having(Past(v), v.named \ s.objects, v.live \ s.objects), v.held, v.seen \cup s.flags)
Cleared(v, f) == Knowing(Past(v), v.held, v.seen \ {f})
TakenOver(v, s) == Having(Cleared(v, s.flag), v.named \cup s.objects, v.live \cup s.objects)
Enqueued(v) == Having(Past(v), v.named, v.live \cup {Work})
Awaited(v) == Having(Past(v), v.named, v.live \ {Work})

Given(c, views) == IF c THEN views ELSE {}
Passes == {"when", "can", "cmd", "barrier", "hostwrite", "hostread"}
Succeeded(v, s) ==
  UNION {Given(s.do = "lock", Locked(v, s)),
         Given(s.do = "unlock", {Unlocked(v, s)}),
         Given(s.do = "new", {Created(v, s)}),
         Given(s.do = "free", {Destroyed(v, s)}),
         Given(s.do = "keep", {Kept(v, s)}),
         Given(s.do = "adopt" /\ MayBeSet(v, s.flag), {TakenOver(v, s)}),
         Given(s.do = "if" /\ MayBeSet(v, s.flag), {To(v, s.to)}),
         Given(s.do \in {"adopt", "if"} /\ MayBeClear(v, s.flag), {Cleared(v, s.flag)}),
         Given(s.do = "submit", {Enqueued(v)}),
         Given(s.do = "wait", {Awaited(v)}),
         Given(s.do = "goto", {To(v, s.to)}),
         Given(s.do \in Passes, {Past(v)})}
(* And after one that does. *)
Failed(v, s) ==
  Given("or" \in DOMAIN s, {Having(To(v, s.or), v.named, IF s.do = "wait" THEN v.live \ {Work} ELSE v.live)})
-----------------------------------------------------------------------------
(* The rules for locks and flags.  A lock is released by its owner, with flags *)
(* as at rest; a flag is set under its guard, and a tight one cleared so; a    *)
(* call that returns has no lock and no object left.                           *)
ByTheRules(v, s) ==
  /\ s.do = "lock" => s.m \in DOMAIN Rest
  /\ s.do = "unlock" => s.m \in v.held /\ v.seen \cap Tight \cap Guarded(s.m) \in Rest[s.m]
  /\ s.do = "keep" => s.flags \subseteq GuardedBy(v.held)
  /\ s.do \in {"adopt", "if"} => s.flag \in DOMAIN Guard
  /\ s.do = "adopt" /\ s.flag \in Tight => Guard[s.flag] \in v.held
  /\ s.do = "return" => v.live = {} /\ v.held = {}

(* A set of views that the calls begin in and no step leads out of, all by the *)
(* rules; nothing is set at rest in the beginning.                             *)
Disciplined(calls, views) ==
  /\ \A m \in DOMAIN Rest : {} \in Rest[m] /\ \A r \in Rest[m] : r \subseteq Tight \cap Guarded(m)
  /\ \A o \in calls : Entry(o) \in views
  /\ \A v \in views : /\ v.label # "idle" /\ ByTheRules(v, StepOf(v))
                      /\ Succeeded(v, StepOf(v)) \subseteq views /\ Failed(v, StepOf(v)) \subseteq views

(* What is destroyed is there, or excused, and the device has done with it. *)
Destroying(v, s) == s.do = "free" /\ s.h \in v.named
Frugal(views) ==
  \A v \in views : Destroying(v, StepOf(v)) =>
    LET h == StepOf(v).h IN
      /\ h \in v.live \/ <<v.op, v.label, h>> \in Twice
      /\ OnHost(h) \/ Work \notin v.live

(* Of the serial calls only the owner of one lock has work on the device; what *)
(* a flag stands for is made while the flag is known to be clear.              *)
Exclusive(views, serial) ==
  /\ \E m \in DOMAIN Rest : \A v \in views : v.op \in serial /\ Work \in v.live => m \in v.held
  /\ \A v \in views : LET s == StepOf(v) IN
       s.do = "keep" /\ s.objects # {} => s.flags \cap v.seen = {}

(* Whoever has an object of the device holds one lock, which guards what stands *)
(* for such objects, too; and the device is destroyed when it is known that      *)
(* nothing does, and nothing but the device is left.                            *)
DeviceLast(views, owners) ==
  \E m \in DOMAIN Rest :
    /\ owners \subseteq Guarded(m)
    /\ \A v \in views : (\E h \in v.live : ~OnHost(h)) => m \in v.held
    /\ \A v \in views : Destroying(v, StepOf(v)) /\ StepOf(v).h[1] = "dev" =>
         m \in v.held /\ v.seen \cap owners = {} /\ \A h \in v.live : OnHost(h) \/ h[1] \in {"dev", "inst"}
-----------------------------------------------------------------------------
(* A picture is a view and the buffers as its thread knows them, which it does *)
(* while it has a certain lock, the key: they are blank when it takes the key, *)
(* and blank again when it gives it back.                                      *)
Blank == [b \in Buffers |-> Fresh]
Effect(v, s, mem) ==
  IF Destroying(v, s)
  THEN [b \in Buffers |-> IF s.h \in {<<"buf", b>>, <<"mem", b>>} THEN Fresh ELSE mem[b]]
  ELSE IF s.do = "wait" THEN [b \in Buffers |-> Completed(mem[b])]
  ELSE IF s.do \in Passes THEN Recorded(mem, s) ELSE mem
Picture(v, mem) == [v |-> v, mem |-> mem]
PicturesAfter(p) ==
  LET s == StepOf(p.v) IN
    {Picture(w, Effect(p.v, s, p.mem)) : w \in Succeeded(p.v, s)} \cup {Picture(w, p.mem) : w \in Failed(p.v, s)}

Touches(v, s) == \/ s.do \in {"cmd", "barrier", "hostwrite", "wait"}
                 \/ Destroying(v, s) /\ s.h[1] \in {"buf", "mem"}
Synchronises(v, s, mem) ==
  InOrder(mem, s) /\ (s.do \in {"hostread", "hostwrite"} => Work \notin v.live)
Pictured(calls, observed, key, pictures) ==
  /\ \A o \in calls : Picture(Entry(o), Blank) \in pictures
  /\ \A p \in pictures : LET s == StepOf(p.v) IN
       /\ p.mem = [b \in Buffers |-> p.mem[b]]
       /\ Touches(p.v, s) \/ s.do = "hostread" => key \in p.v.held
       /\ s.do = "unlock" /\ s.m = key => p.mem = Blank
       /\ p.v.op \in observed => Synchronises(p.v, s, p.mem)
       /\ PicturesAfter(p) \subseteq pictures
==============================================================================
