------------------------------ MODULE GpuProofs ------------------------------
(***************************************************************************)
(* What holds of the GPU backends for any number of threads and calls.     *)
(*                                                                         *)
(* A call of a backend is followed by its views, or its pictures (module   *)
(* GpuViews): sets that one call's steps never lead out of and that say    *)
(* nothing of other threads.  The first part shows that every running      *)
(* thread is always at one of its views, so that what all views have in    *)
(* common holds of the calls; the second that whoever holds the key knows  *)
(* the buffers.  That the scripts have such views is what module           *)
(* GpuScriptsChecked lets TLC compute.                                     *)
(*                                                                         *)
(* The last part is about the asynchronous calls (GpuAsync), in the group  *)
(* or not: no job is lost, no array is written after its promise was given *)
(* back, and a promise tells the truth, once.                              *)
(***************************************************************************)
EXTENDS GpuCalls, GpuAsync, FiniteSetTheorems, TLAPS

CONSTANTS Guard, Tight, Rest
INSTANCE GpuViews WITH Table <- Program

-----------------------------------------------------------------------------
(* A thread is idle, or at a step of its script. *)
Placed == \A t \in Threads : Running(t) =>
  label[t] \in DOMAIN Program[op[t]] /\ at[t] \in 1 .. Len(Program[op[t]][label[t]])
PerThread == DOMAIN named = Threads /\ DOMAIN live = Threads
TInv == TypeOK /\ Placed /\ PerThread

LEMMA TInit == Init => TInv
<1> SUFFICES ASSUME Init PROVE TInv
  OBVIOUS
<1>1. op \in [Threads -> Ops]
  BY ScriptAssumption DEF Init
<1>2. label \in [Threads -> Labels \cup {"idle"}] /\ \A t \in Threads : label[t] = "idle"
  BY DEF Init
<1>5. at \in [Threads -> Nat \ {0}]
  BY DEF Init
<1>3. lock \in [Locks -> Threads \cup {NoThread}]
  BY DEF Init
<1>4. Placed /\ PerThread
  BY <1>2 DEF Init, Placed, Running, PerThread
<1> QED
  BY <1>1, <1>2, <1>3, <1>4, <1>5 DEF TInv, TypeOK

(* Where a step may leave its thread. *)
LEMMA GotoPlaced ==
  ASSUME TInv, NEW t \in Threads, NEW l \in DOMAIN Program[op[t]], Goto(t, l), op' = op
  PROVE  Placed' /\ label' \in [Threads -> Labels \cup {"idle"}] /\ at' \in [Threads -> Nat \ {0}]
<1>1. op[t] \in Ops /\ l \in Labels /\ Len(Program[op[t]][l]) \in Nat \ {0}
  BY ScriptAssumption DEF TInv, TypeOK, WellFormed, Labels
<1>2. label' \in [Threads -> Labels \cup {"idle"}] /\ at' \in [Threads -> Nat \ {0}]
  BY <1>1 DEF TInv, TypeOK, Goto
<1>3. ASSUME NEW u \in Threads, Running(u)'
      PROVE  (label[u] \in DOMAIN Program[op[u]] /\ at[u] \in 1 .. Len(Program[op[u]][label[u]]))'
  <2>1. CASE u = t
    BY <1>1, <2>1 DEF TInv, TypeOK, Goto
  <2>2. CASE u # t
    <3>1. label'[u] = label[u] /\ at'[u] = at[u]
      BY <2>2 DEF TInv, TypeOK, Goto
    <3> QED
      BY <1>3, <3>1 DEF TInv, Placed, Running
  <2> QED
    BY <2>1, <2>2
<1> QED
  BY <1>2, <1>3 DEF Placed
LEMMA OnwardPlaced ==
  ASSUME TInv, NEW t \in Threads, Running(t), Onward(t), op' = op,
         Program[op[t]][label[t]][at[t]].do \notin {"goto", "return"}
  PROVE  Placed' /\ label' \in [Threads -> Labels \cup {"idle"}] /\ at' \in [Threads -> Nat \ {0}]
<1> DEFINE n == Len(Program[op[t]][label[t]])
<1>1. op[t] \in Ops /\ label[t] \in DOMAIN Program[op[t]] /\ at[t] \in 1 .. n
  BY DEF TInv, TypeOK, Placed
<1>2. n \in Nat \ {0} /\ Program[op[t]][label[t]][n].do \in {"goto", "return"}
  BY <1>1, ScriptAssumption DEF WellFormed, LastOf
<1>3. at[t] # n
  BY <1>2
<1>4. at[t] + 1 \in 1 .. n
  BY <1>1, <1>2, <1>3
<1> HIDE DEF n
<1>5. label' = label /\ at' \in [Threads -> Nat \ {0}] /\ at'[t] = at[t] + 1
      /\ \A u \in Threads \ {t} : at'[u] = at[u]
  BY <1>4 DEF TInv, TypeOK, Onward
<1>6. ASSUME NEW u \in Threads, Running(u)'
      PROVE  (label[u] \in DOMAIN Program[op[u]] /\ at[u] \in 1 .. Len(Program[op[u]][label[u]]))'
  <2>1. CASE u = t
    BY <1>1, <1>4, <1>5, <2>1 DEF n
  <2>2. CASE u # t
    BY <1>5, <1>6, <2>2 DEF TInv, Placed, Running
  <2> QED
    BY <2>1, <2>2
<1> QED
  BY <1>5, <1>6 DEF Placed, TInv, TypeOK
LEMMA StepIn ==
  ASSUME TInv, NEW t \in Threads, NEW s \in Steps(t)
  PROVE  /\ Running(t) /\ op[t] \in Ops /\ s = Program[op[t]][label[t]][at[t]]
         /\ s.do \in {"goto", "if"} => s.to \in DOMAIN Program[op[t]]
         /\ "or" \in DOMAIN s => s.or \in DOMAIN Program[op[t]]
<1>1. Running(t) /\ op[t] \in Ops /\ s = Program[op[t]][label[t]][at[t]]
  BY DEF Steps, TInv, TypeOK
<1>2. label[t] \in DOMAIN Program[op[t]] /\ at[t] \in 1 .. Len(Program[op[t]][label[t]])
  BY <1>1 DEF TInv, Placed
<1> QED
  BY <1>1, <1>2, ScriptAssumption DEF WellFormed

(* What no step but the beginning of a call changes, and what most leave alone. *)
LEMMA StepTypes ==
  ASSUME TInv, NEW t \in Threads, NEW s \in Steps(t), op' = op,
         lock' \in [Locks -> Threads \cup {NoThread}], PerThread',
         \/ Onward(t) /\ s.do \notin {"goto", "return"}
         \/ s.do \in {"goto", "if"} /\ Goto(t, s.to)
         \/ "or" \in DOMAIN s /\ Goto(t, s.or)
  PROVE  TInv'
<1>1. Running(t) /\ s = Program[op[t]][label[t]][at[t]]
      /\ (s.do \in {"goto", "if"} => s.to \in DOMAIN Program[op[t]])
      /\ ("or" \in DOMAIN s => s.or \in DOMAIN Program[op[t]])
  BY StepIn
<1>2. Placed' /\ label' \in [Threads -> Labels \cup {"idle"}] /\ at' \in [Threads -> Nat \ {0}]
  <2>1. CASE Onward(t) /\ s.do \notin {"goto", "return"}
    BY <1>1, <2>1, OnwardPlaced
  <2>2. CASE s.do \in {"goto", "if"} /\ Goto(t, s.to)
    BY <1>1, <2>2, GotoPlaced
  <2>3. CASE "or" \in DOMAIN s /\ Goto(t, s.or)
    BY <1>1, <2>3, GotoPlaced
  <2> QED
    BY <2>1, <2>2, <2>3
<1>3. op' \in [Threads -> Ops]
  BY DEF TInv, TypeOK
<1> QED
  BY <1>2, <1>3 DEF TInv, TypeOK

LEMMA TStep == TInv /\ [Next]_vars => TInv'
<1> SUFFICES ASSUME TInv, [Next]_vars PROVE TInv'
  OBVIOUS
<1>1. CASE UNCHANGED vars
  BY <1>1 DEF vars, TInv, TypeOK, Placed, Running, PerThread
<1>2. ASSUME NEW t \in Threads, NEW o \in Ops, Begin(t, o)
      PROVE  TInv'
  <2>1. "entry" \in DOMAIN Program[o] /\ "entry" \in Labels /\ 1 \in 1 .. Len(Program[o]["entry"])
    BY ScriptAssumption DEF WellFormed, Labels
  <2>2. op' \in [Threads -> Ops] /\ label' \in [Threads -> Labels \cup {"idle"}] /\ at' \in [Threads -> Nat \ {0}]
        /\ op'[t] = o /\ label'[t] = "entry" /\ at'[t] = 1
        /\ \A u \in Threads \ {t} : op'[u] = op[u] /\ label'[u] = label[u] /\ at'[u] = at[u]
    BY <1>2, <2>1 DEF Begin, Goto, TInv, TypeOK
  <2>3. ASSUME NEW u \in Threads, Running(u)'
        PROVE  (label[u] \in DOMAIN Program[op[u]] /\ at[u] \in 1 .. Len(Program[op[u]][label[u]]))'
    <3>1. CASE u = t
      BY <2>1, <2>2, <3>1
    <3>2. CASE u # t
      BY <2>2, <2>3, <3>2 DEF TInv, Placed, Running
    <3> QED
      BY <3>1, <3>2
  <2>4. Placed'
    BY <2>3 DEF Placed
  <2> QED
    BY <1>2, <2>2, <2>4 DEF Begin, TInv, TypeOK, PerThread
<1>3. ASSUME NEW t \in Threads, NEW s \in Steps(t), Acquire(t, s) \/ Advance(t, s) \/ Fail(t, s)
      PROVE  TInv'
  <2>0. lock \in [Locks -> Threads \cup {NoThread}] /\ PerThread
    BY DEF TInv, TypeOK
  <2>1. CASE Acquire(t, s)
    <3>1. lock' \in [Locks -> Threads \cup {NoThread}]
      BY <2>0, <2>1 DEF Acquire
    <3> QED
      BY <2>0, <2>1, <3>1, StepTypes DEF Acquire, PerThread
  <2>2. CASE Release(t, s)
    <3>1. lock' \in [Locks -> Threads \cup {NoThread}]
      BY <2>0, <2>2 DEF Release
    <3> QED
      BY <2>0, <2>2, <3>1, StepTypes DEF Release, PerThread
  <2>3. CASE Create(t, s)
    BY <2>0, <2>3, StepTypes DEF Create, PerThread
  <2>4. CASE Destroy(t, s)
    <3>1. PerThread'
      BY <2>0, <2>4 DEF Destroy, PerThread
    <3> QED
      BY <2>0, <2>4, <3>1, StepTypes DEF Destroy
  <2>5. CASE Keep(t, s)
    BY <2>0, <2>5, StepTypes DEF Keep, PerThread
  <2>6. CASE Adopt(t, s)
    BY <2>0, <2>6, StepTypes DEF Adopt, PerThread
  <2>7. CASE Do(t, s)
    BY <2>0, <2>7, StepTypes DEF Do, PerThread
  <2>8. CASE Enqueue(t, s)
    BY <2>0, <2>8, StepTypes DEF Enqueue, PerThread
  <2>9. CASE Await(t, s)
    BY <2>0, <2>9, StepTypes DEF Await, PerThread
  <2>10. CASE Jump(t, s)
    BY <2>0, <2>10, StepTypes DEF Jump, PerThread
  <2>11. CASE Branch(t, s)
    BY <2>0, <2>11, StepTypes DEF Branch, PerThread
  <2>12. CASE Fail(t, s)
    BY <2>0, <2>12, StepTypes DEF Fail, PerThread
  <2>13. CASE Return(t, s)
    <3>1. op' = op /\ label' = [label EXCEPT ![t] = "idle"] /\ at' = [at EXCEPT ![t] = 1] /\ lock' = lock
      BY <2>13 DEF Return, Goto
    <3>2. label \in [Threads -> Labels \cup {"idle"}] /\ at \in [Threads -> Nat \ {0}]
      BY DEF TInv, TypeOK
    <3>5. label' \in [Threads -> Labels \cup {"idle"}] /\ label'[t] = "idle" /\ \A u \in Threads \ {t} : label'[u] = label[u]
      BY <3>1, <3>2
    <3>6. at' \in [Threads -> Nat \ {0}] /\ \A u \in Threads \ {t} : at'[u] = at[u]
      BY <3>1, <3>2
    <3>3. Placed'
      BY <3>1, <3>5, <3>6 DEF TInv, Placed, Running
    <3>4. PerThread'
      BY <2>0, <2>13 DEF Return, PerThread
    <3> QED
      BY <3>1, <3>3, <3>4, <3>5, <3>6 DEF TInv, TypeOK
  <2> QED
    BY <1>3, <2>1, <2>2, <2>3, <2>4, <2>5, <2>6, <2>7, <2>8, <2>9, <2>10, <2>11, <2>12, <2>13 DEF Advance
<1> QED
  BY <1>1, <1>2, <1>3 DEF Next

(* A thread is never anywhere but idle or at a step of a label its call has, so *)
(* that no jump to an exit label of the code (goto fail, goto out) gets lost.   *)
THEOREM TypeCorrect == Spec => []TypeOK
<1>1. Spec => []TInv
  BY TInit, TStep, PTL DEF Spec
<1>2. TInv => TypeOK
  BY DEF TInv
<1> QED
  BY <1>1, <1>2, PTL
-----------------------------------------------------------------------------
(* A thread is where a view says, with what it says; the view knows the flags *)
(* of the locks the thread holds.                                             *)
Held(t) == {m \in Locks : lock[m] = t}
Sees(t, v) ==
  /\ v.op = op[t] /\ v.label = label[t] /\ v.at = at[t]
  /\ v.named = named[t] /\ v.live = live[t] /\ v.held = Held(t)
  /\ v.seen \subseteq GuardedBy(v.held)
  /\ built \cap GuardedBy(v.held) \subseteq v.seen /\ v.seen \cap Tight \subseteq built
Idle(t) == named[t] = {} /\ live[t] = {} /\ Held(t) = {}
Followed(views) == \A t \in Threads : IF Running(t) THEN \E v \in views : Sees(t, v) ELSE Idle(t)
AtRest == \A m \in Locks : lock[m] = NoThread => built \cap Tight \cap Guarded(m) \in Rest[m]
VInv(views) == TInv /\ Followed(views) /\ AtRest

Obeyed(views) == Disciplined(Ops, views) /\ DOMAIN Rest = Locks

LEMMA VInit == ASSUME NEW views, Obeyed(views) PROVE Init => VInv(views)
<1> SUFFICES ASSUME Init PROVE VInv(views)
  OBVIOUS
<1>1. TInv
  BY TInit
<1>2. ASSUME NEW t \in Threads PROVE ~Running(t) /\ Idle(t)
  BY ScriptAssumption DEF Init, Running, Idle, Held
<1>3. ASSUME NEW m \in Locks PROVE built \cap Tight \cap Guarded(m) \in Rest[m]
  <2>1. {} \in Rest[m]
    BY DEF Obeyed, Disciplined
  <2>2. built \cap Tight \cap Guarded(m) = {}
    BY DEF Init
  <2> QED
    BY <2>1, <2>2
<1> QED
  BY <1>1, <1>2, <1>3 DEF VInv, Followed, AtRest

(* The others are left alone: their variables, their locks, their flags. *)
Same(u) == op'[u] = op[u] /\ label'[u] = label[u] /\ at'[u] = at[u] /\ named'[u] = named[u] /\ live'[u] = live[u]
LocksSame(u) == \A m \in Locks : lock'[m] = u <=> lock[m] = u
FlagsSame(u) == \A f \in GuardedBy(Held(u)) : (f \in built' => f \in built) /\ (f \in Tight /\ f \in built => f \in built')
LEMMA StillSees ==
  ASSUME NEW u \in Threads, NEW v, Sees(u, v), Same(u), LocksSame(u), FlagsSame(u)
  PROVE  Sees(u, v)'
<1>1. v.held = Held(u) /\ Held(u)' = Held(u)
  BY DEF LocksSame, Held, Sees
<1>2. built' \cap GuardedBy(v.held) \subseteq v.seen /\ v.seen \cap Tight \subseteq built'
  BY <1>1 DEF Sees, FlagsSame
<1> QED
  BY <1>1, <1>2 DEF Sees, Same
LEMMA OthersSee ==
  ASSUME NEW views, Followed(views), NEW u \in Threads, Same(u), LocksSame(u), FlagsSame(u)
  PROVE  (IF Running(u) THEN \E v \in views : Sees(u, v) ELSE Idle(u))'
<1>1. CASE Running(u)
  BY <1>1, StillSees DEF Followed, Running, Same
<1>2. CASE ~Running(u)
  <2>1. Held(u)' = Held(u)
    BY DEF LocksSame, Held
  <2> QED
    BY <1>2, <2>1 DEF Followed, Idle, Running, Same
<1> QED
  BY <1>1, <1>2

(* A running thread has a view, and it is worth something. *)
LEMMA HasView ==
  ASSUME NEW views, VInv(views), NEW t \in Threads, NEW s \in Steps(t)
  PROVE  \E v \in views : Sees(t, v)
BY StepIn DEF VInv, Followed
LEMMA ViewOf ==
  ASSUME NEW views, Obeyed(views), VInv(views), NEW t \in Threads, NEW s \in Steps(t), NEW v \in views, Sees(t, v)
  PROVE  /\ s = StepOf(v) /\ ByTheRules(v, s)
         /\ Succeeded(v, s) \subseteq views /\ Failed(v, s) \subseteq views
<1>1. s = Program[op[t]][label[t]][at[t]]
  BY StepIn DEF VInv
<1>2. s = StepOf(v)
  BY <1>1 DEF StepOf, Sees
<1> QED
  BY <1>2 DEF Obeyed, Disciplined

(* A step of t leads to a view, leaves the others alone and what is at rest at rest. *)
Goes(t, w) ==
  /\ Sees(t, w)' /\ AtRest'
  /\ \A u \in Threads \ {t} : Same(u) /\ LocksSame(u) /\ FlagsSame(u)
LEMMA Gone ==
  ASSUME NEW views, Obeyed(views), VInv(views), TInv', NEW t \in Threads, NEW w \in views, Goes(t, w)
  PROVE  VInv(views)'
<1>1. w.label # "idle"
  BY DEF Obeyed, Disciplined
<1>2. ASSUME NEW u \in Threads
      PROVE  (IF Running(u) THEN \E v \in views : Sees(u, v) ELSE Idle(u))'
  <2>1. CASE u = t
    <3>1. Running(t)'
      BY <1>1 DEF Goes, Sees, Running
    <3> QED
      BY <2>1, <3>1 DEF Goes
  <2>2. CASE u # t
    BY <2>2, OthersSee DEF VInv, Goes
  <2> QED
    BY <2>1, <2>2
<1> QED
  BY <1>2 DEF VInv, Followed, Goes

(* The flags of two threads are apart. *)
LEMMA Apart ==
  ASSUME NEW t \in Threads, NEW u \in Threads \ {t}, NEW f \in GuardedBy(Held(t))
  PROVE  f \notin GuardedBy(Held(u))
BY DEF GuardedBy, Held
LEMMA NotFree ==
  ASSUME NEW t \in Threads, NEW f \in GuardedBy(Held(t)), NEW m, lock[m] = NoThread
  PROVE  f \notin Guarded(m)
BY ScriptAssumption DEF GuardedBy, Guarded, Held

(* A step that leaves the locks and the flags alone. *)
LEMMA LocalStep ==
  ASSUME NEW views, VInv(views), NEW t \in Threads, NEW v, Sees(t, v), NEW w,
         built' = built, lock' = lock, \A u \in Threads \ {t} : Same(u),
         w.op = op'[t], w.label = label'[t], w.at = at'[t], w.named = named'[t], w.live = live'[t],
         w.held = v.held, w.seen \subseteq v.seen, built \cap v.seen \subseteq w.seen
  PROVE  Goes(t, w)
<1>1. AtRest'
  BY DEF VInv, AtRest
<1>2. \A u \in Threads \ {t} : LocksSame(u) /\ FlagsSame(u)
  BY DEF LocksSame, FlagsSame
<1>3. w.held = Held(t) /\ Held(t)' = Held(t)
  BY DEF Held, Sees
<1>4. w.seen \subseteq GuardedBy(w.held) /\ built' \cap GuardedBy(w.held) \subseteq w.seen
      /\ w.seen \cap Tight \subseteq built'
  BY DEF Sees
<1>5. Sees(t, w)'
  BY <1>3, <1>4 DEF Sees
<1> QED
  BY <1>1, <1>2, <1>5 DEF Goes

LEMMA OnwardTo ==
  ASSUME TInv, NEW t \in Threads, Onward(t)
  PROVE  label' = label /\ at'[t] = at[t] + 1 /\ \A u \in Threads \ {t} : at'[u] = at[u]
BY DEF TInv, TypeOK, Onward
LEMMA WentTo ==
  ASSUME TInv, NEW t \in Threads, NEW l, Goto(t, l)
  PROVE  label'[t] = l /\ at'[t] = 1 /\ \A u \in Threads \ {t} : label'[u] = label[u] /\ at'[u] = at[u]
BY DEF TInv, TypeOK, Goto
LEMMA Rewritten ==
  ASSUME NEW f, NEW D, DOMAIN f = D, NEW t \in D, NEW e
  PROVE  [f EXCEPT ![t] = e][t] = e /\ \A u \in D \ {t} : [f EXCEPT ![t] = e][u] = f[u]
OBVIOUS

(* Such a step to the next one, or to a label, with these handles and objects. *)
OthersKeep(t) == \A u \in Threads \ {t} : named'[u] = named[u] /\ live'[u] = live[u]
LEMMA OnwardStep ==
  ASSUME NEW views, VInv(views), NEW t \in Threads, NEW v, Sees(t, v),
         NEW n, NEW o, Onward(t), UNCHANGED <<op, built, lock>>,
         named'[t] = n, live'[t] = o, OthersKeep(t)
  PROVE  Goes(t, Having(Past(v), n, o))
<1>1. PICK w : w = Having(Past(v), n, o)
  OBVIOUS
<1>2. w.op = v.op /\ w.label = v.label /\ w.at = v.at + 1 /\ w.named = n /\ w.live = o
      /\ w.held = v.held /\ w.seen = v.seen
  BY <1>1 DEF Having, Past, Moved
<1>3. label' = label /\ at'[t] = at[t] + 1 /\ \A u \in Threads \ {t} : Same(u)
  BY OnwardTo DEF VInv, Same, OthersKeep
<1>4. v.op = op[t] /\ v.label = label[t] /\ v.at = at[t]
  BY DEF Sees
<1>5. /\ w.op = op'[t] /\ w.label = label'[t] /\ w.at = at'[t] /\ w.named = named'[t] /\ w.live = live'[t]
      /\ w.held = v.held /\ w.seen \subseteq v.seen /\ built \cap v.seen \subseteq w.seen
  BY <1>2, <1>3, <1>4
<1>6. Goes(t, w)
  BY <1>3, <1>5, LocalStep
<1> QED
  BY <1>1, <1>6
LEMMA JumpStep ==
  ASSUME NEW views, VInv(views), NEW t \in Threads, NEW v, Sees(t, v),
         NEW l, NEW o, Goto(t, l), UNCHANGED <<op, built, lock>>,
         named' = named, live'[t] = o, OthersKeep(t)
  PROVE  Goes(t, Having(To(v, l), v.named, o))
<1>1. PICK w : w = Having(To(v, l), v.named, o)
  OBVIOUS
<1>2. w.op = v.op /\ w.label = l /\ w.at = 1 /\ w.named = v.named /\ w.live = o
      /\ w.held = v.held /\ w.seen = v.seen
  BY <1>1 DEF Having, To, Moved
<1>3. label'[t] = l /\ at'[t] = 1 /\ \A u \in Threads \ {t} : Same(u)
  BY WentTo DEF VInv, Same, OthersKeep
<1>4. v.op = op[t] /\ v.named = named[t]
  BY DEF Sees
<1>5. /\ w.op = op'[t] /\ w.label = label'[t] /\ w.at = at'[t] /\ w.named = named'[t] /\ w.live = live'[t]
      /\ w.held = v.held /\ w.seen \subseteq v.seen /\ built \cap v.seen \subseteq w.seen
  BY <1>2, <1>3, <1>4
<1>6. Goes(t, w)
  BY <1>3, <1>5, LocalStep
<1> QED
  BY <1>1, <1>6
LEMMA Itself ==
  ASSUME NEW v, NEW l
  PROVE  /\ Past(v) = Having(Past(v), v.named, v.live) /\ To(v, l) = Having(To(v, l), v.named, v.live)
BY DEF Past, To, Moved, Having

LEMMA CreateKeeps ==
  ASSUME NEW views, Obeyed(views), VInv(views), NEW t \in Threads, NEW s \in Steps(t), NEW v \in views, Sees(t, v),
         Create(t, s)
  PROVE  \E w \in Succeeded(v, s) : Goes(t, w)
<1>1. Sees(t, v)
  OBVIOUS
<1>2. Having(Past(v), v.named \cup {s.h}, v.live \cup {s.h}) \in Succeeded(v, s)
  BY <1>1 DEF Create, Created, Succeeded, Given
<1>3. named'[t] = v.named \cup {s.h} /\ live'[t] = v.live \cup {s.h} /\ OthersKeep(t)
  BY <1>1, Rewritten DEF VInv, TInv, PerThread, Create, OthersKeep, Sees
<1> QED
  BY <1>1, <1>2, <1>3, OnwardStep DEF Create
LEMMA DestroyKeeps ==
  ASSUME NEW views, Obeyed(views), VInv(views), NEW t \in Threads, NEW s \in Steps(t), NEW v \in views, Sees(t, v),
         Destroy(t, s)
  PROVE  \E w \in Succeeded(v, s) : Goes(t, w)
<1>1. Sees(t, v)
  OBVIOUS
<1>2. v.named = named[t] /\ v.live = live[t] /\ DOMAIN named = Threads /\ DOMAIN live = Threads
  BY <1>1 DEF VInv, TInv, PerThread, Sees
<1>3. Destroyed(v, s) \in Succeeded(v, s)
  BY <1>1 DEF Destroy, Succeeded, Given
<1>4. CASE s.h \in named[t]
  <2>1. PICK n : n = IF s.nulls THEN v.named \ {s.h} ELSE v.named
    OBVIOUS
  <2>2. Having(Past(v), n, Without(v.live, s.h)) \in Succeeded(v, s)
    BY <1>2, <1>3, <1>4, <2>1 DEF Destroyed
  <2>3. named' = [named EXCEPT ![t] = n] /\ live' = [live EXCEPT ![t] = Without(v.live, s.h)]
    BY <1>2, <1>4, <2>1 DEF Destroy
  <2>4. named'[t] = n /\ live'[t] = Without(v.live, s.h) /\ OthersKeep(t)
    BY <1>2, <2>3, Rewritten DEF OthersKeep
  <2> QED
    BY <1>1, <2>2, <2>4, OnwardStep DEF Destroy
<1>5. CASE s.h \notin named[t]
  <2>1. Having(Past(v), v.named, v.live) \in Succeeded(v, s)
    BY <1>2, <1>3, <1>5, Itself DEF Destroyed
  <2>2. named'[t] = v.named /\ live'[t] = v.live /\ OthersKeep(t)
    BY <1>2, <1>5 DEF Destroy, OthersKeep
  <2> QED
    BY <1>1, <2>1, <2>2, OnwardStep DEF Destroy
<1> QED
  BY <1>4, <1>5
LEMMA DoKeeps ==
  ASSUME NEW views, Obeyed(views), VInv(views), NEW t \in Threads, NEW s \in Steps(t), NEW v \in views, Sees(t, v),
         Do(t, s)
  PROVE  \E w \in Succeeded(v, s) : Goes(t, w)
<1>1. Sees(t, v)
  OBVIOUS
<1>2. Past(v) \in Succeeded(v, s)
  BY <1>1 DEF Do, Succeeded, Given, Passes
<1>3. Having(Past(v), v.named, v.live) \in Succeeded(v, s)
  BY <1>2, Itself
<1>4. named'[t] = v.named /\ live'[t] = v.live /\ OthersKeep(t)
  BY <1>1 DEF Sees, Do, OthersKeep
<1> QED
  BY <1>1, <1>3, <1>4, OnwardStep DEF Do
LEMMA EnqueueKeeps ==
  ASSUME NEW views, Obeyed(views), VInv(views), NEW t \in Threads, NEW s \in Steps(t), NEW v \in views, Sees(t, v),
         Enqueue(t, s)
  PROVE  \E w \in Succeeded(v, s) : Goes(t, w)
<1>1. Sees(t, v)
  OBVIOUS
<1>2. Having(Past(v), v.named, v.live \cup {Work}) \in Succeeded(v, s)
  BY <1>1 DEF Enqueue, Enqueued, Succeeded, Given
<1>3. named'[t] = v.named /\ live'[t] = v.live \cup {Work} /\ OthersKeep(t)
  BY <1>1, Rewritten DEF VInv, TInv, PerThread, Enqueue, OthersKeep, Sees
<1> QED
  BY <1>1, <1>2, <1>3, OnwardStep DEF Enqueue
LEMMA AwaitKeeps ==
  ASSUME NEW views, Obeyed(views), VInv(views), NEW t \in Threads, NEW s \in Steps(t), NEW v \in views, Sees(t, v),
         Await(t, s)
  PROVE  \E w \in Succeeded(v, s) : Goes(t, w)
<1>1. Sees(t, v)
  OBVIOUS
<1>2. Having(Past(v), v.named, v.live \ {Work}) \in Succeeded(v, s)
  BY <1>1 DEF Await, Awaited, Succeeded, Given
<1>3. named'[t] = v.named /\ live'[t] = v.live \ {Work} /\ OthersKeep(t)
  BY <1>1, Rewritten DEF VInv, TInv, PerThread, Await, OthersKeep, Sees
<1> QED
  BY <1>1, <1>2, <1>3, OnwardStep DEF Await
LEMMA JumpKeeps ==
  ASSUME NEW views, Obeyed(views), VInv(views), NEW t \in Threads, NEW s \in Steps(t), NEW v \in views, Sees(t, v),
         Jump(t, s)
  PROVE  \E w \in Succeeded(v, s) : Goes(t, w)
<1>1. Sees(t, v)
  OBVIOUS
<1>2. Having(To(v, s.to), v.named, v.live) \in Succeeded(v, s)
  BY <1>1, Itself DEF Jump, Succeeded, Given
<1>3. live'[t] = v.live /\ OthersKeep(t)
  BY <1>1 DEF Jump, OthersKeep, Sees
<1> QED
  BY <1>1, <1>2, <1>3, JumpStep DEF Jump
LEMMA FailKeeps ==
  ASSUME NEW views, Obeyed(views), VInv(views), NEW t \in Threads, NEW s \in Steps(t), NEW v \in views, Sees(t, v),
         Fail(t, s)
  PROVE  \E w \in Failed(v, s) : Goes(t, w)
<1>1. Sees(t, v)
  OBVIOUS
<1>2. PICK o : o = IF s.do = "wait" THEN v.live \ {Work} ELSE v.live
  OBVIOUS
<1>3. Having(To(v, s.or), v.named, o) \in Failed(v, s)
  BY <1>1, <1>2 DEF Fail, Failed, Given
<1>4. live[t] = v.live /\ DOMAIN live = Threads
  BY <1>1 DEF Sees, VInv, TInv, PerThread
<1>5. live' = [live EXCEPT ![t] = o]
  BY <1>2, <1>4 DEF Fail
<1>6. live'[t] = o /\ OthersKeep(t)
  BY <1>4, <1>5, Rewritten DEF Fail, OthersKeep
<1> QED
  BY <1>1, <1>3, <1>6, JumpStep DEF Fail

(* What a view says of a flag is so. *)
LEMMA FlagKnown ==
  ASSUME NEW t \in Threads, NEW v, Sees(t, v), NEW f \in DOMAIN Guard
  PROVE  (f \in built => MayBeSet(v, f)) /\ (f \notin built => MayBeClear(v, f))
BY DEF Sees, GuardedBy, MayBeSet, MayBeClear

LEMMA BranchKeeps ==
  ASSUME NEW views, Obeyed(views), VInv(views), NEW t \in Threads, NEW s \in Steps(t), NEW v \in views, Sees(t, v),
         Branch(t, s)
  PROVE  \E w \in Succeeded(v, s) : Goes(t, w)
<1>1. Sees(t, v) /\ ByTheRules(v, s)
  BY ViewOf
<1>2. s.flag \in DOMAIN Guard
  BY <1>1 DEF Branch, ByTheRules
<1>3. CASE s.flag \in built
  <2>1. Having(To(v, s.to), v.named, v.live) \in Succeeded(v, s)
    BY <1>1, <1>2, <1>3, FlagKnown, Itself DEF Branch, Succeeded, Given
  <2>2. live'[t] = v.live /\ OthersKeep(t)
    BY <1>1 DEF Branch, OthersKeep, Sees
  <2> QED
    BY <1>1, <1>3, <2>1, <2>2, JumpStep DEF Branch
<1>4. CASE s.flag \notin built
  <2>1. PICK w : w = Cleared(v, s.flag)
    OBVIOUS
  <2>2. w \in Succeeded(v, s)
    BY <1>1, <1>2, <1>4, <2>1, FlagKnown DEF Branch, Succeeded, Given
  <2>3. w.op = v.op /\ w.label = v.label /\ w.at = v.at + 1 /\ w.named = v.named /\ w.live = v.live
        /\ w.held = v.held /\ w.seen = v.seen \ {s.flag}
    BY <2>1 DEF Cleared, Knowing, Past, Moved
  <2>4. Onward(t) /\ op' = op /\ named' = named /\ live' = live /\ built' = built /\ lock' = lock
    BY <1>4 DEF Branch
  <2>5. label' = label /\ at'[t] = at[t] + 1 /\ \A u \in Threads \ {t} : Same(u)
    BY <2>4, OnwardTo DEF VInv, Same
  <2>6. v.op = op[t] /\ v.label = label[t] /\ v.at = at[t] /\ v.named = named[t] /\ v.live = live[t]
    BY <1>1 DEF Sees
  <2>7. /\ w.op = op'[t] /\ w.label = label'[t] /\ w.at = at'[t] /\ w.named = named'[t] /\ w.live = live'[t]
        /\ w.held = v.held /\ w.seen \subseteq v.seen /\ built \cap v.seen \subseteq w.seen
    BY <1>4, <2>3, <2>4, <2>5, <2>6
  <2> QED
    BY <1>1, <2>2, <2>4, <2>5, <2>7, LocalStep
<1> QED
  BY <1>3, <1>4

(* A step that goes on and changes locks and flags by the rules. *)
LEMMA SharedStep ==
  ASSUME NEW views, VInv(views), AtRest', NEW t \in Threads, NEW v, Sees(t, v),
         NEW w, Onward(t), op' = op, OthersKeep(t),
         w.op = v.op, w.label = v.label, w.at = v.at + 1, w.named = named'[t], w.live = live'[t],
         w.held = Held(t)', w.seen \subseteq GuardedBy(w.held),
         built' \cap GuardedBy(w.held) \subseteq w.seen, w.seen \cap Tight \subseteq built',
         \A u \in Threads \ {t} : LocksSame(u) /\ FlagsSame(u)
  PROVE  Goes(t, w)
<1>1. label' = label /\ at'[t] = at[t] + 1 /\ \A u \in Threads \ {t} : Same(u)
  BY OnwardTo DEF VInv, Same, OthersKeep
<1>2. v.op = op[t] /\ v.label = label[t] /\ v.at = at[t]
  BY DEF Sees
<1>3. Sees(t, w)'
  BY <1>1, <1>2 DEF Sees
<1> QED
  BY <1>1, <1>3 DEF Goes

LEMMA KeepKeeps ==
  ASSUME NEW views, Obeyed(views), VInv(views), NEW t \in Threads, NEW s \in Steps(t), NEW v \in views, Sees(t, v),
         Keep(t, s)
  PROVE  \E w \in Succeeded(v, s) : Goes(t, w)
<1>1. Sees(t, v) /\ ByTheRules(v, s)
  BY ViewOf
<1>2. PICK w : w = Kept(v, s)
  OBVIOUS
<1>3. w \in Succeeded(v, s)
  BY <1>1, <1>2 DEF Keep, Succeeded, Given
<1>4. w.op = v.op /\ w.label = v.label /\ w.at = v.at + 1 /\ w.named = v.named \ s.objects
      /\ w.live = v.live \ s.objects /\ w.held = v.held /\ w.seen = v.seen \cup s.flags
  BY <1>2 DEF Kept, Knowing, Having, Past, Moved
<1>5. named'[t] = v.named \ s.objects /\ live'[t] = v.live \ s.objects /\ OthersKeep(t)
  BY <1>1, Rewritten DEF VInv, TInv, PerThread, Keep, OthersKeep, Sees
<1>6. v.held = Held(t) /\ Held(t)' = Held(t) /\ s.flags \subseteq GuardedBy(Held(t))
  BY <1>1 DEF Keep, Held, Sees, ByTheRules
<1>7. built' = built \cup s.flags /\ lock' = lock /\ op' = op /\ Onward(t)
  BY DEF Keep
<1>8. AtRest'
  <2>1. ASSUME NEW m \in Locks, lock[m] = NoThread
        PROVE  built' \cap Tight \cap Guarded(m) = built \cap Tight \cap Guarded(m)
    BY <1>6, <1>7, <2>1, NotFree
  <2> QED
    BY <1>7, <2>1 DEF VInv, AtRest
<1>9. ASSUME NEW u \in Threads \ {t} PROVE LocksSame(u) /\ FlagsSame(u)
  <2>1. \A f \in s.flags : f \notin GuardedBy(Held(u))
    BY <1>6, Apart
  <2> QED
    BY <1>7, <2>1 DEF LocksSame, FlagsSame
<1>10. w.held = Held(t)' /\ w.seen \subseteq GuardedBy(w.held)
       /\ built' \cap GuardedBy(w.held) \subseteq w.seen /\ w.seen \cap Tight \subseteq built'
  BY <1>1, <1>4, <1>6, <1>7 DEF Sees
<1> QED
  BY <1>1, <1>3, <1>4, <1>5, <1>7, <1>8, <1>9, <1>10, SharedStep

LEMMA AdoptKeeps ==
  ASSUME NEW views, Obeyed(views), VInv(views), NEW t \in Threads, NEW s \in Steps(t), NEW v \in views, Sees(t, v),
         Adopt(t, s)
  PROVE  \E w \in Succeeded(v, s) : Goes(t, w)
<1>1. Sees(t, v) /\ ByTheRules(v, s)
  BY ViewOf
<1>2. s.flag \in DOMAIN Guard /\ (s.flag \in Tight => s.flag \in GuardedBy(Held(t)))
  BY <1>1 DEF Adopt, ByTheRules, Sees, GuardedBy
<1>3. built' = built \ {s.flag} /\ lock' = lock /\ op' = op /\ Onward(t)
  BY DEF Adopt
<1>4. v.held = Held(t) /\ Held(t)' = Held(t)
  BY <1>1, <1>3 DEF Held, Sees
<1>5. AtRest'
  <2>1. ASSUME NEW m \in Locks, lock[m] = NoThread
        PROVE  built' \cap Tight \cap Guarded(m) = built \cap Tight \cap Guarded(m)
    BY <1>2, <1>3, <2>1, NotFree
  <2> QED
    BY <1>3, <2>1 DEF VInv, AtRest
<1>6. ASSUME NEW u \in Threads \ {t} PROVE LocksSame(u) /\ FlagsSame(u)
  <2>1. s.flag \in Tight => s.flag \notin GuardedBy(Held(u))
    BY <1>2, Apart
  <2> QED
    BY <1>3, <2>1 DEF LocksSame, FlagsSame
<1>7. v.named = named[t] /\ v.live = live[t] /\ DOMAIN named = Threads /\ DOMAIN live = Threads
  BY <1>1 DEF VInv, TInv, PerThread, Sees
<1>8. PICK mine : mine = IF s.flag \in built THEN s.objects ELSE {}
  OBVIOUS
<1>9. live' = [live EXCEPT ![t] = v.live \cup mine] /\ named' = [named EXCEPT ![t] = v.named \cup mine]
  BY <1>7, <1>8 DEF Adopt
<1>10. live'[t] = v.live \cup mine /\ named'[t] = v.named \cup mine /\ OthersKeep(t)
  BY <1>7, <1>9, Rewritten DEF OthersKeep
<1>11. PICK w : w = IF s.flag \in built THEN TakenOver(v, s) ELSE Cleared(v, s.flag)
  OBVIOUS
<1>12. w \in Succeeded(v, s)
  BY <1>1, <1>2, <1>11, FlagKnown DEF Adopt, Succeeded, Given
<1>13. w.op = v.op /\ w.label = v.label /\ w.at = v.at + 1 /\ w.named = v.named \cup mine
       /\ w.live = v.live \cup mine /\ w.held = v.held /\ w.seen = v.seen \ {s.flag}
  <2>1. CASE s.flag \in built
    BY <1>8, <1>11, <2>1 DEF TakenOver, Cleared, Knowing, Having, Past, Moved
  <2>2. CASE s.flag \notin built
    <3>1. w = Cleared(v, s.flag) /\ mine = {}
      BY <1>8, <1>11, <2>2
    <3>2. w.named = v.named /\ w.live = v.live
      BY <3>1 DEF Cleared, Knowing, Past, Moved
    <3>3. w.named = v.named \cup mine /\ w.live = v.live \cup mine
      BY <3>1, <3>2
    <3> QED
      BY <3>1, <3>3 DEF Cleared, Knowing, Past, Moved
  <2> QED
    BY <2>1, <2>2
<1>14. w.held = Held(t)' /\ w.seen \subseteq GuardedBy(w.held)
       /\ built' \cap GuardedBy(w.held) \subseteq w.seen /\ w.seen \cap Tight \subseteq built'
  BY <1>1, <1>3, <1>4, <1>13 DEF Sees
<1> QED
  BY <1>1, <1>3, <1>5, <1>6, <1>10, <1>12, <1>13, <1>14, SharedStep

LEMMA AcquireKeeps ==
  ASSUME NEW views, Obeyed(views), VInv(views), NEW t \in Threads, NEW s \in Steps(t), NEW v \in views, Sees(t, v),
         Acquire(t, s)
  PROVE  \E w \in Succeeded(v, s) : Goes(t, w)
<1>1. Sees(t, v) /\ ByTheRules(v, s)
  BY ViewOf
<1>2. s.m \in Locks /\ lock[s.m] = NoThread /\ lock \in [Locks -> Threads \cup {NoThread}]
  BY <1>1 DEF Acquire, ByTheRules, Obeyed, VInv, TInv, TypeOK
<1>3. lock'[s.m] = t /\ (\A m \in Locks \ {s.m} : lock'[m] = lock[m]) /\ built' = built /\ op' = op
      /\ named' = named /\ live' = live /\ Onward(t)
  BY <1>2 DEF Acquire
<1>4. PICK r : r = built \cap Tight \cap Guarded(s.m)
  OBVIOUS
<1>5. r \in Rest[s.m]
  BY <1>2, <1>4 DEF VInv, AtRest
<1>6. PICK w : w = Knowing(Past(v), v.held \cup {s.m}, v.seen \cup r \cup (Guarded(s.m) \ Tight))
  OBVIOUS
<1>7. w \in Succeeded(v, s)
  BY <1>1, <1>5, <1>6 DEF Acquire, Locked, Succeeded, Given
<1>8. w.op = v.op /\ w.label = v.label /\ w.at = v.at + 1 /\ w.named = v.named
      /\ w.live = v.live /\ w.held = v.held \cup {s.m} /\ w.seen = v.seen \cup r \cup (Guarded(s.m) \ Tight)
  BY <1>6 DEF Knowing, Past, Moved
<1>9. Held(t)' = Held(t) \cup {s.m}
  BY <1>2, <1>3 DEF Held
<1>10. AtRest'
  BY <1>3, ScriptAssumption DEF VInv, AtRest
<1>11. ASSUME NEW u \in Threads \ {t} PROVE LocksSame(u) /\ FlagsSame(u)
  BY <1>2, <1>3, ScriptAssumption DEF LocksSame, FlagsSame
<1>12. w.held = Held(t)'
  BY <1>1, <1>8, <1>9 DEF Sees
<1>13. w.seen \subseteq GuardedBy(w.held)
  BY <1>1, <1>4, <1>8 DEF Sees, GuardedBy, Guarded
<1>14. built' \cap GuardedBy(w.held) \subseteq w.seen /\ w.seen \cap Tight \subseteq built'
  BY <1>1, <1>3, <1>4, <1>8 DEF Sees, GuardedBy, Guarded
<1>15. w.named = named'[t] /\ w.live = live'[t] /\ OthersKeep(t)
  BY <1>1, <1>3, <1>8 DEF Sees, OthersKeep
<1>16. w.op = v.op /\ w.label = v.label /\ w.at = v.at + 1
  BY <1>8
<1>17. Sees(t, v) /\ Onward(t) /\ op' = op
  BY <1>1, <1>3
<1> QED
  BY <1>7, <1>10, <1>11, <1>12, <1>13, <1>14, <1>15, <1>16, <1>17, SharedStep

LEMMA ReleaseKeeps ==
  ASSUME NEW views, Obeyed(views), VInv(views), NEW t \in Threads, NEW s \in Steps(t), NEW v \in views, Sees(t, v),
         Release(t, s)
  PROVE  \E w \in Succeeded(v, s) : Goes(t, w)
<1>1. Sees(t, v) /\ ByTheRules(v, s)
  BY ViewOf
<1>2. s.m \in v.held /\ v.seen \cap Tight \cap Guarded(s.m) \in Rest[s.m] /\ v.held = Held(t)
  BY <1>1 DEF Release, ByTheRules, Sees
<1>3. s.m \in Locks /\ lock[s.m] = t /\ lock \in [Locks -> Threads \cup {NoThread}]
  BY <1>2 DEF Held, VInv, TInv, TypeOK
<1>4. lock'[s.m] = NoThread /\ (\A m \in Locks \ {s.m} : lock'[m] = lock[m]) /\ built' = built /\ op' = op
      /\ named' = named /\ live' = live /\ Onward(t)
  BY <1>3 DEF Release
<1>5. PICK w : w = Unlocked(v, s)
  OBVIOUS
<1>6. w \in Succeeded(v, s)
  BY <1>1, <1>5 DEF Release, Succeeded, Given
<1>7. w.op = v.op /\ w.label = v.label /\ w.at = v.at + 1 /\ w.named = v.named
      /\ w.live = v.live /\ w.held = v.held \ {s.m} /\ w.seen = v.seen \ Guarded(s.m)
  BY <1>5 DEF Unlocked, Knowing, Past, Moved
<1>8. Held(t)' = Held(t) \ {s.m}
  BY <1>3, <1>4, ScriptAssumption DEF Held
<1>9. AtRest'
  <2>1. built \cap Tight \cap Guarded(s.m) = v.seen \cap Tight \cap Guarded(s.m)
    BY <1>1, <1>2 DEF Sees, GuardedBy, Guarded
  <2>2. built \cap Tight \cap Guarded(s.m) \in Rest[s.m]
    BY <1>2, <2>1
  <2> QED
    BY <1>4, <2>2 DEF VInv, AtRest
<1>10. ASSUME NEW u \in Threads \ {t} PROVE LocksSame(u) /\ FlagsSame(u)
  BY <1>3, <1>4, ScriptAssumption DEF LocksSame, FlagsSame
<1>11. w.held = Held(t)'
  BY <1>2, <1>7, <1>8
<1>12. w.seen \subseteq GuardedBy(w.held) /\ built' \cap GuardedBy(w.held) \subseteq w.seen
       /\ w.seen \cap Tight \subseteq built'
  BY <1>1, <1>4, <1>7 DEF Sees, GuardedBy, Guarded
<1>13. w.named = named'[t] /\ w.live = live'[t] /\ OthersKeep(t)
  BY <1>1, <1>4, <1>7 DEF Sees, OthersKeep
<1> QED
  BY <1>1, <1>4, <1>6, <1>7, <1>9, <1>10, <1>11, <1>12, <1>13, SharedStep

(* A call that returns leaves an idle thread, and one that begins its first view. *)
Rests(t) == 
  /\ ~Running(t)' /\ Idle(t)' /\ AtRest'
  /\ \A u \in Threads \ {t} : Same(u) /\ LocksSame(u) /\ FlagsSame(u)
LEMMA ReturnKeeps ==
  ASSUME NEW views, Obeyed(views), VInv(views), NEW t \in Threads, NEW s \in Steps(t), Return(t, s)
  PROVE  Rests(t)
<1>1. PICK v \in views : Sees(t, v)
  BY HasView
<1>2. live[t] = {} /\ Held(t) = {}
  <2>1. ByTheRules(v, s)
    BY <1>1, ViewOf
  <2> QED
    BY <1>1, <2>1 DEF Sees, ByTheRules, Return
<1>3. label'[t] = "idle" /\ \A u \in Threads \ {t} : label'[u] = label[u] /\ at'[u] = at[u]
  BY WentTo DEF VInv, Return
<1>4. named'[t] = {} /\ \A u \in Threads \ {t} : named'[u] = named[u]
  BY Rewritten DEF VInv, TInv, PerThread, Return
<1>5. op' = op /\ live' = live /\ built' = built /\ lock' = lock
  BY DEF Return
<1>6. AtRest'
  BY <1>5 DEF VInv, AtRest
<1>7. Held(t)' = Held(t)
  BY <1>5 DEF Held
<1>8. Idle(t)' /\ ~Running(t)'
  BY <1>2, <1>3, <1>4, <1>5, <1>7 DEF Idle, Running
<1>9. ASSUME NEW u \in Threads \ {t} PROVE Same(u) /\ LocksSame(u) /\ FlagsSame(u)
  BY <1>3, <1>4, <1>5 DEF Same, LocksSame, FlagsSame
<1> QED
  BY <1>6, <1>8, <1>9 DEF Rests
LEMMA BeginKeeps ==
  ASSUME NEW views, Obeyed(views), VInv(views), NEW t \in Threads, NEW o \in Ops, Begin(t, o)
  PROVE  Goes(t, Entry(o))
<1>1. Idle(t)
  BY DEF VInv, Followed, Begin
<1>2. PICK w : w = Entry(o)
  OBVIOUS
<1>4. w.op = o /\ w.label = "entry" /\ w.at = 1 /\ w.named = {} /\ w.live = {} /\ w.held = {} /\ w.seen = {}
  BY <1>2 DEF Entry
<1>5. op'[t] = o /\ \A u \in Threads \ {t} : op'[u] = op[u]
  BY DEF VInv, TInv, TypeOK, Begin
<1>6. label'[t] = "entry" /\ at'[t] = 1 /\ \A u \in Threads \ {t} : label'[u] = label[u] /\ at'[u] = at[u]
  BY WentTo DEF VInv, Begin
<1>7. named' = named /\ live' = live /\ built' = built /\ lock' = lock
  BY DEF Begin
<1>8. AtRest'
  BY <1>7 DEF VInv, AtRest
<1>9. ASSUME NEW u \in Threads \ {t} PROVE Same(u) /\ LocksSame(u) /\ FlagsSame(u)
  BY <1>5, <1>6, <1>7 DEF Same, LocksSame, FlagsSame
<1>10. Held(t)' = {}
  BY <1>1, <1>7 DEF Held, Idle
<1>11. Sees(t, w)'
  BY <1>1, <1>4, <1>5, <1>6, <1>7, <1>10 DEF Sees, GuardedBy, Idle
<1> QED
  BY <1>2, <1>8, <1>9, <1>11 DEF Goes

(* Every step of a call leads from a view of its thread to a view. *)
LEMMA Succeeds ==
  ASSUME NEW views, Obeyed(views), VInv(views), NEW t \in Threads, NEW s \in Steps(t), NEW v \in views, Sees(t, v),
         Acquire(t, s) \/ Advance(t, s), ~Return(t, s)
  PROVE  \E w \in Succeeded(v, s) : Goes(t, w)
BY AcquireKeeps, ReleaseKeeps, CreateKeeps, DestroyKeeps, KeepKeeps, AdoptKeeps, DoKeeps,
   EnqueueKeeps, AwaitKeeps, JumpKeeps, BranchKeeps DEF Advance

LEMMA VStep == ASSUME NEW views, Obeyed(views) PROVE VInv(views) /\ [Next]_vars => VInv(views)'
<1> SUFFICES ASSUME VInv(views), [Next]_vars PROVE VInv(views)'
  OBVIOUS
<1>1. TInv'
  BY TStep DEF VInv
<1>2. CASE UNCHANGED vars
  <2>1. AtRest'
    BY <1>2 DEF VInv, AtRest, vars
  <2>2. ASSUME NEW u \in Threads
        PROVE  (IF Running(u) THEN \E w \in views : Sees(u, w) ELSE Idle(u))'
    <3>1. Same(u) /\ LocksSame(u) /\ FlagsSame(u)
      BY <1>2 DEF vars, Same, LocksSame, FlagsSame
    <3> QED
      BY <3>1, OthersSee DEF VInv
  <2> QED
    BY <1>1, <2>1, <2>2 DEF VInv, Followed
<1>3. ASSUME NEW t \in Threads, NEW o \in Ops, Begin(t, o) PROVE VInv(views)'
  <2>1. Entry(o) \in views
    BY DEF Obeyed, Disciplined
  <2>2. Goes(t, Entry(o))
    BY <1>3, BeginKeeps
  <2> QED
    BY <1>1, <2>1, <2>2, Gone
<1>4. ASSUME NEW t \in Threads, NEW s \in Steps(t), Acquire(t, s) \/ Advance(t, s) \/ Fail(t, s)
      PROVE  VInv(views)'
  <2>1. PICK v \in views : Sees(t, v)
    BY HasView
  <2>2. Succeeded(v, s) \subseteq views /\ Failed(v, s) \subseteq views
    BY <2>1, ViewOf
  <2>3. CASE Return(t, s)
    <3>1. Rests(t)
      BY <2>3, ReturnKeeps
    <3>2. ASSUME NEW u \in Threads
          PROVE  (IF Running(u) THEN \E w \in views : Sees(u, w) ELSE Idle(u))'
      BY <3>1, OthersSee DEF VInv, Rests
    <3> QED
      BY <1>1, <3>1, <3>2 DEF VInv, Followed, Rests
  <2>4. CASE Fail(t, s)
    <3>1. PICK w \in Failed(v, s) : Goes(t, w)
      BY <2>1, <2>4, FailKeeps
    <3> QED
      BY <1>1, <2>2, <3>1, Gone
  <2>5. CASE (Acquire(t, s) \/ Advance(t, s)) /\ ~Return(t, s)
    <3>1. PICK w \in Succeeded(v, s) : Goes(t, w)
      BY <2>1, <2>5, Succeeds
    <3> QED
      BY <1>1, <2>2, <3>1, Gone
  <2> QED
    BY <1>4, <2>3, <2>4, <2>5
<1> QED
  BY <1>2, <1>3, <1>4 DEF Next

(* A running thread is at one of the views, an idle one has no handle, no object *)
(* and no lock, and what a free lock guards is at rest.                          *)
THEOREM ViewsCorrect == ASSUME NEW views, Obeyed(views) PROVE Spec => [](Followed(views) /\ AtRest)
<1>1. Init => VInv(views)
  BY VInit
<1>2. VInv(views) /\ [Next]_vars => VInv(views)'
  BY VStep
<1>3. VInv(views) => Followed(views) /\ AtRest
  BY DEF VInv
<1> QED
  BY <1>1, <1>2, <1>3, PTL DEF Spec

(* Whatever step of it fails, a call that is over has given back every object it *)
(* acquired and every lock: its exits free all that is not null.                 *)
THEOREM NothingLeft == ASSUME NEW views, Obeyed(views) PROVE Spec => []NothingLeaks
<1>1. Followed(views) /\ AtRest => NothingLeaks
  BY DEF Followed, Idle, NothingLeaks, Held
<1> QED
  BY <1>1, ViewsCorrect, PTL

(* No vkDestroy, vkFree, vkUnmap or free of a call is handed an object that is *)
(* gone already, but for the handles that Twice excuses at a label of a call.  *)
THEOREM FreedOnce == ASSUME NEW views, Obeyed(views), Frugal(views) PROVE Spec => []NothingFreedTwice
<1>1. ASSUME VInv(views) PROVE NothingFreedTwice
  <2>1. ASSUME NEW t \in Threads, NEW s \in Destroys(t)
        PROVE  s.h \in live[t] \/ <<op[t], label[t], s.h>> \in Twice
    <3>1. s \in Steps(t) /\ s.do = "free" /\ s.h \in named[t]
      BY DEF Destroys
    <3>2. PICK v \in views : Sees(t, v) /\ s = StepOf(v)
      BY <1>1, <3>1, HasView, ViewOf
    <3> QED
      BY <3>1, <3>2 DEF Sees, Frugal, Destroying
  <2> QED
    BY <2>1 DEF NothingFreedTwice
<1>2. Spec => []VInv(views)
  BY VInit, VStep, PTL DEF Spec
<1> QED
  BY <1>1, <1>2, PTL

(* No thread destroys an object of the device while the device may still run *)
(* what that thread submitted.                                               *)
THEOREM DoneWith ==
  ASSUME NEW views, Obeyed(views), Frugal(views)
  PROVE  Spec => [](\A t \in Threads : \A s \in Destroys(t) : OnHost(s.h) \/ ~Busy(t))
<1>1. ASSUME VInv(views) PROVE \A t \in Threads : \A s \in Destroys(t) : OnHost(s.h) \/ ~Busy(t)
  <2>1. ASSUME NEW t \in Threads, NEW s \in Destroys(t) PROVE OnHost(s.h) \/ ~Busy(t)
    <3>1. s \in Steps(t) /\ s.do = "free" /\ s.h \in named[t]
      BY DEF Destroys
    <3>2. PICK v \in views : Sees(t, v) /\ s = StepOf(v)
      BY <1>1, <3>1, HasView, ViewOf
    <3> QED
      BY <3>1, <3>2 DEF Sees, Frugal, Destroying, Busy
  <2> QED
    BY <2>1
<1>2. Spec => []VInv(views)
  BY VInit, VStep, PTL DEF Spec
<1> QED
  BY <1>1, <1>2, PTL

(* Of the calls that wait for what they submit one at a time has work on the  *)
(* device, whatever is cached is built once, and locks are given back by their *)
(* owners.                                                                     *)
THEOREM OneCaller ==
  ASSUME NEW views, Obeyed(views), Exclusive(views, Serial)
  PROVE  Spec => []OneAtATime
<1>1. ASSUME VInv(views) PROVE OneAtATime
  <2>1. PICK m \in DOMAIN Rest : \A v \in views : v.op \in Serial /\ Work \in v.live => m \in v.held
    BY DEF Exclusive
  <2>2. ASSUME NEW t \in Threads, Busy(t), op[t] \in Serial PROVE lock[m] = t
    <3>1. Running(t)
      BY <1>1, <2>2 DEF VInv, Followed, Idle, Busy
    <3>2. PICK v \in views : Sees(t, v)
      BY <1>1, <3>1 DEF VInv, Followed
    <3> QED
      BY <2>1, <2>2, <3>2 DEF Sees, Busy, Held
  <2>3. ASSUME NEW t \in Threads, NEW s \in Steps(t)
        PROVE  /\ s.do = "keep" /\ s.objects # {} => s.flags \cap built = {}
               /\ s.do = "unlock" => lock[s.m] = t
    <3>1. PICK v \in views : Sees(t, v) /\ s = StepOf(v) /\ ByTheRules(v, s)
      BY <1>1, HasView, ViewOf
    <3>2. s.do = "unlock" => lock[s.m] = t
      BY <3>1 DEF ByTheRules, Sees, Held
    <3>3. s.do = "keep" /\ s.objects # {} => s.flags \cap v.seen = {} /\ s.flags \subseteq GuardedBy(v.held)
      BY <3>1 DEF Exclusive, ByTheRules
    <3> QED
      BY <3>1, <3>2, <3>3 DEF Sees
  <2> QED
    BY <2>2, <2>3 DEF OneAtATime
<1>2. Spec => []VInv(views)
  BY VInit, VStep, PTL DEF Spec
<1> QED
  BY <1>1, <1>2, PTL

(* The device is destroyed when nothing of it is left: no object of any thread, *)
(* no cached pipeline, no job; and no object while the device may still use it. *)
THEOREM FreedWhenDone ==
  ASSUME NEW views, Obeyed(views), Frugal(views), DeviceLast(views, Owners)
  PROVE  Spec => []NothingFreedInUse
<1>1. ASSUME VInv(views) PROVE NothingFreedInUse
  <2>1. PICK m \in DOMAIN Rest :
          /\ Owners \subseteq Guarded(m)
          /\ \A v \in views : (\E h \in v.live : ~OnHost(h)) => m \in v.held
          /\ \A v \in views : Destroying(v, StepOf(v)) /\ StepOf(v).h[1] = "dev" =>
               m \in v.held /\ v.seen \cap Owners = {} /\ \A h \in v.live : OnHost(h) \/ h[1] \in {"dev", "inst"}
    BY DEF DeviceLast
  <2>2. ASSUME NEW u \in Threads, NEW h \in live[u], ~OnHost(h) PROVE lock[m] = u
    <3>1. Running(u)
      BY <1>1, <2>2 DEF VInv, Followed, Idle
    <3>2. PICK v \in views : Sees(u, v)
      BY <1>1, <3>1 DEF VInv, Followed
    <3>3. m \in v.held
      BY <2>1, <2>2, <3>2 DEF Sees
    <3> QED
      BY <3>2, <3>3 DEF Sees, Held
  <2>3. ASSUME NEW t \in Threads, NEW s \in Destroys(t)
        PROVE  /\ OnHost(s.h) \/ ~Busy(t)
               /\ s.h[1] = "dev" =>
                    /\ \A u \in Threads : \A h \in live[u] : OnHost(h) \/ (u = t /\ h[1] \in {"dev", "inst"})
                    /\ built \cap Owners = {}
    <3>1. s \in Steps(t) /\ s.do = "free" /\ s.h \in named[t]
      BY DEF Destroys
    <3>2. PICK v \in views : Sees(t, v) /\ s = StepOf(v)
      BY <1>1, <3>1, HasView, ViewOf
    <3>3. Destroying(v, s)
      BY <3>1, <3>2 DEF Sees, Destroying
    <3>4. OnHost(s.h) \/ ~Busy(t)
      BY <3>2, <3>3 DEF Sees, Frugal, Busy
    <3>5. ASSUME s.h[1] = "dev"
          PROVE  /\ \A u \in Threads : \A h \in live[u] : OnHost(h) \/ (u = t /\ h[1] \in {"dev", "inst"})
                 /\ built \cap Owners = {}
      <4>1. m \in v.held /\ v.seen \cap Owners = {} /\ \A h \in v.live : OnHost(h) \/ h[1] \in {"dev", "inst"}
        BY <2>1, <3>2, <3>3, <3>5
      <4>2. lock[m] = t /\ v.live = live[t]
        BY <3>2, <4>1 DEF Sees, Held
      <4>3. built \cap Owners = {}
        BY <2>1, <3>2, <4>1 DEF Sees, Guarded, GuardedBy
      <4> QED
        BY <2>2, <4>1, <4>2, <4>3
    <3> QED
      BY <3>4, <3>5
  <2> QED
    BY <2>3 DEF NothingFreedInUse
<1>2. Spec => []VInv(views)
  BY VInit, VStep, PTL DEF Spec
<1> QED
  BY <1>1, <1>2, PTL
-----------------------------------------------------------------------------
(* The buffers, as the owner of the key knows them. *)
MemoryTyped == view = [b \in Buffers |-> view[b]]
Knows(t, p, key) == Sees(t, p.v) /\ p.mem = IF key \in p.v.held THEN view ELSE Blank
PInv(pictures, key) ==
  /\ VInv({p.v : p \in pictures}) /\ MemoryTyped
  /\ \A t \in Threads : Running(t) => \E p \in pictures : Knows(t, p, key)
  /\ lock[key] = NoThread => view = Blank
PObeyed(pictures, key) ==
  Obeyed({p.v : p \in pictures}) /\ key \in Locks /\ Pictured(Ops, Observed, key, pictures)

LEMMA NotRecorded == ASSUME NEW mem, NEW s, s.do \in {"when", "can", "hostread"} PROVE Recorded(mem, s) = mem
BY Zenon DEF Recorded
LEMMA RecordedIs ==
  ASSUME NEW mem, NEW s, s.do \in {"cmd", "barrier", "hostwrite"}, DOMAIN mem = Buffers
  PROVE  Recorded(mem, s) = [b \in Buffers |-> Recorded(mem, s)[b]]
<1>1. CASE s.do = "cmd"
  BY <1>1, Zenon DEF Recorded
<1>2. CASE s.do = "barrier"
  BY <1>2, Zenon DEF Recorded
<1>3. CASE s.do = "hostwrite"
  BY <1>3, Zenon DEF Recorded
<1> QED
  BY <1>1, <1>2, <1>3
LEMMA Untouched ==
  ASSUME NEW v, NEW s, NEW mem, mem = [b \in Buffers |-> mem[b]], ~Touches(v, s)
  PROVE  Effect(v, s, mem) = mem
<1>1. CASE Destroying(v, s)
  <2>1. \A b \in Buffers : s.h \notin {<<"buf", b>>, <<"mem", b>>}
    BY <1>1 DEF Touches
  <2>2. [b \in Buffers |-> IF s.h \in {<<"buf", b>>, <<"mem", b>>} THEN Fresh ELSE mem[b]] = [b \in Buffers |-> mem[b]]
    BY <2>1
  <2> QED
    BY <1>1, <2>2 DEF Effect
<1>2. CASE ~Destroying(v, s) /\ s.do \in Passes
  <2>1. Recorded(mem, s) = mem
    BY <1>2, NotRecorded DEF Touches, Passes
  <2> QED
    BY <1>2, <2>1 DEF Effect, Passes
<1> QED
  BY <1>1, <1>2 DEF Effect, Touches

(* What a step does to the buffers is its effect. *)
LEMMA EffectIs ==
  ASSUME NEW t \in Threads, NEW s, NEW v, Sees(t, v), Acquire(t, s) \/ Advance(t, s), s.do # "return"
  PROVE  view' = Effect(v, s, view)
<1>1. v.named = named[t]
  BY DEF Sees
<1>2. CASE Destroy(t, s)
  BY <1>1, <1>2 DEF Destroy, Effect, Destroying, Passes
<1>3. CASE Await(t, s)
  BY <1>3 DEF Await, Effect, Destroying
<1>4. CASE Do(t, s)
  BY <1>4 DEF Do, Effect, Destroying, Passes
<1>5. CASE s.do \in {"lock", "unlock", "new", "keep", "adopt", "submit", "goto", "if"} /\ view' = view
  BY <1>5 DEF Effect, Destroying, Passes
<1>6. CASE Acquire(t, s) \/ Release(t, s) \/ Create(t, s) \/ Keep(t, s) \/ Adopt(t, s)
  BY <1>5, <1>6 DEF Acquire, Release, Create, Keep, Adopt
<1>7. CASE Enqueue(t, s) \/ Jump(t, s) \/ Branch(t, s)
  BY <1>5, <1>7 DEF Enqueue, Jump, Branch
<1> QED
  BY <1>2, <1>3, <1>4, <1>6, <1>7 DEF Advance, Return
LEMMA FailsQuietly ==
  ASSUME NEW t \in Threads, NEW s, Fail(t, s) \/ Return(t, s)
  PROVE  view' = view /\ lock' = lock
BY DEF Fail, Return
LEMMA EffectTyped ==
  ASSUME NEW v, NEW s, NEW mem, mem = [b \in Buffers |-> mem[b]]
  PROVE  Effect(v, s, mem) = [b \in Buffers |-> Effect(v, s, mem)[b]]
<1>1. CASE ~Touches(v, s)
  BY <1>1, Untouched
<1>2. CASE Destroying(v, s)
  BY <1>2 DEF Effect
<1>3. CASE s.do = "wait"
  BY <1>3 DEF Effect, Destroying
<1>4. CASE s.do \in {"cmd", "barrier", "hostwrite"}
  <2>1. DOMAIN mem = Buffers
    OBVIOUS
  <2>2. Effect(v, s, mem) = Recorded(mem, s)
    BY <1>4 DEF Effect, Destroying, Passes
  <2> QED
    BY <1>4, <2>1, <2>2, RecordedIs
<1> QED
  BY <1>1, <1>2, <1>3, <1>4 DEF Touches

(* Nobody touches the buffers while another thread has the key, or nobody has. *)
LEMMA KeyGuards ==
  ASSUME NEW pictures, NEW key, PObeyed(pictures, key), PInv(pictures, key),
         NEW t \in Threads, NEW s \in Steps(t), NEW p \in pictures, Knows(t, p, key),
         Acquire(t, s) \/ Advance(t, s) \/ Fail(t, s), lock[key] # t
  PROVE  view' = view /\ (s.do # "return" => Effect(p.v, s, p.mem) = p.mem)
<1>1. Sees(t, p.v) /\ p.v \in {q.v : q \in pictures} /\ VInv({q.v : q \in pictures}) /\ Obeyed({q.v : q \in pictures})
  BY DEF Knows, PInv, PObeyed
<1>2. s = StepOf(p.v)
  BY <1>1, ViewOf
<1>3. key \notin p.v.held
  BY <1>1 DEF Sees, Held
<1>4. ~Touches(p.v, s) /\ p.mem = [b \in Buffers |-> p.mem[b]]
  BY <1>2, <1>3 DEF PObeyed, Pictured
<1>5. Effect(p.v, s, p.mem) = p.mem
  BY <1>4, Untouched
<1>6. view = [b \in Buffers |-> view[b]]
  BY DEF PInv, MemoryTyped
<1>7. Effect(p.v, s, view) = view
  BY <1>4, <1>6, Untouched
<1>8. CASE Fail(t, s) \/ Return(t, s)
  BY <1>5, <1>8, FailsQuietly
<1>9. CASE (Acquire(t, s) \/ Advance(t, s)) /\ s.do # "return"
  <2>1. view' = Effect(p.v, s, view)
    BY <1>1, <1>9, EffectIs
  <2> QED
    BY <1>5, <1>7, <2>1
<1> QED
  BY <1>8, <1>9 DEF Advance, Acquire, Release, Create, Destroy, Keep, Adopt, Do, Enqueue, Await, Jump, Branch, Return

(* The key changes hands by its lock and unlock steps only. *)
LEMMA KeyMoves ==
  ASSUME TInv, NEW t \in Threads, NEW s, Acquire(t, s) \/ Advance(t, s) \/ Fail(t, s), NEW m \in Locks
  PROVE  /\ lock[m] = t /\ lock'[m] # t => s.do = "unlock" /\ s.m = m /\ view' = view
         /\ lock[m] # t /\ lock'[m] = t => s.do = "lock" /\ lock[m] = NoThread /\ view' = view
<1>1. lock \in [Locks -> Threads \cup {NoThread}]
  BY DEF TInv, TypeOK
<1>2. CASE Acquire(t, s)
  <2>1. lock' = [lock EXCEPT ![s.m] = t] /\ lock[s.m] = NoThread /\ s.do = "lock" /\ view' = view
    BY <1>2 DEF Acquire
  <2>2. m = s.m \/ lock'[m] = lock[m]
    BY <1>1, <2>1
  <2>3. m = s.m => lock'[m] = t
    BY <1>1, <2>1
  <2> QED
    BY <2>1, <2>2, <2>3
<1>3. CASE Release(t, s)
  <2>1. lock' = [lock EXCEPT ![s.m] = NoThread] /\ s.do = "unlock" /\ view' = view
    BY <1>3 DEF Release
  <2>2. m = s.m \/ lock'[m] = lock[m]
    BY <1>1, <2>1
  <2>3. m = s.m => lock'[m] = NoThread
    BY <1>1, <2>1
  <2> QED
    BY <2>1, <2>2, <2>3, ScriptAssumption
<1>4. CASE lock' = lock
  BY <1>4
<1> QED
  BY <1>2, <1>3, <1>4 DEF Advance, Create, Destroy, Keep, Adopt, Do, Enqueue, Await, Jump, Branch, Return, Fail

(* What the stepping thread knows of the buffers afterwards. *)
LEMMA MyPicture ==
  ASSUME NEW pictures, NEW key, PObeyed(pictures, key), PInv(pictures, key),
         NEW t \in Threads, NEW s \in Steps(t), NEW p \in pictures, Knows(t, p, key),
         Acquire(t, s) \/ Advance(t, s), ~Return(t, s), NEW w, Goes(t, w)
  PROVE  Knows(t, Picture(w, Effect(p.v, s, p.mem)), key)'
<1>1. TInv /\ Sees(t, p.v) /\ key \in Locks /\ Sees(t, w)'
  BY DEF Knows, PInv, VInv, PObeyed, Goes
<1>2. PICK q : q = Picture(w, Effect(p.v, s, p.mem))
  OBVIOUS
<1>3. q.v = w /\ q.mem = Effect(p.v, s, p.mem)
  BY <1>2 DEF Picture
<1>4. /\ key \in p.v.held <=> lock[key] = t
      /\ key \in w.held <=> lock'[key] = t
  BY <1>1 DEF Sees, Held
<1>5. ASSUME lock[key] = t PROVE Knows(t, q, key)'
  <2>1. p.mem = view
    BY <1>4, <1>5 DEF Knows
  <2>2. s.do # "return"
    BY DEF Advance, Acquire, Release, Create, Destroy, Keep, Adopt, Do, Enqueue, Await, Jump, Branch, Return
  <2>3. view' = q.mem
    BY <1>1, <1>3, <2>1, <2>2, EffectIs
  <2>4. ASSUME lock'[key] # t PROVE view' = Blank
    <3>1. s.do = "unlock" /\ s.m = key /\ view' = view
      BY <1>1, <1>5, <2>4, KeyMoves
    <3>2. p.v \in {r.v : r \in pictures} /\ VInv({r.v : r \in pictures}) /\ Obeyed({r.v : r \in pictures})
      BY DEF PInv, PObeyed
    <3>3. s = StepOf(p.v)
      BY <1>1, <3>2, ViewOf
    <3>4. p.mem = Blank
      BY <3>1, <3>3 DEF PObeyed, Pictured
    <3> QED
      BY <2>1, <3>1, <3>4
  <2> QED
    BY <1>1, <1>3, <1>4, <2>3, <2>4 DEF Knows
<1>6. ASSUME lock[key] # t PROVE Knows(t, q, key)'
  <2>1. p.mem = Blank
    BY <1>4, <1>6 DEF Knows
  <2>2. view' = view /\ s.do # "return"
    BY <1>6, KeyGuards DEF Advance, Acquire, Release, Create, Destroy, Keep, Adopt, Do, Enqueue, Await, Jump, Branch, Return
  <2>3. q.mem = Blank
    BY <1>3, <1>6, <2>1, <2>2, KeyGuards
  <2>4. lock'[key] = t => view = Blank
    BY <1>1, <1>6, KeyMoves DEF PInv
  <2> QED
    BY <1>1, <1>3, <1>4, <2>2, <2>3, <2>4 DEF Knows
<1> QED
  BY <1>2, <1>5, <1>6
LEMMA MyPictureFailing ==
  ASSUME NEW key, NEW t \in Threads, NEW s, NEW p, Knows(t, p, key), Fail(t, s), NEW w, Goes(t, w)
  PROVE  Knows(t, Picture(w, p.mem), key)'
<1>1. PICK q : q = Picture(w, p.mem)
  OBVIOUS
<1>2. q.v = w /\ q.mem = p.mem
  BY <1>1 DEF Picture
<1>3. lock' = lock /\ view' = view /\ Sees(t, w)'
  BY FailsQuietly DEF Goes
<1>4. w.held = p.v.held
  BY <1>3 DEF Sees, Held, Knows
<1>5. Knows(t, q, key)'
  BY <1>2, <1>3, <1>4 DEF Knows
<1> QED
  BY <1>1, <1>5

(* What the others know stays true. *)
LEMMA OthersKnow ==
  ASSUME NEW pictures, NEW key, key \in Locks, PInv(pictures, key), NEW u \in Threads,
         Same(u), LocksSame(u), FlagsSame(u), lock[key] = u => view' = view, Running(u)'
  PROVE  (\E q \in pictures : Knows(u, q, key))'
<1>1. Running(u)
  BY DEF Running, Same
<1>2. PICK q \in pictures : Knows(u, q, key)
  BY <1>1 DEF PInv
<1>3. Sees(u, q.v) /\ Sees(u, q.v)'
  BY <1>2, StillSees DEF Knows
<1>4. key \in q.v.held <=> lock[key] = u
  BY <1>3 DEF Sees, Held
<1>5. q.mem = IF key \in q.v.held THEN view' ELSE Blank
  BY <1>2, <1>4 DEF Knows
<1> QED
  BY <1>3, <1>5 DEF Knows
LEMMA PStep ==
  ASSUME NEW pictures, NEW key, PObeyed(pictures, key), PInv(pictures, key),
         NEW t \in Threads, NEW s \in Steps(t), Acquire(t, s) \/ Advance(t, s) \/ Fail(t, s),
         VInv({p.v : p \in pictures})'
  PROVE  PInv(pictures, key)'
<1> DEFINE views == {q.v : q \in pictures}
<1>1. VInv(views) /\ Obeyed(views) /\ Running(t) /\ key \in Locks /\ TInv
  BY StepIn DEF PInv, PObeyed, VInv
<1>2. PICK p \in pictures : Knows(t, p, key)
  BY <1>1 DEF PInv
<1>3. Sees(t, p.v) /\ p.v \in views
  BY <1>2 DEF Knows
<1>a. VInv(views)'
  OBVIOUS
<1> HIDE DEF views
<1>4. s = StepOf(p.v)
  BY <1>1, <1>3, ViewOf
<1>5. PicturesAfter(p) \subseteq pictures /\ (s.do = "unlock" /\ s.m = key => p.mem = Blank)
  BY <1>4 DEF PObeyed, Pictured
<1>6. view = [b \in Buffers |-> view[b]] /\ p.mem = [b \in Buffers |-> p.mem[b]]
  BY DEF PInv, MemoryTyped, PObeyed, Pictured
<1>7. lock \in [Locks -> Threads \cup {NoThread}] /\ lock' \in [Locks -> Threads \cup {NoThread}]
  BY <1>1, <1>a DEF VInv, TInv, TypeOK
<1>8. MemoryTyped'
  <2>1. CASE Fail(t, s) \/ Return(t, s)
    BY <1>6, <2>1, FailsQuietly DEF MemoryTyped
  <2>2. CASE (Acquire(t, s) \/ Advance(t, s)) /\ s.do # "return"
    <3>1. view' = Effect(p.v, s, view)
      BY <1>3, <2>2, EffectIs
    <3>2. Effect(p.v, s, view) = [b \in Buffers |-> Effect(p.v, s, view)[b]]
      BY <1>6, EffectTyped
    <3> QED
      BY <3>1, <3>2 DEF MemoryTyped
  <2>3. s.do = "return" /\ ~Fail(t, s) => Return(t, s)
    BY DEF Advance, Acquire, Release, Create, Destroy, Keep, Adopt, Do, Enqueue, Await, Jump, Branch, Return
  <2> QED
    BY <2>1, <2>2, <2>3
<1>9. \A u \in Threads \ {t} : Same(u) /\ LocksSame(u) /\ FlagsSame(u)
  <2>1. CASE Return(t, s)
    BY <1>1, <2>1, ReturnKeeps DEF Rests
  <2>2. CASE Fail(t, s)
    BY <1>1, <1>3, <2>2, FailKeeps DEF Goes
  <2>3. CASE (Acquire(t, s) \/ Advance(t, s)) /\ ~Return(t, s)
    BY <1>1, <1>3, <2>3, Succeeds DEF Goes
  <2> QED
    BY <2>1, <2>2, <2>3
<1>10. lock[key] # t => view' = view
  BY <1>2, KeyGuards
<1>11. ASSUME NEW u \in Threads \ {t}, Running(u)' PROVE (\E q \in pictures : Knows(u, q, key))'
  <2>1. lock[key] = u => view' = view
    BY <1>10
  <2> QED
    BY <1>1, <1>9, <1>11, <2>1, OthersKnow
<1>12. ASSUME Running(t)' PROVE (\E q \in pictures : Knows(t, q, key))'
  <2>1. CASE Return(t, s)
    <3>1. ~Running(t)'
      BY <1>1, <2>1, WentTo DEF Return, Running
    <3> QED
      BY <1>12, <3>1
  <2>2. CASE Fail(t, s)
    <3>1. PICK w \in Failed(p.v, s) : Goes(t, w)
      BY <1>1, <1>3, <2>2, FailKeeps
    <3>2. Picture(w, p.mem) \in pictures
      BY <1>4, <1>5, <3>1 DEF PicturesAfter
    <3> QED
      BY <1>2, <2>2, <3>1, <3>2, MyPictureFailing
  <2>3. CASE (Acquire(t, s) \/ Advance(t, s)) /\ ~Return(t, s)
    <3>1. PICK w \in Succeeded(p.v, s) : Goes(t, w)
      BY <1>1, <1>3, <2>3, Succeeds
    <3>2. Picture(w, Effect(p.v, s, p.mem)) \in pictures
      BY <1>4, <1>5, <3>1 DEF PicturesAfter
    <3> QED
      BY <1>2, <2>3, <3>1, <3>2, MyPicture
  <2> QED
    BY <2>1, <2>2, <2>3
<1>13. lock'[key] = NoThread => view' = Blank
  <2> SUFFICES ASSUME lock'[key] = NoThread PROVE view' = Blank
    OBVIOUS
  <2>1. CASE lock[key] = NoThread
    BY <1>10, <2>1, ScriptAssumption DEF PInv
  <2>2. CASE lock[key] = t
    <3>1. s.do = "unlock" /\ s.m = key /\ view' = view
      BY <1>1, <2>2, KeyMoves, ScriptAssumption
    <3>2. p.mem = view
      BY <1>2, <1>1, <2>2 DEF Knows, Sees, Held
    <3> QED
      BY <1>5, <3>1, <3>2
  <2>3. CASE lock[key] \in Threads \ {t}
    BY <1>1, <1>9, <2>3, ScriptAssumption DEF LocksSame
  <2> QED
    BY <1>1, <1>7, <2>1, <2>2, <2>3
<1>14. \A u \in Threads : Running(u)' => (\E q \in pictures : Knows(u, q, key))'
  BY <1>11, <1>12
<1> QED
  BY <1>a, <1>8, <1>13, <1>14 DEF PInv, views
LEMMA PInit ==
  ASSUME NEW pictures, NEW key, PObeyed(pictures, key) PROVE Init => PInv(pictures, key)
<1> SUFFICES ASSUME Init PROVE PInv(pictures, key)
  OBVIOUS
<1>1. VInv({p.v : p \in pictures})
  BY VInit DEF PObeyed
<1>2. view = Blank /\ MemoryTyped /\ \A t \in Threads : ~Running(t)
  BY DEF Init, Blank, MemoryTyped, Running
<1> QED
  BY <1>1, <1>2 DEF PInv
LEMMA PNext ==
  ASSUME NEW pictures, NEW key, PObeyed(pictures, key)
  PROVE  PInv(pictures, key) /\ [Next]_vars => PInv(pictures, key)'
<1> SUFFICES ASSUME PInv(pictures, key), [Next]_vars PROVE PInv(pictures, key)'
  OBVIOUS
<1> DEFINE views == {p.v : p \in pictures}
<1>1. VInv(views) /\ Obeyed(views) /\ key \in Locks
  BY DEF PInv, PObeyed
<1>2. VInv(views)'
  <2> HIDE DEF views
  <2> QED
    BY <1>1, VStep
<1>3. CASE UNCHANGED vars
  <2>1. view' = view /\ lock' = lock /\ MemoryTyped'
    BY <1>3 DEF vars, PInv, MemoryTyped
  <2>2. ASSUME NEW u \in Threads, Running(u)' PROVE (\E q \in pictures : Knows(u, q, key))'
    <3>1. Same(u) /\ LocksSame(u) /\ FlagsSame(u)
      BY <1>3 DEF vars, Same, LocksSame, FlagsSame
    <3> QED
      BY <1>1, <2>1, <2>2, <3>1, OthersKnow
  <2> QED
    BY <1>2, <2>1, <2>2 DEF PInv
<1>4. ASSUME NEW t \in Threads, NEW o \in Ops, Begin(t, o) PROVE PInv(pictures, key)'
  <2>1. view' = view /\ lock' = lock /\ MemoryTyped'
    BY <1>4 DEF Begin, PInv, MemoryTyped
  <2>2. Goes(t, Entry(o))
    <3> HIDE DEF views
    <3> QED
      BY <1>1, <1>4, BeginKeeps
  <2>3. Picture(Entry(o), Blank) \in pictures
    BY DEF PObeyed, Pictured
  <2>4. Knows(t, Picture(Entry(o), Blank), key)'
    BY <2>2 DEF Goes, Knows, Picture, Entry
  <2>5. ASSUME NEW u \in Threads, Running(u)' PROVE (\E q \in pictures : Knows(u, q, key))'
    <3>1. CASE u = t
      BY <2>3, <2>4, <3>1
    <3>2. CASE u # t
      BY <1>1, <2>1, <2>2, <2>5, <3>2, OthersKnow DEF Goes
    <3> QED
      BY <3>1, <3>2
  <2> QED
    BY <1>2, <2>1, <2>5 DEF PInv
<1>5. ASSUME NEW t \in Threads, NEW s \in Steps(t), Acquire(t, s) \/ Advance(t, s) \/ Fail(t, s)
      PROVE  PInv(pictures, key)'
  BY <1>2, <1>5, PStep
<1> QED
  BY <1>3, <1>4, <1>5 DEF Next

(* Every read of a buffer, by a command or through a mapping, is of what was *)
(* written last and made visible, although the buffers of the backend are    *)
(* shared by all its callers: a call leaves them blank when it unlocks.      *)
THEOREM ReadsLatest ==
  ASSUME NEW pictures, NEW key, PObeyed(pictures, key)
  PROVE  Spec => []ReadsTheLatest
<1>1. ASSUME PInv(pictures, key) PROVE ReadsTheLatest
  <2>1. ASSUME NEW t \in Threads, NEW s \in Steps(t), op[t] \in Observed
        PROVE  InOrder(view, s) /\ (s.do \in {"hostread", "hostwrite"} => ~Busy(t))
    <3>1. VInv({q.v : q \in pictures}) /\ Obeyed({q.v : q \in pictures}) /\ Running(t)
      BY <1>1, StepIn DEF PInv, PObeyed, VInv
    <3>2. PICK p \in pictures : Knows(t, p, key)
      BY <1>1, <3>1 DEF PInv
    <3>3. Sees(t, p.v) /\ p.v \in {q.v : q \in pictures}
      BY <3>2 DEF Knows
    <3>4. s = StepOf(p.v)
      BY <3>1, <3>3, ViewOf
    <3>5. Synchronises(p.v, s, p.mem) /\ (Touches(p.v, s) \/ s.do = "hostread" => key \in p.v.held)
      BY <2>1, <3>3, <3>4 DEF PObeyed, Pictured, Sees
    <3>6. CASE s.do \in {"cmd", "hostread", "hostwrite"}
      <4>1. p.mem = view
        BY <3>2, <3>5, <3>6 DEF Knows, Touches
      <4> QED
        BY <3>3, <3>5, <4>1 DEF Synchronises, Sees, Busy
    <3>7. CASE s.do \notin {"cmd", "hostread", "hostwrite"}
      BY <3>7 DEF InOrder
    <3> QED
      BY <3>6, <3>7
  <2> QED
    BY <2>1 DEF ReadsTheLatest
<1>2. Spec => []PInv(pictures, key)
  BY PInit, PNext, PTL DEF Spec
<1> QED
  BY <1>1, <1>2, PTL
-----------------------------------------------------------------------------
(* The asynchronous calls. *)
Handed(c) == step[c] \in {"submitted", "ensured", "scaled"}
Queued(c) == \E i \in DOMAIN queue : queue[i] = c

\* What is known of a call before it returns.
CallersExact ==
  \A c \in Calls :
    /\ step[c] = "none" => promise[c] = "none"
    /\ Handed(c) => promise[c] = "pending"
    /\ promise[c] = "pending" => device[c] # "idle" \/ step[c] = "scaled"
    /\ step[c] \in {"none", "submitted", "ensured"} => ~copied[c]
    /\ step[c] # "returned" => ~discard[c]

\* The queue has each job once, and none that was begun.
QueueExact ==
  /\ \A i, j \in DOMAIN queue : queue[i] = queue[j] => i = j
  /\ \A i \in DOMAIN queue :
       /\ step[queue[i]] = "returned" /\ promise[queue[i]] = "pending"
       /\ ~discard[queue[i]] /\ queue[i] # job

\* The job in hand: its result is discarded just if its caller was answered, or
\* is about to be; at the end its caller was answered in any case.
JobExact ==
  job # NoCall =>
    /\ step[job] = "returned" /\ device[job] # "idle"
    /\ pc # "out" => promise[job] \in {"pending", "cancelled"}
    /\ pc = "out" => promise[job] \notin {"none", "pending"}
    /\ pc = "early" => discard[job]
    /\ pc \notin {"early", "out"} => (discard[job] <=> promise[job] # "pending")
    /\ pc \in {"drained", "copied"} => device[job] # "running"
    /\ pc = "copied" => (copied[job] <=> device[job] = "done" /\ ~discard[job])

\* A call that waits for its promise has its job somewhere, and keeps open what
\* the fence thread will use.
PendingHeld ==
  \A c \in Calls : promise[c] = "pending" =>
    /\ Handed(c) \/ Queued(c) \/ job = c
    /\ ctx = "open"
    /\ c \in Grouped => c \in children /\ group = "open"

Discards == \A c \in Calls : discard[c] => IsCancelled(c)

\* What a promise says of the array.
Truth == \A c \in Calls : (promise[c] = "ok" => copied[c]) /\ (promise[c] = "failed" => ~copied[c])

IInv == AsyncTypeOK /\ CallersExact /\ QueueExact /\ JobExact /\ PendingHeld /\ Discards /\ Truth

-----------------------------------------------------------------------------
\* What Append and Tail do, position by position.
LEMMA AppendOne ==
  ASSUME NEW S, NEW q \in Seq(S), NEW e \in S
  PROVE  /\ Append(q, e) \in Seq(S) /\ DOMAIN Append(q, e) = DOMAIN q \cup {Len(q) + 1}
         /\ Len(q) + 1 \notin DOMAIN q /\ Append(q, e)[Len(q) + 1] = e
         /\ \A i \in DOMAIN q : Append(q, e)[i] = q[i]
OBVIOUS

LEMMA TailOne ==
  ASSUME NEW S, NEW q \in Seq(S), q # <<>>
  PROVE  /\ Tail(q) \in Seq(S) /\ Head(q) = q[1] /\ 1 \in DOMAIN q
         /\ \A i \in DOMAIN Tail(q) : i + 1 \in DOMAIN q /\ i + 1 # 1 /\ i \in Int /\ Tail(q)[i] = q[i + 1]
         /\ \A i \in DOMAIN q \ {1} : \E j \in DOMAIN Tail(q) : i = j + 1
<1>1. /\ Tail(q) \in Seq(S) /\ Head(q) = q[1] /\ 1 \in DOMAIN q
      /\ \A i \in DOMAIN Tail(q) : i + 1 \in DOMAIN q /\ i + 1 # 1 /\ i \in Int /\ Tail(q)[i] = q[i + 1]
  OBVIOUS
<1>2. ASSUME NEW i \in DOMAIN q \ {1}
      PROVE  i - 1 \in DOMAIN Tail(q) /\ i = (i - 1) + 1
  OBVIOUS
<1> QED BY <1>1, <1>2

-----------------------------------------------------------------------------
LEMMA InitInvariant == AsyncInit => IInv
<1> SUFFICES ASSUME AsyncInit PROVE IInv
  OBVIOUS
<1> USE DEF AsyncInit
<1>1. AsyncTypeOK
  <2>1. <<>> \in Seq(Calls)
    OBVIOUS
  <2>2. step \in [Calls -> {"none"}] /\ promise \in [Calls -> {"none"}] /\ device \in [Calls -> {"idle"}]
    OBVIOUS
  <2>3. copied \in [Calls -> BOOLEAN] /\ discard \in [Calls -> BOOLEAN] /\ children \subseteq Grouped /\ pending \in Int
    OBVIOUS
  <2>4. step \in [Calls -> {"none", "submitted", "ensured", "scaled", "counting", "returned"}]
    BY <2>2
  <2> QED BY <2>1, <2>2, <2>3, <2>4, CallAssumption DEF AsyncTypeOK
<1>2. CallersExact /\ QueueExact /\ JobExact
  BY DEF CallersExact, QueueExact, JobExact, Handed
<1>3. PendingHeld /\ Discards /\ Truth
  BY DEF PendingHeld, Discards, Truth
<1> QED BY <1>1, <1>2, <1>3 DEF IInv

LEMMA CallStep ==
  ASSUME IInv, NEW c \in Calls, Call(c)
  PROVE  IInv'
<1> USE CallAssumption DEF IInv, Call, MayCall, Register, IsCancelled
<1>1. AsyncTypeOK'
  BY DEF AsyncTypeOK
<1>2. CallersExact'
  BY DEF AsyncTypeOK, CallersExact, QueueExact, JobExact, Handed
<1>3. QueueExact'
  BY DEF AsyncTypeOK, QueueExact, CallersExact, JobExact, Handed
<1>4. JobExact'
  BY DEF AsyncTypeOK, JobExact, QueueExact, CallersExact, Handed, Discards
<1>5. PendingHeld'
  BY DEF AsyncTypeOK, PendingHeld, Queued, Handed, CallersExact, QueueExact, JobExact
<1>6. Discards'
  BY DEF AsyncTypeOK, Discards, IsCancelled
<1>7. Truth'
  BY DEF AsyncTypeOK, Truth, CallersExact, QueueExact, JobExact, Discards
<1> QED BY <1>1, <1>2, <1>3, <1>4, <1>5, <1>6, <1>7

LEMMA CallFailsStep ==
  ASSUME IInv, NEW c \in Calls, CallFails(c)
  PROVE  IInv'
<1> USE CallAssumption DEF IInv, CallFails, MayCall, Complete, groupVars
<1>1. AsyncTypeOK'
  BY DEF AsyncTypeOK
<1>2. CallersExact'
  BY DEF AsyncTypeOK, CallersExact, QueueExact, JobExact, Handed
<1>3. QueueExact'
  BY DEF AsyncTypeOK, QueueExact, CallersExact, JobExact, Handed
<1>4. JobExact'
  BY DEF AsyncTypeOK, JobExact, QueueExact, CallersExact, Handed, Discards
<1>5. PendingHeld'
  BY DEF AsyncTypeOK, PendingHeld, Queued, Handed, CallersExact, QueueExact, JobExact
<1>6. Discards'
  BY DEF AsyncTypeOK, Discards, IsCancelled
<1>7. Truth'
  BY DEF AsyncTypeOK, Truth, CallersExact, QueueExact, JobExact, Discards
<1> QED BY <1>1, <1>2, <1>3, <1>4, <1>5, <1>6, <1>7

LEMMA CallEmptyStep ==
  ASSUME IInv, NEW c \in Calls, CallEmpty(c)
  PROVE  IInv'
<1> USE CallAssumption DEF IInv, CallEmpty, MayCall, Complete, groupVars
<1>1. AsyncTypeOK'
  BY DEF AsyncTypeOK
<1>2. CallersExact'
  BY DEF AsyncTypeOK, CallersExact, QueueExact, JobExact, Handed
<1>3. QueueExact'
  BY DEF AsyncTypeOK, QueueExact, CallersExact, JobExact, Handed
<1>4. JobExact'
  BY DEF AsyncTypeOK, JobExact, QueueExact, CallersExact, Handed, Discards
<1>5. PendingHeld'
  BY DEF AsyncTypeOK, PendingHeld, Queued, Handed, CallersExact, QueueExact, JobExact
<1>6. Discards'
  BY DEF AsyncTypeOK, Discards, IsCancelled
<1>7. Truth'
  BY DEF AsyncTypeOK, Truth, CallersExact, QueueExact, JobExact, Discards
<1> QED BY <1>1, <1>2, <1>3, <1>4, <1>5, <1>6, <1>7

LEMMA CallCancelledStep ==
  ASSUME IInv, NEW c \in Calls, CallCancelled(c)
  PROVE  IInv'
<1> USE CallAssumption DEF IInv, CallCancelled, MayCall, Complete, groupVars
<1>1. AsyncTypeOK'
  BY DEF AsyncTypeOK
<1>2. CallersExact'
  BY DEF AsyncTypeOK, CallersExact, QueueExact, JobExact, Handed
<1>3. QueueExact'
  BY DEF AsyncTypeOK, QueueExact, CallersExact, JobExact, Handed
<1>4. JobExact'
  BY DEF AsyncTypeOK, JobExact, QueueExact, CallersExact, Handed, Discards
<1>5. PendingHeld'
  BY DEF AsyncTypeOK, PendingHeld, Queued, Handed, CallersExact, QueueExact, JobExact
<1>6. Discards'
  BY DEF AsyncTypeOK, Discards, IsCancelled
<1>7. Truth'
  BY DEF AsyncTypeOK, Truth, CallersExact, QueueExact, JobExact, Discards
<1> QED BY <1>1, <1>2, <1>3, <1>4, <1>5, <1>6, <1>7

LEMMA CallInPlaceStep ==
  ASSUME IInv, NEW c \in Calls, CallInPlace(c)
  PROVE  IInv'
<1> USE CallAssumption DEF IInv, CallInPlace, MayCall, Register
<1>1. AsyncTypeOK'
  BY DEF AsyncTypeOK
<1>2. CallersExact'
  BY DEF AsyncTypeOK, CallersExact, QueueExact, JobExact, Handed
<1>3. QueueExact'
  BY DEF AsyncTypeOK, QueueExact, CallersExact, JobExact, Handed
<1>4. JobExact'
  BY DEF AsyncTypeOK, JobExact, QueueExact, CallersExact, Handed, Discards
<1>5. PendingHeld'
  BY DEF AsyncTypeOK, PendingHeld, Queued, Handed, CallersExact, QueueExact, JobExact
<1>6. Discards'
  BY DEF AsyncTypeOK, Discards, IsCancelled
<1>7. Truth'
  BY DEF AsyncTypeOK, Truth, CallersExact, QueueExact, JobExact, Discards
<1> QED BY <1>1, <1>2, <1>3, <1>4, <1>5, <1>6, <1>7

LEMMA InPlaceDoneStep ==
  ASSUME IInv, NEW c \in Calls, InPlaceDone(c)
  PROVE  IInv'
<1> USE CallAssumption DEF IInv, InPlaceDone, CallerAt, Complete, groupVars
<1>1. AsyncTypeOK'
  BY DEF AsyncTypeOK
<1>2. CallersExact'
  BY DEF AsyncTypeOK, CallersExact, QueueExact, JobExact, Handed
<1>3. QueueExact'
  BY DEF AsyncTypeOK, QueueExact, CallersExact, JobExact, Handed
<1>4. JobExact'
  BY DEF AsyncTypeOK, JobExact, QueueExact, CallersExact, Handed, Discards
<1>5. PendingHeld'
  BY DEF AsyncTypeOK, PendingHeld, Queued, Handed, CallersExact, QueueExact, JobExact
<1>6. Discards'
  BY DEF AsyncTypeOK, Discards, IsCancelled
<1>7. Truth'
  BY DEF AsyncTypeOK, Truth, CallersExact, QueueExact, JobExact, Discards
<1> QED BY <1>1, <1>2, <1>3, <1>4, <1>5, <1>6, <1>7

LEMMA CallerCountsOutStep ==
  ASSUME IInv, NEW c \in Calls, CallerCountsOut(c)
  PROVE  IInv'
<1> USE CallAssumption DEF IInv, CallerCountsOut, CallerAt, CountOut
<1>1. AsyncTypeOK'
  BY DEF AsyncTypeOK
<1>2. CallersExact'
  BY DEF AsyncTypeOK, CallersExact, QueueExact, JobExact, Handed
<1>3. QueueExact'
  BY DEF AsyncTypeOK, QueueExact, CallersExact, JobExact, Handed
<1>4. JobExact'
  BY DEF AsyncTypeOK, JobExact, QueueExact, CallersExact, Handed, Discards
<1>5. PendingHeld'
  BY DEF AsyncTypeOK, PendingHeld, Queued, Handed, CallersExact, QueueExact, JobExact
<1>6. Discards'
  BY DEF AsyncTypeOK, Discards, IsCancelled
<1>7. Truth'
  BY DEF AsyncTypeOK, Truth, CallersExact, QueueExact, JobExact, Discards
<1> QED BY <1>1, <1>2, <1>3, <1>4, <1>5, <1>6, <1>7

LEMMA EnsureStartedStep ==
  ASSUME IInv, NEW c \in Calls, EnsureStarted(c)
  PROVE  IInv'
<1> USE CallAssumption DEF IInv, EnsureStarted, CallerAt, groupVars
<1>1. AsyncTypeOK'
  BY DEF AsyncTypeOK
<1>2. CallersExact'
  BY DEF AsyncTypeOK, CallersExact, QueueExact, JobExact, Handed
<1>3. QueueExact'
  BY DEF AsyncTypeOK, QueueExact, CallersExact, JobExact, Handed
<1>4. JobExact'
  BY DEF AsyncTypeOK, JobExact, QueueExact, CallersExact, Handed, Discards
<1>5. PendingHeld'
  BY DEF AsyncTypeOK, PendingHeld, Queued, Handed, CallersExact, QueueExact, JobExact
<1>6. Discards'
  BY DEF AsyncTypeOK, Discards, IsCancelled
<1>7. Truth'
  BY DEF AsyncTypeOK, Truth, CallersExact, QueueExact, JobExact, Discards
<1> QED BY <1>1, <1>2, <1>3, <1>4, <1>5, <1>6, <1>7

LEMMA EnqueueStep ==
  ASSUME IInv, NEW c \in Calls, EnqueueJob(c)
  PROVE  IInv'
<1> USE CallAssumption DEF IInv, EnqueueJob, CallerAt, groupVars
<1>1. AsyncTypeOK'
  BY DEF AsyncTypeOK
<1>2. CallersExact'
  BY DEF AsyncTypeOK, CallersExact, QueueExact, JobExact, Handed
<1>3. QueueExact'
  BY DEF AsyncTypeOK, QueueExact, CallersExact, JobExact, Handed
<1>4. JobExact'
  BY DEF AsyncTypeOK, JobExact, QueueExact, CallersExact, Handed, Discards
<1>5. PendingHeld'
  <2>1. queue' = Append(queue, c) /\ queue \in Seq(Calls)
    BY DEF AsyncTypeOK
  <2>2. Queued(c)'
    BY <2>1, AppendOne DEF Queued
  <2>3. ASSUME NEW d \in Calls, Queued(d)
        PROVE  Queued(d)'
    BY <2>1, <2>3, AppendOne DEF Queued
  <2> QED BY <2>2, <2>3 DEF AsyncTypeOK, PendingHeld, Handed
<1>6. Discards'
  BY DEF AsyncTypeOK, Discards, IsCancelled
<1>7. Truth'
  BY DEF AsyncTypeOK, Truth, CallersExact, QueueExact, JobExact, Discards
<1> QED BY <1>1, <1>2, <1>3, <1>4, <1>5, <1>6, <1>7

LEMMA FinishStep ==
  ASSUME IInv, NEW c \in Calls, Finish(c)
  PROVE  IInv'
<1> USE CallAssumption DEF IInv, Finish, callerVars, groupVars
<1>1. AsyncTypeOK'
  BY DEF AsyncTypeOK
<1>2. CallersExact'
  BY DEF AsyncTypeOK, CallersExact, QueueExact, JobExact, Handed
<1>3. QueueExact'
  BY DEF AsyncTypeOK, QueueExact, CallersExact, JobExact, Handed
<1>4. JobExact'
  BY DEF AsyncTypeOK, JobExact, QueueExact, CallersExact, Handed, Discards
<1>5. PendingHeld'
  BY DEF AsyncTypeOK, PendingHeld, Queued, Handed, CallersExact, QueueExact, JobExact
<1>6. Discards'
  BY DEF AsyncTypeOK, Discards, IsCancelled
<1>7. Truth'
  BY DEF AsyncTypeOK, Truth, CallersExact, QueueExact, JobExact, Discards
<1> QED BY <1>1, <1>2, <1>3, <1>4, <1>5, <1>6, <1>7

LEMMA CancelStep ==
  ASSUME IInv, Cancel
  PROVE  IInv'
<1> USE CallAssumption DEF IInv, Cancel, callerVars
<1>1. AsyncTypeOK'
  BY DEF AsyncTypeOK
<1>2. CallersExact'
  BY DEF AsyncTypeOK, CallersExact, QueueExact, JobExact, Handed
<1>3. QueueExact'
  BY DEF AsyncTypeOK, QueueExact, CallersExact, JobExact, Handed
<1>4. JobExact'
  BY DEF AsyncTypeOK, JobExact, QueueExact, CallersExact, Handed, Discards
<1>5. PendingHeld'
  BY DEF AsyncTypeOK, PendingHeld, Queued, Handed, CallersExact, QueueExact, JobExact
<1>6. Discards'
  BY DEF AsyncTypeOK, Discards, IsCancelled
<1>7. Truth'
  BY DEF AsyncTypeOK, Truth, CallersExact, QueueExact, JobExact, Discards
<1> QED BY <1>1, <1>2, <1>3, <1>4, <1>5, <1>6, <1>7

LEMMA GroupEndStep ==
  ASSUME IInv, GroupEnd
  PROVE  IInv'
<1> USE CallAssumption DEF IInv, GroupEnd, callerVars
<1>1. AsyncTypeOK'
  BY DEF AsyncTypeOK
<1>2. CallersExact'
  BY DEF AsyncTypeOK, CallersExact, QueueExact, JobExact, Handed
<1>3. QueueExact'
  BY DEF AsyncTypeOK, QueueExact, CallersExact, JobExact, Handed
<1>4. JobExact'
  BY DEF AsyncTypeOK, JobExact, QueueExact, CallersExact, Handed, Discards
<1>5. PendingHeld'
  BY DEF AsyncTypeOK, PendingHeld, Queued, Handed, CallersExact, QueueExact, JobExact
<1>6. Discards'
  BY DEF AsyncTypeOK, Discards, IsCancelled
<1>7. Truth'
  BY DEF AsyncTypeOK, Truth, CallersExact, QueueExact, JobExact, Discards
<1> QED BY <1>1, <1>2, <1>3, <1>4, <1>5, <1>6, <1>7

LEMMA ShutdownStep ==
  ASSUME IInv, Shutdown
  PROVE  IInv'
<1> USE CallAssumption DEF IInv, Shutdown, callerVars, groupVars
<1>1. AsyncTypeOK'
  BY DEF AsyncTypeOK
<1>2. CallersExact'
  BY DEF AsyncTypeOK, CallersExact, QueueExact, JobExact, Handed
<1>3. QueueExact'
  BY DEF AsyncTypeOK, QueueExact, CallersExact, JobExact, Handed
<1>4. JobExact'
  BY DEF AsyncTypeOK, JobExact, QueueExact, CallersExact, Handed, Discards
<1>5. PendingHeld'
  BY DEF AsyncTypeOK, PendingHeld, Queued, Handed, CallersExact, QueueExact, JobExact
<1>6. Discards'
  BY DEF AsyncTypeOK, Discards, IsCancelled
<1>7. Truth'
  BY DEF AsyncTypeOK, Truth, CallersExact, QueueExact, JobExact, Discards
<1> QED BY <1>1, <1>2, <1>3, <1>4, <1>5, <1>6, <1>7

LEMMA TakeStep ==
  ASSUME IInv, TakeJob
  PROVE  IInv'
<1> USE CallAssumption DEF IInv, TakeJob, groupVars, FenceAt, FenceTo
<1>1. AsyncTypeOK'
  BY DEF AsyncTypeOK
<1>2. CallersExact'
  BY DEF AsyncTypeOK, CallersExact, QueueExact, JobExact, Handed
<1>3. QueueExact'
  BY DEF AsyncTypeOK, QueueExact, CallersExact, JobExact, Handed
<1>4. JobExact'
  BY DEF AsyncTypeOK, JobExact, QueueExact, CallersExact, Handed, Discards
<1>5. PendingHeld'
  <2>1. queue \in Seq(Calls) /\ queue # <<>> /\ queue' = Tail(queue) /\ job' = Head(queue) /\ job = NoCall
    BY DEF AsyncTypeOK
  <2>2. ASSUME NEW d \in Calls, Queued(d)
        PROVE  Queued(d)' \/ job' = d
    <3>1. PICK i \in DOMAIN queue : queue[i] = d
      BY <2>2 DEF Queued
    <3>2. CASE i = 1
      BY <2>1, <3>1, <3>2, TailOne
    <3>3. CASE i # 1
      BY <2>1, <3>1, <3>3, TailOne DEF Queued
    <3> QED BY <3>2, <3>3
  <2> QED BY <2>1, <2>2 DEF AsyncTypeOK, PendingHeld, Handed
<1>6. Discards'
  BY DEF AsyncTypeOK, Discards, IsCancelled
<1>7. Truth'
  BY DEF AsyncTypeOK, Truth, CallersExact, QueueExact, JobExact, Discards
<1> QED BY <1>1, <1>2, <1>3, <1>4, <1>5, <1>6, <1>7

LEMMA PollStep ==
  ASSUME IInv, Poll
  PROVE  IInv'
<1> USE CallAssumption DEF IInv, Poll, IsCancelled, callerVars, groupVars, FenceAt, FenceTo
<1>1. AsyncTypeOK'
  BY DEF AsyncTypeOK
<1>2. CallersExact'
  BY DEF AsyncTypeOK, CallersExact, QueueExact, JobExact, Handed
<1>3. QueueExact'
  BY DEF AsyncTypeOK, QueueExact, CallersExact, JobExact, Handed
<1>4. JobExact'
  BY DEF AsyncTypeOK, JobExact, QueueExact, CallersExact, Handed, Discards
<1>5. PendingHeld'
  BY DEF AsyncTypeOK, PendingHeld, Queued, Handed, CallersExact, QueueExact, JobExact
<1>6. Discards'
  BY DEF AsyncTypeOK, Discards, IsCancelled
<1>7. Truth'
  BY DEF AsyncTypeOK, Truth, CallersExact, QueueExact, JobExact, Discards
<1> QED BY <1>1, <1>2, <1>3, <1>4, <1>5, <1>6, <1>7

LEMMA DeliverEarlyStep ==
  ASSUME IInv, DeliverEarly
  PROVE  IInv'
<1> USE CallAssumption DEF IInv, DeliverEarly, Complete, Delivered, callerVars, groupVars, FenceAt, FenceTo
<1>1. AsyncTypeOK'
  BY DEF AsyncTypeOK
<1>2. CallersExact'
  BY DEF AsyncTypeOK, CallersExact, QueueExact, JobExact, Handed
<1>3. QueueExact'
  BY DEF AsyncTypeOK, QueueExact, CallersExact, JobExact, Handed
<1>4. JobExact'
  BY DEF AsyncTypeOK, JobExact, QueueExact, CallersExact, Handed, Discards
<1>5. PendingHeld'
  BY DEF AsyncTypeOK, PendingHeld, Queued, Handed, CallersExact, QueueExact, JobExact
<1>6. Discards'
  BY DEF AsyncTypeOK, Discards, IsCancelled
<1>7. Truth'
  BY DEF AsyncTypeOK, Truth, CallersExact, QueueExact, JobExact, Discards
<1> QED BY <1>1, <1>2, <1>3, <1>4, <1>5, <1>6, <1>7

LEMMA CountOutEarlyStep ==
  ASSUME IInv, CountOutEarly
  PROVE  IInv'
<1> USE CallAssumption DEF IInv, CountOutEarly, CountOut, callerVars, FenceAt, FenceTo
<1>1. AsyncTypeOK'
  BY DEF AsyncTypeOK
<1>2. CallersExact'
  BY DEF AsyncTypeOK, CallersExact, QueueExact, JobExact, Handed
<1>3. QueueExact'
  BY DEF AsyncTypeOK, QueueExact, CallersExact, JobExact, Handed
<1>4. JobExact'
  BY DEF AsyncTypeOK, JobExact, QueueExact, CallersExact, Handed, Discards
<1>5. PendingHeld'
  BY DEF AsyncTypeOK, PendingHeld, Queued, Handed, CallersExact, QueueExact, JobExact
<1>6. Discards'
  BY DEF AsyncTypeOK, Discards, IsCancelled
<1>7. Truth'
  BY DEF AsyncTypeOK, Truth, CallersExact, QueueExact, JobExact, Discards
<1> QED BY <1>1, <1>2, <1>3, <1>4, <1>5, <1>6, <1>7

LEMMA WaitRoundStep ==
  ASSUME IInv, WaitRound
  PROVE  IInv'
<1> USE CallAssumption DEF IInv, WaitRound, callerVars, groupVars, FenceAt, FenceTo
<1>1. AsyncTypeOK'
  BY DEF AsyncTypeOK
<1>2. CallersExact'
  BY DEF AsyncTypeOK, CallersExact, QueueExact, JobExact, Handed
<1>3. QueueExact'
  BY DEF AsyncTypeOK, QueueExact, CallersExact, JobExact, Handed
<1>4. JobExact'
  BY DEF AsyncTypeOK, JobExact, QueueExact, CallersExact, Handed, Discards
<1>5. PendingHeld'
  BY DEF AsyncTypeOK, PendingHeld, Queued, Handed, CallersExact, QueueExact, JobExact
<1>6. Discards'
  BY DEF AsyncTypeOK, Discards, IsCancelled
<1>7. Truth'
  BY DEF AsyncTypeOK, Truth, CallersExact, QueueExact, JobExact, Discards
<1> QED BY <1>1, <1>2, <1>3, <1>4, <1>5, <1>6, <1>7

LEMMA CopyBackStep ==
  ASSUME IInv, CopyBack
  PROVE  IInv'
<1> USE CallAssumption DEF IInv, CopyBack, callerVars, groupVars, FenceAt, FenceTo
<1>1. AsyncTypeOK'
  BY DEF AsyncTypeOK
<1>2. CallersExact'
  BY DEF AsyncTypeOK, CallersExact, QueueExact, JobExact, Handed
<1>3. QueueExact'
  BY DEF AsyncTypeOK, QueueExact, CallersExact, JobExact, Handed
<1>4. JobExact'
  BY DEF AsyncTypeOK, JobExact, QueueExact, CallersExact, Handed, Discards
<1>5. PendingHeld'
  BY DEF AsyncTypeOK, PendingHeld, Queued, Handed, CallersExact, QueueExact, JobExact
<1>6. Discards'
  BY DEF AsyncTypeOK, Discards, IsCancelled
<1>7. Truth'
  BY DEF AsyncTypeOK, Truth, CallersExact, QueueExact, JobExact, Discards
<1> QED BY <1>1, <1>2, <1>3, <1>4, <1>5, <1>6, <1>7

LEMMA DeliverStep ==
  ASSUME IInv, Deliver
  PROVE  IInv'
<1> USE CallAssumption DEF IInv, Deliver, Complete, Delivered, LetGo, callerVars, groupVars, FenceAt, FenceTo, Outcome, IsCancelled
<1>1. AsyncTypeOK'
  BY DEF AsyncTypeOK
<1>2. CallersExact'
  BY DEF AsyncTypeOK, CallersExact, QueueExact, JobExact, Handed
<1>3. QueueExact'
  BY DEF AsyncTypeOK, QueueExact, CallersExact, JobExact, Handed
<1>4. JobExact'
  BY DEF AsyncTypeOK, JobExact, QueueExact, CallersExact, Handed, Discards
<1>5. PendingHeld'
  BY DEF AsyncTypeOK, PendingHeld, Queued, Handed, CallersExact, QueueExact, JobExact
<1>6. Discards'
  BY DEF AsyncTypeOK, Discards, IsCancelled
<1>7. Truth'
  BY DEF AsyncTypeOK, Truth, CallersExact, QueueExact, JobExact, Discards
<1> QED BY <1>1, <1>2, <1>3, <1>4, <1>5, <1>6, <1>7

LEMMA CountOutLastStep ==
  ASSUME IInv, CountOutLast
  PROVE  IInv'
<1> USE CallAssumption DEF IInv, CountOutLast, CountOut, LetGo, callerVars, FenceAt, FenceTo
<1>1. AsyncTypeOK'
  BY DEF AsyncTypeOK
<1>2. CallersExact'
  BY DEF AsyncTypeOK, CallersExact, QueueExact, JobExact, Handed
<1>3. QueueExact'
  BY DEF AsyncTypeOK, QueueExact, CallersExact, JobExact, Handed
<1>4. JobExact'
  BY DEF AsyncTypeOK, JobExact, QueueExact, CallersExact, Handed, Discards
<1>5. PendingHeld'
  BY DEF AsyncTypeOK, PendingHeld, Queued, Handed, CallersExact, QueueExact, JobExact
<1>6. Discards'
  BY DEF AsyncTypeOK, Discards, IsCancelled
<1>7. Truth'
  BY DEF AsyncTypeOK, Truth, CallersExact, QueueExact, JobExact, Discards
<1> QED BY <1>1, <1>2, <1>3, <1>4, <1>5, <1>6, <1>7

\* A step that changes nothing.
LEMMA StutterStep == IInv /\ UNCHANGED asyncVars => IInv'
BY DEF IInv, asyncVars, groupVars, AsyncTypeOK, CallersExact, QueueExact, JobExact, PendingHeld, Discards, Truth,
   Handed, Queued, IsCancelled

LEMMA NextInvariant == IInv /\ [AsyncNext]_asyncVars => IInv'
<1> SUFFICES ASSUME IInv, [AsyncNext]_asyncVars PROVE IInv'
  OBVIOUS
<1>1. ASSUME NEW c \in Calls, Caller(c) \/ Finish(c)
      PROVE  IInv'
  BY <1>1, CallStep, CallFailsStep, CallEmptyStep, CallCancelledStep, CallInPlaceStep, InPlaceDoneStep,
     CallerCountsOutStep, EnsureStartedStep, EnqueueStep, FinishStep DEF Caller
<1>2. CASE Cancel \/ GroupEnd \/ Shutdown
  BY <1>2, CancelStep, GroupEndStep, ShutdownStep
<1>3. CASE Worker
  BY <1>3, TakeStep, PollStep, DeliverEarlyStep, CountOutEarlyStep, WaitRoundStep, CopyBackStep,
     DeliverStep, CountOutLastStep DEF Worker
<1>4. CASE UNCHANGED asyncVars
  BY <1>4, StutterStep
<1> QED BY <1>1, <1>2, <1>3, <1>4 DEF AsyncNext

LEMMA Invariant == AsyncSpec => []IInv
BY InitInvariant, NextInvariant, PTL DEF AsyncSpec

-----------------------------------------------------------------------------
(* The theorems. *)

\* Every variable has its type; a job is in hand just while the fence thread is
\* busy (gpu_stub.c, yona_gpu_fence_worker_main).
THEOREM AsyncTypes == AsyncSpec => []AsyncTypeOK
<1>1. IInv => AsyncTypeOK
  BY DEF IInv
<1> QED BY <1>1, Invariant, PTL

\* In each of the three places a job is counted at most once.
LEMMA QueuedOnce ==
  ASSUME IInv, NEW c \in Calls
  PROVE  LET n == Cardinality({i \in DOMAIN queue : queue[i] = c})
         IN  (Queued(c) => n = 1) /\ (~Queued(c) => n = 0)
<1>1. CASE Queued(c)
  <2>1. PICK i \in DOMAIN queue : queue[i] = c
    BY <1>1 DEF Queued
  <2>2. {j \in DOMAIN queue : queue[j] = c} = {i}
    BY <2>1 DEF IInv, QueueExact
  <2> QED BY <1>1, <2>2, FS_Singleton
<1>2. CASE ~Queued(c)
  <2>1. {j \in DOMAIN queue : queue[j] = c} = {}
    BY <1>2 DEF Queued
  <2> QED BY <1>2, <2>1, FS_EmptySet
<1> QED BY <1>1, <1>2

\* A job that is submitted and not completed is with its caller, in the queue, or
\* in the fence thread's hands, and in one of these only.
THEOREM JobsKept == AsyncSpec => []JobInOnePlace
<1>1. ASSUME IInv PROVE JobInOnePlace
  <2>1. SUFFICES ASSUME NEW c \in Calls
                 PROVE  LET places == Cardinality({i \in DOMAIN queue : queue[i] = c})
                                        + (IF job = c THEN 1 ELSE 0)
                                        + (IF step[c] \in {"submitted", "ensured", "scaled"} THEN 1 ELSE 0)
                        IN  places <= 1 /\ (promise[c] = "pending" => places = 1)
    BY DEF JobInOnePlace
  <2>2. Queued(c) => ~Handed(c) /\ job # c
    BY <1>1 DEF IInv, QueueExact, Queued, Handed
  <2>3. job = c => ~Handed(c)
    BY <1>1, CallAssumption DEF IInv, JobExact, Handed
  <2>4. promise[c] = "pending" => Handed(c) \/ Queued(c) \/ job = c
    BY <1>1 DEF IInv, PendingHeld
  <2> QED BY <1>1, <2>2, <2>3, <2>4, QueuedOnce DEF Handed
<1> QED BY <1>1, Invariant, PTL

\* While the fence thread looks at the group of a job nobody has cancelled, the
\* group is there; while it waits, copies and frees, the device is.  (Nothing is
\* said of its last step, when it counts the promise out of the group.)
THEOREM OpenWhileUsed == AsyncSpec => []UsedWhileOpen
<1>1. ASSUME IInv PROVE UsedWhileOpen
  <2>1. SUFFICES ASSUME job # NoCall, ~IsCancelled(job)
                 PROVE  (TouchesGroup => group = "open") /\ (TouchesDevice => ctx = "open")
    BY DEF UsedWhileOpen
  <2>2. job \in Calls /\ ~discard[job]
    BY <1>1, <2>1 DEF IInv, AsyncTypeOK, Discards
  <2>3. TouchesGroup \/ TouchesDevice => promise[job] = "pending"
    BY <1>1, <2>1, <2>2 DEF IInv, JobExact, TouchesGroup, TouchesDevice
  <2> QED BY <1>1, <2>2, <2>3 DEF IInv, PendingHeld, TouchesGroup
<1> QED BY <1>1, Invariant, PTL

\* The caller's array is written only before the promise is completed.
THEOREM ArrayNotWrittenLate == AsyncSpec => ArrayLeftAlone
<1>1. ASSUME IInv, [AsyncNext]_asyncVars
      PROVE  [\A c \in Calls : copied'[c] /\ ~copied[c] => promise[c] \in {"none", "pending"}]_asyncVars
  <2> USE <1>1 DEF IInv, AsyncTypeOK
  <2>1. CASE CopyBack
    BY <2>1 DEF JobExact, CopyBack, FenceAt
  <2>2. CASE UNCHANGED copied
    BY <2>2
  <2>3. ASSUME NEW d \in Calls, CallEmpty(d) \/ CallInPlace(d)
        PROVE  \A c \in Calls : copied'[c] /\ ~copied[c] => promise[c] \in {"none", "pending"}
    BY <2>3 DEF CallersExact, CallEmpty, CallInPlace, MayCall
  <2>4. CopyBack \/ UNCHANGED copied \/ \E d \in Calls : CallEmpty(d) \/ CallInPlace(d)
    BY DEF AsyncNext, Caller, Worker, asyncVars, Call, CallFails, CallCancelled, InPlaceDone, CallerCountsOut,
       EnsureStarted, EnqueueJob, Finish, Cancel, GroupEnd, Shutdown, TakeJob, Poll, DeliverEarly,
       CountOutEarly, WaitRound, Deliver, CountOutLast
  <2> QED BY <2>1, <2>2, <2>3, <2>4
<1> QED BY <1>1, Invariant, PTL DEF AsyncSpec, ArrayLeftAlone

\* A promise is completed once (yona_rt_promise_complete), as ok if the result is
\* in the array, as failed if it is not.
THEOREM PromisesTrue == AsyncSpec => PromiseTellsTheTruth
<1>1. ASSUME IInv, IInv', [AsyncNext]_asyncVars
      PROVE  [\A c \in Calls :
                /\ promise[c] \in {"none", "pending"} \/ promise'[c] = promise[c]
                /\ promise'[c] = "ok" => copied'[c]
                /\ promise'[c] = "failed" => ~copied'[c]]_asyncVars
  <2>1. ASSUME NEW c \in Calls
        PROVE  promise[c] \in {"none", "pending"} \/ promise'[c] = promise[c]
    <3> USE <1>1 DEF IInv, AsyncTypeOK
    <3>1. CASE UNCHANGED promise
      BY <3>1
    <3>2. ASSUME NEW d \in Calls, NEW r, Complete(d, r)
          PROVE  promise[c] \in {"none", "pending"} \/ promise'[c] = promise[c]
      BY <3>2 DEF Complete
    <3>3. ASSUME NEW d \in Calls, Call(d) \/ CallInPlace(d)
          PROVE  promise[c] \in {"none", "pending"} \/ promise'[c] = promise[c]
      BY <3>3 DEF Call, CallInPlace, MayCall, CallersExact
    <3>4. ASSUME NEW d \in Calls, CallFails(d) \/ CallEmpty(d) \/ CallCancelled(d) \/ InPlaceDone(d)
          PROVE  promise[c] \in {"none", "pending"} \/ promise'[c] = promise[c]
      BY <3>2, <3>4 DEF CallFails, CallEmpty, CallCancelled, InPlaceDone
    <3>5. CASE DeliverEarly \/ Deliver
      BY <3>1, <3>2, <3>5, CallAssumption DEF DeliverEarly, Deliver, FenceAt
    <3>6. \/ UNCHANGED promise
          \/ \E d \in Calls : \/ Call(d) \/ CallInPlace(d)
                              \/ CallFails(d) \/ CallEmpty(d) \/ CallCancelled(d) \/ InPlaceDone(d)
          \/ DeliverEarly \/ Deliver
      BY DEF AsyncNext, Caller, Worker, asyncVars, CallerCountsOut, EnsureStarted, EnqueueJob, Finish, Cancel,
         GroupEnd, Shutdown, TakeJob, Poll, CountOutEarly, WaitRound, CopyBack, CountOutLast
    <3> QED BY <3>1, <3>3, <3>4, <3>5, <3>6
  <2>2. \A c \in Calls : (promise'[c] = "ok" => copied'[c]) /\ (promise'[c] = "failed" => ~copied'[c])
    BY <1>1 DEF IInv, Truth
  <2> QED BY <2>1, <2>2
<1> QED BY <1>1, Invariant, PTL DEF AsyncSpec, PromiseTellsTheTruth
==============================================================================
