------------------------------- MODULE GpuCalls -------------------------------
(***************************************************************************)
(* Calls of the GPU backends.  A call takes a lock, builds the pipelines   *)
(* that are not built yet, acquires buffers, memories, mappings, pools and *)
(* a fence one after the other, records commands, submits them, waits,     *)
(* copies the result and gives everything back.  Any acquisition may fail, *)
(* and a failure is a goto to a label that gives back what is not null.    *)
(*                                                                         *)
(* What a call does is data: Script gives each call its labels and each    *)
(* label its steps, in the order of the code (modules VulkanScripts and    *)
(* FloatScripts).  This module says what the steps do to the local         *)
(* handles, to the objects of the device, to the visibility of buffers, to *)
(* what is cached and to the locks, and lets threads take turns.           *)
(***************************************************************************)
EXTENDS GpuSteps, GpuMemory, FiniteSets

CONSTANTS Threads,     \* threads that call the backend
          Ops,         \* the calls there are
          Script,      \* call -> label -> the steps there
          Locks,       \* the mutexes
          Buffers,     \* the buffers that commands are recorded about
          Observed,    \* the calls whose reads ReadsTheLatest is about
          Serial,      \* the calls that wait for what they submit
          Starts,      \* thread -> a call, for each program: the one it thinks of first
          After,       \* call -> the calls the same thread may make later
          Twice,       \* <<call, label, handle>>: destroyed there though it may be gone
          NoThread     \* the owner of a free lock

(* The scripts, as one table.  A call begins at "entry". *)
Program == [o \in Ops |-> [l \in DOMAIN Script[o] |-> Script[o][l]]]

(* Every label of a call ends with a jump or a return, and jumps lead to labels. *)
LastOf(steps) == steps[Len(steps)]
WellFormed(p) ==
  /\ "entry" \in DOMAIN p /\ "idle" \notin DOMAIN p
  /\ \A l \in DOMAIN p :
       /\ Len(p[l]) \in Nat \ {0} /\ LastOf(p[l]).do \in {"goto", "return"}
       /\ \A i \in 1 .. Len(p[l]) : LET s == p[l][i] IN
            (s.do \in {"goto", "if"} => s.to \in DOMAIN p) /\ ("or" \in DOMAIN s => s.or \in DOMAIN p)

ASSUME ScriptAssumption ==
  /\ NoThread \notin Threads
  /\ Starts \subseteq [Threads -> Ops] /\ After \in [Ops -> SUBSET Ops]
  /\ \A o \in Ops : WellFormed(Program[o])

VARIABLES
  op,     \* thread -> the call it is in
  label,  \* thread -> the label it is at, or "idle"
  at,     \* thread -> the step of that label that comes next
  named,  \* thread -> the handles its local variables hold
  live,   \* thread -> the objects it has created, or taken over, and not destroyed
  view,   \* buffer -> what is known of its contents, see Fresh
  built,  \* the flags that are set: pipelines that are ready, a device that is there
  lock    \* mutex -> its owner

vars == <<op, label, at, named, live, view, built, lock>>
-----------------------------------------------------------------------------
Busy(t) == Work \in live[t]

Init == /\ op \in Starts
        /\ label = [t \in Threads |-> "idle"]
        /\ at = [t \in Threads |-> 1]
        /\ named = [t \in Threads |-> {}]
        /\ live = [t \in Threads |-> {}]
        /\ view = [b \in Buffers |-> Fresh]
        /\ built = {}
        /\ lock = [m \in Locks |-> NoThread]

Running(t) == label[t] # "idle"
(* The step that comes next, if there is one. *)
Steps(t) == IF Running(t) THEN {Program[op[t]][label[t]][at[t]]} ELSE {}

\* Mutant: a jump forgets to begin at the first step.
GotoBefore(t, l) == label' = [label EXCEPT ![t] = l] /\ at' = [at EXCEPT ![t] = 0]
Goto(t, l) == label' = [label EXCEPT ![t] = l] /\ at' = [at EXCEPT ![t] = 1]
Onward(t) == at' = [at EXCEPT ![t] = @ + 1] /\ UNCHANGED label
-----------------------------------------------------------------------------
(* A call begins when what it waits for has happened, or when the program has *)
(* seen to what it must not find.                                            *)
Ready(o) == LET s == Program[o]["entry"][1] IN
            s.do = "when" => s.has \subseteq built /\ s.hasnt \cap built = {}
Begin(t, o) ==
  /\ ~Running(t) /\ o \in After[op[t]] /\ Ready(o)
  /\ op' = [op EXCEPT ![t] = o]
  /\ Goto(t, "entry")
  /\ UNCHANGED <<named, live, view, built, lock>>

Acquire(t, s) ==
  /\ s.do = "lock" /\ lock[s.m] = NoThread
  /\ lock' = [lock EXCEPT ![s.m] = t]
  /\ Onward(t)
  /\ UNCHANGED <<op, named, live, view, built>>

Release(t, s) ==
  /\ s.do = "unlock"
  /\ lock' = [lock EXCEPT ![s.m] = NoThread]
  /\ Onward(t)
  /\ UNCHANGED <<op, named, live, view, built>>

(* vkCreate, vkAllocate, vkMap, malloc: the local variable holds the handle. *)
Create(t, s) ==
  /\ s.do = "new"
  /\ named' = [named EXCEPT ![t] = @ \cup {s.h}]
  /\ live' = [live EXCEPT ![t] = @ \cup {s.h}]
  /\ Onward(t)
  /\ UNCHANGED <<op, view, built, lock>>

(* vkDestroy, vkFree, vkUnmap, free, unless the handle is null; afterwards it is, *)
(* if the step says so.                                                           *)
Destroy(t, s) ==
  /\ s.do = "free"
  /\ IF s.h \in named[t]
     THEN /\ live' = [live EXCEPT ![t] = Without(@, s.h)]
          /\ named' = [named EXCEPT ![t] = IF s.nulls THEN @ \ {s.h} ELSE @]
          /\ view' = [b \in Buffers |-> IF s.h \in {<<"buf", b>>, <<"mem", b>>} THEN Fresh ELSE view[b]]
     ELSE UNCHANGED <<live, named, view>>
  /\ Onward(t)
  /\ UNCHANGED <<op, built, lock>>

(* A flag is set, and objects belong to it, or to a job, from now on. *)
Keep(t, s) ==
  /\ s.do = "keep"
  /\ built' = built \cup s.flags
  /\ live' = [live EXCEPT ![t] = @ \ s.objects]
  /\ named' = [named EXCEPT ![t] = @ \ s.objects]
  /\ Onward(t)
  /\ UNCHANGED <<op, view, lock>>

(* The opposite, when a cache is emptied or a job is done; "adopt" is for those *)
(* objects whose flag is set.                                                   *)
Adopt(t, s) ==
  /\ s.do = "adopt"
  /\ LET mine == IF s.flag \in built THEN s.objects ELSE {} IN
       /\ live' = [live EXCEPT ![t] = @ \cup mine]
       /\ named' = [named EXCEPT ![t] = @ \cup mine]
       /\ built' = built \ {s.flag}
  /\ Onward(t)
  /\ UNCHANGED <<op, view, lock>>

(* Recording, host accesses, and calls that can only fail. *)
Do(t, s) ==
  /\ s.do \in {"when", "can", "cmd", "barrier", "hostwrite", "hostread"}
  /\ view' = Recorded(view, s)
  /\ Onward(t)
  /\ UNCHANGED <<op, named, live, built, lock>>

Enqueue(t, s) ==
  /\ s.do = "submit"
  /\ live' = [live EXCEPT ![t] = @ \cup {Work}]
  /\ Onward(t)
  /\ UNCHANGED <<op, named, view, built, lock>>

Await(t, s) ==
  /\ s.do = "wait"
  /\ live' = [live EXCEPT ![t] = @ \ {Work}]
  /\ view' = [b \in Buffers |-> Completed(view[b])]
  /\ Onward(t)
  /\ UNCHANGED <<op, named, built, lock>>

Jump(t, s) ==
  /\ s.do = "goto"
  /\ Goto(t, s.to)
  /\ UNCHANGED <<op, named, live, view, built, lock>>

Branch(t, s) ==
  /\ s.do = "if"
  /\ IF s.flag \in built THEN Goto(t, s.to) ELSE Onward(t)
  /\ UNCHANGED <<op, named, live, view, built, lock>>

(* A step that fails jumps.  A wait that fails has lost the device, on which *)
(* nothing runs any more.                                                    *)
Fail(t, s) ==
  /\ "or" \in DOMAIN s
  /\ Goto(t, s.or)
  /\ live' = [live EXCEPT ![t] = IF s.do = "wait" THEN @ \ {Work} ELSE @]
  /\ UNCHANGED <<op, named, view, built, lock>>

(* The local variables are gone. *)
Return(t, s) ==
  /\ s.do = "return"
  /\ Goto(t, "idle")
  /\ named' = [named EXCEPT ![t] = {}]
  /\ UNCHANGED <<op, live, view, built, lock>>

Advance(t, s) ==
  \/ Release(t, s) \/ Create(t, s) \/ Destroy(t, s) \/ Keep(t, s) \/ Adopt(t, s) \/ Do(t, s)
  \/ Enqueue(t, s) \/ Await(t, s) \/ Jump(t, s) \/ Branch(t, s) \/ Return(t, s)
Next == \E t \in Threads : \/ \E o \in Ops : Begin(t, o)
                           \/ \E s \in Steps(t) : Acquire(t, s) \/ Advance(t, s) \/ Fail(t, s)
Spec == Init /\ [][Next]_vars
-----------------------------------------------------------------------------
(* The types of the variables. *)
Labels == UNION {DOMAIN Program[o] : o \in Ops}
TypeOK ==
  /\ op \in [Threads -> Ops] /\ label \in [Threads -> Labels \cup {"idle"}]
  /\ at \in [Threads -> Nat \ {0}]
  /\ lock \in [Locks -> Threads \cup {NoThread}]

(* Between two calls nothing is left of the calls that are over, no object and *)
(* no lock: whatever step failed, of building a pipeline, of trying staging    *)
(* buffers or of the call itself, the labels it went through gave back all.    *)
NothingLeaks ==
  \A t \in Threads : ~Running(t) => live[t] = {} /\ \A m \in Locks : lock[m] # t

(* No step destroys, unmaps or frees an object that is gone already, neither *)
(* itself nor with the pool or the memory it was part of: except for the     *)
(* ones named by Twice, which are defects of the code.                       *)
Destroys(t) == {s \in Steps(t) : s.do = "free" /\ s.h \in named[t]}
NothingFreedTwice ==
  \A t \in Threads : \A s \in Destroys(t) : s.h \in live[t] \/ <<op[t], label[t], s.h>> \in Twice

(* No object of the device is destroyed while the device may still run the   *)
(* commands that use it, and the device last: by then no thread, no cache    *)
(* and no job has an object of it.  (The two backends have a device each,    *)
(* and no program uses both.)                                                *)
Owners == OwnersOf({Program[o] : o \in Ops})
NothingFreedInUse ==
  \A t \in Threads : \A s \in Destroys(t) :
    /\ OnHost(s.h) \/ ~Busy(t)
    /\ s.h[1] = "dev" =>
         /\ \A u \in Threads : \A h \in live[u] : OnHost(h) \/ (u = t /\ h[1] \in {"dev", "inst"})
         /\ built \cap Owners = {}

(* A command, or the host, reads of a buffer what was written last: the write *)
(* is over, and it has been made visible to the reader.  A command does not   *)
(* overwrite what an earlier one may still be using.                          *)
ReadsTheLatest ==
  \A t \in Threads : \A s \in Steps(t) : op[t] \in Observed =>
    InOrder(view, s) /\ (s.do \in {"hostread", "hostwrite"} => ~Busy(t))

(* "queue submit and fence wait are serialized" (docs/gpu-architecture.md): of *)
(* the synchronous calls one at a time has work on the device.  A pipeline and *)
(* a device are built once, however many calls find them missing, and nobody   *)
(* gives back a lock that is not its own.                                      *)
OneAtATime ==
  /\ \A t, u \in Threads : Busy(t) /\ Busy(u) /\ {op[t], op[u]} \subseteq Serial => t = u
  /\ \A t \in Threads : \A s \in Steps(t) :
       /\ s.do = "keep" /\ s.objects # {} => s.flags \cap built = {}
       /\ s.do = "unlock" => lock[s.m] = t
==============================================================================
