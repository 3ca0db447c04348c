-------------------------------- MODULE Unwind --------------------------------
(***************************************************************************)
(* Raising an exception (exceptions.c) through compiled code.  A thread    *)
(* keeps, beside its C stack, four things that a raise must bring back to  *)
(* where the handler's try began: the handlers, the chain of frames that   *)
(* own a function's parameters, the groups of the lets that are open, and  *)
(* yona_try_depth, a copy of the number of handlers that compiled code     *)
(* reads.                                                                  *)
(*                                                                         *)
(* The program is any nesting of functions, tries and lets of several      *)
(* bindings.  A function is one the compiler gives a frame: it owns a      *)
(* parameter on the heap and does not call itself in tail position.  A     *)
(* handler is the code that goes on after a raise, wherever its try was.   *)
(***************************************************************************)
EXTENDS Integers, Sequences, FiniteSets, SequencesExt

CONSTANTS MaxTry,    \* YONA_MAX_TRY_DEPTH
          MaxBind,   \* YONA_MAX_GROUP_ARENA_BIND
          MaxScopes  \* bound: how deep the program nests

ASSUME UnwindAssumption == MaxTry \in Nat \ {0} /\ MaxBind \in Nat \ {0} /\ MaxScopes \in Nat

VARIABLES
  stack,     \* the scopes the program is in; a scope is named by its position
  depth,     \* yona_exc.depth
  buf,       \* yona_exc.buf and saved_frame: what try_push stored; unused slots are clear
  tryDepth,  \* yona_try_depth
  frame,     \* yona_current_frame: the position of the frame's function
  bind,      \* yona_group_arena_stack: [scope, depth] for each open let
  status,    \* "runs", "aborted", or "undefined": freed or wild memory was used
  ended,     \* history: the scopes whose groups the last step ended
  released   \* history: the functions whose parameter the last step released

vars == <<stack, depth, buf, tryDepth, frame, bind, status, ended, released>>

NoFrame == 0
Unused == [scope |-> 0, frame |-> NoFrame]
Wild == -1    \* what a frame's uninitialised prev holds, when it is not NULL

Top == Len(stack)
TopIs(kind) == stack # <<>> /\ stack[Top].kind = kind
Scopes(kind) == {i \in DOMAIN stack : stack[i].kind = kind}
Innermost(kind) == CHOOSE i \in Scopes(kind) : \A j \in Scopes(kind) : j <= i

Init ==
  /\ stack = <<>> /\ depth = 0 /\ tryDepth = 0
  /\ buf = [d \in 0 .. MaxTry - 1 |-> Unused]
  /\ frame = NoFrame /\ bind = <<>>
  /\ status = "runs" /\ ended = {} /\ released = {}

Runs == status = "runs"
Ends(s) ==
  /\ status' = s /\ ended' = {} /\ released' = {}
  /\ UNCHANGED <<stack, depth, buf, tryDepth, frame, bind>>
Enters(scope) ==
  /\ Runs /\ Top < MaxScopes /\ stack' = Append(stack, scope)
  /\ ended' = {} /\ released' = {}
-----------------------------------------------------------------------------
(* A function. *)

(* The prologue: a frame is set up if yona_try_depth says there is a handler; *)
(* frame_push links it only if there is one.                                  *)
Setup == IF tryDepth = 0 THEN "none" ELSE IF depth = 0 THEN "unlinked" ELSE "linked"
Fn == [kind |-> "fn", frame |-> Setup, prev |-> frame, held |-> TRUE, drop |-> Setup = "linked"]
\* Mutant: only the first frame is linked.
LinkFirst(i) == frame' = IF Setup = "linked" /\ frame = NoFrame THEN i ELSE frame
Link(i) == frame' = IF Setup = "linked" THEN i ELSE frame

Call ==
  /\ Enters(Fn) /\ Link(Top + 1)
  /\ UNCHANGED <<depth, buf, tryDepth, bind, status>>

(* A call that is the last use of the function's parameter hands it over:  *)
(* frame_transfer clears it in the current frame, if that frame has it.    *)
Owner == Innermost("fn")
MayHandOver == Runs /\ Scopes("fn") # {} /\ stack[Owner].held

\* Mutant: the frame still has the parameter.
HandOverKeeping ==
  /\ MayHandOver /\ frame # Wild /\ Top < MaxScopes
  /\ stack' = Append([stack EXCEPT ![Owner].held = FALSE], Fn)
  /\ Link(Top + 1)
  /\ ended' = {} /\ released' = {}
  /\ UNCHANGED <<depth, buf, tryDepth, bind, status>>

HandOver ==
  /\ MayHandOver /\ frame # Wild /\ Top < MaxScopes
  /\ stack' = Append([stack EXCEPT ![Owner].held = FALSE, ![Owner].drop = @ /\ frame # Owner], Fn)
  /\ Link(Top + 1)
  /\ ended' = {} /\ released' = {}
  /\ UNCHANGED <<depth, buf, tryDepth, bind, status>>

HandOverWild == MayHandOver /\ frame = Wild /\ Ends("undefined")

(* The epilogue: the parameter is released, and frame_pop follows prev, which *)
(* frame_push has not written in a frame it did not link.                     *)
Return ==
  /\ Runs /\ TopIs("fn")
  /\ stack' = Front(stack) /\ ended' = {}
  /\ released' = IF stack[Top].held THEN {Top} ELSE {}
  /\ frame' \in CASE stack[Top].frame = "none" -> {frame}
                  [] stack[Top].frame = "linked" -> {stack[Top].prev}
                  [] OTHER -> {NoFrame, Wild}
  /\ UNCHANGED <<depth, buf, tryDepth, bind, status>>
-----------------------------------------------------------------------------
(* A try, and a raise. *)
TryBegin ==
  /\ depth < MaxTry /\ Enters([kind |-> "try"])
  /\ buf' = [buf EXCEPT ![depth] = [scope |-> Top + 1, frame |-> frame]]
  /\ depth' = depth + 1 /\ tryDepth' = depth + 1
  /\ UNCHANGED <<frame, bind, status>>
TryTooDeep == Runs /\ depth = MaxTry /\ Ends("aborted")

TryEnd ==
  /\ Runs /\ TopIs("try")
  /\ stack' = Front(stack) /\ ended' = {} /\ released' = {}
  /\ depth' = depth - 1 /\ tryDepth' = depth - 1 /\ buf' = [buf EXCEPT ![depth - 1] = Unused]
  /\ UNCHANGED <<frame, bind, status>>

(* yona_rt_unwind_frames_to(stop): from the current frame along prev, up to *)
(* stop or NULL.  Stops is where it may end; Passed, what it goes past.      *)
Walk(stop) ==
  LET from[f \in Scopes("fn") \cup {NoFrame, Wild}] ==
        IF f \in {NoFrame, Wild, stop} THEN {f} ELSE {f} \cup from[stack[f].prev]
  IN  from[frame]
Stops(stop) == Walk(stop) \cap {NoFrame, stop}
Passed(stop) == (Walk(stop) \cap Scopes("fn")) \ {stop}

\* Mutant: the groups begun inside the innermost try are taken for its handler's.
KeptOneTooMany(d) == {n \in DOMAIN bind : bind[n].depth <= d + 1}
(* yona_rt_group_arena_unwind_to(d) ends bindings from the last down to the *)
(* first of these it meets.                                                 *)
Kept(d) == {n \in DOMAIN bind : bind[n].depth <= d}
Unbound(d) == {n \in DOMAIN bind : \A m \in Kept(d) : m < n}
Groups(d) == {bind[n].scope : n \in Unbound(d)}

\* Mutant: the handler is not popped.
RaiseKeepsHandler ==
  LET d == depth - 1
      handler == buf[d]
  IN  /\ Runs /\ depth > 0 /\ Stops(handler.frame) # {}
      /\ stack' = [i \in 1 .. handler.scope - 1 |-> IF i \in Groups(d) THEN [stack[i] EXCEPT !.open = FALSE]
                                                                       ELSE stack[i]]
      /\ released' = {i \in Passed(handler.frame) : stack[i].drop}
      /\ frame' \in Stops(handler.frame)
      /\ ended' = Groups(d) /\ bind' = SubSeq(bind, 1, Len(bind) - Cardinality(Unbound(d)))
      /\ UNCHANGED <<depth, buf, tryDepth, status>>

(* yona_rt_raise, and the code after it: the innermost try's handler.        *)
(* yona_try_depth is left as it is.                                          *)
Raise ==
  LET d == depth - 1
      handler == buf[d]
  IN  /\ Runs /\ depth > 0 /\ Stops(handler.frame) # {}
      /\ depth' = d /\ buf' = [buf EXCEPT ![d] = Unused]
      /\ stack' = [i \in 1 .. handler.scope - 1 |-> IF i \in Groups(d) THEN [stack[i] EXCEPT !.open = FALSE]
                                                                       ELSE stack[i]]
      /\ released' = {i \in Passed(handler.frame) : stack[i].drop}
      /\ frame' \in Stops(handler.frame)
      /\ ended' = Groups(d) /\ bind' = SubSeq(bind, 1, Len(bind) - Cardinality(Unbound(d)))
      /\ UNCHANGED <<tryDepth, status>>

RaiseUnhandled == Runs /\ depth = 0 /\ Ends("aborted")
-----------------------------------------------------------------------------
(* A let of several bindings: a group, bound for the unwinder. *)

\* Mutant: room for one more than there is.
LetBeginUnlimited ==
  /\ Len(bind) <= MaxBind /\ Enters([kind |-> "let", open |-> TRUE, exact |-> tryDepth = depth])
  /\ bind' = Append(bind, [scope |-> Top + 1, depth |-> tryDepth])
  /\ UNCHANGED <<depth, buf, tryDepth, frame, status>>

(* "exact" is history: what is recorded is the number of handlers. *)
LetBegin ==
  /\ Len(bind) < MaxBind /\ Enters([kind |-> "let", open |-> TRUE, exact |-> tryDepth = depth])
  /\ bind' = Append(bind, [scope |-> Top + 1, depth |-> tryDepth])
  /\ UNCHANGED <<depth, buf, tryDepth, frame, status>>
LetTooDeep == Runs /\ Len(bind) = MaxBind /\ Ends("aborted")

(* The body has its value, and so have the children (a child's error is a    *)
(* Raise): await_all, bind_pop, group_end.                                   *)
LetEnd ==
  /\ Runs /\ TopIs("let") /\ stack[Top].open
  /\ stack' = Front(stack) /\ ended' = {Top} /\ released' = {}
  /\ bind' = IF bind = <<>> THEN bind ELSE Front(bind)
  /\ UNCHANGED <<depth, buf, tryDepth, frame, status>>

(* await_all reads a group that a raise has ended. *)
LetEndedBefore == Runs /\ TopIs("let") /\ ~stack[Top].open /\ Ends("undefined")
-----------------------------------------------------------------------------
Next == \/ Call \/ HandOver \/ HandOverWild \/ Return
        \/ TryBegin \/ TryTooDeep \/ TryEnd \/ Raise \/ RaiseUnhandled
        \/ LetBegin \/ LetTooDeep \/ LetEnd \/ LetEndedBefore
Spec == Init /\ [][Next]_vars
-----------------------------------------------------------------------------
(* The types of the variables; yona_try_depth never says less than depth. *)
ScopeType ==
  [kind : {"fn"}, frame : {"none", "unlinked", "linked"}, prev : Int, held : BOOLEAN, drop : BOOLEAN]
    \cup [kind : {"try"}] \cup [kind : {"let"}, open : BOOLEAN, exact : BOOLEAN]
TypeOK ==
  /\ stack \in Seq(ScopeType) /\ Top <= MaxScopes
  /\ depth \in 0 .. MaxTry /\ tryDepth \in depth .. MaxTry
  /\ buf \in [0 .. MaxTry - 1 -> [scope : Nat, frame : Int]]
  /\ frame \in Scopes("fn") \cup {NoFrame, Wild}
  /\ bind \in Seq([scope : Nat \ {0}, depth : 0 .. MaxTry]) /\ Len(bind) <= MaxBind
  /\ status \in {"runs", "aborted", "undefined"}
  /\ ended \subseteq Nat /\ released \subseteq Nat

(* The handlers are the tries the program is in, in order: a raise never     *)
(* jumps into a scope that has been left, nor past one that has not.         *)
HandlersLive ==
  /\ Cardinality(Scopes("try")) = depth
  /\ \A d \in 0 .. depth - 1 :
       buf[d].scope \in Scopes("try") /\ \A e \in 0 .. d - 1 : buf[e].scope < buf[d].scope

(* While there is a handler, the frame that frame_transfer looks into is     *)
(* the innermost function's, if that function was called in a try: it never  *)
(* clears another one's parameter, nor misses.  And the frame each try saved *)
(* is still in the chain: unwinding to it meets it, and follows nothing that *)
(* was never written, whatever functions called after an earlier raise have  *)
(* left behind.                                                              *)
ChainIntact ==
  /\ \A f \in Scopes("fn") : f = Owner /\ stack[f].frame = "linked" => frame = f
  /\ \A d \in 0 .. depth - 1 : buf[d].frame \in Stops(buf[d].frame)

(* Groups end as their scopes are left, by value or by a raise from any      *)
(* depth, once: "raise destroys arenas for bindings deeper than the catch    *)
(* we're jumping to" (exceptions.c:79).  (For those recorded at the depth    *)
(* they are at; the others may be ended too early, not too late.)            *)
Gone(i) == i \in DOMAIN stack /\ i > Len(stack')
GroupsEndedAsLeft ==
  [][/\ \A i \in Scopes("let") : stack[i].exact => (Gone(i) <=> i \in ended')
     /\ \A i \in Scopes("let") : Gone(i) /\ stack[i].open => i \in ended'
     /\ ended' \subseteq {i \in Scopes("let") : stack[i].open}]_vars

(* A parameter is released when its function is left, by value or by a raise *)
(* that passes it, unless it was handed over; and by nobody else.            *)
ParamsReleasedOnce ==
  [][released' = {i \in Scopes("fn") : Gone(i) /\ stack[i].held}]_vars

(* "Raise destroys arenas for bindings deeper than the catch we're jumping   *)
(* to" (exceptions.c:79), and no others: the scope whose group is ended is   *)
(* being left.                                                               *)
OnlyDeeperGroups == [][\A i \in ended' : Gone(i)]_vars
==============================================================================
