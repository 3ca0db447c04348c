----------------------------- MODULE UnwindProofs -----------------------------
(***************************************************************************)
(* Theorems about Unwind, however deep the program nests and however many  *)
(* handlers and bindings the runtime has room for.                         *)
(*                                                                         *)
(* The argument: whatever was called and raised before, the handlers are   *)
(* the tries in order (Handlers), the bindings the open lets in order      *)
(* (Bound), and the depth recorded with a binding is above that of every   *)
(* try around it (Recorded); so what a raise unbinds is a suffix that has  *)
(* all the lets it leaves.                                                 *)
(*                                                                         *)
(* The chain of frames is a recursive function of the stack.  That it has  *)
(* a solution, and what the solution is, are proved by the frame that      *)
(* would be the first without: each prev is the frame of the function next *)
(* below in the chain (Chained), so a walk to a handler's frame passes the *)
(* functions called since its try began, and no others; and each of these  *)
(* frames drops what its function still has (Owned).                       *)
(***************************************************************************)
EXTENDS Unwind, SequenceTheorems, FiniteSetTheorems, WellFoundedInduction, TLAPS

\* The frames there are: the linked functions below position i, or none, or what
\* a function called between two raises has left.
Frames(i) == {NoFrame, Wild} \cup {f \in Scopes("fn") : f < i /\ stack[f].frame = "linked"}

FramesKnown ==
  /\ frame \in Frames(Top + 1)
  /\ \A f \in Scopes("fn") : stack[f].prev \in Frames(f)
  /\ \A d \in 0 .. depth - 1 : buf[d].frame \in Frames(buf[d].scope)

\* Every try has its handler, the outer ones first.
Handlers ==
  /\ \A i \in Scopes("try") : \E d \in 0 .. depth - 1 : buf[d].scope = i
  /\ \A d \in 0 .. depth - 1 :
       buf[d].scope \in Scopes("try") /\ \A e \in 0 .. d - 1 : buf[e].scope < buf[d].scope

\* The open lets are bound, the outer ones first.
Bound ==
  /\ \A i \in Scopes("let") : stack[i].open => \E n \in DOMAIN bind : bind[n].scope = i
  /\ \A n \in DOMAIN bind :
       /\ bind[n].scope \in Scopes("let") /\ stack[bind[n].scope].open
       /\ \A m \in 1 .. n - 1 : bind[m].scope < bind[n].scope

\* What is recorded for a let counts the tries around it, and no others if it
\* is exact.
Recorded ==
  \A n \in DOMAIN bind :
    /\ stack[bind[n].scope].exact => bind[n].depth <= depth
    /\ \A d \in 0 .. depth - 1 :
         /\ buf[d].scope < bind[n].scope => d < bind[n].depth
         /\ stack[bind[n].scope].exact /\ d < bind[n].depth => buf[d].scope < bind[n].scope

\* As many tries as handlers.
Counted == Cardinality(Scopes("try")) = depth

\* No raise has ended the group of an open let whose recorded depth is exact.
ExactOpen == \A i \in Scopes("let") : stack[i].exact => stack[i].open

IInv == TypeOK /\ FramesKnown /\ Handlers /\ Bound /\ Recorded /\ ExactOpen /\ Counted

-----------------------------------------------------------------------------
(* The stack *)

\* What no step but a raise's and a hand-over's changes in a scope.
Alike(i) ==
  /\ stack'[i].kind = stack[i].kind
  /\ stack[i].kind = "fn" => stack'[i].frame = stack[i].frame /\ stack'[i].prev = stack[i].prev
  /\ stack[i].kind = "let" => stack'[i].exact = stack[i].exact
SameOpen(i) == stack[i].kind = "let" => stack'[i].open = stack[i].open

Grows(x) ==
  /\ stack' \in Seq(ScopeType) /\ Len(stack') = Top + 1 /\ stack'[Top + 1] = x
  /\ \A i \in 1 .. Top : Alike(i) /\ SameOpen(i)
Shrinks(k) ==
  /\ stack' \in Seq(ScopeType) /\ k \in 0 .. Top /\ Len(stack') = k
  /\ \A i \in 1 .. k : Alike(i)
Pops == Top > 0 /\ Shrinks(Top - 1) /\ \A i \in 1 .. Top - 1 : SameOpen(i)

\* The scopes of a kind, by their positions.
LEMMA ScopesAre ==
  ASSUME TypeOK
  PROVE  /\ Top \in Nat /\ DOMAIN stack = 1 .. Top
         /\ \A i \in 1 .. Top : stack[i] \in ScopeType
         /\ \A kind : Scopes(kind) = {i \in 1 .. Top : stack[i].kind = kind}
BY DEF TypeOK, Scopes, Top

LEMMA ScopesGrow ==
  ASSUME TypeOK, NEW x, Grows(x), NEW kind
  PROVE  Scopes(kind)' = Scopes(kind) \cup {i \in {Top + 1} : x.kind = kind}
<1>1. DOMAIN stack' = 1 .. Top + 1 /\ Top \in Nat
  BY ScopesAre DEF Grows
<1>2. Scopes(kind)' = {i \in 1 .. Top + 1 : stack'[i].kind = kind}
  BY <1>1 DEF Scopes
<1> QED BY <1>1, <1>2, ScopesAre DEF Grows, Alike

LEMMA ScopesShrink ==
  ASSUME TypeOK, NEW k, Shrinks(k), NEW kind
  PROVE  Scopes(kind)' = {i \in Scopes(kind) : i <= k}
<1>1. DOMAIN stack' = 1 .. k /\ Top \in Nat /\ k \in 0 .. Top
  BY ScopesAre DEF Shrinks
<1>2. Scopes(kind)' = {i \in 1 .. k : stack'[i].kind = kind}
  BY <1>1 DEF Scopes
<1> QED BY <1>1, <1>2, ScopesAre DEF Shrinks, Alike

\* The front of a sequence.
LEMMA FrontIs ==
  ASSUME NEW S, NEW s \in Seq(S), s # <<>>
  PROVE  /\ Len(s) > 0 /\ Front(s) \in Seq(S) /\ Len(Front(s)) = Len(s) - 1
         /\ \A i \in 1 .. Len(s) - 1 : Front(s)[i] = s[i]
<1>1. Len(s) \in Nat /\ Len(s) > 0 /\ \A i \in 1 .. Len(s) - 1 : s[i] \in S
  OBVIOUS
<1> DEFINE n == Len(s) - 1
<1>2. /\ SubSeq(s, 1, n) \in Seq(S) /\ Len(SubSeq(s, 1, n)) = IF 1 <= n THEN n - 1 + 1 ELSE 0
      /\ \A i \in 1 .. n - 1 + 1 : SubSeq(s, 1, n)[i] = s[1 + i - 1]
  BY <1>1, SubSeqProperties
<1>3. Front(s) = SubSeq(s, 1, n) /\ n \in Nat
  BY <1>1 DEF Front
<1> HIDE DEF n
<1>4. /\ Len(Front(s)) = n
      /\ \A i \in 1 .. n : Front(s)[i] = s[i]
  BY <1>2, <1>3
<1> QED BY <1>1, <1>2, <1>3, <1>4 DEF n

\* Of the numbers in a set, one is the smallest.
LEMMA SmallestOf ==
  ASSUME NEW I \in SUBSET Nat, I # {}
  PROVE  \E i \in I : \A j \in I : i <= j
<1> DEFINE R == {ss \in Nat \X Nat : ss[1] < ss[2]}
<1>1. IsWellFoundedOn(R, Nat)
  BY NatLessThanWellFounded DEF OpToRel
<1>2. \A k, n \in Nat : k < n => <<k, n>> \in R
  OBVIOUS
<1> HIDE DEF R
<1>3. PICK i \in I : \A j \in I : ~ (<<j, i>> \in R)
  BY <1>1, WFMin
<1>4. ASSUME NEW j \in I  PROVE i <= j
  <2>1. i \in Nat /\ j \in Nat  OBVIOUS
  <2>2. ~(j < i)  BY <1>2, <1>3, <2>1, Zenon
  <2> QED BY <2>1, <2>2
<1> QED BY <1>4

\* Of the numbers up to a bound that are in a set, one is the largest.
LEMMA LargestOf ==
  ASSUME NEW b \in Nat, NEW I \in SUBSET (1 .. b), I # {}
  PROVE  \E i \in I : \A j \in I : j <= i
<1> DEFINE S == {n \in Nat : b - n \in I}
<1>1. \A i \in I : i \in Nat /\ b - i \in S
  OBVIOUS
<1>2. S \in SUBSET Nat /\ S # {}
  BY <1>1
<1>3. \A n \in S : b - n \in I
  OBVIOUS
<1> HIDE DEF S
<1>4. PICK n \in S : \A m \in S : n <= m
  BY <1>2, SmallestOf
<1>5. ASSUME NEW j \in I  PROVE j <= b - n
  BY <1>1, <1>2, <1>4
<1> QED BY <1>3, <1>5

\* The innermost function is one of the functions.
LEMMA OwnerIs ==
  ASSUME TypeOK, Scopes("fn") # {}
  PROVE  Owner \in Scopes("fn")
<1>1. Top \in Nat /\ Scopes("fn") \subseteq 1 .. Top
  BY ScopesAre
<1>2. \E i \in Scopes("fn") : \A j \in Scopes("fn") : j <= i
  BY <1>1, LargestOf
<1> QED BY <1>2 DEF Owner, Innermost

\* How each action changes the stack.
LEMMA CallGrows ==
  ASSUME TypeOK, Call \/ HandOver
  PROVE  /\ Fn \in ScopeType /\ Grows(Fn) /\ frame' = IF Setup = "linked" THEN Top + 1 ELSE frame
         /\ UNCHANGED <<depth, buf, tryDepth, bind, status>> /\ ended' = {} /\ released' = {}
         /\ Top < MaxScopes
<1>0. Fn \in ScopeType
  BY ScopesAre DEF TypeOK, Fn, Setup, ScopeType, NoFrame, Wild
<1>1. CASE Call
  <2>1. Grows(Fn)
    BY <1>0, <1>1, ScopesAre DEF TypeOK, Call, Enters, Grows, Alike, SameOpen
  <2> QED BY <1>0, <1>1, <2>1 DEF Call, Enters, Link
<1>2. CASE HandOver
  <2> DEFINE s == [stack EXCEPT ![Owner].held = FALSE, ![Owner].drop = @ /\ frame # Owner]
  <2>1. stack \in Seq(ScopeType) /\ Owner \in 1 .. Top /\ stack[Owner].kind = "fn"
    BY <1>2, OwnerIs, ScopesAre DEF TypeOK, HandOver, MayHandOver
  <2>2. stack[Owner] \in [kind : {"fn"}, frame : {"none", "unlinked", "linked"}, prev : Int,
                          held : BOOLEAN, drop : BOOLEAN]
    BY <2>1, ScopesAre DEF ScopeType
  <2>3. /\ s \in Seq(ScopeType) /\ Len(s) = Top
        /\ \A i \in 1 .. Top : i # Owner => s[i] = stack[i]
        /\ s[Owner].kind = "fn" /\ s[Owner].frame = stack[Owner].frame
        /\ s[Owner].prev = stack[Owner].prev
    <3> DEFINE x == [stack[Owner] EXCEPT !.held = FALSE, !.drop = @ /\ frame # Owner]
    <3>1. s = [stack EXCEPT ![Owner] = x]
      BY <2>1, <2>2
    <3>2. x \in ScopeType /\ x.kind = "fn" /\ x.frame = stack[Owner].frame /\ x.prev = stack[Owner].prev
      BY <2>2 DEF ScopeType
    <3> HIDE DEF x, s
    <3> QED BY <2>1, <3>1, <3>2, ScopesAre DEF Top
  <2>4. stack' = Append(s, Fn)
    BY <1>2 DEF HandOver
  <2> HIDE DEF s
  <2>5. Grows(Fn)
    BY <1>0, <2>1, <2>3, <2>4, ScopesAre DEF Grows, Alike, SameOpen
  <2> QED BY <1>0, <1>2, <2>5 DEF HandOver, Link
<1> QED BY <1>1, <1>2

LEMMA TryBeginGrows ==
  ASSUME TypeOK, TryBegin
  PROVE  Grows([kind |-> "try"])
<1>1. [kind |-> "try"] \in ScopeType
  BY DEF ScopeType
<1>2. stack' = Append(stack, [kind |-> "try"]) /\ stack \in Seq(ScopeType)
  BY DEF TypeOK, TryBegin, Enters
<1> QED BY <1>1, <1>2, ScopesAre DEF Grows, Alike, SameOpen, Top

LEMMA LetBeginGrows ==
  ASSUME TypeOK, LetBegin
  PROVE  Grows([kind |-> "let", open |-> TRUE, exact |-> tryDepth = depth])
<1> DEFINE x == [kind |-> "let", open |-> TRUE, exact |-> tryDepth = depth]
<1>1. x \in ScopeType
  BY DEF ScopeType
<1>2. stack' = Append(stack, x) /\ stack \in Seq(ScopeType)
  BY DEF TypeOK, LetBegin, Enters
<1> HIDE DEF x
<1>3. Grows(x)
  BY <1>1, <1>2, ScopesAre DEF Grows, Alike, SameOpen, Top
<1> QED BY <1>3 DEF x

LEMMA EndPops ==
  ASSUME TypeOK, Return \/ TryEnd \/ LetEnd
  PROVE  Pops
<1>1. stack # <<>> /\ stack' = Front(stack) /\ stack \in Seq(ScopeType)
  BY DEF TypeOK, Return, TryEnd, LetEnd, TopIs
<1>2. /\ Top \in Nat /\ Top > 0 /\ stack' \in Seq(ScopeType) /\ Len(stack') = Top - 1
      /\ \A i \in 1 .. Top - 1 : stack'[i] = stack[i]
  BY <1>1, FrontIs DEF Top
<1> QED BY <1>2 DEF Pops, Shrinks, Alike, SameOpen

\* A raise leaves the scopes outside its handler's try; among them it may only
\* have ended groups.
LEMMA RaiseShrinks ==
  ASSUME TypeOK, Handlers, Bound, Raise
  PROVE  LET h == buf[depth - 1].scope IN
         /\ depth > 0 /\ h \in Scopes("try") /\ Shrinks(h - 1)
         /\ \A i \in 1 .. h - 1 : stack[i].kind = "let" =>
              stack'[i].open = (stack[i].open /\ i \notin Groups(depth - 1))
<1> DEFINE d == depth - 1
           h == buf[d].scope
<1>1. depth > 0 /\ d \in 0 .. depth - 1 /\ h \in Scopes("try")
  BY DEF Raise, TypeOK, Handlers
<1>2. stack' = [i \in 1 .. h - 1 |-> IF i \in Groups(d) THEN [stack[i] EXCEPT !.open = FALSE] ELSE stack[i]]
  BY DEF Raise
<1>3. h \in 1 .. Top /\ Top \in Nat
  BY <1>1, ScopesAre
<1>4. \A i \in Groups(d) : i \in Scopes("let") /\ stack[i].open
  BY DEF Groups, Unbound, Bound
<1> HIDE DEF d, h
<1>5. ASSUME NEW i \in 1 .. h - 1
      PROVE  /\ stack'[i] \in ScopeType /\ Alike(i)
             /\ stack[i].kind = "let" => stack'[i].open = (stack[i].open /\ i \notin Groups(d))
  <2>1. i \in 1 .. Top /\ stack[i] \in ScopeType
    BY <1>3, ScopesAre
  <2>2. CASE i \in Groups(d)
    <3>1. stack[i] \in [kind : {"let"}, open : BOOLEAN, exact : BOOLEAN]
      BY <1>4, <2>1, <2>2, ScopesAre DEF ScopeType
    <3>2. stack'[i] = [stack[i] EXCEPT !.open = FALSE]
      BY <1>2, <2>2
    <3> QED BY <2>2, <3>1, <3>2 DEF Alike, ScopeType
  <2>3. CASE i \notin Groups(d)
    <3>1. stack'[i] = stack[i]
      BY <1>2, <2>3
    <3>2. stack[i].kind = "let" => stack[i].open \in BOOLEAN
      BY <2>1 DEF ScopeType
    <3> QED BY <2>1, <2>3, <3>1, <3>2 DEF Alike
  <2> QED BY <2>2, <2>3
<1>6. stack' \in [1 .. h - 1 -> ScopeType]
  BY <1>2, <1>5
<1>7. stack' \in Seq(ScopeType) /\ Len(stack') = h - 1
  BY <1>3, <1>6
<1>8. Shrinks(h - 1)
  BY <1>3, <1>5, <1>7 DEF Shrinks
<1> QED BY <1>1, <1>5, <1>8 DEF d, h

-----------------------------------------------------------------------------
(* The frames *)

LEMMA FramesGrow ==
  ASSUME TypeOK, NEW x, Grows(x), NEW i \in Nat, i <= Top + 1
  PROVE  Frames(i)' = Frames(i) /\ Frames(i) \subseteq Frames(Top + 1)
<1>1. Scopes("fn")' = Scopes("fn") \cup {k \in {Top + 1} : x.kind = "fn"}
  BY ScopesGrow
<1> QED BY <1>1, ScopesAre DEF Frames, Grows, Alike

LEMMA FramesShrink ==
  ASSUME TypeOK, NEW k, Shrinks(k), NEW i \in Nat, i <= k + 1
  PROVE  Frames(i)' = Frames(i)
<1>1. Scopes("fn")' = {j \in Scopes("fn") : j <= k}
  BY ScopesShrink
<1> QED BY <1>1, ScopesAre DEF Frames, Shrinks, Alike

\* A scope more: a new function's frame links to the current one; a new try
\* saves it.
LEMMA GrownFrames ==
  ASSUME TypeOK, FramesKnown, Handlers, NEW x, Grows(x),
         x.kind = "fn" => x.prev = frame,
         frame' = frame \/ (x.kind = "fn" /\ x.frame = "linked" /\ frame' = Top + 1),
         \A d \in 0 .. depth' - 1 :
           \/ d \in 0 .. depth - 1 /\ buf'[d] = buf[d]
           \/ buf'[d].frame = frame /\ buf'[d].scope = Top + 1
  PROVE  FramesKnown'
<1>0. PICK n \in Nat : n = Top
  BY ScopesAre
<1>1. /\ Top' = n + 1 /\ stack'[n + 1] = x
      /\ Scopes("fn")' = Scopes("fn") \cup {i \in {n + 1} : x.kind = "fn"}
      /\ \A i \in Scopes("fn") : i \in 1 .. n
      /\ \A i \in Scopes("try") : i \in 1 .. n
  BY <1>0, ScopesGrow, ScopesAre DEF Grows, Top
<1>2. \A i \in Nat : i <= n + 1 => Frames(i)' = Frames(i)
  BY <1>0, FramesGrow
<1>3. Frames(n + 1)' \subseteq Frames(n + 2)'
  BY <1>1 DEF Frames
<1>4. frame' \in Frames(n + 2)'
  <2>1. CASE frame' = frame
    BY <1>0, <1>2, <1>3, <2>1 DEF FramesKnown
  <2>2. CASE x.kind = "fn" /\ x.frame = "linked" /\ frame' = n + 1
    BY <1>1, <2>2 DEF Frames
  <2> QED BY <1>0, <2>1, <2>2
<1>5. ASSUME NEW f \in Scopes("fn")'
      PROVE  stack'[f].prev \in Frames(f)'
  <2>1. CASE f \in Scopes("fn")
    <3>1. f \in Nat /\ f <= n + 1 /\ f \in 1 .. Top /\ stack[f].kind = "fn"
      BY <1>0, <1>1, <2>1, ScopesAre
    <3>2. stack'[f].prev = stack[f].prev
      BY <3>1 DEF Grows, Alike
    <3> QED BY <1>2, <2>1, <3>1, <3>2 DEF FramesKnown
  <2>2. CASE f = n + 1 /\ x.kind = "fn"
    BY <1>0, <1>1, <1>2, <2>2 DEF FramesKnown
  <2> QED BY <1>1, <2>1, <2>2
<1>6. ASSUME NEW d \in 0 .. depth' - 1
      PROVE  buf'[d].frame \in Frames(buf[d].scope)'
  <2> DEFINE s == buf'[d].scope
  <2>1. CASE d \in 0 .. depth - 1 /\ buf'[d] = buf[d]
    <3>1. buf[d].scope \in Nat /\ buf[d].scope <= n + 1 /\ buf[d].frame \in Frames(buf[d].scope)
      BY <1>1, <2>1 DEF Handlers, FramesKnown
    <3>2. PICK p \in Nat : p = buf[d].scope
      BY <3>1
    <3>3. buf'[d].scope = p /\ buf'[d].frame \in Frames(p)'
      BY <1>2, <2>1, <3>1, <3>2
    <3> QED BY <3>3
  <2>2. CASE buf'[d].frame = frame /\ buf'[d].scope = n + 1
    <3>1. frame \in Frames(n + 1)'
      BY <1>0, <1>2 DEF FramesKnown
    <3> QED BY <2>2, <3>1
  <2> QED BY <1>0, <2>1, <2>2
<1> QED BY <1>1, <1>4, <1>5, <1>6 DEF FramesKnown

\* Scopes less.
LEMMA ShrunkFrames ==
  ASSUME TypeOK, FramesKnown, NEW k, Shrinks(k), frame' \in Frames(k + 1),
         \A d \in 0 .. depth' - 1 :
           d \in 0 .. depth - 1 /\ buf'[d] = buf[d] /\ buf[d].scope \in Nat /\ buf[d].scope <= k
  PROVE  FramesKnown'
<1>0. k \in Nat /\ k <= Top
  BY ScopesAre DEF Shrinks
<1>1. /\ Top' = k
      /\ Scopes("fn")' = {i \in Scopes("fn") : i <= k}
      /\ \A i \in Scopes("fn") : i \in 1 .. Top
  BY <1>0, ScopesShrink, ScopesAre DEF Shrinks, Top
<1>2. \A i \in Nat : i <= k + 1 => Frames(i)' = Frames(i)
  BY <1>0, FramesShrink
<1>3. frame' \in Frames(k + 1)'
  BY <1>0, <1>2
<1>4. ASSUME NEW f \in Scopes("fn")'
      PROVE  stack'[f].prev \in Frames(f)'
  <2>1. f \in Nat /\ f <= k /\ f \in 1 .. k /\ f \in Scopes("fn") /\ stack[f].kind = "fn"
    BY <1>0, <1>1, ScopesAre
  <2>2. stack'[f].prev = stack[f].prev
    BY <2>1 DEF Shrinks, Alike
  <2> QED BY <1>0, <1>2, <2>1, <2>2 DEF FramesKnown
<1>5. ASSUME NEW d \in 0 .. depth' - 1
      PROVE  buf'[d].frame \in Frames(buf[d].scope)'
  <2>1. d \in 0 .. depth - 1 /\ buf'[d] = buf[d] /\ buf[d].scope \in Nat /\ buf[d].scope <= k
    OBVIOUS
  <2>2. PICK p \in Nat : p = buf[d].scope /\ p <= k + 1
    BY <1>0, <2>1
  <2>3. buf'[d].scope = p /\ buf'[d].frame \in Frames(p)'
    BY <1>2, <2>1, <2>2 DEF FramesKnown
  <2> QED BY <2>3
<1> QED BY <1>1, <1>3, <1>4, <1>5 DEF FramesKnown

\* Tries are among the scopes, and the top one's handler is the last.
LEMMA HandlersAre ==
  ASSUME TypeOK, Handlers
  PROVE  /\ depth \in Nat
         /\ \A d \in 0 .. depth - 1 : buf[d].scope \in 1 .. Top
         /\ \A d \in 0 .. depth - 2 : buf[d].scope < buf[depth - 1].scope
         /\ \A i \in Scopes("try") : depth > 0 /\ i <= buf[depth - 1].scope
<1>1. depth \in Nat
  BY DEF TypeOK
<1>2. \A d \in 0 .. depth - 1 : buf[d].scope \in 1 .. Top
  BY ScopesAre DEF Handlers
<1>3. \A d \in 0 .. depth - 2 : buf[d].scope < buf[depth - 1].scope
  BY <1>1 DEF Handlers
<1>4. ASSUME NEW i \in Scopes("try")
      PROVE  depth > 0 /\ i <= buf[depth - 1].scope
  <2>1. PICK d \in 0 .. depth - 1 : buf[d].scope = i
    BY DEF Handlers
  <2>2. d = depth - 1 \/ d \in 0 .. depth - 2
    BY <1>1, <2>1
  <2>3. i \in Int
    BY ScopesAre
  <2>4. depth > 0 /\ buf[depth - 1].scope \in Int
    BY <1>1, <1>2, <2>1, ScopesAre
  <2>5. CASE d = depth - 1
    BY <2>1, <2>3, <2>4, <2>5
  <2>6. CASE d \in 0 .. depth - 2
    BY <1>3, <2>1, <2>3, <2>4, <2>6
  <2> QED BY <2>2, <2>5, <2>6
<1> QED BY <1>1, <1>2, <1>3, <1>4

LEMMA TryEndTop ==
  ASSUME TypeOK, Handlers, TryEnd
  PROVE  depth > 0 /\ buf[depth - 1].scope = Top /\ Top \in Nat
<1>1. Top \in Scopes("try") /\ Top \in Nat
  <2>1. stack # <<>> /\ stack \in Seq(ScopeType) /\ stack[Top].kind = "try"
    BY DEF TryEnd, TopIs, TypeOK
  <2>2. Top \in 1 .. Top
    BY <2>1 DEF Top
  <2> QED BY <2>1, <2>2, ScopesAre
<1>2. depth > 0 /\ Top <= buf[depth - 1].scope
  BY <1>1, HandlersAre
<1>3. buf[depth - 1].scope \in 1 .. Top
  BY <1>2, HandlersAre
<1> QED BY <1>1, <1>2, <1>3

LEMMA FramesStep ==
  ASSUME TypeOK, FramesKnown, Handlers, Bound, Next
  PROVE  FramesKnown'
<1>1. CASE Call \/ HandOver
  <2>1. /\ Grows(Fn) /\ frame' = IF Setup = "linked" THEN Top + 1 ELSE frame
        /\ UNCHANGED <<depth, buf>>
    BY <1>1, CallGrows
  <2>2. Fn.kind = "fn" /\ Fn.prev = frame /\ Fn.frame = Setup
    BY DEF Fn
  <2>3. PICK x : x = Fn
    OBVIOUS
  <2>4. \A d \in 0 .. depth' - 1 : d \in 0 .. depth - 1 /\ buf'[d] = buf[d]
    BY <2>1
  <2>5. /\ Grows(x) /\ x.kind = "fn" /\ x.prev = frame
        /\ frame' = frame \/ (x.kind = "fn" /\ x.frame = "linked" /\ frame' = Top + 1)
    BY <2>1, <2>2, <2>3
  <2> QED BY <2>4, <2>5, GrownFrames
<1>2. CASE Return
  <2>0. PICK n \in Nat : n = Top
    BY ScopesAre
  <2>1. Shrinks(n - 1) /\ n > 0 /\ UNCHANGED <<depth, buf>>
    BY <1>2, <2>0, EndPops DEF Pops, Return
  <2>2. n \in Scopes("fn") /\ stack[n].kind = "fn"
    BY <1>2, <2>0, <2>1, ScopesAre DEF Return, TopIs
  <2>3. frame' \in Frames(n)
    <3>1. CASE stack[n].frame = "none"
      <4>1. frame' = frame
        BY <1>2, <2>0, <3>1 DEF Return
      <4> QED BY <2>0, <3>1, <4>1, ScopesAre DEF FramesKnown, Frames
    <3>2. CASE stack[n].frame = "linked"
      <4>1. frame' = stack[n].prev
        BY <1>2, <2>0, <3>2 DEF Return
      <4> QED BY <2>2, <4>1 DEF FramesKnown
    <3>3. CASE stack[n].frame \notin {"none", "linked"}
      <4>1. frame' \in {NoFrame, Wild}
        BY <1>2, <2>0, <3>3 DEF Return
      <4> QED BY <4>1 DEF Frames
    <3> QED BY <3>1, <3>2, <3>3
  <2>4. \A d \in 0 .. depth - 1 : buf[d].scope \in Nat /\ buf[d].scope <= n - 1
    <3>1. ASSUME NEW d \in 0 .. depth - 1  PROVE buf[d].scope \in 1 .. n /\ buf[d].scope # n
      <4>1. buf[d].scope \in Scopes("try")
        BY DEF Handlers
      <4> QED BY <2>0, <2>2, <4>1, ScopesAre
    <3> QED BY <2>0, <3>1
  <2> QED BY <2>0, <2>1, <2>3, <2>4, ShrunkFrames
<1>3. CASE TryBegin
  <2>1. PICK x : x = [kind |-> "try"]
    OBVIOUS
  <2>2. /\ frame' = frame /\ depth' = depth + 1 /\ depth \in 0 .. MaxTry - 1
        /\ buf' = [buf EXCEPT ![depth] = [scope |-> Top + 1, frame |-> frame]]
    BY <1>3, UnwindAssumption DEF TryBegin, TypeOK
  <2>3. \A d \in 0 .. depth' - 1 :
          \/ d \in 0 .. depth - 1 /\ buf'[d] = buf[d]
          \/ buf'[d].frame = frame /\ buf'[d].scope = Top + 1
    BY <2>2, UnwindAssumption DEF TypeOK
  <2>4. Grows(x) /\ x.kind = "try"
    BY <1>3, <2>1, TryBeginGrows
  <2> QED BY <2>2, <2>3, <2>4, GrownFrames
<1>4. CASE TryEnd
  <2>0. PICK n \in Nat : n = Top
    BY ScopesAre
  <2>1. Shrinks(n - 1) /\ n > 0 /\ frame' = frame
    BY <1>4, <2>0, EndPops DEF Pops, TryEnd
  <2>2. depth > 0 /\ buf[depth - 1].scope = n
    BY <1>4, <2>0, TryEndTop
  <2>3. depth' = depth - 1 /\ buf' = [buf EXCEPT ![depth - 1] = Unused]
    BY <1>4 DEF TryEnd
  <2>4. frame' \in Frames(n)
    <3>1. n \notin Scopes("fn")
      BY <1>4, <2>0, ScopesAre DEF TryEnd, TopIs
    <3> QED BY <2>0, <2>1, <3>1, ScopesAre DEF FramesKnown, Frames
  <2>5. \A d \in 0 .. depth - 2 : buf'[d] = buf[d] /\ buf[d].scope \in Nat /\ buf[d].scope <= n - 1
    <3>1. \A d \in 0 .. depth - 2 : buf'[d] = buf[d]
      BY <2>3, UnwindAssumption DEF TypeOK
    <3>2. \A d \in 0 .. depth - 2 : buf[d].scope \in 1 .. n /\ buf[d].scope < n
      BY <2>0, <2>2, HandlersAre
    <3> QED BY <3>1, <3>2
  <2>6. depth \in Nat /\ depth' - 1 = depth - 2
    BY <2>3, HandlersAre
  <2> QED BY <2>0, <2>1, <2>4, <2>5, <2>6, ShrunkFrames
<1>5. CASE Raise
  <2> DEFINE h == buf[depth - 1].scope
  <2>1. depth > 0 /\ h \in Scopes("try") /\ Shrinks(h - 1) /\ h \in 1 .. Top /\ Top \in Nat
    BY <1>5, RaiseShrinks, ScopesAre
  <2>2. frame' \in {NoFrame, buf[depth - 1].frame}
    BY <1>5 DEF Raise, Stops
  <2>3. frame' \in Frames(h)
    <3>1. depth - 1 \in 0 .. depth - 1
      BY <2>1, HandlersAre
    <3> QED BY <2>2, <3>1 DEF FramesKnown, Frames
  <2>4. depth' = depth - 1 /\ buf' = [buf EXCEPT ![depth - 1] = Unused]
    BY <1>5 DEF Raise
  <2>5. \A d \in 0 .. depth - 2 : buf'[d] = buf[d] /\ buf[d].scope \in Nat /\ buf[d].scope <= h - 1
    <3>1. \A d \in 0 .. depth - 2 : buf'[d] = buf[d]
      BY <2>4, UnwindAssumption DEF TypeOK
    <3>2. \A d \in 0 .. depth - 2 : buf[d].scope \in 1 .. Top /\ buf[d].scope < h
      BY HandlersAre
    <3> QED BY <2>1, <3>1, <3>2
  <2>6. depth \in Nat /\ depth' - 1 = depth - 2
    BY <2>4, HandlersAre
  <2>7. h - 1 + 1 = h
    BY <2>1
  <2> HIDE DEF h
  <2> QED BY <2>1, <2>3, <2>5, <2>6, <2>7, ShrunkFrames
<1>6. CASE LetBegin
  <2>1. PICK x : x = [kind |-> "let", open |-> TRUE, exact |-> tryDepth = depth]
    OBVIOUS
  <2>2. Grows(x) /\ x.kind = "let" /\ UNCHANGED <<depth, buf, frame>>
    BY <1>6, <2>1, LetBeginGrows DEF LetBegin
  <2>3. \A d \in 0 .. depth' - 1 : d \in 0 .. depth - 1 /\ buf'[d] = buf[d]
    BY <2>2
  <2> QED BY <2>2, <2>3, GrownFrames
<1>7. CASE LetEnd
  <2>0. PICK n \in Nat : n = Top
    BY ScopesAre
  <2>1. Shrinks(n - 1) /\ n > 0 /\ UNCHANGED <<depth, buf, frame>>
    BY <1>7, <2>0, EndPops DEF Pops, LetEnd
  <2>2. stack[n].kind = "let"
    BY <1>7, <2>0 DEF LetEnd, TopIs
  <2>3. frame' \in Frames(n)
    <3>1. n \notin Scopes("fn")
      BY <2>2, ScopesAre
    <3> QED BY <2>0, <2>1, <3>1, ScopesAre DEF FramesKnown, Frames
  <2>4. \A d \in 0 .. depth - 1 : buf[d].scope \in Nat /\ buf[d].scope <= n - 1
    <3>1. ASSUME NEW d \in 0 .. depth - 1  PROVE buf[d].scope \in 1 .. n /\ buf[d].scope # n
      <4>1. buf[d].scope \in Scopes("try")
        BY DEF Handlers
      <4> QED BY <2>0, <2>2, <4>1, ScopesAre
    <3> QED BY <2>0, <3>1
  <2> QED BY <2>0, <2>1, <2>3, <2>4, ShrunkFrames
<1>8. CASE UNCHANGED <<stack, depth, buf, frame>>
  BY <1>8 DEF FramesKnown, Frames, Scopes, Top
<1>9. HandOverWild \/ TryTooDeep \/ RaiseUnhandled \/ LetTooDeep \/ LetEndedBefore
      => UNCHANGED <<stack, depth, buf, frame>>
  BY DEF HandOverWild, TryTooDeep, RaiseUnhandled, LetTooDeep, LetEndedBefore, Ends
<1> QED BY <1>1, <1>2, <1>3, <1>4, <1>5, <1>6, <1>7, <1>8, <1>9 DEF Next

-----------------------------------------------------------------------------
(* The handlers *)

\* TryEnd and Raise pop the last handler, and leave its try.
PopsHandler ==
  /\ depth > 0 /\ depth' = depth - 1 /\ Shrinks(buf[depth - 1].scope - 1)
  /\ \A d \in 0 .. depth - 2 : buf'[d] = buf[d]

LEMMA HandlerPopped ==
  ASSUME TypeOK, Handlers, Bound, TryEnd \/ Raise
  PROVE  PopsHandler
<1>1. depth > 0 /\ Shrinks(buf[depth - 1].scope - 1)
  <2>1. CASE TryEnd
    BY <2>1, TryEndTop, EndPops DEF Pops
  <2>2. CASE Raise
    BY <2>2, RaiseShrinks
  <2> QED BY <2>1, <2>2
<1>2. depth' = depth - 1 /\ buf' = [buf EXCEPT ![depth - 1] = Unused]
  BY DEF TryEnd, Raise
<1>3. \A d \in 0 .. depth - 2 : buf'[d] = buf[d]
  BY <1>2, UnwindAssumption DEF TypeOK
<1> QED BY <1>1, <1>2, <1>3 DEF PopsHandler

LEMMA TriesLeft ==
  ASSUME TypeOK, Handlers, PopsHandler
  PROVE  /\ buf[depth - 1].scope \in Scopes("try")
         /\ Scopes("try")' = Scopes("try") \ {buf[depth - 1].scope}
         /\ \A i \in Scopes("try") : i <= buf[depth - 1].scope
<1> DEFINE h == buf[depth - 1].scope
<1>1. h \in Scopes("try") /\ h \in 1 .. Top /\ Top \in Nat
  BY HandlersAre, ScopesAre DEF PopsHandler, Handlers
<1>2. \A i \in Scopes("try") : i \in 1 .. Top /\ i <= h
  BY HandlersAre, ScopesAre
<1>3. Scopes("try")' = {i \in Scopes("try") : i <= h - 1}
  BY ScopesShrink DEF PopsHandler
<1> HIDE DEF h
<1>4. Scopes("try")' = Scopes("try") \ {h}
  <2>1. ASSUME NEW i \in Scopes("try")  PROVE i <= h - 1 <=> i # h
    BY <1>1, <1>2
  <2> QED BY <1>3, <2>1
<1> QED BY <1>1, <1>2, <1>4 DEF h

\* The steps that leave tries and handlers as they are.
LEMMA SameTries ==
  ASSUME TypeOK, Handlers, Call \/ HandOver \/ Return \/ LetBegin \/ LetEnd
  PROVE  Scopes("try")' = Scopes("try") /\ UNCHANGED <<depth, buf>>
<1>1. CASE Call \/ HandOver
  <2>1. PICK x : x = Fn
    OBVIOUS
  <2>2. Grows(x) /\ x.kind = "fn" /\ UNCHANGED <<depth, buf>>
    BY <1>1, <2>1, CallGrows DEF Fn
  <2> QED BY <2>2, ScopesGrow
<1>2. CASE LetBegin
  <2>1. PICK x : x = [kind |-> "let", open |-> TRUE, exact |-> tryDepth = depth]
    OBVIOUS
  <2>2. Grows(x) /\ x.kind = "let" /\ UNCHANGED <<depth, buf>>
    BY <1>2, <2>1, LetBeginGrows DEF LetBegin
  <2> QED BY <2>2, ScopesGrow
<1>3. CASE Return \/ LetEnd
  <2>1. Top \in Nat /\ Shrinks(Top - 1) /\ UNCHANGED <<depth, buf>>
    BY <1>3, EndPops, ScopesAre DEF Pops, Return, LetEnd
  <2>2. Top \notin Scopes("try")
    BY <1>3, ScopesAre DEF Return, LetEnd, TopIs
  <2>3. Scopes("try")' = {i \in Scopes("try") : i <= Top - 1}
    BY <2>1, ScopesShrink
  <2>4. \A i \in Scopes("try") : i \in 1 .. Top
    BY ScopesAre
  <2> QED BY <2>1, <2>2, <2>3, <2>4
<1> QED BY <1>1, <1>2, <1>3

LEMMA TryAdds ==
  ASSUME TypeOK, TryBegin
  PROVE  /\ Scopes("try")' = Scopes("try") \cup {Top + 1} /\ depth' = depth + 1
         /\ buf'[depth].scope = Top + 1 /\ \A d \in 0 .. depth - 1 : buf'[d] = buf[d]
<1>1. PICK x : x = [kind |-> "try"]
  OBVIOUS
<1>2. Grows(x) /\ x.kind = "try"
  BY <1>1, TryBeginGrows
<1>3. /\ depth' = depth + 1 /\ depth \in 0 .. MaxTry - 1
      /\ buf' = [buf EXCEPT ![depth] = [scope |-> Top + 1, frame |-> frame]]
  BY UnwindAssumption DEF TryBegin, TypeOK
<1>4. buf'[depth].scope = Top + 1 /\ \A d \in 0 .. depth - 1 : buf'[d] = buf[d]
  BY <1>3, UnwindAssumption DEF TypeOK
<1> QED BY <1>2, <1>3, <1>4, ScopesGrow

\* What else there is changes neither the stack nor what hangs on it.
LEMMA Others ==
  ASSUME HandOverWild \/ TryTooDeep \/ RaiseUnhandled \/ LetTooDeep \/ LetEndedBefore \/ UNCHANGED vars
  PROVE  /\ UNCHANGED <<stack, depth, buf, tryDepth, frame, bind>>
         /\ (ended' = {} /\ released' = {}) \/ UNCHANGED vars
BY DEF HandOverWild, TryTooDeep, RaiseUnhandled, LetTooDeep, LetEndedBefore, Ends, vars

LEMMA HandlersStep ==
  ASSUME TypeOK, Handlers, Bound, [Next]_vars
  PROVE  Handlers'
<1>1. CASE Call \/ HandOver \/ Return \/ LetBegin \/ LetEnd
  BY <1>1, SameTries DEF Handlers
<1>2. CASE TryBegin
  <2>1. /\ Scopes("try")' = Scopes("try") \cup {Top + 1} /\ depth' = depth + 1
        /\ buf'[depth].scope = Top + 1 /\ \A d \in 0 .. depth - 1 : buf'[d] = buf[d]
    BY <1>2, TryAdds
  <2>2. depth \in Nat /\ Top \in Nat /\ \A d \in 0 .. depth - 1 : buf[d].scope \in 1 .. Top
    BY HandlersAre, ScopesAre
  <2>3. \A d \in 0 .. depth : d \in 0 .. depth - 1 \/ d = depth
    BY <2>2
  <2>4. ASSUME NEW i \in Scopes("try")'
        PROVE  \E d \in 0 .. depth' - 1 : buf'[d].scope = i
    <3>1. CASE i \in Scopes("try")
      <4>1. PICK d \in 0 .. depth - 1 : buf[d].scope = i
        BY <3>1 DEF Handlers
      <4> QED BY <2>1, <2>2, <4>1
    <3>2. CASE i = Top + 1
      BY <2>1, <2>2, <3>2
    <3> QED BY <2>1, <3>1, <3>2
  <2>5. ASSUME NEW d \in 0 .. depth' - 1
        PROVE  buf'[d].scope \in Scopes("try")' /\ \A e \in 0 .. d - 1 : buf'[e].scope < buf'[d].scope
    <3>1. CASE d \in 0 .. depth - 1
      BY <2>1, <2>2, <3>1 DEF Handlers
    <3>2. CASE d = depth
      BY <2>1, <2>2, <3>2
    <3> QED BY <2>1, <2>2, <3>1, <3>2
  <2> QED BY <2>4, <2>5 DEF Handlers
<1>3. CASE TryEnd \/ Raise
  <2> DEFINE h == buf[depth - 1].scope
  <2>1. /\ depth > 0 /\ depth' = depth - 1 /\ \A d \in 0 .. depth - 2 : buf'[d] = buf[d]
        /\ Scopes("try")' = Scopes("try") \ {h}
    BY <1>3, HandlerPopped, TriesLeft DEF PopsHandler
  <2>2. depth \in Nat /\ h \in Nat /\ \A d \in 0 .. depth - 2 : buf[d].scope < h
    BY <2>1, HandlersAre, ScopesAre
  <2>3. ASSUME NEW i \in Scopes("try")'
        PROVE  \E d \in 0 .. depth' - 1 : buf'[d].scope = i
    <3>1. PICK d \in 0 .. depth - 1 : buf[d].scope = i
      BY <2>1 DEF Handlers
    <3>2. d # depth - 1
      BY <2>1, <3>1
    <3> QED BY <2>1, <2>2, <3>1, <3>2
  <2>4. ASSUME NEW d \in 0 .. depth' - 1
        PROVE  buf'[d].scope \in Scopes("try")' /\ \A e \in 0 .. d - 1 : buf'[e].scope < buf'[d].scope
    <3>1. d \in 0 .. depth - 2 /\ d \in 0 .. depth - 1
      BY <2>1, <2>2
    <3>2. buf[d].scope \in Scopes("try") /\ buf[d].scope \in Nat /\ buf[d].scope < h
      BY <2>2, <3>1, ScopesAre DEF Handlers
    <3> QED BY <2>1, <2>2, <3>1, <3>2 DEF Handlers
  <2> QED BY <2>3, <2>4 DEF Handlers
<1>4. CASE UNCHANGED <<stack, depth, buf>>
  BY <1>4 DEF Handlers, Scopes
<1> QED BY <1>1, <1>2, <1>3, <1>4, Others DEF Next

LEMMA CountedStep ==
  ASSUME TypeOK, Handlers, Bound, Counted, [Next]_vars
  PROVE  Counted'
<1>0. IsFiniteSet(Scopes("try")) /\ Top \in Nat /\ \A i \in Scopes("try") : i \in 1 .. Top
  <2>1. IsFiniteSet(1 .. Top) /\ Scopes("try") \subseteq 1 .. Top /\ Top \in Nat
    BY ScopesAre, FS_Interval
  <2> QED BY <2>1, FS_Subset
<1>1. CASE Call \/ HandOver \/ Return \/ LetBegin \/ LetEnd
  BY <1>1, SameTries DEF Counted
<1>2. CASE TryBegin
  <2>1. Scopes("try")' = Scopes("try") \cup {Top + 1} /\ depth' = depth + 1
    BY <1>2, TryAdds
  <2>2. Top + 1 \notin Scopes("try")
    BY <1>0
  <2>3. Cardinality(Scopes("try") \cup {Top + 1}) = Cardinality(Scopes("try")) + 1
    <3>1. PICK S, x : S = Scopes("try") /\ x = Top + 1 /\ IsFiniteSet(S) /\ x \notin S
      BY <1>0, <2>2
    <3>2. Cardinality(S \cup {x}) = Cardinality(S) + 1
      BY <3>1, FS_AddElement
    <3> QED BY <3>1, <3>2
  <2> QED BY <2>1, <2>3 DEF Counted
<1>3. CASE TryEnd \/ Raise
  <2> DEFINE h == buf[depth - 1].scope
  <2>1. depth' = depth - 1 /\ h \in Scopes("try") /\ Scopes("try")' = Scopes("try") \ {h}
    BY <1>3, HandlerPopped, TriesLeft DEF PopsHandler
  <2> HIDE DEF h
  <2>2. Cardinality(Scopes("try") \ {h}) = Cardinality(Scopes("try")) - 1
    <3>1. PICK S : S = Scopes("try") /\ IsFiniteSet(S) /\ h \in S
      BY <1>0, <2>1
    <3>2. Cardinality(S \ {h}) = Cardinality(S) - 1
      BY <3>1, FS_RemoveElement
    <3> QED BY <3>1, <3>2
  <2> QED BY <2>1, <2>2 DEF Counted
<1>4. CASE UNCHANGED <<stack, depth>>
  BY <1>4 DEF Counted, Scopes
<1> QED BY <1>1, <1>2, <1>3, <1>4, Others DEF Next

-----------------------------------------------------------------------------
(* The bindings *)

LEMMA BindIs ==
  ASSUME TypeOK
  PROVE  /\ Len(bind) \in Nat /\ DOMAIN bind = 1 .. Len(bind)
         /\ \A n \in 1 .. Len(bind) : bind[n].scope \in Nat /\ bind[n].depth \in Nat
<1>1. bind \in Seq([scope : Nat \ {0}, depth : 0 .. MaxTry]) /\ 0 .. MaxTry \subseteq Nat
  BY UnwindAssumption DEF TypeOK
<1>2. Len(bind) \in Nat /\ DOMAIN bind = 1 .. Len(bind)
  BY <1>1
<1>3. \A n \in 1 .. Len(bind) : bind[n] \in [scope : Nat \ {0}, depth : 0 .. MaxTry]
  BY <1>1, ElementOfSeq
<1> QED BY <1>1, <1>2, <1>3

\* The scopes of two bindings are in their order.
LEMMA BoundApart ==
  ASSUME TypeOK, Bound, NEW n \in DOMAIN bind, NEW m \in DOMAIN bind
  PROVE  bind[m].scope < bind[n].scope <=> m < n
<1>1. n \in Nat /\ m \in Nat /\ bind[n].scope \in Nat /\ bind[m].scope \in Nat
  BY BindIs
<1>a. \A p, q \in DOMAIN bind : q < p => bind[q].scope < bind[p].scope
  <2> SUFFICES ASSUME NEW p \in DOMAIN bind, NEW q \in DOMAIN bind, q < p
               PROVE  bind[q].scope < bind[p].scope
    OBVIOUS
  <2>1. q \in 1 .. p - 1
    BY BindIs
  <2> QED BY <2>1 DEF Bound
<1>2. m < n => bind[m].scope < bind[n].scope
  BY <1>a
<1>3. n < m => bind[n].scope < bind[m].scope
  BY <1>a
<1> QED BY <1>1, <1>2, <1>3

\* What a raise to the last handler unbinds is a suffix: the bindings of the lets
\* inside the try, and of lets outside it that were recorded too deep.
LEMMA UnboundSuffix ==
  ASSUME TypeOK, Bound, NEW d \in Nat
  PROVE  \E k \in 0 .. Len(bind) :
           /\ Unbound(d) = k + 1 .. Len(bind)
           /\ Len(bind) - Cardinality(Unbound(d)) = k
           /\ k > 0 => bind[k].depth <= d
<1> DEFINE L == Len(bind)
<1>0. L \in Nat /\ DOMAIN bind = 1 .. L /\ Kept(d) \subseteq 1 .. L
  BY BindIs DEF Kept
<1>1. PICK k \in 0 .. L : /\ \A m \in Kept(d) : m <= k
                          /\ k > 0 => k \in Kept(d)
  <2>1. CASE Kept(d) = {}
    BY <1>0, <2>1
  <2>2. CASE Kept(d) # {}
    <3>1. \E k \in Kept(d) : \A m \in Kept(d) : m <= k
      BY <1>0, <2>2, LargestOf
    <3> QED BY <1>0, <3>1
  <2> QED BY <2>1, <2>2
<1>2. Unbound(d) = k + 1 .. L
  <2>1. ASSUME NEW n \in 1 .. L  PROVE n \in Unbound(d) <=> k < n
    <3>1. n \in Unbound(d) <=> \A m \in Kept(d) : m < n
      BY <1>0 DEF Unbound
    <3>2. CASE k < n
      BY <1>0, <1>1, <3>1, <3>2
    <3>3. CASE ~(k < n)
      BY <1>0, <1>1, <3>1, <3>3
    <3> QED BY <3>2, <3>3
  <2>2. Unbound(d) \subseteq 1 .. L
    BY <1>0 DEF Unbound
  <2>3. \A n : n \in k + 1 .. L <=> n \in 1 .. L /\ k < n
    BY <1>0
  <2> HIDE DEF L
  <2> QED BY <2>1, <2>2, <2>3
<1>3. Cardinality(k + 1 .. L) = L - k
  <2> HIDE DEF L
  <2>1. k + 1 \in Int /\ L \in Int /\ k \in Nat /\ k <= L
    BY <1>0
  <2>2. Cardinality(k + 1 .. L) = IF k + 1 > L THEN 0 ELSE L - (k + 1) + 1
    BY <2>1, FS_Interval
  <2> QED BY <2>1, <2>2
<1>4. k > 0 => bind[k].depth <= d
  BY <1>1 DEF Kept
<1> QED BY <1>0, <1>2, <1>3, <1>4

\* The steps that leave lets and bindings as they are.
LEMMA SameLets ==
  ASSUME TypeOK, Handlers, Call \/ HandOver \/ Return \/ TryBegin \/ TryEnd
  PROVE  /\ Scopes("let")' = Scopes("let") /\ bind' = bind
         /\ \A i \in Scopes("let") : stack'[i].open = stack[i].open /\ stack'[i].exact = stack[i].exact
<1>1. CASE Call \/ HandOver \/ TryBegin
  <2>1. \E x : Grows(x) /\ x.kind # "let" /\ bind' = bind
    <3>1. CASE Call \/ HandOver
      <4>1. PICK x : x = Fn
        OBVIOUS
      <4> QED BY <3>1, <4>1, CallGrows DEF Fn
    <3>2. CASE TryBegin
      <4>1. PICK x : x = [kind |-> "try"]
        OBVIOUS
      <4> QED BY <3>2, <4>1, TryBeginGrows DEF TryBegin
    <3> QED BY <1>1, <3>1, <3>2
  <2>2. PICK x : Grows(x) /\ x.kind # "let" /\ bind' = bind
    BY <2>1
  <2>3. \A i \in Scopes("let") : i \in 1 .. Top /\ stack[i].kind = "let"
    BY ScopesAre
  <2>4. Scopes("let")' = Scopes("let")
    BY <2>2, ScopesGrow
  <2>5. \A i \in Scopes("let") : stack'[i].open = stack[i].open /\ stack'[i].exact = stack[i].exact
    BY <2>2, <2>3 DEF Grows, Alike, SameOpen
  <2> QED BY <2>2, <2>4, <2>5
<1>2. CASE Return \/ TryEnd
  <2>1. Pops /\ Top \in Nat /\ bind' = bind
    BY <1>2, EndPops, ScopesAre DEF Return, TryEnd
  <2>2. Scopes("let")' = {i \in Scopes("let") : i <= Top - 1}
    BY <2>1, ScopesShrink DEF Pops
  <2>3. \A i \in Scopes("let") : i \in 1 .. Top /\ stack[i].kind = "let"
    BY ScopesAre
  <2>4. \A i \in Scopes("let") : i # Top
    BY <1>2, <2>3 DEF Return, TryEnd, TopIs
  <2>5. \A i \in Scopes("let") : i \in 1 .. Top - 1
    BY <2>1, <2>3, <2>4
  <2>6. Scopes("let")' = Scopes("let")
    BY <2>1, <2>2, <2>5
  <2> QED BY <2>1, <2>3, <2>5, <2>6 DEF Pops, Shrinks, Alike, SameOpen
<1> QED BY <1>1, <1>2

\* A let is entered.
LetEnters ==
  /\ Scopes("let")' = Scopes("let") \cup {Top + 1}
  /\ stack'[Top + 1].open /\ stack'[Top + 1].exact = (tryDepth = depth)
  /\ \A i \in Scopes("let") : stack'[i].open = stack[i].open /\ stack'[i].exact = stack[i].exact
  /\ Len(bind') = Len(bind) + 1 /\ \A n \in 1 .. Len(bind) : bind'[n] = bind[n]
  /\ bind'[Len(bind) + 1].scope = Top + 1 /\ bind'[Len(bind) + 1].depth = tryDepth
  /\ DOMAIN bind' = 1 .. Len(bind) + 1
  /\ UNCHANGED <<depth, buf>>

LEMMA LetBeginEnters == TypeOK /\ LetBegin => LetEnters
<1> SUFFICES ASSUME TypeOK, LetBegin PROVE LetEnters
  OBVIOUS
<1>1. PICK x : x = [kind |-> "let", open |-> TRUE, exact |-> tryDepth = depth]
  OBVIOUS
<1>2. Grows(x) /\ x.kind = "let" /\ x.open /\ x.exact = (tryDepth = depth)
  BY <1>1, LetBeginGrows
<1>3. \A i \in Scopes("let") : i \in 1 .. Top /\ stack[i].kind = "let"
  BY ScopesAre
<1>4. /\ Scopes("let")' = Scopes("let") \cup {Top + 1}
      /\ \A i \in Scopes("let") : stack'[i].open = stack[i].open /\ stack'[i].exact = stack[i].exact
  BY <1>2, <1>3, ScopesGrow DEF Grows, Alike, SameOpen
<1> DEFINE b == [scope |-> Top + 1, depth |-> tryDepth]
<1>5. /\ bind \in Seq([scope : Nat \ {0}, depth : 0 .. MaxTry])
      /\ b \in [scope : Nat \ {0}, depth : 0 .. MaxTry]
      /\ bind' = Append(bind, b)
  BY ScopesAre, UnwindAssumption DEF TypeOK, LetBegin
<1>6. b.scope = Top + 1 /\ b.depth = tryDepth
  OBVIOUS
<1> HIDE DEF b
<1>7. /\ Len(bind') = Len(bind) + 1 /\ \A n \in 1 .. Len(bind) : bind'[n] = bind[n]
      /\ bind'[Len(bind) + 1] = b /\ DOMAIN bind' = 1 .. Len(bind) + 1
  BY <1>5, AppendProperties
<1> QED BY <1>2, <1>4, <1>6, <1>7 DEF LetEnters, LetBegin, Grows

\* A let is left by its value: it is the last that is bound.
LetLeaves ==
  /\ Top \in Scopes("let") /\ Scopes("let")' = Scopes("let") \ {Top}
  /\ \A i \in Scopes("let") \ {Top} :
       i < Top /\ stack'[i].open = stack[i].open /\ stack'[i].exact = stack[i].exact
  /\ Len(bind) > 0 /\ bind[Len(bind)].scope = Top
  /\ bind' = Front(bind) /\ DOMAIN bind' = 1 .. Len(bind) - 1
  /\ \A n \in 1 .. Len(bind) - 1 : bind'[n] = bind[n]
  /\ UNCHANGED <<depth, buf>>

LEMMA LetEndLeaves == TypeOK /\ Bound /\ LetEnd => LetLeaves
<1> SUFFICES ASSUME TypeOK, Bound, LetEnd PROVE LetLeaves
  OBVIOUS
<1>1. Pops /\ Top \in Nat /\ Top \in 1 .. Top
  BY EndPops, ScopesAre DEF Pops
<1>2. Top \in Scopes("let") /\ stack[Top].open
  BY <1>1, ScopesAre DEF LetEnd, TopIs
<1>3. \A i \in Scopes("let") : i \in 1 .. Top /\ stack[i].kind = "let"
  BY ScopesAre
<1>4. \A i \in Scopes("let") \ {Top} : i \in 1 .. Top - 1
  BY <1>1, <1>3
<1>5. Scopes("let")' = Scopes("let") \ {Top}
  <2>1. Scopes("let")' = {i \in Scopes("let") : i <= Top - 1}
    BY <1>1, ScopesShrink DEF Pops
  <2> QED BY <1>1, <1>4, <2>1
<1>6. \A i \in Scopes("let") \ {Top} :
        i < Top /\ stack'[i].open = stack[i].open /\ stack'[i].exact = stack[i].exact
  BY <1>1, <1>3, <1>4 DEF Pops, Shrinks, Alike, SameOpen
<1>7. Len(bind) > 0 /\ bind[Len(bind)].scope = Top
  <2>1. PICK n \in DOMAIN bind : bind[n].scope = Top
    BY <1>2 DEF Bound
  <2>2. Len(bind) \in DOMAIN bind /\ Len(bind) > 0 /\ n \in Nat /\ n <= Len(bind) /\ Len(bind) \in Nat
    BY <2>1, BindIs
  <2>3. bind[Len(bind)].scope \in 1 .. Top
    BY <1>3, <2>2 DEF Bound
  <2>4. ~(n < Len(bind))
    BY <1>1, <2>1, <2>2, <2>3, BoundApart
  <2> QED BY <2>1, <2>2, <2>4
<1>8. /\ bind' = Front(bind) /\ DOMAIN bind' = 1 .. Len(bind) - 1
      /\ \A n \in 1 .. Len(bind) - 1 : bind'[n] = bind[n]
  <2>1. bind # <<>> /\ bind \in Seq([scope : Nat \ {0}, depth : 0 .. MaxTry])
    BY <1>7 DEF TypeOK
  <2>2. bind' = Front(bind)
    BY <2>1 DEF LetEnd
  <2>3. /\ Front(bind) \in Seq([scope : Nat \ {0}, depth : 0 .. MaxTry])
        /\ Len(Front(bind)) = Len(bind) - 1
        /\ \A n \in 1 .. Len(bind) - 1 : Front(bind)[n] = bind[n]
    BY <2>1, FrontIs
  <2>4. DOMAIN Front(bind) = 1 .. Len(Front(bind))
    BY <2>3
  <2> QED BY <2>2, <2>3, <2>4
<1> QED BY <1>2, <1>5, <1>6, <1>7, <1>8 DEF LetLeaves, LetEnd

\* A raise keeps the first k bindings, which are of lets outside the try; the
\* groups it ends are those of the others.
RaiseKeeps(k) ==
  LET h == buf[depth - 1].scope IN
  /\ k \in 0 .. Len(bind) /\ DOMAIN bind' = 1 .. k
  /\ \A n \in 1 .. k : bind'[n] = bind[n] /\ bind[n].scope < h
  /\ Groups(depth - 1) = {bind[n].scope : n \in k + 1 .. Len(bind)}
  /\ ended' = Groups(depth - 1)
  /\ Scopes("let")' = {i \in Scopes("let") : i < h}
  /\ \A i \in Scopes("let") : i < h =>
       /\ stack'[i].exact = stack[i].exact
       /\ stack'[i].open = (stack[i].open /\ i \notin Groups(depth - 1))

LEMMA RaiseIs ==
  ASSUME TypeOK, Handlers, Bound, Recorded, Raise
  PROVE  \E k : RaiseKeeps(k)
<1> DEFINE d == depth - 1
           h == buf[d].scope
<1>1. /\ depth > 0 /\ depth \in Nat /\ d \in Nat /\ d \in 0 .. depth - 1
      /\ h \in Scopes("try") /\ h \in 1 .. Top /\ Top \in Nat /\ Shrinks(h - 1)
      /\ \A i \in 1 .. h - 1 : stack[i].kind = "let" =>
           stack'[i].open = (stack[i].open /\ i \notin Groups(d))
  BY RaiseShrinks, HandlersAre, ScopesAre
<1>2. PICK k \in 0 .. Len(bind) : /\ Unbound(d) = k + 1 .. Len(bind)
                                  /\ Len(bind) - Cardinality(Unbound(d)) = k
                                  /\ k > 0 => bind[k].depth <= d
  BY <1>1, UnboundSuffix
<1>3. \A i \in Scopes("let") : i \in 1 .. Top /\ stack[i].kind = "let" /\ i # h
  BY <1>1, ScopesAre
<1>4. k \in Nat /\ k <= Len(bind) /\ Len(bind) \in Nat /\ DOMAIN bind = 1 .. Len(bind)
  BY <1>2, BindIs
<1>5. DOMAIN bind' = 1 .. k /\ \A n \in 1 .. k : bind'[n] = bind[n]
  <2>1. bind' = SubSeq(bind, 1, k)
    BY <1>2 DEF Raise
  <2> DEFINE B == [scope : Nat \ {0}, depth : 0 .. MaxTry]
  <2>2. bind \in Seq(B)
    BY DEF TypeOK
  <2> HIDE DEF B
  <2>3. \A n \in 1 .. k : bind[n] \in B
    BY <1>4, <2>2, ElementOfSeq
  <2>4. /\ SubSeq(bind, 1, k) \in Seq(B)
        /\ Len(SubSeq(bind, 1, k)) = IF 1 <= k THEN k - 1 + 1 ELSE 0
        /\ \A n \in 1 .. k - 1 + 1 : SubSeq(bind, 1, k)[n] = bind[1 + n - 1]
    BY <1>4, <2>3, SubSeqProperties
  <2>5. Len(SubSeq(bind, 1, k)) = k /\ \A n \in 1 .. k : SubSeq(bind, 1, k)[n] = bind[n]
    BY <1>4, <2>4
  <2>6. DOMAIN SubSeq(bind, 1, k) = 1 .. k
    BY <2>4, <2>5
  <2> QED BY <2>1, <2>5, <2>6
<1>6. ASSUME NEW n \in 1 .. k  PROVE bind[n].scope < h
  <2>1. k \in DOMAIN bind /\ n \in DOMAIN bind /\ k > 0
    BY <1>4
  <2>2. ~(h < bind[k].scope)
    <3>1. bind[k].depth \in Nat /\ bind[k].depth <= d
      BY <1>2, <2>1, BindIs
    <3>2. h < bind[k].scope => d < bind[k].depth
      BY <1>1, <2>1 DEF Recorded
    <3> QED BY <1>1, <3>1, <3>2
  <2>3. bind[k].scope \in Nat /\ bind[n].scope \in Nat /\ bind[k].scope # h
    BY <1>3, <2>1, BindIs DEF Bound
  <2>4. bind[k].scope < h
    BY <1>1, <2>2, <2>3
  <2>5. n = k \/ bind[n].scope < bind[k].scope
    BY <1>4, <2>1, BoundApart
  <2> QED BY <1>1, <2>3, <2>4, <2>5
<1>7. Groups(d) = {bind[n].scope : n \in k + 1 .. Len(bind)} /\ ended' = Groups(d)
  BY <1>2 DEF Groups, Raise
<1>8. Scopes("let")' = {i \in Scopes("let") : i < h}
  <2>1. Scopes("let")' = {i \in Scopes("let") : i <= h - 1}
    BY <1>1, ScopesShrink
  <2>2. \A i \in Scopes("let") : i <= h - 1 <=> i < h
    BY <1>1, <1>3
  <2> QED BY <2>1, <2>2
<1>9. ASSUME NEW i \in Scopes("let"), i < h
      PROVE  /\ stack'[i].exact = stack[i].exact
             /\ stack'[i].open = (stack[i].open /\ i \notin Groups(d))
  <2>1. i \in 1 .. h - 1 /\ stack[i].kind = "let"
    BY <1>1, <1>3, <1>9
  <2> QED BY <1>1, <2>1 DEF Shrinks, Alike
<1> HIDE DEF d, h
<1>10. /\ k \in 0 .. Len(bind) /\ DOMAIN bind' = 1 .. k
       /\ \A n \in 1 .. k : bind'[n] = bind[n] /\ bind[n].scope < h
       /\ Groups(d) = {bind[n].scope : n \in k + 1 .. Len(bind)}
       /\ ended' = Groups(d)
       /\ Scopes("let")' = {i \in Scopes("let") : i < h}
       /\ \A i \in Scopes("let") : i < h =>
            /\ stack'[i].exact = stack[i].exact
            /\ stack'[i].open = (stack[i].open /\ i \notin Groups(d))
  BY <1>2, <1>5, <1>6, <1>7, <1>8, <1>9
<1> QED BY <1>10 DEF RaiseKeeps, d, h

LEMMA BoundStep ==
  ASSUME TypeOK, Handlers, Bound, Recorded, [Next]_vars
  PROVE  Bound'
<1>1. CASE Call \/ HandOver \/ Return \/ TryBegin \/ TryEnd
  BY <1>1, SameLets DEF Bound
<1>2. CASE LetBegin
  <2>1. LetEnters /\ Len(bind) \in Nat /\ DOMAIN bind = 1 .. Len(bind) /\ Top \in Nat
    BY <1>2, LetBeginEnters, BindIs, ScopesAre
  <2>2. ASSUME NEW i \in Scopes("let")', stack'[i].open
        PROVE  \E n \in DOMAIN bind' : bind'[n].scope = i
    <3>1. CASE i = Top + 1
      <4>1. Len(bind) + 1 \in DOMAIN bind'
        BY <2>1 DEF LetEnters
      <4> QED BY <2>1, <3>1, <4>1 DEF LetEnters
    <3>2. CASE i \in Scopes("let")
      <4>1. PICK n \in DOMAIN bind : bind[n].scope = i
        BY <2>1, <2>2, <3>2 DEF Bound, LetEnters
      <4>2. n \in DOMAIN bind' /\ bind'[n] = bind[n]
        BY <2>1 DEF LetEnters
      <4> QED BY <4>1, <4>2
    <3> QED BY <2>1, <3>1, <3>2 DEF LetEnters
  <2>3. ASSUME NEW n \in DOMAIN bind'
        PROVE  /\ bind'[n].scope \in Scopes("let")' /\ stack'[bind'[n].scope].open
               /\ \A m \in 1 .. n - 1 : bind'[m].scope < bind'[n].scope
    <3>1. CASE n \in 1 .. Len(bind)
      <4>1. /\ bind'[n] = bind[n] /\ n \in DOMAIN bind
            /\ \A m \in 1 .. n - 1 : m \in 1 .. Len(bind) /\ bind'[m] = bind[m]
        BY <2>1, <3>1 DEF LetEnters
      <4>2. /\ bind[n].scope \in Scopes("let") /\ stack[bind[n].scope].open
            /\ \A m \in 1 .. n - 1 : bind[m].scope < bind[n].scope
        BY <4>1 DEF Bound
      <4> QED BY <2>1, <4>1, <4>2 DEF LetEnters
    <3>2. CASE n = Len(bind) + 1
      <4>1. \A m \in 1 .. Len(bind) : bind'[m] = bind[m] /\ bind[m].scope \in 1 .. Top
        BY <2>1, ScopesAre DEF LetEnters, Bound
      <4>2. bind'[n].scope = Top + 1 /\ n - 1 = Len(bind)
        BY <2>1, <3>2 DEF LetEnters
      <4> QED BY <2>1, <4>1, <4>2 DEF LetEnters
    <3>3. n \in 1 .. Len(bind) \/ n = Len(bind) + 1
      BY <2>1 DEF LetEnters
    <3> QED BY <3>1, <3>2, <3>3
  <2> QED BY <2>2, <2>3 DEF Bound
<1>3. CASE LetEnd
  <2>1. LetLeaves /\ Len(bind) \in Nat /\ DOMAIN bind = 1 .. Len(bind) /\ Top \in Nat
    BY <1>3, LetEndLeaves, BindIs, ScopesAre
  <2>2. ASSUME NEW i \in Scopes("let")', stack'[i].open
        PROVE  \E n \in DOMAIN bind' : bind'[n].scope = i
    <3>1. i \in Scopes("let") /\ i # Top /\ stack[i].open
      BY <2>1, <2>2 DEF LetLeaves
    <3>2. PICK n \in DOMAIN bind : bind[n].scope = i
      BY <3>1 DEF Bound
    <3>3. n # Len(bind)
      BY <2>1, <3>1, <3>2 DEF LetLeaves
    <3>4. n \in 1 .. Len(bind) - 1
      BY <2>1, <3>3
    <3> QED BY <2>1, <3>2, <3>4 DEF LetLeaves
  <2>3. ASSUME NEW n \in DOMAIN bind'
        PROVE  /\ bind'[n].scope \in Scopes("let")' /\ stack'[bind'[n].scope].open
               /\ \A m \in 1 .. n - 1 : bind'[m].scope < bind'[n].scope
    <3>1. /\ n \in 1 .. Len(bind) - 1 /\ bind'[n] = bind[n] /\ n \in DOMAIN bind
          /\ \A m \in 1 .. n - 1 : m \in 1 .. Len(bind) - 1 /\ bind'[m] = bind[m]
      BY <2>1 DEF LetLeaves
    <3>2. /\ bind[n].scope \in Scopes("let") /\ stack[bind[n].scope].open
          /\ \A m \in 1 .. n - 1 : bind[m].scope < bind[n].scope
      BY <3>1 DEF Bound
    <3>3. bind[n].scope # Top
      <4>1. Len(bind) \in DOMAIN bind /\ n < Len(bind)
        BY <2>1, <3>1 DEF LetLeaves
      <4>2. bind[n].scope < bind[Len(bind)].scope
        BY <3>1, <4>1, BoundApart
      <4> QED BY <2>1, <4>2 DEF LetLeaves
    <3> QED BY <2>1, <3>1, <3>2, <3>3 DEF LetLeaves
  <2> QED BY <2>2, <2>3 DEF Bound
<1>4. CASE Raise
  <2> DEFINE h == buf[depth - 1].scope
             G == Groups(depth - 1)
  <2>1. PICK k : RaiseKeeps(k)
    BY <1>4, RaiseIs
  <2>2. /\ k \in 0 .. Len(bind) /\ DOMAIN bind' = 1 .. k /\ Len(bind) \in Nat
        /\ DOMAIN bind = 1 .. Len(bind)
        /\ \A n \in 1 .. k : bind'[n] = bind[n] /\ bind[n].scope < h
        /\ G = {bind[n].scope : n \in k + 1 .. Len(bind)}
        /\ Scopes("let")' = {i \in Scopes("let") : i < h}
        /\ \A i \in Scopes("let") : i < h => stack'[i].open = (stack[i].open /\ i \notin G)
    BY <2>1, BindIs DEF RaiseKeeps
  <2> HIDE DEF h, G
  <2>3. ASSUME NEW i \in Scopes("let")', stack'[i].open
        PROVE  \E n \in DOMAIN bind' : bind'[n].scope = i
    <3>1. i \in Scopes("let") /\ i \notin G /\ stack[i].open
      BY <2>2, <2>3
    <3>2. PICK n \in DOMAIN bind : bind[n].scope = i
      BY <3>1 DEF Bound
    <3>3. n \notin k + 1 .. Len(bind)
      BY <2>2, <3>1, <3>2
    <3>4. n \in 1 .. k
      BY <2>2, <3>3
    <3> QED BY <2>2, <3>2, <3>4
  <2>4. ASSUME NEW n \in DOMAIN bind'
        PROVE  /\ bind'[n].scope \in Scopes("let")' /\ stack'[bind'[n].scope].open
               /\ \A m \in 1 .. n - 1 : bind'[m].scope < bind'[n].scope
    <3>1. /\ n \in 1 .. k /\ bind'[n] = bind[n] /\ n \in DOMAIN bind /\ bind[n].scope < h
          /\ \A m \in 1 .. n - 1 : m \in 1 .. k /\ bind'[m] = bind[m]
      BY <2>2
    <3>2. /\ bind[n].scope \in Scopes("let") /\ stack[bind[n].scope].open
          /\ \A m \in 1 .. n - 1 : bind[m].scope < bind[n].scope
      BY <3>1 DEF Bound
    <3>3. bind[n].scope \notin G
      <4>1. ASSUME NEW m \in k + 1 .. Len(bind)  PROVE bind[m].scope # bind[n].scope
        <5>1. m \in DOMAIN bind /\ n < m
          BY <2>2, <3>1
        <5>2. bind[n].scope < bind[m].scope /\ bind[n].scope \in Nat /\ bind[m].scope \in Nat
          BY <2>2, <3>1, <5>1, BoundApart, BindIs
        <5> QED BY <5>2
      <4> QED BY <2>2, <4>1
    <3> QED BY <2>2, <3>1, <3>2, <3>3
  <2> QED BY <2>3, <2>4 DEF Bound
<1>5. CASE UNCHANGED <<stack, bind>>
  BY <1>5 DEF Bound, Scopes
<1> QED BY <1>1, <1>2, <1>3, <1>4, <1>5, Others DEF Next

LEMMA RecordedStep ==
  ASSUME TypeOK, Handlers, Bound, Recorded, [Next]_vars
  PROVE  Recorded'
<1>0. /\ depth \in Nat /\ Top \in Nat /\ DOMAIN bind = 1 .. Len(bind) /\ Len(bind) \in Nat
      /\ \A n \in DOMAIN bind : /\ bind[n].scope \in Scopes("let") /\ bind[n].scope \in 1 .. Top
                                /\ bind[n].depth \in Nat
      /\ \A d \in 0 .. depth - 1 : buf[d].scope \in Scopes("try") /\ buf[d].scope \in 1 .. Top
      /\ \A i \in Scopes("let") : i \notin Scopes("try")
  <2>1. \A n \in DOMAIN bind : bind[n].scope \in Scopes("let") /\ bind[n].scope \in 1 .. Top
    BY ScopesAre DEF Bound
  <2>2. \A d \in 0 .. depth - 1 : buf[d].scope \in Scopes("try") /\ buf[d].scope \in 1 .. Top
    BY ScopesAre DEF Handlers
  <2>3. \A i \in Scopes("let") : i \notin Scopes("try")
    BY ScopesAre
  <2> QED BY <2>1, <2>2, <2>3, BindIs, ScopesAre, HandlersAre
<1>1. CASE Call \/ HandOver \/ Return
  <2>1. UNCHANGED <<depth, buf>>
    BY <1>1, SameTries
  <2> QED BY <1>0, <1>1, <2>1, SameLets DEF Recorded
<1>2. CASE TryBegin
  <2>1. /\ depth' = depth + 1 /\ buf'[depth].scope = Top + 1
        /\ \A d \in 0 .. depth - 1 : buf'[d] = buf[d]
    BY <1>2, TryAdds
  <2>2. /\ bind' = bind
        /\ \A n \in DOMAIN bind : stack'[bind[n].scope].exact = stack[bind[n].scope].exact
    BY <1>0, <1>2, SameLets
  <2> SUFFICES ASSUME NEW n \in DOMAIN bind'
        PROVE  /\ stack'[bind'[n].scope].exact => bind'[n].depth <= depth'
               /\ \A d \in 0 .. depth' - 1 :
                    /\ buf'[d].scope < bind'[n].scope => d < bind'[n].depth
                    /\ stack'[bind'[n].scope].exact /\ d < bind'[n].depth => buf'[d].scope < bind'[n].scope
    BY DEF Recorded
  <2>0. n \in DOMAIN bind /\ bind'[n] = bind[n]
    BY <2>2
  <2>3. stack[bind[n].scope].exact => bind[n].depth <= depth
    BY <2>0 DEF Recorded
  <2>4. ASSUME NEW d \in 0 .. depth - 1
        PROVE  /\ buf'[d].scope < bind[n].scope => d < bind[n].depth
               /\ stack[bind[n].scope].exact /\ d < bind[n].depth => buf'[d].scope < bind[n].scope
    BY <2>0, <2>1 DEF Recorded
  <2>5. /\ ~(buf'[depth].scope < bind[n].scope)
        /\ stack[bind[n].scope].exact => ~(depth < bind[n].depth)
    BY <1>0, <2>0, <2>1, <2>3
  <2>6. \A d \in 0 .. depth : d \in 0 .. depth - 1 \/ d = depth
    BY <1>0
  <2>7. stack'[bind'[n].scope].exact = stack[bind[n].scope].exact /\ depth' - 1 = depth
    BY <1>0, <2>0, <2>1, <2>2
  <2>8. stack[bind[n].scope].exact => bind[n].depth <= depth + 1
    BY <1>0, <2>0, <2>3
  <2> QED BY <2>0, <2>1, <2>4, <2>5, <2>6, <2>7, <2>8
<1>3. CASE TryEnd \/ Raise
  <2>1. /\ depth > 0 /\ depth' = depth - 1 /\ \A d \in 0 .. depth - 2 : buf'[d] = buf[d]
    BY <1>3, HandlerPopped DEF PopsHandler
  <2> DEFINE h == buf[depth - 1].scope
  <2>2. \E k \in 0 .. Len(bind) :
          /\ DOMAIN bind' = 1 .. k
          /\ \A n \in 1 .. k : /\ bind'[n] = bind[n] /\ bind[n].scope < h
                               /\ stack'[bind[n].scope].exact = stack[bind[n].scope].exact
    <3>1. CASE TryEnd
      <4>1. h = Top
        BY <3>1, TryEndTop
      <4>2. \A n \in DOMAIN bind : bind[n].scope < h
        BY <1>0, <2>1, <4>1
      <4>3. bind' = bind
            /\ \A n \in DOMAIN bind : stack'[bind[n].scope].exact = stack[bind[n].scope].exact
        BY <1>0, <3>1, SameLets
      <4> DEFINE k == Len(bind)
      <4>4. \A n \in 1 .. k : /\ bind'[n] = bind[n] /\ bind[n].scope < h
                              /\ stack'[bind[n].scope].exact = stack[bind[n].scope].exact
        BY <1>0, <4>2, <4>3
      <4>5. k \in 0 .. Len(bind) /\ DOMAIN bind' = 1 .. k
        BY <1>0, <4>3
      <4> HIDE DEF h, k
      <4> QED BY <4>4, <4>5
    <3>2. CASE Raise
      <4>1. PICK k : RaiseKeeps(k)
        BY <3>2, RaiseIs
      <4>2. /\ k \in 0 .. Len(bind) /\ DOMAIN bind' = 1 .. k
            /\ \A n \in 1 .. k : bind'[n] = bind[n] /\ bind[n].scope < h
            /\ \A i \in Scopes("let") : i < h => stack'[i].exact = stack[i].exact
        BY <4>1 DEF RaiseKeeps
      <4>3. \A n \in 1 .. k : n \in DOMAIN bind
        BY <1>0, <4>2
      <4>4. \A n \in 1 .. k : stack'[bind[n].scope].exact = stack[bind[n].scope].exact
        BY <1>0, <4>2, <4>3
      <4>5. \A n \in 1 .. k : /\ bind'[n] = bind[n] /\ bind[n].scope < h
                              /\ stack'[bind[n].scope].exact = stack[bind[n].scope].exact
        BY <4>2, <4>4
      <4>6. k \in 0 .. Len(bind) /\ DOMAIN bind' = 1 .. k
        BY <4>2
      <4> HIDE DEF h
      <4> QED BY <4>5, <4>6
    <3> QED BY <1>3, <3>1, <3>2
  <2>3. PICK k \in 0 .. Len(bind) :
          /\ DOMAIN bind' = 1 .. k
          /\ \A n \in 1 .. k : /\ bind'[n] = bind[n] /\ bind[n].scope < h
                               /\ stack'[bind[n].scope].exact = stack[bind[n].scope].exact
    BY <2>2
  <2> SUFFICES ASSUME NEW n \in DOMAIN bind'
        PROVE  /\ stack'[bind'[n].scope].exact => bind'[n].depth <= depth'
               /\ \A d \in 0 .. depth' - 1 :
                    /\ buf'[d].scope < bind'[n].scope => d < bind'[n].depth
                    /\ stack'[bind'[n].scope].exact /\ d < bind'[n].depth => buf'[d].scope < bind'[n].scope
    BY DEF Recorded
  <2>0. /\ n \in 1 .. k /\ bind'[n] = bind[n] /\ depth' - 1 = depth - 2
        /\ stack'[bind'[n].scope].exact = stack[bind[n].scope].exact
    BY <1>0, <2>1, <2>3
  <2>4. n \in DOMAIN bind /\ bind[n].scope < h /\ bind[n].depth \in Nat
    BY <1>0, <2>0, <2>3
  <2>5. \A d \in 0 .. depth - 1 :
          /\ buf[d].scope < bind[n].scope => d < bind[n].depth
          /\ stack[bind[n].scope].exact /\ d < bind[n].depth => buf[d].scope < bind[n].scope
    BY <2>4 DEF Recorded
  <2>6. stack[bind[n].scope].exact => ~(depth - 1 < bind[n].depth)
    <3>1. ~(h < bind[n].scope) /\ depth - 1 \in 0 .. depth - 1
      BY <1>0, <2>1, <2>4
    <3> QED BY <2>5, <3>1
  <2>7. stack[bind[n].scope].exact => bind[n].depth <= depth - 1
    BY <1>0, <2>4, <2>6
  <2>8. \A d \in 0 .. depth - 2 : d \in 0 .. depth - 1 /\ buf'[d] = buf[d]
    BY <1>0, <2>1
  <2> QED BY <2>0, <2>1, <2>5, <2>7, <2>8
<1>4. CASE LetBegin
  <2>1. LetEnters
    BY <1>4, LetBeginEnters
  <2>2. tryDepth \in Nat /\ depth <= tryDepth
    BY UnwindAssumption DEF TypeOK
  <2> SUFFICES ASSUME NEW n \in 1 .. Len(bind) + 1
               PROVE  /\ stack'[bind'[n].scope].exact => bind'[n].depth <= depth
                      /\ \A d \in 0 .. depth - 1 :
                           /\ buf[d].scope < bind'[n].scope => d < bind'[n].depth
                           /\ stack'[bind'[n].scope].exact /\ d < bind'[n].depth => buf[d].scope < bind'[n].scope
    BY <2>1 DEF Recorded, LetEnters
  <2>3. CASE n \in 1 .. Len(bind)
    <3>1. /\ bind'[n] = bind[n] /\ n \in DOMAIN bind
          /\ stack'[bind[n].scope].exact = stack[bind[n].scope].exact
      BY <1>0, <2>1, <2>3 DEF LetEnters
    <3> QED BY <3>1 DEF Recorded
  <2>4. CASE n = Len(bind) + 1
    <3>1. /\ bind'[n].scope = Top + 1 /\ bind'[n].depth = tryDepth
          /\ stack'[Top + 1].exact = (tryDepth = depth)
      BY <2>1, <2>4 DEF LetEnters
    <3>2. stack'[bind'[n].scope].exact => tryDepth = depth
      BY <3>1
    <3> QED BY <1>0, <2>2, <3>1, <3>2
  <2> QED BY <1>0, <2>3, <2>4
<1>5. CASE LetEnd
  <2>1. LetLeaves
    BY <1>5, LetEndLeaves
  <2>2. ASSUME NEW n \in 1 .. Len(bind) - 1
        PROVE  /\ bind'[n] = bind[n] /\ n \in DOMAIN bind
               /\ stack'[bind[n].scope].exact = stack[bind[n].scope].exact
    <3>1. bind'[n] = bind[n] /\ n \in DOMAIN bind /\ Len(bind) \in DOMAIN bind /\ n < Len(bind)
      BY <1>0, <2>1 DEF LetLeaves
    <3>2. bind[n].scope < Top
      BY <2>1, <3>1, BoundApart DEF LetLeaves
    <3>3. bind[n].scope # Top
      BY <1>0, <3>1, <3>2
    <3> QED BY <1>0, <2>1, <3>1, <3>3 DEF LetLeaves
  <2>3. DOMAIN bind' = 1 .. Len(bind) - 1 /\ UNCHANGED <<depth, buf>>
    BY <2>1 DEF LetLeaves
  <2> QED BY <2>2, <2>3 DEF Recorded
<1>6. CASE UNCHANGED <<stack, bind, depth, buf>>
  BY <1>6 DEF Recorded
<1> QED BY <1>1, <1>2, <1>3, <1>4, <1>5, <1>6, Others DEF Next

\* A raise ends no group outside the try, if the recorded depth is exact.
LEMMA RaiseExact ==
  ASSUME TypeOK, Handlers, Bound, Recorded, depth > 0,
         NEW i \in Groups(depth - 1), stack[i].exact
  PROVE  buf[depth - 1].scope < i
<1>1. PICK n \in Unbound(depth - 1) : bind[n].scope = i
  BY DEF Groups
<1>2. n \in DOMAIN bind /\ n \notin Kept(depth - 1) /\ n \in Nat /\ bind[n].depth \in Nat
  BY <1>1, BindIs DEF Unbound
<1>3. depth \in Nat /\ depth - 1 < bind[n].depth /\ depth - 1 \in 0 .. depth - 1
  BY <1>2 DEF Kept, TypeOK
<1> QED BY <1>1, <1>2, <1>3 DEF Recorded

LEMMA ExactOpenStep ==
  ASSUME TypeOK, Handlers, Bound, Recorded, ExactOpen, [Next]_vars
  PROVE  ExactOpen'
<1>1. CASE Call \/ HandOver \/ Return \/ TryBegin \/ TryEnd
  BY <1>1, SameLets DEF ExactOpen
<1>2. CASE LetBegin
  BY <1>2, LetBeginEnters DEF ExactOpen, LetEnters
<1>3. CASE LetEnd
  BY <1>3, LetEndLeaves DEF ExactOpen, LetLeaves
<1>4. CASE Raise
  <2>1. PICK k : RaiseKeeps(k)
    BY <1>4, RaiseIs
  <2> DEFINE h == buf[depth - 1].scope
  <2>2. /\ Scopes("let")' = {i \in Scopes("let") : i < h}
        /\ \A i \in Scopes("let") : i < h =>
             /\ stack'[i].exact = stack[i].exact
             /\ stack'[i].open = (stack[i].open /\ i \notin Groups(depth - 1))
    BY <2>1 DEF RaiseKeeps
  <2>3. \A i \in Groups(depth - 1) : stack[i].exact => h < i
    BY <1>4, RaiseExact DEF Raise
  <2>4. h \in Nat /\ \A i \in Scopes("let") : i \in Nat
    BY <1>4, RaiseShrinks, ScopesAre
  <2> HIDE DEF h
  <2> SUFFICES ASSUME NEW i \in Scopes("let")', stack'[i].exact  PROVE stack'[i].open
    BY DEF ExactOpen
  <2>5. i \in Scopes("let") /\ i < h /\ stack[i].exact
    BY <2>2
  <2>6. i \notin Groups(depth - 1)
    BY <2>3, <2>4, <2>5
  <2> QED BY <2>2, <2>5, <2>6 DEF ExactOpen
<1>5. CASE HandOverWild \/ TryTooDeep \/ RaiseUnhandled \/ LetTooDeep \/ LetEndedBefore \/ UNCHANGED vars
  BY <1>5, Others DEF ExactOpen, Scopes
<1> QED BY <1>1, <1>2, <1>3, <1>4, <1>5 DEF Next

-----------------------------------------------------------------------------
(* The types *)

LEMMA BindTypes ==
  ASSUME TypeOK, Handlers, Bound, Recorded, [Next]_vars
  PROVE  bind' \in Seq([scope : Nat \ {0}, depth : 0 .. MaxTry]) /\ Len(bind') <= MaxBind
<1> DEFINE B == [scope : Nat \ {0}, depth : 0 .. MaxTry]
<1>0. bind \in Seq(B) /\ Len(bind) <= MaxBind /\ Len(bind) \in Nat
  BY BindIs DEF TypeOK
<1>1. CASE Call \/ HandOver \/ Return \/ TryBegin \/ TryEnd
  BY <1>0, <1>1, SameLets
<1>2. CASE LetBegin
  <2>1. Top \in Nat /\ tryDepth \in 0 .. MaxTry
    BY ScopesAre, UnwindAssumption DEF TypeOK
  <2>2. PICK b : b = [scope |-> Top + 1, depth |-> tryDepth]
    OBVIOUS
  <2>3. b \in B /\ bind' = Append(bind, b) /\ Len(bind) < MaxBind
    BY <1>2, <2>1, <2>2 DEF LetBegin
  <2> HIDE DEF B
  <2>4. bind' \in Seq(B) /\ Len(bind') = Len(bind) + 1
    BY <1>0, <2>3, AppendProperties
  <2>5. Len(bind') <= MaxBind
    BY <1>0, <2>3, <2>4, UnwindAssumption
  <2> QED BY <2>4, <2>5 DEF B
<1>3. CASE LetEnd
  <2>1. bind' = Front(bind) /\ Len(bind) > 0
    BY <1>3, LetEndLeaves DEF LetLeaves
  <2> HIDE DEF B
  <2>2. Front(bind) \in Seq(B) /\ Len(Front(bind)) = Len(bind) - 1
    BY <1>0, <2>1, FrontIs
  <2> QED BY <1>0, <2>1, <2>2, UnwindAssumption DEF B
<1>4. CASE Raise
  <2>1. depth - 1 \in Nat
    BY <1>4, HandlersAre DEF Raise
  <2>2. PICK k \in 0 .. Len(bind) : Len(bind) - Cardinality(Unbound(depth - 1)) = k
    BY <2>1, UnboundSuffix
  <2>3. bind' = SubSeq(bind, 1, k)
    BY <1>4, <2>2 DEF Raise
  <2> HIDE DEF B
  <2>4. k \in Nat /\ k <= Len(bind) /\ \A n \in 1 .. k : bind[n] \in B
    BY <1>0, <2>2, ElementOfSeq
  <2>5. /\ SubSeq(bind, 1, k) \in Seq(B)
        /\ Len(SubSeq(bind, 1, k)) = IF 1 <= k THEN k - 1 + 1 ELSE 0
    BY <2>4, SubSeqProperties
  <2>6. Len(bind') <= Len(bind) /\ Len(bind') \in Nat
    BY <1>0, <2>3, <2>4, <2>5
  <2>7. Len(bind') <= MaxBind
    BY <1>0, <2>6, UnwindAssumption
  <2> QED BY <2>3, <2>5, <2>7 DEF B
<1>5. CASE HandOverWild \/ TryTooDeep \/ RaiseUnhandled \/ LetTooDeep \/ LetEndedBefore \/ UNCHANGED vars
  BY <1>0, <1>5, Others
<1> QED BY <1>1, <1>2, <1>3, <1>4, <1>5 DEF Next

LEMMA StackTypes ==
  ASSUME TypeOK, Handlers, Bound, [Next]_vars
  PROVE  stack' \in Seq(ScopeType) /\ Len(stack') <= MaxScopes
<1>0. stack \in Seq(ScopeType) /\ Top \in Nat /\ Top <= MaxScopes /\ MaxScopes \in Nat
  BY ScopesAre, UnwindAssumption DEF TypeOK
<1>1. CASE Call \/ HandOver \/ TryBegin \/ LetBegin
  <2>1. \E x : Grows(x)
    BY <1>1, CallGrows, TryBeginGrows, LetBeginGrows
  <2>2. Top < MaxScopes
    BY <1>1 DEF Call, HandOver, TryBegin, LetBegin, Enters
  <2> QED BY <1>0, <2>1, <2>2 DEF Grows
<1>2. CASE Return \/ TryEnd \/ LetEnd \/ Raise
  <2>1. \E k : Shrinks(k)
    BY <1>2, EndPops, RaiseShrinks DEF Pops
  <2> QED BY <1>0, <2>1 DEF Shrinks
<1>3. CASE HandOverWild \/ TryTooDeep \/ RaiseUnhandled \/ LetTooDeep \/ LetEndedBefore \/ UNCHANGED vars
  BY <1>0, <1>3, Others DEF Top
<1> QED BY <1>1, <1>2, <1>3 DEF Next

LEMMA HandlerTypes ==
  ASSUME TypeOK, Handlers, [Next]_vars
  PROVE  /\ depth' \in 0 .. MaxTry /\ tryDepth' \in depth' .. MaxTry
         /\ buf' \in [0 .. MaxTry - 1 -> [scope : Nat, frame : Int]]
<1>0. /\ depth \in 0 .. MaxTry /\ tryDepth \in depth .. MaxTry /\ MaxTry \in Nat
      /\ buf \in [0 .. MaxTry - 1 -> [scope : Nat, frame : Int]]
  BY UnwindAssumption DEF TypeOK
<1>1. CASE TryBegin
  <2>1. frame \in Int /\ Top \in Nat
    BY ScopesAre DEF TypeOK, NoFrame, Wild
  <2>2. [scope |-> Top + 1, frame |-> frame] \in [scope : Nat, frame : Int]
    BY <2>1
  <2> QED BY <1>0, <1>1, <2>2 DEF TryBegin
<1>2. CASE TryEnd \/ Raise
  <2>1. depth > 0 /\ Unused \in [scope : Nat, frame : Int]
    BY <1>2, TryEndTop DEF Raise, Unused, NoFrame
  <2>2. /\ depth' = depth - 1 /\ tryDepth' \in {depth - 1, tryDepth}
        /\ buf' = [buf EXCEPT ![depth - 1] = Unused]
    BY <1>2 DEF TryEnd, Raise
  <2> QED BY <1>0, <2>1, <2>2
<1>3. CASE UNCHANGED <<depth, tryDepth, buf>>
  BY <1>0, <1>3
<1>4. UNCHANGED <<depth, tryDepth, buf>> \/ TryBegin \/ TryEnd \/ Raise
  BY DEF Next, vars, Call, HandOver, HandOverWild, Return, TryTooDeep, RaiseUnhandled, LetBegin, LetTooDeep,
     LetEnd, LetEndedBefore, Ends
<1> QED BY <1>1, <1>2, <1>3, <1>4

LEMMA HistoryTypes ==
  ASSUME TypeOK, Bound, [Next]_vars
  PROVE  /\ ended' \subseteq Nat /\ released' \subseteq Nat
         /\ status' \in {"runs", "aborted", "undefined"}
<1>0. /\ ended \subseteq Nat /\ released \subseteq Nat /\ Top \in Nat
      /\ status \in {"runs", "aborted", "undefined"}
      /\ \A kind : Scopes(kind) \subseteq Nat
  BY ScopesAre DEF TypeOK
<1>1. CASE Raise
  <2>1. Groups(depth - 1) \subseteq Scopes("let")
    BY DEF Groups, Unbound, Bound
  <2> QED BY <1>0, <1>1, <2>1 DEF Raise, Passed
<1>2. CASE Return \/ LetEnd
  BY <1>0, <1>2 DEF Return, LetEnd
<1>3. CASE ~(Raise \/ Return \/ LetEnd)
  BY <1>0, <1>3 DEF Next, vars, Call, HandOver, HandOverWild, TryBegin, TryTooDeep, TryEnd, RaiseUnhandled,
     LetBegin, LetTooDeep, LetEndedBefore, Ends, Enters
<1> QED BY <1>1, <1>2, <1>3

LEMMA TypeStep ==
  ASSUME TypeOK, Handlers, Bound, Recorded, FramesKnown', [Next]_vars
  PROVE  TypeOK'
<1>1. frame' \in Scopes("fn")' \cup {NoFrame, Wild}
  BY DEF FramesKnown, Frames
<1> QED BY <1>1, StackTypes, HandlerTypes, BindTypes, HistoryTypes DEF TypeOK, Top

-----------------------------------------------------------------------------
(* The theorems *)

LEMMA InitOK == Init => IInv
<1> SUFFICES ASSUME Init  PROVE IInv
  OBVIOUS
<1>1. stack = <<>> /\ bind = <<>> /\ depth = 0 /\ Top = 0 /\ frame = NoFrame
  BY DEF Init, Top
<1>2. \A kind : Scopes(kind) = {}
  BY <1>1 DEF Scopes
<1>3. TypeOK
  BY <1>1, UnwindAssumption DEF Init, TypeOK, Unused, NoFrame
<1>4. Counted
  BY <1>1, <1>2, FS_EmptySet DEF Counted
<1> QED BY <1>1, <1>2, <1>3, <1>4 DEF IInv, FramesKnown, Frames, Handlers, Bound, Recorded, ExactOpen

\* The four stacks of the runtime (handlers, frames, bindings, depths) agree with the
\* program's nesting in every reachable state.
THEOREM Invariant == Spec => []IInv
<1>1. IInv /\ [Next]_vars => IInv'
  <2> SUFFICES ASSUME IInv, [Next]_vars  PROVE IInv'
    OBVIOUS
  <2>1. FramesKnown'
    <3>1. CASE Next
      BY <3>1, FramesStep DEF IInv
    <3>2. CASE UNCHANGED vars
      BY <3>2 DEF IInv, FramesKnown, Frames, Scopes, Top, vars
    <3> QED BY <3>1, <3>2
  <2> QED BY <2>1, TypeStep, HandlersStep, BoundStep, RecordedStep, ExactOpenStep, CountedStep DEF IInv
<1> QED BY <1>1, InitOK, PTL DEF Spec

\* Every variable has its type; in particular yona_try_depth is never below
\* yona_exc.depth, so code that reads 0 sets up no frame a handler needs.
THEOREM TypeCorrect == Spec => []TypeOK
<1>1. IInv => TypeOK
  BY DEF IInv
<1> QED BY <1>1, Invariant, PTL

\* The handlers are the tries the program is in (yona_rt_try_push, try_pop and
\* raise), however it got there.
THEOREM HandlersCorrect == Spec => []HandlersLive
<1>1. IInv => HandlersLive
  BY DEF IInv, Counted, Handlers, HandlersLive
<1> QED BY <1>1, Invariant, PTL

\* A scope that is still there has not been left.
LEMMA Stays ==
  ASSUME TypeOK, NEW kind, NEW i \in Scopes(kind)'
  PROVE  stack' \in Seq(ScopeType) => ~Gone(i)
BY DEF Scopes, Gone

\* The groups that a raise ends (yona_rt_group_arena_unwind_to) are those of the
\* lets it leaves.
LEMMA RaiseEnds ==
  ASSUME IInv, Raise, NEW i \in Scopes("let")
  PROVE  /\ stack[i].exact => (Gone(i) <=> i \in ended')
         /\ Gone(i) /\ stack[i].open => i \in ended'
<1> DEFINE h == buf[depth - 1].scope
<1>1. PICK k : RaiseKeeps(k)
  BY RaiseIs DEF IInv
<1>2. /\ \A n \in 1 .. k : bind[n].scope < h
      /\ ended' = {bind[n].scope : n \in k + 1 .. Len(bind)} /\ ended' = Groups(depth - 1)
      /\ k \in 0 .. Len(bind)
  BY <1>1 DEF RaiseKeeps
<1>3. h \in 1 .. Top /\ i \in 1 .. Top /\ i # h /\ Top \in Nat /\ DOMAIN stack = 1 .. Top
  BY RaiseShrinks, ScopesAre DEF IInv
<1>4. Len(stack') = h - 1
  BY RaiseShrinks DEF IInv, Shrinks
<1>5. Gone(i) <=> h < i
  BY <1>3, <1>4 DEF Gone
<1>6. ASSUME h < i, stack[i].open  PROVE i \in ended'
  <2>1. PICK n \in DOMAIN bind : bind[n].scope = i
    BY <1>6 DEF IInv, Bound
  <2>2. ~(bind[n].scope < h)
    BY <1>3, <1>6, <2>1
  <2>3. n \in 1 .. Len(bind) /\ Len(bind) \in Nat
    BY BindIs DEF IInv
  <2>4. n \in k + 1 .. Len(bind)
    BY <1>2, <2>2, <2>3
  <2> QED BY <1>2, <2>1, <2>4
<1>7. i \in ended' /\ stack[i].exact => h < i
  BY <1>2, RaiseExact DEF IInv, Raise
<1> QED BY <1>5, <1>6, <1>7 DEF IInv, ExactOpen

\* A group ends as its let is left, by its value (yona_rt_group_end) or by a
\* raise, and once; what was recorded for it is what decides.
THEOREM GroupsCorrect == Spec => GroupsEndedAsLeft
<1>1. ASSUME IInv, IInv', [Next]_vars
      PROVE  [/\ \A i \in Scopes("let") : stack[i].exact => (Gone(i) <=> i \in ended')
              /\ \A i \in Scopes("let") : Gone(i) /\ stack[i].open => i \in ended'
              /\ ended' \subseteq {i \in Scopes("let") : stack[i].open}]_vars
  <2>0. TypeOK /\ Handlers /\ Bound /\ stack' \in Seq(ScopeType)
    BY <1>1 DEF IInv, TypeOK
  <2>1. CASE Call \/ HandOver \/ Return \/ TryBegin \/ TryEnd \/ LetBegin
    <3>1. Scopes("let") \subseteq Scopes("let")'
      BY <2>0, <2>1, SameLets, LetBeginEnters DEF LetEnters
    <3>2. ended' = {}
      BY <2>1 DEF Call, HandOver, Return, TryBegin, TryEnd, LetBegin, Enters
    <3> QED BY <2>0, <3>1, <3>2, Stays
  <2>2. CASE LetEnd
    <3>1. LetLeaves /\ Pops /\ ended' = {Top} /\ stack[Top].open /\ Top \in Nat /\ DOMAIN stack = 1 .. Top
      BY <2>0, <2>2, LetEndLeaves, EndPops, ScopesAre DEF LetEnd
    <3>2. Top \in Scopes("let") /\ \A i \in Scopes("let") \ {Top} : i \in Scopes("let")'
      BY <3>1 DEF LetLeaves
    <3>3. Gone(Top)
      BY <3>1, <3>2, ScopesAre DEF Pops, Shrinks, Gone
    <3>4. \A i \in Scopes("let") \ {Top} : ~Gone(i)
      BY <2>0, <3>2, Stays
    <3> QED BY <3>1, <3>2, <3>3, <3>4
  <2>3. CASE Raise
    <3>1. ended' \subseteq {i \in Scopes("let") : stack[i].open}
      BY <2>0, <2>3 DEF Raise, Groups, Unbound, Bound
    <3> QED BY <1>1, <2>3, <3>1, RaiseEnds
  <2>4. CASE HandOverWild \/ TryTooDeep \/ RaiseUnhandled \/ LetTooDeep \/ LetEndedBefore \/ UNCHANGED vars
    <3>1. UNCHANGED vars \/ (ended' = {} /\ Scopes("let")' = Scopes("let"))
      BY <2>4, Others DEF Scopes
    <3> QED BY <2>0, <3>1, Stays
  <2> QED BY <1>1, <2>1, <2>2, <2>3, <2>4 DEF Next
<1> QED BY <1>1, Invariant, PTL DEF Spec, GroupsEndedAsLeft

-----------------------------------------------------------------------------
(* The chain *)

\* The functions whose frame is in the chain, and the frame the outermost try
\* found: what lies under the first of them.
Linked == {f \in Scopes("fn") : stack[f].frame = "linked"}
Base == IF depth > 0 THEN buf[0].frame ELSE frame

\* p is the frame of the innermost linked function below position i, if there is one.
FrameAt(i, p) ==
  IF \E f \in Linked : f < i
  THEN p \in Linked /\ p < i /\ \A g \in Linked : g < i => g <= p
  ELSE p = Base

\* The linked functions are those called inside the tries; the current frame, each
\* prev and each saved frame is the one of the linked function next below.
Chained ==
  /\ \A f \in Scopes("fn") : stack[f].frame = "linked" <=> (depth > 0 /\ buf[0].scope < f)
  /\ FrameAt(Top + 1, frame)
  /\ \A f \in Linked : FrameAt(f, stack[f].prev)
  /\ \A d \in 0 .. depth - 1 : FrameAt(buf[d].scope, buf[d].frame)

\* A frame in the chain drops its function's parameter as long as the function has it.
Owned ==
  \A f \in Scopes("fn") : stack[f].drop <=> (stack[f].frame = "linked" /\ stack[f].held)

-----------------------------------------------------------------------------
(* Walking the chain *)

\* What the walk does at frame f, going on by g.
Met(stop, f, g) == IF f \in {NoFrame, Wild, stop} THEN {f} ELSE {f} \cup g[stack[f].prev]
Chains == Scopes("fn") \cup {NoFrame, Wild}

LEMMA WalkDef ==
  ASSUME NEW stop
  PROVE  Walk(stop) = (CHOOSE g : g = [f \in Chains |-> Met(stop, f, g)])[frame]
BY DEF Walk, Met, Chains

\* The recursion has a solution, since a frame's prev is further down.
LEMMA WalkExists ==
  ASSUME TypeOK, FramesKnown, NEW stop
  PROVE  \E g : g = [f \in Chains |-> Met(stop, f, g)]
<1> DEFINE Good(n) == \E g \in [Chains -> SUBSET Chains] : \A f \in Chains : f <= n => g[f] = Met(stop, f, g)
           I == {n \in 0 .. Top : ~Good(n)}
<1>0. /\ Top \in Nat /\ Scopes("fn") \subseteq 1 .. Top /\ Chains \subseteq Int
      /\ \A f \in Chains : f <= Top
      /\ \A f \in Scopes("fn") : stack[f].prev \in Chains /\ stack[f].prev < f
  BY ScopesAre DEF Chains, FramesKnown, Frames, NoFrame, Wild
<1>1. Good(Top)
  <2>1. SUFFICES ASSUME I # {}  PROVE FALSE
    BY <1>0
  <2>2. PICK n \in I : \A j \in I : n <= j
    <3> I \in SUBSET Nat
      BY <1>0
    <3> HIDE DEF I
    <3> QED BY <2>1, SmallestOf
  <2>3. n # 0
    <3> DEFINE g == [f \in Chains |-> {f}]
    <3>1. g \in [Chains -> SUBSET Chains]
      OBVIOUS
    <3>2. \A f \in Chains : f <= 0 => g[f] = Met(stop, f, g)
      BY <1>0 DEF Chains, Met, NoFrame, Wild
    <3> HIDE DEF g
    <3>3. Good(0)
      BY <3>1, <3>2
    <3> QED BY <3>3
  <2>4. n \in 1 .. Top /\ n - 1 \in 0 .. Top /\ ~Good(n) /\ n - 1 \notin I
    BY <1>0, <2>2, <2>3
  <2>5. PICK g \in [Chains -> SUBSET Chains] : \A f \in Chains : f <= n - 1 => g[f] = Met(stop, f, g)
    BY <2>4
  <2>6. CASE n \notin Chains
    <3>1. \A f \in Chains : f <= n => f <= n - 1
      BY <1>0, <2>4, <2>6
    <3>2. Good(n)
      BY <2>5, <3>1
    <3> QED BY <2>4, <3>2
  <2>7. CASE n \in Chains
    <3> DEFINE h == [g EXCEPT ![n] = Met(stop, n, g)]
    <3>1. n \in Scopes("fn") /\ stack[n].prev \in Chains /\ stack[n].prev < n
      BY <1>0, <2>4, <2>7 DEF Chains, NoFrame, Wild
    <3>2. Met(stop, n, g) \in SUBSET Chains
      BY <2>5, <2>7, <3>1 DEF Met
    <3>3. h \in [Chains -> SUBSET Chains] /\ h[n] = Met(stop, n, g) /\ \A f \in Chains : f # n => h[f] = g[f]
      BY <2>5, <2>7, <3>2
    <3> HIDE DEF h
    <3>4. ASSUME NEW f \in Chains, f <= n  PROVE h[f] = Met(stop, f, h)
      <4>1. Met(stop, f, h) = Met(stop, f, g)
        <5>1. CASE f \in {NoFrame, Wild, stop}
          BY <5>1 DEF Met
        <5>2. CASE f \notin {NoFrame, Wild, stop}
          <6>1. f \in Scopes("fn") /\ stack[f].prev \in Chains /\ stack[f].prev < f /\ stack[f].prev \in Int /\ f \in Int
            BY <1>0, <5>2 DEF Chains
          <6>2. stack[f].prev # n
            BY <2>4, <3>4, <6>1
          <6>3. h[stack[f].prev] = g[stack[f].prev]
            BY <3>3, <6>1, <6>2
          <6> QED BY <5>2, <6>3 DEF Met
        <5> QED BY <5>1, <5>2
      <4>2. CASE f = n
        BY <3>3, <4>1, <4>2
      <4>3. CASE f # n
        <5>1. f <= n - 1
          BY <1>0, <2>4, <3>4, <4>3
        <5> QED BY <2>5, <3>3, <4>1, <4>3, <5>1
      <4> QED BY <4>2, <4>3
    <3>5. Good(n)
      BY <3>3, <3>4
    <3> QED BY <2>4, <3>5
  <2> QED BY <2>6, <2>7
<1>2. PICK g \in [Chains -> SUBSET Chains] : \A f \in Chains : f <= Top => g[f] = Met(stop, f, g)
  BY <1>1
<1>3. g = [f \in Chains |-> Met(stop, f, g)]
  BY <1>0, <1>2
<1> QED BY <1>3

LEMMA WalkIs ==
  ASSUME TypeOK, FramesKnown, NEW stop
  PROVE  \E g : /\ Walk(stop) = g[frame]
                /\ \A f \in Chains : g[f] = Met(stop, f, g)
<1>1. PICK g : g = CHOOSE h : h = [f \in Chains |-> Met(stop, f, h)]
  OBVIOUS
<1>2. g = [f \in Chains |-> Met(stop, f, g)]
  BY <1>1, WalkExists
<1>3. Walk(stop) = g[frame]
  BY <1>1, WalkDef
<1> QED BY <1>2, <1>3

\* Walking to the frame a handler saved passes the frames of the linked functions
\* called since its try began, and ends there.
LEMMA WalkToHandler ==
  ASSUME IInv, Chained, NEW d \in 0 .. depth - 1
  PROVE  /\ Walk(buf[d].frame) = {f \in Linked : buf[d].scope < f} \cup {buf[d].frame}
         /\ buf[d].frame < buf[d].scope /\ buf[d].frame \in Linked \cup {NoFrame, Wild}
<1>0. PICK h, stop : h = buf[d].scope /\ stop = buf[d].frame
  OBVIOUS
<1>1. /\ h \in Int /\ h > 0 /\ h <= Top /\ h \notin Linked /\ Top \in Nat /\ Linked \subseteq Scopes("fn")
      /\ \A f \in Linked : f \in Int /\ f > 0 /\ f <= Top
  <2>1. h \in 1 .. Top /\ h \in Scopes("try") /\ Top \in Nat
    BY <1>0, HandlersAre, ScopesAre DEF IInv, Handlers
  <2>2. stack[h].kind = "try" /\ \A f \in Scopes("fn") : f \in 1 .. Top /\ stack[f].kind = "fn"
    BY <2>1, ScopesAre DEF IInv
  <2>3. Linked \subseteq Scopes("fn")
    BY DEF Linked
  <2>4. h \notin Linked
    BY <2>2, <2>3
  <2>5. h \in Int /\ h > 0 /\ h <= Top
    BY <2>1
  <2>6. \A f \in Scopes("fn") : f \in Int /\ f > 0 /\ f <= Top
    BY <2>1, <2>2
  <2>7. \A f \in Linked : f \in Int /\ f > 0 /\ f <= Top
    BY <2>3, <2>6
  <2> QED BY <2>1, <2>3, <2>4, <2>5, <2>7
<1>2. FrameAt(h, stop) /\ FrameAt(Top + 1, frame) /\ \A f \in Linked : FrameAt(f, stack[f].prev)
  BY <1>0 DEF Chained
<1>3. stop \in Chains /\ stop < h /\ stop \in Linked \cup {NoFrame, Wild}
  BY <1>0, <1>1 DEF IInv, FramesKnown, Frames, Chains, Linked, NoFrame, Wild
<1>4. PICK g : Walk(stop) = g[frame] /\ \A f \in Chains : g[f] = Met(stop, f, g)
  BY WalkIs DEF IInv
<1> DEFINE Beyond(p) == {f \in Linked : h < f /\ f <= p} \cup {stop}
\* The frame of a position above the handler is above it too, or the one saved.
<1>5. ASSUME NEW i \in 1 .. Top + 1, h <= i, NEW p, FrameAt(i, p)
      PROVE  (p \in Linked /\ h < p /\ p < i /\ \A f \in Linked : f < i => f <= p)
             \/ (p = stop /\ \A f \in Linked : f < i => f < h)
  <2>1. CASE \E f \in Linked : f < i /\ h < f
    BY <1>1, <1>5, <2>1 DEF FrameAt
  <2>2. CASE ~\E f \in Linked : f < i /\ h < f
    <3>1. \A f \in Linked : f < i <=> f < h
      BY <1>1, <1>5, <2>2
    <3>2. p = stop
      BY <1>1, <1>2, <1>5, <3>1 DEF FrameAt
    <3> QED BY <3>1, <3>2
  <2> QED BY <2>1, <2>2
<1>6. g[stop] = {stop}
  BY <1>3, <1>4 DEF Met
<1>7. \A p \in Linked : h < p => g[p] = Beyond(p)
  <2> DEFINE I == {p \in Linked : h < p /\ g[p] # Beyond(p)}
  <2>1. SUFFICES ASSUME I # {}  PROVE FALSE
    OBVIOUS
  <2>2. PICK p \in I : \A q \in I : p <= q
    <3> I \in SUBSET Nat
      BY <1>1
    <3> HIDE DEF I
    <3> QED BY <2>1, SmallestOf
  <2>3. p \in Linked /\ h < p /\ p \in Chains /\ p \notin {NoFrame, Wild, stop} /\ p \in 1 .. Top
    BY <1>1, <1>3 DEF Chains, NoFrame, Wild
  <2>4. g[p] = {p} \cup g[stack[p].prev]
    BY <1>4, <2>3 DEF Met
  <2>5. PICK q : q = stack[p].prev /\ FrameAt(p, q)
    BY <1>2, <2>3
  <2>6. CASE q \in Linked /\ h < q /\ q < p /\ \A f \in Linked : f < p => f <= q
    <3>1. q \notin I
      BY <1>1, <2>2, <2>3, <2>6
    <3>2. g[q] = Beyond(q)
      BY <2>6, <3>1
    <3>3. g[p] = {p} \cup Beyond(q)
      BY <2>4, <2>5, <3>2
    <3>4. \A f \in Linked : f = p \/ (h < f /\ f <= q) <=> h < f /\ f <= p
      BY <1>1, <2>3, <2>6
    <3>5. {p} \cup Beyond(q) = Beyond(p)
      BY <2>3, <3>4
    <3> QED BY <2>2, <3>3, <3>5
  <2>7. CASE q = stop /\ \A f \in Linked : f < p => f < h
    <3>1. g[p] = {p} \cup {stop}
      BY <1>6, <2>4, <2>5, <2>7
    <3>2. \A f \in Linked : f = p <=> h < f /\ f <= p
      BY <1>1, <2>3, <2>7
    <3>3. {p} \cup {stop} = Beyond(p)
      BY <2>3, <3>2
    <3> QED BY <2>2, <3>1, <3>3
  <2>8. p \in 1 .. Top + 1 /\ h <= p
    BY <1>1, <2>3
  <2>9. \/ q \in Linked /\ h < q /\ q < p /\ \A f \in Linked : f < p => f <= q
        \/ q = stop /\ \A f \in Linked : f < p => f < h
    <3> HIDE DEF I
    <3> QED BY <1>5, <2>5, <2>8
  <2> QED BY <2>6, <2>7, <2>9
<1>8. Walk(stop) = {f \in Linked : h < f} \cup {stop}
  <2>1. CASE frame \in Linked /\ h < frame /\ \A f \in Linked : f < Top + 1 => f <= frame
    BY <1>1, <1>4, <1>7, <2>1
  <2>2. CASE frame = stop /\ \A f \in Linked : f < Top + 1 => f < h
    BY <1>1, <1>4, <1>6, <2>2
  <2> QED BY <1>1, <1>2, <1>5, <2>1, <2>2
<1> QED BY <1>0, <1>3, <1>8

-----------------------------------------------------------------------------
(* The chain and the tries *)

LEMMA LinkedIs ==
  ASSUME TypeOK
  PROVE  /\ Top \in Nat /\ Linked \subseteq Scopes("fn")
         /\ \A f \in Scopes("fn") : f \in Int /\ f > 0 /\ f <= Top /\ stack[f].kind = "fn"
<1>1. \A f \in Scopes("fn") : f \in 1 .. Top /\ stack[f].kind = "fn"
  BY ScopesAre
<1> QED BY <1>1, ScopesAre DEF Linked

LEMMA LinkedGrow ==
  ASSUME TypeOK, NEW x, Grows(x)
  PROVE  Linked' = Linked \cup {f \in {Top + 1} : x.kind = "fn" /\ x.frame = "linked"}
<1>1. /\ Scopes("fn")' = Scopes("fn") \cup {i \in {Top + 1} : x.kind = "fn"}
      /\ stack'[Top + 1] = x /\ Top \in Nat
  BY ScopesGrow, ScopesAre DEF Grows
<1>2. \A f \in Scopes("fn") : stack'[f].frame = stack[f].frame
  BY ScopesAre DEF Grows, Alike
<1> QED BY <1>1, <1>2 DEF Linked

LEMMA LinkedShrink ==
  ASSUME TypeOK, NEW k, Shrinks(k)
  PROVE  Linked' = {f \in Linked : f <= k}
<1>1. Scopes("fn")' = {i \in Scopes("fn") : i <= k} /\ k \in Int
  BY ScopesShrink, ScopesAre DEF Shrinks
<1>2. \A f \in Scopes("fn") : f <= k => stack'[f].frame = stack[f].frame
  BY <1>1, ScopesAre DEF Shrinks, Alike
<1> QED BY <1>1, <1>2 DEF Linked

\* The frame at a position depends on the linked functions below it only.
LEMMA SameFrameAt ==
  ASSUME TypeOK, Base' = Base, NEW i \in Int, NEW j \in Int, NEW p, i <= j,
         \A f \in Linked : f < i => f \in Linked',
         \A f \in Linked' : f < j => f \in Linked /\ f < i,
         FrameAt(i, p)
  PROVE  FrameAt(j, p)'
<1>0. \A f \in Linked : f \in Int
  BY LinkedIs
<1>1. CASE \E f \in Linked : f < i
  <2>1. p \in Linked /\ p < i /\ \A f \in Linked : f < i => f <= p
    BY <1>1 DEF FrameAt
  <2>2. \E f \in Linked' : f < j
    BY <1>0, <2>1
  <2>3. p \in Linked' /\ p < j /\ \A f \in Linked' : f < j => f <= p
    BY <1>0, <2>1
  <2> QED BY <2>2, <2>3 DEF FrameAt
<1>2. CASE ~\E f \in Linked : f < i
  <2>1. p = Base
    BY <1>2 DEF FrameAt
  <2>2. ~\E f \in Linked' : f < j
    BY <1>2
  <2> QED BY <2>1, <2>2 DEF FrameAt
<1> QED BY <1>1, <1>2

\* A scope more.
GrowsChain(x) ==
  /\ x.kind = "fn" => x.prev = frame /\ depth' = depth /\ (x.frame = "linked" <=> depth > 0)
  /\ frame' = IF x.kind = "fn" /\ x.frame = "linked" THEN Top + 1 ELSE frame
  /\ depth' \in Nat /\ depth' >= depth
  /\ \A d \in 0 .. depth - 1 : buf'[d] = buf[d]
  /\ \A d \in depth .. depth' - 1 : buf'[d].scope = Top + 1 /\ buf'[d].frame = frame

LEMMA GrownChain ==
  ASSUME TypeOK, Handlers, Chained, NEW x, Grows(x), GrowsChain(x)
  PROVE  Chained'
<1>0. PICK n \in Nat : n = Top
  BY ScopesAre
<1>a. /\ x.kind = "fn" => x.prev = frame /\ depth' = depth /\ (x.frame = "linked" <=> depth > 0)
      /\ frame' = IF x.kind = "fn" /\ x.frame = "linked" THEN n + 1 ELSE frame
  BY <1>0 DEF GrowsChain
<1>b. PICK l \in Nat, m \in Nat : depth = l /\ depth' = m /\ m >= l
  BY HandlersAre DEF GrowsChain
<1>c. \A d \in Nat : d < depth => buf'[d] = buf[d]
  <2>1. \A d \in 0 .. depth - 1 : buf'[d] = buf[d]
    BY DEF GrowsChain
  <2> QED BY <1>b, <2>1
<1>d. \A d \in Nat : depth <= d /\ d < depth' => buf'[d].scope = n + 1 /\ buf'[d].frame = frame
  <2>1. \A d \in depth .. depth' - 1 : buf'[d].scope = n + 1 /\ buf'[d].frame = frame
    BY <1>0 DEF GrowsChain
  <2> QED BY <1>b, <2>1
<1>1. /\ Top' = n + 1 /\ stack'[n + 1] = x /\ depth \in Nat
      /\ Scopes("fn")' = Scopes("fn") \cup {i \in {n + 1} : x.kind = "fn"}
      /\ Linked' = Linked \cup {i \in {n + 1} : x.kind = "fn" /\ x.frame = "linked"}
      /\ \A f \in Scopes("fn") : /\ f \in Int /\ f > 0 /\ f <= n
                                 /\ stack'[f].frame = stack[f].frame /\ stack'[f].prev = stack[f].prev
      /\ Linked \subseteq Scopes("fn")
  <2>1. \A f \in Scopes("fn") : f \in 1 .. Top /\ stack[f].kind = "fn"
    BY ScopesAre
  <2> QED BY <1>0, <2>1, ScopesGrow, LinkedGrow, LinkedIs, HandlersAre DEF Grows, Alike, Top
<1>2. Base' = Base
  <2>1. CASE depth > 0
    BY <1>b, <1>c, <2>1 DEF Base
  <2>2. CASE depth = 0 /\ depth' > 0
    BY <1>b, <1>d, <2>2 DEF Base
  <2>3. CASE depth = 0 /\ depth' = 0
    BY <1>a, <2>3 DEF Base
  <2> QED BY <1>b, <2>1, <2>2, <2>3
<1>3. \A i \in Int : \A p : i <= n + 1 /\ FrameAt(i, p) => FrameAt(i, p)'
  <2> SUFFICES ASSUME NEW i \in Int, NEW p, i <= n + 1, FrameAt(i, p)  PROVE FrameAt(i, p)'
    OBVIOUS
  <2>1. \A f \in Linked' : f < i => f \in Linked
    BY <1>1
  <2> QED BY <1>1, <1>2, <2>1, SameFrameAt
<1>4. PICK fr, to : fr = frame /\ to = frame'
  OBVIOUS
<1>5. FrameAt(n + 1, fr)' /\ (frame' = fr => FrameAt(n + 2, fr)')
  <2>1. FrameAt(n + 1, fr)
    BY <1>0, <1>4 DEF Chained
  <2>2. ASSUME frame' = fr  PROVE FrameAt(n + 2, fr)'
    <3>1. \A f \in Linked' : f < n + 2 => f \in Linked /\ f < n + 1
      <4>1. ~(x.kind = "fn" /\ x.frame = "linked") \/ n + 1 = fr
        BY <1>a, <1>4, <2>2
      <4>2. fr # n + 1
        BY <1>1, <1>4 DEF TypeOK, NoFrame, Wild
      <4> QED BY <1>1, <4>1, <4>2
    <3> QED BY <1>1, <1>2, <2>1, <3>1, SameFrameAt
  <2>3. FrameAt(n + 1, fr)'
    BY <1>3, <2>1
  <2> QED BY <2>2, <2>3
<1>6. FrameAt(n + 2, to)'
  <2>1. CASE x.kind = "fn" /\ x.frame = "linked"
    <3>1. to = n + 1 /\ to \in Linked' /\ \A f \in Linked' : f \in Int /\ f <= n + 1
      BY <1>a, <1>1, <1>4, <2>1
    <3> QED BY <3>1 DEF FrameAt
  <2>2. CASE ~(x.kind = "fn" /\ x.frame = "linked")
    BY <1>a, <1>4, <1>5, <2>2
  <2> QED BY <2>1, <2>2
<1>7. ASSUME NEW f \in Linked'
      PROVE  FrameAt(f, stack[f].prev)'
  <2>1. PICK p : p = stack'[f].prev
    OBVIOUS
  <2>2. CASE f \in Linked
    <3>1. FrameAt(f, p) /\ f \in Int /\ f <= n + 1
      BY <1>1, <2>1, <2>2 DEF Chained
    <3> QED BY <1>3, <2>1, <3>1
  <2>3. CASE f = n + 1 /\ x.kind = "fn"
    <3>1. p = fr
      BY <1>a, <1>1, <1>4, <2>1, <2>3
    <3> QED BY <1>5, <2>1, <2>3, <3>1
  <2> QED BY <1>1, <2>2, <2>3
<1>8. ASSUME NEW d \in 0 .. m - 1
      PROVE  FrameAt(buf[d].scope, buf[d].frame)'
  <2>1. PICK i, p : i = buf'[d].scope /\ p = buf'[d].frame
    OBVIOUS
  <2>2. CASE d < l
    <3>1. d \in 0 .. depth - 1 /\ buf'[d] = buf[d]
      BY <1>b, <1>c, <2>2
    <3>2. FrameAt(i, p) /\ i \in 1 .. Top
      BY <2>1, <3>1, HandlersAre DEF Chained
    <3> QED BY <1>0, <1>3, <2>1, <3>2
  <2>3. CASE l <= d
    <3>1. i = n + 1 /\ p = fr
      BY <1>b, <1>d, <1>4, <2>1, <2>3
    <3> QED BY <1>5, <2>1, <3>1
  <2> QED BY <1>b, <2>2, <2>3
<1>9. ASSUME NEW f \in Scopes("fn")'
      PROVE  stack'[f].frame = "linked" <=> (depth' > 0 /\ buf'[0].scope < f)
  <2>1. CASE f \in Scopes("fn")
    <3>1. stack[f].frame = "linked" <=> (depth > 0 /\ buf[0].scope < f)
      BY <2>1 DEF Chained
    <3>2. f \in Int /\ f <= n /\ stack'[f].frame = stack[f].frame
      BY <1>1, <2>1
    <3>3. CASE depth > 0
      BY <1>b, <1>c, <3>1, <3>2, <3>3
    <3>4. CASE depth = 0 /\ depth' > 0
      <4>1. buf'[0].scope = n + 1
        BY <1>d, <3>4
      <4> QED BY <3>1, <3>2, <3>4, <4>1
    <3>5. CASE depth = 0 /\ depth' = 0
      BY <3>1, <3>2, <3>5
    <3> QED BY <1>b, <3>3, <3>4, <3>5
  <2>2. CASE f = n + 1 /\ x.kind = "fn"
    <3>1. stack'[f].frame = "linked" <=> depth > 0
      BY <1>a, <1>1, <2>2
    <3>2. depth' = depth
      BY <1>a, <2>2
    <3>3. depth > 0 => buf'[0] = buf[0] /\ buf[0].scope \in 1 .. n
      BY <1>0, <1>b, <1>c, HandlersAre
    <3> QED BY <1>1, <2>2, <3>1, <3>2, <3>3
  <2> QED BY <1>1, <2>1, <2>2
<1>10. FrameAt(Top + 1, frame)'
  <2>1. PICK q : q = Top' + 1
    OBVIOUS
  <2>2. q = n + 2
    BY <1>1, <2>1
  <2> QED BY <1>4, <1>6, <2>1, <2>2
<1> QED BY <1>b, <1>7, <1>8, <1>9, <1>10 DEF Chained

\* Scopes less, with what is left of the chain still what the handlers saw.
ShrinksChain(k) ==
  /\ depth' \in Nat /\ depth' <= depth
  /\ \A d \in 0 .. depth' - 1 : buf'[d] = buf[d] /\ buf[d].scope <= k
  /\ depth > 0 /\ depth' = 0 => k < buf[0].scope
  /\ depth' > 0 => FrameAt(k + 1, frame')

LEMMA ShrunkChain ==
  ASSUME TypeOK, Handlers, Chained, NEW k, Shrinks(k), ShrinksChain(k)
  PROVE  Chained'
<1>a. PICK l \in Nat, m \in Nat : depth = l /\ depth' = m /\ m <= l
  BY HandlersAre DEF ShrinksChain
<1>b. \A d \in Nat : d < m => buf'[d] = buf[d] /\ buf[d].scope <= k
  <2>1. \A d \in 0 .. m - 1 : buf'[d] = buf[d] /\ buf[d].scope <= k
    BY <1>a DEF ShrinksChain
  <2> QED BY <2>1
<1>c. /\ depth > 0 /\ depth' = 0 => k < buf[0].scope
      /\ depth' > 0 => FrameAt(k + 1, frame')
  BY DEF ShrinksChain
<1>1. /\ k \in Nat /\ k <= Top /\ Top' = k /\ Top \in Nat
      /\ Scopes("fn")' = {f \in Scopes("fn") : f <= k}
      /\ Linked' = {f \in Linked : f <= k}
      /\ Linked \subseteq Scopes("fn")
      /\ depth \in Nat
      /\ \A d \in 0 .. depth - 1 : buf[d].scope \in 1 .. Top
  BY ScopesShrink, LinkedShrink, LinkedIs, HandlersAre DEF Shrinks, Top
<1>2. \A f \in Scopes("fn")' :
        /\ f \in Scopes("fn") /\ f \in Int /\ f > 0 /\ f <= k
        /\ stack'[f].frame = stack[f].frame /\ stack'[f].prev = stack[f].prev
  BY <1>1, LinkedIs DEF Shrinks, Alike
<1>3. \A f \in Scopes("fn")' : stack[f].frame = "linked" <=> (depth > 0 /\ buf[0].scope < f)
  BY <1>2 DEF Chained
<1>4. CASE depth' = 0
  <2>1. \A f \in Scopes("fn")' : ~(stack'[f].frame = "linked")
    BY <1>a, <1>c, <1>1, <1>2, <1>3, <1>4
  <2>2. Linked' = {} /\ Base' = frame'
    BY <1>4, <2>1 DEF Linked, Base
  <2>3. FrameAt(Top + 1, frame)'
    BY <2>2 DEF FrameAt
  <2> QED BY <1>4, <2>1, <2>2, <2>3 DEF Chained
<1>5. CASE depth' > 0
  <2>1. Base' = Base /\ depth > 0 /\ buf'[0] = buf[0]
    <3>1. depth > 0
      BY <1>a, <1>5
    <3>2. buf'[0] = buf[0]
      BY <1>a, <1>b, <1>5
    <3> QED BY <1>5, <3>1, <3>2 DEF Base
  <2>2. \A i \in Int : \A p : i <= k + 1 /\ FrameAt(i, p) => FrameAt(i, p)'
    <3> SUFFICES ASSUME NEW i \in Int, NEW p, i <= k + 1, FrameAt(i, p)  PROVE FrameAt(i, p)'
      OBVIOUS
    <3>1. /\ \A f \in Linked : f < i => f \in Linked'
          /\ \A f \in Linked' : f < i => f \in Linked /\ f < i
      BY <1>1, LinkedIs
    <3> QED BY <2>1, <3>1, SameFrameAt
  <2>3. FrameAt(Top + 1, frame)'
    <3>1. PICK to, q : to = frame' /\ q = Top' + 1
      OBVIOUS
    <3>2. q = k + 1 /\ FrameAt(q, to)
      BY <1>c, <1>1, <1>5, <3>1
    <3> QED BY <1>1, <2>2, <3>1, <3>2
  <2>4. ASSUME NEW f \in Linked'
        PROVE  FrameAt(f, stack[f].prev)'
    <3>1. PICK p : p = stack'[f].prev
      OBVIOUS
    <3>2. f \in Linked /\ f \in Scopes("fn")' /\ f \in Scopes("fn") /\ f <= k
      BY <1>1
    <3>3. f \in Int /\ f <= k + 1 /\ p = stack[f].prev
      BY <1>1, <1>2, <3>1, <3>2
    <3>4. FrameAt(f, p)
      BY <3>2, <3>3 DEF Chained
    <3> QED BY <2>2, <3>1, <3>3, <3>4
  <2>5. ASSUME NEW d \in 0 .. m - 1
        PROVE  FrameAt(buf[d].scope, buf[d].frame)'
    <3>1. PICK i, p : i = buf'[d].scope /\ p = buf'[d].frame
      OBVIOUS
    <3>2. d \in 0 .. depth - 1 /\ i = buf[d].scope /\ p = buf[d].frame /\ i \in Int /\ i <= k
      <4>1. d \in 0 .. depth - 1 /\ d \in Nat /\ d < m
        BY <1>a
      <4>2. buf'[d] = buf[d] /\ buf[d].scope <= k /\ buf[d].scope \in 1 .. Top
        BY <1>b, <1>1, <4>1
      <4> QED BY <3>1, <4>1, <4>2
    <3>3. FrameAt(i, p) /\ i <= k + 1
      BY <1>1, <3>2 DEF Chained
    <3> QED BY <2>2, <3>1, <3>2, <3>3
  <2>6. \A f \in Scopes("fn")' : stack'[f].frame = "linked" <=> (depth' > 0 /\ buf'[0].scope < f)
    BY <1>2, <1>3, <1>5, <2>1
  <2> QED BY <1>a, <2>3, <2>4, <2>5, <2>6 DEF Chained
<1> QED BY <1>a, <1>4, <1>5

-----------------------------------------------------------------------------
(* The steps and the chain *)

\* A position that is no function's has the frame of the position below.
LEMMA FrameBelow ==
  ASSUME TypeOK, NEW n \in Int, n \notin Scopes("fn"), NEW p, FrameAt(n + 1, p)
  PROVE  FrameAt(n, p)
<1>1. \A f \in Linked : f \in Int /\ (f < n + 1 <=> f < n)
  BY LinkedIs
<1> QED BY <1>1 DEF FrameAt

LEMMA ChainStep ==
  ASSUME IInv, Chained, Next
  PROVE  Chained'
<1>0. PICK n \in Nat, D \in Nat : Top = n /\ depth = D
  BY ScopesAre DEF IInv, TypeOK
<1>i. TypeOK /\ Handlers /\ Bound /\ FramesKnown
  BY DEF IInv
<1>h. \A d \in 0 .. D - 1 : buf[d].scope \in 1 .. n /\ buf[d].scope \in Scopes("try")
  BY <1>0, <1>i, HandlersAre DEF Handlers
<1>k. \A f \in Scopes("fn") : f \in 1 .. n /\ stack[f].kind = "fn"
  BY <1>0, <1>i, ScopesAre
<1>t. n + 1 \in Int /\ FrameAt(n + 1, frame)
  BY <1>0 DEF Chained
<1>1. CASE Call \/ HandOver
  <2>1. PICK x : x = Fn
    OBVIOUS
  <2>2. /\ Grows(x) /\ frame' = IF Setup = "linked" THEN Top + 1 ELSE frame
        /\ depth' = depth /\ buf' = buf
    BY <1>1, <1>i, <2>1, CallGrows
  <2>3. x.kind = "fn" /\ x.prev = frame /\ x.frame = Setup
    BY <2>1 DEF Fn
  <2>4. Setup = "linked" <=> depth > 0
    BY <1>i DEF Setup, TypeOK
  <2>5. \A d \in depth .. depth' - 1 : FALSE
    BY <1>0, <2>2
  <2>6. GrowsChain(x)
    BY <1>0, <2>2, <2>3, <2>4, <2>5 DEF GrowsChain
  <2> QED BY <1>i, <2>2, <2>6, GrownChain
<1>2. CASE TryBegin
  <2>1. PICK x : x = [kind |-> "try"]
    OBVIOUS
  <2>2. /\ frame' = frame /\ depth' = D + 1 /\ D \in 0 .. MaxTry - 1
        /\ buf' = [buf EXCEPT ![D] = [scope |-> n + 1, frame |-> frame]]
    BY <1>0, <1>2, <1>i, UnwindAssumption DEF TryBegin, TypeOK
  <2>3. Grows(x) /\ x.kind = "try"
    BY <1>2, <1>i, <2>1, TryBeginGrows
  <2>4. /\ \A d \in 0 .. D - 1 : buf'[d] = buf[d]
        /\ buf'[D].scope = n + 1 /\ buf'[D].frame = frame
    BY <1>i, <2>2, UnwindAssumption DEF TypeOK
  <2>5. \A d \in D .. D + 1 - 1 : d = D
    OBVIOUS
  <2>6. GrowsChain(x)
    BY <1>0, <2>2, <2>3, <2>4, <2>5 DEF GrowsChain
  <2> QED BY <1>i, <2>3, <2>6, GrownChain
<1>3. CASE LetBegin
  <2>1. PICK x : x = [kind |-> "let", open |-> TRUE, exact |-> tryDepth = depth]
    OBVIOUS
  <2>2. Grows(x) /\ x.kind = "let" /\ depth' = D /\ buf' = buf /\ frame' = frame
    BY <1>0, <1>3, <1>i, <2>1, LetBeginGrows DEF LetBegin
  <2>3. \A d \in D .. D - 1 : FALSE
    OBVIOUS
  <2>4. GrowsChain(x)
    BY <1>0, <2>2, <2>3 DEF GrowsChain
  <2> QED BY <1>i, <2>2, <2>4, GrownChain
<1>4. CASE Return
  <2>1. Shrinks(n - 1) /\ n > 0 /\ depth' = D /\ buf' = buf
    BY <1>0, <1>4, <1>i, EndPops DEF Pops, Return
  <2>2. n \in Scopes("fn") /\ stack[n].kind = "fn"
    BY <1>0, <1>4, <1>i, <2>1, ScopesAre DEF Return, TopIs
  <2>3. ASSUME NEW d \in 0 .. D - 1  PROVE buf[d].scope <= n - 1
    <3>1. buf[d].scope \in 1 .. n /\ stack[buf[d].scope].kind = "try"
      BY <1>h, <1>i, ScopesAre
    <3>2. buf[d].scope # n
      BY <2>2, <3>1
    <3> QED BY <3>1, <3>2
  <2>4. ASSUME D > 0  PROVE FrameAt(n, frame')
    <3>1. 0 \in 0 .. D - 1
      BY <2>4
    <3>2. buf[0].scope < n
      BY <1>h, <2>3, <3>1
    <3>3. stack[n].frame = "linked" /\ n \in Linked
      BY <1>0, <2>2, <2>4, <3>2 DEF Chained, Linked
    <3>4. frame' = stack[n].prev
      BY <1>0, <1>4, <3>3 DEF Return
    <3> QED BY <3>3, <3>4 DEF Chained
  <2>5. ShrinksChain(n - 1)
    <3>1. n - 1 + 1 = n
      OBVIOUS
    <3> QED BY <1>0, <2>1, <2>3, <2>4, <3>1 DEF ShrinksChain
  <2> QED BY <1>i, <2>1, <2>5, ShrunkChain
<1>5. CASE LetEnd
  <2>1. Shrinks(n - 1) /\ n > 0 /\ depth' = D /\ buf' = buf /\ frame' = frame
    BY <1>0, <1>5, <1>i, EndPops DEF Pops, LetEnd
  <2>2. stack[n].kind = "let"
    BY <1>0, <1>5 DEF LetEnd, TopIs
  <2>3. ASSUME NEW d \in 0 .. D - 1  PROVE buf[d].scope <= n - 1
    <3>1. buf[d].scope \in 1 .. n /\ stack[buf[d].scope].kind = "try"
      BY <1>h, <1>i, ScopesAre
    <3>2. buf[d].scope # n
      BY <2>2, <3>1
    <3> QED BY <3>1, <3>2
  <2>4. n \notin Scopes("fn")
    BY <1>k, <2>2
  <2>5. FrameAt(n, frame')
    BY <1>i, <1>t, <2>1, <2>4, FrameBelow
  <2>6. ShrinksChain(n - 1)
    <3>1. n - 1 + 1 = n
      OBVIOUS
    <3> QED BY <1>0, <2>1, <2>3, <2>5, <3>1 DEF ShrinksChain
  <2> QED BY <1>i, <2>1, <2>6, ShrunkChain
<1>6. CASE TryEnd
  <2>1. Shrinks(n - 1) /\ n > 0 /\ frame' = frame
    BY <1>0, <1>6, <1>i, EndPops DEF Pops, TryEnd
  <2>2. D > 0 /\ buf[D - 1].scope = n /\ stack[n].kind = "try"
    BY <1>0, <1>6, <1>i, TryEndTop DEF TryEnd, TopIs
  <2>3. depth' = D - 1 /\ buf' = [buf EXCEPT ![D - 1] = Unused]
    BY <1>0, <1>6 DEF TryEnd
  <2>4. \A d \in 0 .. D - 2 : buf'[d] = buf[d] /\ buf[d].scope <= n - 1
    <3>1. \A d \in 0 .. D - 2 : buf'[d] = buf[d]
      BY <1>0, <1>i, <2>3, UnwindAssumption DEF TypeOK
    <3>2. \A d \in 0 .. D - 2 : buf[d].scope \in 1 .. n /\ buf[d].scope < n
      BY <1>0, <1>h, <1>i, <2>2, HandlersAre
    <3> QED BY <3>1, <3>2
  <2>5. FrameAt(n, frame')
    <3>1. n \notin Scopes("fn")
      BY <1>k, <2>2
    <3> QED BY <1>i, <1>t, <2>1, <3>1, FrameBelow
  <2>6. ShrinksChain(n - 1)
    <3>1. n - 1 + 1 = n /\ D - 1 - 1 = D - 2 /\ D - 1 \in Nat /\ D - 1 <= D
      BY <2>2
    <3>2. D - 1 = 0 => n - 1 < buf[0].scope
      BY <2>2
    <3> QED BY <1>0, <2>3, <2>4, <2>5, <3>1, <3>2 DEF ShrinksChain
  <2> QED BY <1>i, <2>1, <2>6, ShrunkChain
<1>7. CASE Raise
  <2>1. PICK h : h = buf[D - 1].scope
    OBVIOUS
  <2>2. D > 0 /\ Shrinks(h - 1) /\ h \in 1 .. n
    BY <1>0, <1>7, <1>h, <1>i, <2>1, RaiseShrinks, ScopesAre
  <2>3. depth' = D - 1 /\ buf' = [buf EXCEPT ![D - 1] = Unused]
    BY <1>0, <1>7 DEF Raise
  <2>4. \A d \in 0 .. D - 2 : buf'[d] = buf[d] /\ buf[d].scope <= h - 1
    <3>1. \A d \in 0 .. D - 2 : buf'[d] = buf[d]
      BY <1>0, <1>i, <2>3, UnwindAssumption DEF TypeOK
    <3>2. \A d \in 0 .. D - 2 : buf[d].scope < h
      BY <1>0, <1>i, <2>1, HandlersAre
    <3>3. \A d \in 0 .. D - 2 : d \in 0 .. D - 1
      OBVIOUS
    <3> QED BY <1>h, <2>2, <3>1, <3>2, <3>3
  <2>5. FrameAt(h, frame')
    <3>1. D - 1 \in 0 .. D - 1
      BY <2>2
    <3>2. frame' \in Stops(buf[D - 1].frame)
      BY <1>0, <1>7 DEF Raise
    <3>3. frame' = buf[D - 1].frame
      <4>1. NoFrame \notin {f \in Linked : buf[D - 1].scope < f}
        BY <1>i, LinkedIs DEF NoFrame
      <4> QED BY <1>0, <3>1, <3>2, <4>1, WalkToHandler DEF Stops
    <3> QED BY <1>0, <2>1, <3>1, <3>3 DEF Chained
  <2>6. ShrinksChain(h - 1)
    <3>1. h - 1 + 1 = h /\ D - 1 - 1 = D - 2 /\ D - 1 \in Nat /\ D - 1 <= D
      BY <2>2
    <3>2. D - 1 = 0 => h - 1 < buf[0].scope
      BY <2>1, <2>2
    <3> QED BY <1>0, <2>3, <2>4, <2>5, <3>1, <3>2 DEF ShrinksChain
  <2> QED BY <1>i, <2>2, <2>6, ShrunkChain
<1>8. CASE UNCHANGED <<stack, depth, buf, frame>>
  BY <1>8 DEF Chained, FrameAt, Linked, Base, Scopes, Top
<1>9. HandOverWild \/ TryTooDeep \/ RaiseUnhandled \/ LetTooDeep \/ LetEndedBefore
      => UNCHANGED <<stack, depth, buf, frame>>
  BY DEF HandOverWild, TryTooDeep, RaiseUnhandled, LetTooDeep, LetEndedBefore, Ends
<1> QED BY <1>1, <1>2, <1>3, <1>4, <1>5, <1>6, <1>7, <1>8, <1>9 DEF Next

\* The current frame is the innermost function's, if that one is in the chain.
LEMMA FrameOfOwner ==
  ASSUME IInv, Chained, Scopes("fn") # {}, stack[Owner].frame = "linked"
  PROVE  frame = Owner
<1>1. Owner \in Scopes("fn") /\ \A f \in Scopes("fn") : f <= Owner
  <2>1. \E i \in Scopes("fn") : \A j \in Scopes("fn") : j <= i
    BY ScopesAre, LargestOf DEF IInv
  <2> QED BY <2>1 DEF Owner, Innermost
<1>2. Owner \in Linked /\ Owner \in Int /\ Owner < Top + 1 /\ \A f \in Linked : f \in Int /\ f < Top + 1 /\ f <= Owner
  BY <1>1, LinkedIs DEF IInv, Linked
<1>3. frame \in Linked /\ Owner <= frame
  BY <1>2 DEF Chained, FrameAt
<1> QED BY <1>2, <1>3

LEMMA OwnedStep ==
  ASSUME IInv, Chained, Owned, Next
  PROVE  Owned'
<1>0. TypeOK /\ Handlers /\ Bound /\ Top \in Nat
  BY ScopesAre DEF IInv
<1>k. \A f \in Scopes("fn") : f \in 1 .. Top /\ stack[f].kind = "fn"
  BY <1>0, ScopesAre
<1>o. \A f \in Scopes("fn") : stack[f].drop <=> (stack[f].frame = "linked" /\ stack[f].held)
  BY DEF Owned
<1>1. CASE Call \/ HandOver
  <2>1. PICK x : x = Fn
    OBVIOUS
  <2>2. Grows(x) /\ x.drop = (x.frame = "linked") /\ x.held
    BY <1>0, <1>1, <2>1, CallGrows DEF Fn
  <2>3. stack'[Top + 1] = x /\ Scopes("fn")' \subseteq Scopes("fn") \cup {Top + 1}
    BY <1>0, <2>2, ScopesGrow DEF Grows
  <2>4. ASSUME NEW f \in Scopes("fn")
        PROVE  stack'[f].drop <=> (stack'[f].frame = "linked" /\ stack'[f].held)
    <3>1. CASE Call
      <4>1. stack' = Append(stack, Fn) /\ stack \in Seq(ScopeType)
        BY <1>0, <3>1 DEF Call, Enters, TypeOK
      <4>2. stack'[f] = stack[f]
        BY <1>k, <4>1 DEF Top
      <4> QED BY <1>o, <4>2
    <3>2. CASE HandOver
      <4> DEFINE s == [stack EXCEPT ![Owner].held = FALSE, ![Owner].drop = @ /\ frame # Owner]
      <4>1. stack' = Append(s, Fn) /\ stack \in Seq(ScopeType) /\ Owner \in Scopes("fn")
        BY <1>0, <3>2, OwnerIs DEF HandOver, MayHandOver, TypeOK
      <4>2. /\ stack[Owner] \in [kind : {"fn"}, frame : {"none", "unlinked", "linked"}, prev : Int,
                                 held : BOOLEAN, drop : BOOLEAN]
            /\ Owner \in 1 .. Top
        BY <1>0, <1>k, <4>1, ScopesAre DEF ScopeType
      <4>3. PICK y : y = [stack[Owner] EXCEPT !.held = FALSE, !.drop = @ /\ frame # Owner]
        OBVIOUS
      <4>4. y.frame = stack[Owner].frame /\ y.held = FALSE /\ y.drop = (stack[Owner].drop /\ frame # Owner)
            /\ y \in ScopeType
        BY <4>2, <4>3 DEF ScopeType
      <4>5. s = [stack EXCEPT ![Owner] = y]
        BY <4>1, <4>2, <4>3
      <4> HIDE DEF s
      <4>6. s \in Seq(ScopeType) /\ Len(s) = Top /\ s[Owner] = y /\ (f # Owner => s[f] = stack[f])
        BY <1>k, <4>1, <4>2, <4>4, <4>5 DEF Top
      <4>7. stack'[f] = s[f]
        BY <1>k, <4>1, <4>6
      <4>8. CASE f = Owner
        <5>1. ~y.drop
          BY <1>o, <4>1, <4>4, FrameOfOwner
        <5> QED BY <4>4, <4>6, <4>7, <4>8, <5>1
      <4>9. CASE f # Owner
        BY <1>o, <4>6, <4>7, <4>9
      <4> QED BY <4>8, <4>9
    <3> QED BY <1>1, <3>1, <3>2
  <2> QED BY <2>2, <2>3, <2>4 DEF Owned
<1>2. CASE TryBegin \/ LetBegin
  <2>1. PICK x : stack' = Append(stack, x) /\ x.kind # "fn"
    BY <1>2 DEF TryBegin, LetBegin, Enters
  <2>2. stack \in Seq(ScopeType)
    BY <1>0 DEF TypeOK
  <2>3. \A f \in DOMAIN stack' : (f \in 1 .. Top /\ stack'[f] = stack[f]) \/ stack'[f] = x
    BY <2>1, <2>2 DEF Top
  <2>4. \A f \in Scopes("fn")' : f \in Scopes("fn") /\ stack'[f] = stack[f]
    BY <1>0, <2>1, <2>3, ScopesAre DEF Scopes
  <2> QED BY <1>o, <2>4 DEF Owned
<1>3. CASE Return \/ TryEnd \/ LetEnd
  <2>1. stack' = Front(stack) /\ stack # <<>> /\ stack \in Seq(ScopeType)
    BY <1>0, <1>3 DEF Return, TryEnd, LetEnd, TopIs, TypeOK
  <2>2. Len(stack') = Top - 1 /\ \A i \in 1 .. Top - 1 : stack'[i] = stack[i]
    BY <2>1, FrontIs DEF Top
  <2>3. Shrinks(Top - 1)
    BY <1>0, <1>3, EndPops DEF Pops
  <2>4. \A f \in Scopes("fn")' : f \in Scopes("fn") /\ stack'[f] = stack[f]
    <3>1. Scopes("fn")' = {f \in Scopes("fn") : f <= Top - 1}
      BY <1>0, <2>3, ScopesShrink
    <3> QED BY <1>0, <1>k, <2>2, <3>1
  <2> QED BY <1>o, <2>4 DEF Owned
<1>4. CASE Raise
  <2>1. PICK h : h = buf[depth - 1].scope
    OBVIOUS
  <2>2. Shrinks(h - 1) /\ h \in 1 .. Top
    BY <1>0, <1>4, <2>1, RaiseShrinks, ScopesAre
  <2>3. \A i \in 1 .. h - 1 : i \notin Groups(depth - 1) => stack'[i] = stack[i]
    BY <1>4, <2>1 DEF Raise
  <2>4. \A f \in Scopes("fn")' : f \in Scopes("fn") /\ stack'[f] = stack[f]
    <3>1. Scopes("fn")' = {f \in Scopes("fn") : f <= h - 1}
      BY <1>0, <2>2, ScopesShrink
    <3>2. \A f \in Groups(depth - 1) : stack[f].kind = "let"
      BY <1>0, ScopesAre DEF Groups, Unbound, Bound
    <3>3. ASSUME NEW f \in Scopes("fn")'  PROVE f \in Scopes("fn") /\ stack'[f] = stack[f]
      <4>1. f \in Scopes("fn") /\ f \in 1 .. h - 1 /\ stack[f].kind = "fn"
        BY <1>k, <2>2, <3>1
      <4> QED BY <2>3, <3>2, <4>1
    <3> QED BY <3>3
  <2> QED BY <1>o, <2>4 DEF Owned
<1>5. CASE UNCHANGED stack
  BY <1>5 DEF Owned, Scopes
<1>6. HandOverWild \/ TryTooDeep \/ RaiseUnhandled \/ LetTooDeep \/ LetEndedBefore
      => UNCHANGED stack
  BY DEF HandOverWild, TryTooDeep, RaiseUnhandled, LetTooDeep, LetEndedBefore, Ends
<1> QED BY <1>1, <1>2, <1>3, <1>4, <1>5, <1>6 DEF Next

-----------------------------------------------------------------------------
ChainInv == IInv /\ Chained /\ Owned

\* And so does the chain of frames: what yona_frame_push links and a raise unlinks
\* are the functions called inside the tries, innermost first.
THEOREM ChainInvariant == Spec => []ChainInv
<1>1. Init => ChainInv
  BY InitOK DEF Init, ChainInv, Chained, Owned, FrameAt, Base, Linked, Scopes, Top
<1>2. ASSUME ChainInv, [Next]_vars, IInv'  PROVE ChainInv'
  <2>1. CASE Next
    BY <1>2, <2>1, ChainStep, OwnedStep DEF ChainInv
  <2>2. CASE UNCHANGED vars
    BY <1>2, <2>2 DEF ChainInv, Chained, Owned, FrameAt, Base, Linked, Scopes, Top, vars
  <2> QED BY <1>2, <2>1, <2>2
<1>3. ChainInv /\ [Next]_vars /\ IInv' => ChainInv'
  BY <1>2
<1> QED BY <1>1, <1>3, Invariant, PTL DEF Spec

\* The frame that frame_transfer looks into is the innermost function's, and every
\* frame a try saved (yona_rt_try_push) is met by the walk from the current one
\* (yona_rt_unwind_frames_to), however functions, tries and raises nested before.
THEOREM ChainCorrect == Spec => []ChainIntact
<1>1. ChainInv => ChainIntact
  <2> SUFFICES ASSUME ChainInv  PROVE ChainIntact
    OBVIOUS
  <2>1. ASSUME NEW f \in Scopes("fn"), f = Owner /\ stack[f].frame = "linked"  PROVE frame = f
    BY <2>1, FrameOfOwner DEF ChainInv
  <2>2. ASSUME NEW d \in 0 .. depth - 1  PROVE buf[d].frame \in Stops(buf[d].frame)
    BY WalkToHandler DEF ChainInv, Stops
  <2> QED BY <2>1, <2>2 DEF ChainIntact
<1> QED BY <1>1, ChainInvariant, PTL

\* A function's parameter is released as the function is left, by its epilogue or
\* by the raise that passes its frame, unless it was handed over; and by no one else.
THEOREM ParamsCorrect == Spec => ParamsReleasedOnce
<1>1. ASSUME ChainInv, [Next]_vars
      PROVE  [released' = {i \in Scopes("fn") : Gone(i) /\ stack[i].held}]_vars
  <2>0. /\ TypeOK /\ Handlers /\ Bound /\ Top \in Nat /\ DOMAIN stack = 1 .. Top
        /\ \A f \in Scopes("fn") : f \in 1 .. Top /\ stack[f].kind = "fn"
    BY <1>1, ScopesAre DEF ChainInv, IInv
  <2>1. CASE Call \/ HandOver \/ TryBegin \/ LetBegin
    <3>1. \E x : Grows(x)
      BY <2>0, <2>1, CallGrows, TryBeginGrows, LetBeginGrows
    <3>2. Len(stack') = Top + 1 /\ released' = {}
      BY <2>1, <3>1 DEF Grows, Call, HandOver, TryBegin, LetBegin, Enters
    <3>3. \A f \in Scopes("fn") : ~Gone(f)
      BY <2>0, <3>2 DEF Gone
    <3> QED BY <3>2, <3>3
  <2>2. CASE Return \/ TryEnd \/ LetEnd
    <3>1. Len(stack') = Top - 1 /\ Top > 0
      BY <2>0, <2>2, EndPops DEF Pops, Shrinks
    <3>2. \A f \in Scopes("fn") : Gone(f) <=> f = Top
      BY <2>0, <3>1 DEF Gone
    <3>3. CASE Return
      <4>1. Top \in Scopes("fn")
        BY <2>0, <3>1, <3>3, ScopesAre DEF Return, TopIs
      <4>2. released' = IF stack[Top].held THEN {Top} ELSE {}
        BY <3>3 DEF Return
      <4> QED BY <3>2, <4>1, <4>2
    <3>4. CASE TryEnd \/ LetEnd
      <4>1. Top \notin Scopes("fn") /\ released' = {}
        BY <2>0, <3>4 DEF TryEnd, LetEnd, TopIs
      <4> QED BY <3>2, <4>1
    <3> QED BY <2>2, <3>3, <3>4
  <2>3. CASE Raise
    <3>1. PICK d, h, stop : d = depth - 1 /\ h = buf[d].scope /\ stop = buf[d].frame
      OBVIOUS
    <3>2. d \in 0 .. depth - 1 /\ h \in 1 .. Top /\ Shrinks(h - 1) /\ stack[h].kind = "try"
      BY <2>0, <2>3, <3>1, RaiseShrinks, ScopesAre, HandlersAre
    <3>3. released' = {i \in Passed(stop) : stack[i].drop}
      BY <2>3, <3>1 DEF Raise
    <3>4. Walk(stop) = {f \in Linked : h < f} \cup {stop} /\ stop < h
      BY <1>1, <3>1, <3>2, WalkToHandler DEF ChainInv
    <3>5. Passed(stop) = {f \in Linked : h < f}
      BY <2>0, <3>2, <3>4, LinkedIs DEF Passed
    <3>6. \A f \in Scopes("fn") : Gone(f) <=> h < f
      <4>1. Len(stack') = h - 1
        BY <3>2 DEF Shrinks
      <4>2. \A f \in Scopes("fn") : f # h
        BY <2>0, <3>2
      <4> QED BY <2>0, <3>2, <4>1, <4>2 DEF Gone
    <3>7. \A f \in Scopes("fn") : h < f => f \in Linked
      <4>1. 0 \in 0 .. depth - 1 /\ depth > 0 /\ buf[0].scope \in 1 .. Top /\ buf[0].scope <= h
        BY <2>0, <3>1, <3>2, HandlersAre
      <4> QED BY <1>1, <2>0, <3>2, <4>1 DEF ChainInv, Chained, Linked
    <3>8. \A f \in Linked : f \in Scopes("fn") /\ (stack[f].drop <=> stack[f].held)
      BY <1>1 DEF ChainInv, Owned, Linked
    <3> QED BY <3>3, <3>5, <3>6, <3>7, <3>8
  <2>4. CASE HandOverWild \/ TryTooDeep \/ RaiseUnhandled \/ LetTooDeep \/ LetEndedBefore
    <3>1. stack' = stack /\ released' = {}
      BY <2>4 DEF HandOverWild, TryTooDeep, RaiseUnhandled, LetTooDeep, LetEndedBefore, Ends
    <3>2. \A f \in Scopes("fn") : ~Gone(f)
      BY <2>0, <3>1 DEF Gone, Top
    <3> QED BY <3>1, <3>2
  <2> QED BY <1>1, <2>1, <2>2, <2>3, <2>4 DEF Next
<1> QED BY <1>1, ChainInvariant, PTL DEF Spec, ParamsReleasedOnce
=============================================================================
