------------------------------- MODULE GpuSteps -------------------------------
(* The steps scripts are made of (module GpuCalls says what they do), each as a *)
(* sequence of one, and the ways to put them together.                          *)
EXTENDS Naturals, Sequences, SequencesExt

At(n, where) == <<n, where>>
One == <<"", "">>

When(has, hasnt) == <<[do |-> "when", has |-> has, hasnt |-> hasnt]>>
New(c, b)    == <<[do |-> "new", h |-> <<c, b>>]>>
Can(w)       == <<[do |-> "can", what |-> w]>>
Free(c, b)   == <<[do |-> "free", h |-> <<c, b>>, nulls |-> TRUE]>>
FreeOnly(c, b) == <<[do |-> "free", h |-> <<c, b>>, nulls |-> FALSE]>>
Cmd(d, rs, ws)   == <<[do |-> "cmd", by |-> d, reads |-> rs, writes |-> ws]>>
Dispatch(rs, ws) == Cmd("shader", rs, ws)
Copy(a, b)   == Cmd("transfer", {a}, {b})
Barrier(from, to, bs) == <<[do |-> "barrier", from |-> from, to |-> to, bufs |-> bs]>>
HostWrites(bs) == <<[do |-> "hostwrite", bufs |-> bs]>>
HostReads(bs)  == <<[do |-> "hostread", bufs |-> bs]>>
Submit(m)    == <<[do |-> "submit", m |-> m]>>
Wait         == <<[do |-> "wait"]>>
Lock(m)      == <<[do |-> "lock", m |-> m]>>
Unlock(m)    == <<[do |-> "unlock", m |-> m]>>
Then(l)      == <<[do |-> "goto", to |-> l]>>
IfSet(f, m, l) == <<[do |-> "if", flag |-> f, m |-> m, to |-> l]>>
KeepAs(fs, hs, m) == <<[do |-> "keep", flags |-> fs, objects |-> hs, m |-> m]>>
Take(f, hs, m) == <<[do |-> "adopt", flag |-> f, objects |-> hs, m |-> m]>>
Exit       == <<[do |-> "return"]>>

(* The steps that can fail jump to a label, unless they already have one. *)
Fallible == {"new", "can", "submit", "wait"}
Or(l, steps) == [i \in DOMAIN steps |-> IF steps[i].do \in Fallible THEN steps[i] @@ [or |-> l] ELSE steps[i]]

(* Steps for each of several names, and steps that are there on a condition. *)
Each(F(_), ns) == FlattenSeq([i \in 1 .. Len(ns) |-> F(ns[i])])
If(c, steps) == IF c THEN steps ELSE <<>>
-----------------------------------------------------------------------------
(* Objects that go with the one they are part of: a mapping with its memory, *)
(* command buffers with their pool, descriptor sets with the call's only pool. *)
Parent(h) == CASE h[1] = "map"  -> <<"mem", h[2]>>
               [] h[1] = "cmd"  -> <<"cpool", h[2]>>
               [] h[1] = "dset" -> <<"dpool", <<"", "">>>>
               [] OTHER -> h
Without(objects, h) == {g \in objects : g # h /\ Parent(g) # h}
OnHost(h) == h[1] \in {"malloc", "dl"}

(* What the device may still be executing counts as an object of the thread that *)
(* submitted it, or has taken it over: a wait is its end.                        *)
Work == <<"work", <<"", "">>>>

(* The flags that stand for objects of the device. *)
StepsOf(p) == UNION {ToSet(p[l]) : l \in DOMAIN p}
KeepsObjects(s) == s.do = "keep" /\ \E h \in s.objects : ~OnHost(h)
OwnersOf(programs) == UNION {s.flags : s \in {s \in UNION {StepsOf(p) : p \in programs} : KeepsObjects(s)}}
===============================================================================
