------------------------------- MODULE GpuMemory ------------------------------
(***************************************************************************)
(* What the Vulkan memory model says of a buffer: who wrote it last,       *)
(* whether that write is available, to whom it is visible, who has used    *)
(* the buffer since it was last synchronised, and which stages come after  *)
(* all of these uses.  Steps are those of module GpuSteps.                 *)
(***************************************************************************)
Domains == {"shader", "transfer", "host"}
Fresh == [written |-> FALSE, by |-> {}, flushed |-> FALSE, seen |-> {}, users |-> {}, after |-> Domains]

Read(v, d)  == [v EXCEPT !.users = @ \cup {d}, !.after = {}]
Write(v, d) == [v EXCEPT !.written = TRUE, !.by = {d}, !.flushed = FALSE, !.seen = {},
                         !.users = {d}, !.after = {}]
HostWrite(v) == [Fresh EXCEPT !.written = TRUE, !.by = {"host"}, !.flushed = TRUE, !.seen = Domains]

(* A barrier orders what its source stages did before what its destination *)
(* stages will do, in every buffer; in the buffers it is about, it flushes *)
(* the writes of its sources and shows what is flushed to its destination. *)
Ordered(v, from, to) ==
  IF v.users \subseteq from \/ from \cap v.after # {} THEN [v EXCEPT !.after = @ \cup to] ELSE v
Shown(v, from, to) ==
  LET f == v.flushed \/ (v.written /\ v.by \subseteq from)
  IN  [v EXCEPT !.flushed = f, !.seen = IF f THEN @ \cup to ELSE @]

(* A fence that is signalled: every access is over and every write flushed. *)
Completed(v) == [v EXCEPT !.flushed = v.written, !.users = {}, !.after = Domains]

(* What a step records, in a table of buffers. *)
Recorded(v, s) ==
  CASE s.do = "cmd" -> [b \in DOMAIN v |-> IF b \in s.writes THEN Write(v[b], s.by)
                                          ELSE IF b \in s.reads THEN Read(v[b], s.by) ELSE v[b]]
    [] s.do = "barrier" -> [b \in DOMAIN v |->
         LET w == Ordered(v[b], s.from, s.to) IN IF b \in s.bufs THEN Shown(w, s.from, s.to) ELSE w]
    [] s.do = "hostwrite" -> [b \in DOMAIN v |-> IF b \in s.bufs THEN HostWrite(v[b]) ELSE v[b]]
    [] OTHER -> v

(* A command or the host reads what was written last and is visible to it, and *)
(* a command writes what all earlier users have done with.                     *)
Seen(v, d) == v.written /\ d \in v.seen
InOrder(v, s) ==
  /\ s.do = "cmd" => /\ \A b \in s.reads : Seen(v[b], s.by)
                     /\ \A b \in s.writes : s.by \in v[b].after
  /\ s.do = "hostread" => \A b \in s.bufs : Seen(v[b], "host")
==============================================================================
