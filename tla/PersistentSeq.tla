----------------------------- MODULE PersistentSeq -----------------------------
(***************************************************************************)
(* Sequences (seq.c).  A sequence of up to B elements is a flat array with *)
(* an offset; a longer one is a tree: a head buffer, a chain of chunks     *)
(* behind it, a trie, and a tail buffer.  Objects count their references,  *)
(* and an operation that finds a count of one updates in place.            *)
(*                                                                         *)
(* A program has names.  Compiled code gives a name that is used more than *)
(* once a reference for each use (CodegenExpr.cpp, "Seq protection"), so   *)
(* here every use consumes its name's reference, and Share makes another.  *)
(*                                                                         *)
(* The heap is kept up to the addresses of its objects: after every        *)
(* operation the objects that can be reached are numbered in the order in  *)
(* which they are (Compacted).                                             *)
(***************************************************************************)
EXTENDS Integers, Sequences, FiniteSets, SequencesExt

CONSTANTS B,         \* the size of a buffer, of a chunk, of a leaf, of a node
          NumNames,  \* how many names the program has
          Elems,     \* elements are 0 .. Elems - 1
          NoList,    \* what an unbound name denotes
          MaxLength, MaxTrie, MaxRefs  \* bounds: elements, elements ever pushed into a trie, references

ASSUME SeqAssumption == B \in Nat \ {0, 1} /\ NumNames \in Nat /\ Elems \in Nat \ {0}

VARIABLES
  heap,    \* the objects; an address is a position in it, and 0 is NULL
  ref,     \* name -> address of its sequence, 0 if it is not bound
  defined, \* FALSE: the code has written past an object's end
  lists    \* history: name -> the list its sequence should be, NoList if it is not bound

vars == <<heap, ref, defined, lists>>
Names == 1 .. NumNames
-----------------------------------------------------------------------------
(* Objects.  Of an array only what can be read again is kept. *)
FlatOf(raw) == [kind |-> "flat", rc |-> 1, count |-> Len(raw), offset |-> 0, raw |-> raw]
Chunk(elems, next) == [kind |-> "chunk", rc |-> 1, elems |-> elems, next |-> next]
Leaf(elems) == [kind |-> "leaf", rc |-> 1, elems |-> elems]
NodeWith(slot, child) ==
  [kind |-> "node", rc |-> 1, children |-> [i \in 0 .. B - 1 |-> IF i = slot THEN child ELSE 0]]
(* A tree with nothing but head and chain: head_buf from head_off on. *)
Rbt(length, off, head, next, chained) ==
  [kind |-> "rbt", rc |-> 1, length |-> length, head_off |-> off, head |-> head,
   head_next |-> next, head_chain_len |-> chained, tail |-> <<>>,
   height |-> 0, back_root |-> 0, back_size |-> 0, back_off |-> 0]
Freed == [kind |-> "freed", rc |-> 0]

Children(o) == [i \in 1 .. B |-> o.children[i - 1]]
Pointers(o) == CASE o.kind = "rbt" -> <<o.head_next, o.back_root>>
                 [] o.kind = "chunk" -> <<o.next>>
                 [] o.kind = "node" -> Children(o)
                 [] OTHER -> <<>>

New(h, o) == <<Append(h, o), Len(h) + 1>>
IsRbt(h, s) == h[s].kind = "rbt"
IsUnique(h, i) == h[i].rc = 1
Inc(h, i) == IF i = 0 THEN h ELSE [h EXCEPT ![i].rc = @ + 1]

(* yona_rt_rc_dec: an object without references is freed, and lets go of others. *)
RECURSIVE Dec(_, _)
Dec(h, i) == IF i = 0 THEN h
             ELSE IF h[i].rc > 1 THEN [h EXCEPT ![i].rc = @ - 1]
             ELSE FoldLeft(Dec, [h EXCEPT ![i] = Freed], Pointers(h[i]))
-----------------------------------------------------------------------------
(* Reading: yona_rt_seq_get. *)
Slot(index, height) == (index \div B ^ height) % B

RECURSIVE ChainGet(_, _, _)
ChainGet(h, c, index) ==
  IF c = 0 \/ h[c].kind = "freed" THEN 0
  ELSE IF index < Len(h[c].elems) THEN h[c].elems[index + 1]
  ELSE ChainGet(h, h[c].next, index - Len(h[c].elems))

RECURSIVE TrieGet(_, _, _, _)
TrieGet(h, node, height, index) ==
  IF node = 0 \/ h[node].kind = "freed" THEN 0
  ELSE IF height = 0 THEN h[node].elems[Slot(index, 0) + 1]
  ELSE TrieGet(h, h[node].children[Slot(index, height)], height - 1, index)

TrieActive(r) == r.back_size - r.back_off

RbtGet(h, r, index) ==
  LET chained == index - Len(r.head)
      inTrie == chained - r.head_chain_len
      inTail == inTrie - TrieActive(r)
  IN  CASE index < Len(r.head) -> r.head[index + 1]
        [] chained >= 0 /\ chained < r.head_chain_len -> ChainGet(h, r.head_next, chained)
        [] inTrie >= 0 /\ inTrie < TrieActive(r) -> TrieGet(h, r.back_root, r.height, r.back_off + inTrie)
        [] OTHER -> IF inTail < Len(r.tail) THEN r.tail[inTail + 1] ELSE 0

(* Past the end of an array there may be anything; here it is 0. *)
FlatGet(f, index) == IF f.offset + index < Len(f.raw) THEN f.raw[f.offset + index + 1] ELSE 0

Length(h, s) == CASE h[s].kind = "rbt" -> h[s].length [] h[s].kind = "flat" -> h[s].count [] OTHER -> 0
Get(h, s, index) == IF IsRbt(h, s) THEN RbtGet(h, h[s], index) ELSE FlatGet(h[s], index)
Elements(h, s) == [i \in 1 .. Length(h, s) |-> Get(h, s, i - 1)]
-----------------------------------------------------------------------------
(* The trie: trie_push_leaf and trie_push_buf.  A node that somebody else can *)
(* see is copied, with a reference to each child.                             *)
RECURSIVE Path(_, _, _, _)
Path(h, height, index, leaf) ==
  IF height = 0 THEN <<h, leaf>>
  ELSE LET below == Path(h, height - 1, index, leaf)
       IN  New(below[1], NodeWith(Slot(index, height), below[2]))

\* Mutant: the copy has no references of its own.
NodeCopyUncounted(h, node) == New(h, [h[node] EXCEPT !.rc = 1])
NodeCopy(h, node) == New(FoldLeft(Inc, h, Children(h[node])), [h[node] EXCEPT !.rc = 1])

RECURSIVE PushLeaf(_, _, _, _, _)
PushLeaf(h, node, height, index, leaf) ==
  LET slot == Slot(index, height)
      child == h[node].children[slot]
      mine == IsUnique(h, node)
      n == IF mine THEN <<h, node>> ELSE NodeCopy(h, node)
      deep == height > 1 /\ child # 0
      below == IF deep THEN PushLeaf(n[1], child, height - 1, index, leaf)
                       ELSE Path(n[1], height - 1, index, leaf)
      counted == IF deep /\ below[2] # child /\ ~mine THEN Dec(below[1], child) ELSE below[1]
  IN  <<[counted EXCEPT ![n[2]].children[slot] = below[2]], n[2]>>

PushBuf(h, r, buf) ==
  LET o == h[r]
      leaf == New(h, Leaf(buf))
      grown == New(Inc(leaf[1], o.back_root), NodeWith(0, o.back_root))
      full == o.back_size >= B ^ (o.height + 1)
      root == CASE o.back_root = 0 -> leaf
                [] o.back_root # 0 /\ full -> PushLeaf(grown[1], grown[2], o.height + 1, o.back_size, leaf[2])
                [] OTHER -> PushLeaf(leaf[1], o.back_root, o.height, o.back_size, leaf[2])
  IN  [root[1] EXCEPT ![r].back_root = root[2], ![r].back_size = @ + B,
                      ![r].height = IF o.back_root # 0 /\ full THEN @ + 1 ELSE @]
-----------------------------------------------------------------------------
(* The operations, on a heap and an address; each gives a heap and an address. *)

(* The object itself if nobody else has it, else a clone of it, changed. *)
Clone(h, r) == New(Inc(Inc(h, h[r].back_root), h[r].head_next), [h[r] EXCEPT !.rc = 1])
Own(h, r) == IF IsUnique(h, r) THEN <<h, r>> ELSE Clone(h, r)

\* Mutant: room in front is used whoever else has the sequence.
RoomForAnybody(h, f) == h[f].offset > 0
RoomInFront(h, f) == h[f].offset > 0 /\ IsUnique(h, f)
FlatCons(h, f, e) ==
  LET o == h[f] IN
  CASE o.count < B /\ RoomInFront(h, f) ->
         <<[h EXCEPT ![f].raw[o.offset] = e, ![f].count = @ + 1, ![f].offset = @ - 1], f>>
    [] o.count < B /\ ~RoomInFront(h, f) -> New(h, FlatOf(<<e>> \o Elements(h, f)))
    [] OTHER -> LET c == New(h, Chunk(Elements(h, f), 0))    \* flat_to_rbt_for_cons
                IN  New(c[1], Rbt(o.count + 1, B - 1, <<e>>, c[2], o.count))

(* A full head buffer becomes the first chunk. *)
HeadFull(h, r, e) ==
  LET o == h[r]
      mine == IsUnique(h, r)
      c == New(IF mine THEN h ELSE Inc(Inc(h, o.head_next), o.back_root), Chunk(o.head, o.head_next))
      new == [o EXCEPT !.rc = 1, !.length = @ + 1, !.head_off = B - 1, !.head = <<e>>,
                       !.head_next = c[2], !.head_chain_len = @ + Len(o.head)]
  IN  IF mine THEN <<[c[1] EXCEPT ![r] = new], r>> ELSE New(c[1], new)
RbtCons(h, r, e) ==
  IF h[r].head_off = 0 THEN HeadFull(h, r, e)
  ELSE LET n == Own(h, r) IN
       <<[n[1] EXCEPT ![n[2]].head_off = @ - 1, ![n[2]].head = <<e>> \o @, ![n[2]].length = @ + 1], n[2]>>
SeqCons(h, s, e) == IF IsRbt(h, s) THEN RbtCons(h, s, e) ELSE FlatCons(h, s, e)

(* The elements that do not fit into the head buffer, in chunks. *)
RECURSIVE Chain(_, _)
Chain(h, elems) ==
  IF elems = <<>> THEN <<h, 0>>
  ELSE LET n == IF Len(elems) > B THEN B ELSE Len(elems)
           rest == Chain(h, SubSeq(elems, n + 1, Len(elems)))
       IN  New(rest[1], Chunk(SubSeq(elems, 1, n), rest[2]))
Promoted(h, elems) ==
  LET n == IF Len(elems) > B THEN B ELSE Len(elems)
      c == Chain(h, SubSeq(elems, n + 1, Len(elems)))
  IN  New(c[1], Rbt(Len(elems), 0, SubSeq(elems, 1, n), c[2], Len(elems) - n))

FlatTail(h, f) ==
  LET o == h[f] IN
  CASE o.count <= B /\ IsUnique(h, f) -> <<[h EXCEPT ![f].count = @ - 1, ![f].offset = @ + 1], f>>
    [] o.count <= B /\ ~IsUnique(h, f) -> New(h, FlatOf(Tail(Elements(h, f))))
    [] OTHER -> Promoted(h, Tail(Elements(h, f)))

(* The head buffer is used up: the first chunk takes its place. *)
\* Mutant: it is still counted as part of the chain.
UnchainedStillCounted(o, c) == [o EXCEPT !.rc = 1, !.length = @ - 1, !.head_off = 0, !.head = c.elems,
                                         !.head_next = c.next]
Unchained(o, c) == [o EXCEPT !.rc = 1, !.length = @ - 1, !.head_off = 0, !.head = c.elems,
                             !.head_next = c.next, !.head_chain_len = @ - Len(c.elems)]
FromChain(h, r) ==
  LET o == h[r]  c == h[o.head_next] IN
  IF IsUnique(h, r) THEN <<Dec([h EXCEPT ![r] = Unchained(o, c), ![o.head_next].next = 0], o.head_next), r>>
  ELSE New(Inc(Inc(h, o.back_root), c.next), Unchained(o, c))

(* No chunk is left: the next elements of the trie. *)
FromTrie(h, r) ==
  LET o == h[r]
      n == IF TrieActive(o) >= B THEN B ELSE TrieActive(o)
      own == Own(h, r)
  IN  <<[own[1] EXCEPT ![own[2]].head_off = 0, ![own[2]].back_off = @ + n, ![own[2]].length = @ - 1,
           ![own[2]].head = [i \in 1 .. n |-> TrieGet(h, o.back_root, o.height, o.back_off + i - 1)]], own[2]>>
RbtTail(h, r) ==
  LET o == h[r] IN
  CASE Len(o.head) > 1 ->
         LET n == Own(h, r) IN
         <<[n[1] EXCEPT ![n[2]].head_off = @ + 1, ![n[2]].head = Tail(@), ![n[2]].length = @ - 1], n[2]>>
    [] Len(o.head) <= 1 /\ o.head_next # 0 -> FromChain(h, r)
    [] Len(o.head) <= 1 /\ o.head_next = 0 /\ TrieActive(o) > 0 -> FromTrie(h, r)
    [] OTHER -> New(h, FlatOf(o.tail))
SeqTail(h, s) ==
  IF Length(h, s) <= 1 THEN New(h, FlatOf(<<>>))
  ELSE IF IsRbt(h, s) THEN RbtTail(h, s) ELSE FlatTail(h, s)

(* The elements are copied from the array's start, and the offset too. *)
FlatSnoc(h, f, e) ==
  LET o == h[f]
      all == Elements(h, f)
      n == IF o.count > B THEN B ELSE o.count
  IN  IF o.count < B
      THEN New(h, [FlatOf(Append(SubSeq(o.raw, 1, o.count), e)) EXCEPT !.offset = o.offset])
      ELSE LET c == IF o.count > B THEN New(h, Chunk(SubSeq(all, B + 1, o.count), 0)) ELSE <<h, 0>>
           IN  New(c[1], [Rbt(o.count + 1, 0, SubSeq(all, 1, n), c[2], o.count - n) EXCEPT !.tail = <<e>>])
RbtSnoc(h, r, e) ==
  LET o == h[r]
      n == Own(h, r)
      pushed == PushBuf(n[1], n[2], o.tail)
      counted == IF n[2] = r /\ o.back_root # pushed[r].back_root THEN Dec(pushed, o.back_root) ELSE pushed
  IN  IF Len(o.tail) < B
      THEN <<[n[1] EXCEPT ![n[2]].tail = Append(@, e), ![n[2]].length = @ + 1], n[2]>>
      ELSE <<[counted EXCEPT ![n[2]].tail = <<e>>, ![n[2]].length = @ + 1], n[2]>>
SeqSnoc(h, s, e) == IF IsRbt(h, s) THEN RbtSnoc(h, s, e) ELSE FlatSnoc(h, s, e)

(* The offsets of flat operands end up in the result, joined bit by bit (with *)
(* offsets of 0 and 1, that is the larger).                                   *)
Offset(h, s) == IF IsRbt(h, s) THEN 0 ELSE h[s].offset
SeqJoin(h, a, b) ==
  CASE Length(h, a) = 0 -> <<h, b>>
    [] Length(h, a) # 0 /\ Length(h, b) = 0 -> <<h, a>>
    [] OTHER -> New(h, [FlatOf(Elements(h, a) \o Elements(h, b)) EXCEPT
                          !.offset = IF Offset(h, a) > Offset(h, b) THEN Offset(h, a) ELSE Offset(h, b)])

SeqDifference(h, a, b) ==
  LET kept == SelectSeq(Elements(h, a), LAMBDA e : ~Contains(Elements(h, b), e))
  IN  IF Len(kept) = Length(h, a) THEN <<h, a>> ELSE New(h, FlatOf(kept))
-----------------------------------------------------------------------------
(* The program. *)

(* The objects that are reached from some addresses, in the order in which they are. *)
RECURSIVE Visited(_, _, _)
Visited(h, todo, seen) ==
  IF todo = <<>> THEN seen
  ELSE IF Head(todo) = 0 \/ Contains(seen, Head(todo)) THEN Visited(h, Tail(todo), seen)
  ELSE Visited(h, Pointers(h[Head(todo)]) \o Tail(todo), Append(seen, Head(todo)))

Compacted(h, refs) ==
  LET order == Visited(h, refs, <<>>)
      Renumbered(i) == IF i = 0 THEN 0 ELSE CHOOSE n \in DOMAIN order : order[n] = i
      Moved(o) == CASE o.kind = "rbt" -> [o EXCEPT !.head_next = Renumbered(@), !.back_root = Renumbered(@)]
                    [] o.kind = "chunk" -> [o EXCEPT !.next = Renumbered(@)]
                    [] o.kind = "node" -> [o EXCEPT !.children = [i \in 0 .. B - 1 |-> Renumbered(@[i])]]
                    [] OTHER -> o
  IN  [heap |-> [n \in DOMAIN order |-> Moved(h[order[n]])],
       ref |-> [n \in DOMAIN refs |-> Renumbered(refs[n])]]

(* A bound of the model: no list, trie or count of references gets too large. *)
Bounded(h) == \A i \in DOMAIN h :
  /\ h[i].rc <= MaxRefs
  /\ h[i].kind = "flat" => h[i].count <= MaxLength
  /\ h[i].kind = "rbt" => h[i].length <= MaxLength /\ h[i].back_size <= MaxTrie

Becomes(h, refs, means) ==
  /\ Bounded(h)
  /\ LET c == Compacted(h, refs) IN heap' = c.heap /\ ref' = c.ref
  /\ lists' = means
  /\ UNCHANGED defined

Init == /\ heap = <<>> /\ ref = [n \in Names |-> 0] /\ defined = TRUE
        /\ lists = [n \in Names |-> NoList]

BoundTo(n) == defined /\ ref[n] # 0

(* An operation on n's sequence; the reference is consumed, unless it is returned. *)
Gives(n, result, list) ==
  Becomes(IF result[2] = ref[n] THEN result[1] ELSE Dec(result[1], ref[n]),
          [ref EXCEPT ![n] = result[2]], [lists EXCEPT ![n] = list])

(* An empty sequence, or one too long for a buffer. *)
Literal(n) ==
  /\ defined /\ ref[n] = 0
  /\ \E length \in {0, B + 1} :
       LET list == [i \in 1 .. length |-> (i - 1) % Elems]
           l == New(heap, FlatOf(list))
       IN  Becomes(l[1], [ref EXCEPT ![n] = l[2]], [lists EXCEPT ![n] = list])

Share(n, m) ==
  BoundTo(n) /\ ref[m] = 0 /\ Becomes(Inc(heap, ref[n]), [ref EXCEPT ![m] = ref[n]], [lists EXCEPT ![m] = lists[n]])
Drop(n) == BoundTo(n) /\ Becomes(Dec(heap, ref[n]), [ref EXCEPT ![n] = 0], [lists EXCEPT ![n] = NoList])

(* What is added continues the list: elements that are next to each other differ. *)
Before(l) == IF l = <<>> THEN 0 ELSE (Head(l) + Elems - 1) % Elems
Behind(l) == IF l = <<>> THEN 0 ELSE (Last(l) + 1) % Elems

(* A flat sequence that is too long for one chunk. *)
TooLong(n, room) == ~IsRbt(heap, ref[n]) /\ heap[ref[n]].count > room

Prepend(n) ==
  LET e == Before(lists[n]) IN
  BoundTo(n) /\ ~TooLong(n, B) /\ Gives(n, SeqCons(heap, ref[n], e), <<e>> \o lists[n])
AppendTo(n) ==
  LET e == Behind(lists[n]) IN
  BoundTo(n) /\ ~TooLong(n, 2 * B) /\ Gives(n, SeqSnoc(heap, ref[n], e), Append(lists[n], e))
Overrun(n) == BoundTo(n) /\ TooLong(n, B) /\ defined' = FALSE /\ UNCHANGED <<heap, ref, lists>>

TailOf(n) ==
  BoundTo(n) /\ Gives(n, SeqTail(heap, ref[n]), IF lists[n] = <<>> THEN <<>> ELSE Tail(lists[n]))

(* The operands are consumed; one that is the result stays. *)
Consumes(n, m, result, list) ==
  LET olds == CASE result[2] = ref[n] -> <<ref[m]>>
                [] result[2] # ref[n] /\ result[2] = ref[m] -> <<ref[n]>>
                [] OTHER -> <<ref[n], ref[m]>>
  IN  Becomes(FoldLeft(Dec, result[1], olds), [ref EXCEPT ![n] = result[2], ![m] = 0],
              [lists EXCEPT ![n] = list, ![m] = NoList])
Join(n, m) ==
  BoundTo(n) /\ BoundTo(m) /\ Consumes(n, m, SeqJoin(heap, ref[n], ref[m]), lists[n] \o lists[m])
Difference(n, m) ==
  /\ BoundTo(n) /\ BoundTo(m)
  /\ Consumes(n, m, SeqDifference(heap, ref[n], ref[m]),
               SelectSeq(lists[n], LAMBDA e : ~Contains(lists[m], e)))

Next == \E n \in Names :
          \/ Literal(n) \/ Drop(n) \/ Prepend(n) \/ AppendTo(n) \/ Overrun(n) \/ TailOf(n)
          \/ \E m \in Names \ {n} : Share(n, m) \/ Join(n, m) \/ Difference(n, m)
Spec == Init /\ [][Next]_vars

(* Programs that keep away from what does not work: appending to, or joining, a  *)
(* flat sequence whose head was taken in place; adding to a long flat sequence;  *)
(* taking the head of a tree that shares the first chunk of its chain.           *)
Shortened(n) == ref[n] # 0 /\ Offset(heap, ref[n]) > 0
SharesChunk(n) ==
  LET o == heap[ref[n]] IN
  /\ ref[n] # 0 /\ IsRbt(heap, ref[n]) /\ IsUnique(heap, ref[n]) /\ Len(o.head) = 1
  /\ o.head_next # 0 /\ ~IsUnique(heap, o.head_next) /\ heap[o.head_next].next # 0
CarefulNext ==
  \E n \in Names :
    \/ Literal(n) \/ Drop(n) \/ Prepend(n)
    \/ ~Shortened(n) /\ AppendTo(n)
    \/ ~SharesChunk(n) /\ TailOf(n)
    \/ \E m \in Names \ {n} : \/ Share(n, m) \/ Difference(n, m)
                              \/ ~Shortened(n) /\ ~Shortened(m) /\ Join(n, m)
CarefulSpec == Init /\ [][CarefulNext]_vars
-----------------------------------------------------------------------------
(* Objects are what their kinds say: the counters of a tree agree with what  *)
(* it has in each of its parts, and no array holds more than fits.           *)
RECURSIVE Chained(_)
Chained(c) == IF c = 0 THEN 0 ELSE Len(heap[c].elems) + Chained(heap[c].next)
TypeOK ==
  /\ ref \in [Names -> 0 .. Len(heap)] /\ defined \in BOOLEAN
  /\ \A i \in DOMAIN heap : LET o == heap[i] IN
       CASE o.kind = "flat" -> o.offset >= 0 /\ o.offset + o.count <= Len(o.raw)
         [] o.kind = "chunk" -> Len(o.elems) \in 1 .. B
         [] o.kind = "leaf" -> Len(o.elems) = B
         [] o.kind = "node" -> \E slot \in 0 .. B - 1 : o.children[slot] # 0
         [] o.kind = "rbt" ->
              /\ Len(o.head) \in 1 .. B - o.head_off /\ o.head_off >= 0
              /\ o.head_chain_len = Chained(o.head_next)
              /\ o.back_size % B = 0 /\ o.back_off \in 0 .. o.back_size
              /\ o.back_size <= B ^ (o.height + 1) /\ (o.back_root = 0 <=> o.back_size = 0)
              /\ Len(o.tail) \in 0 .. B
              /\ o.length = Len(o.head) + o.head_chain_len + TrieActive(o) + Len(o.tail)
         [] OTHER -> FALSE

(* No object is freed while somebody can reach it, and none that two can reach *)
(* passes for unique: a count is never less than the references there are.     *)
(* Sequences and chunks are not leaked either: their counts are exact.  (The   *)
(* nodes of a trie may be.)                                                    *)
References(i) ==
  LET fields == (DOMAIN heap) \X (1 .. B + 1)
      Points(f) == f[2] \in DOMAIN Pointers(heap[f[1]]) /\ Pointers(heap[f[1]])[f[2]] = i
  IN  Cardinality({n \in Names : ref[n] = i}) + Cardinality({f \in fields : Points(f)})
CountsExact == \A i \in DOMAIN heap :
  /\ heap[i].rc >= References(i)
  /\ heap[i].kind \in {"flat", "rbt", "chunk"} => heap[i].rc = References(i)

(* "Persistent immutable sequence" (seq.c:2): every name's sequence has the    *)
(* elements that the operations on lists give, whatever is shared and whatever *)
(* is updated in place.                                                        *)
Denoted(n) == IF ref[n] = 0 THEN NoList ELSE Elements(heap, ref[n])
ImmutableLists == \A n \in Names : Denoted(n) = lists[n]

(* "Persistent immutable sequence" (seq.c:2): an operation on one name leaves *)
(* the sequences of the others as they are.                                   *)
BoundThroughout(n) == ref[n] # 0 /\ ref'[n] # 0
OthersUnchanged ==
  [][\A n, m \in Names : n # m /\ BoundThroughout(n) /\ BoundThroughout(m) =>
       Denoted(n)' = Denoted(n) \/ Denoted(m)' = Denoted(m)]_vars
==============================================================================
