---------------------------- MODULE UringProofs ----------------------------
(***************************************************************************)
(* For every number of callers, operations and slots: no completion is     *)
(* dropped and none is given twice, provided the stash can take what is    *)
(* outstanding (OutstandingAssumption); and no context leaves the table    *)
(* before its promise is awaited, provided the table has a free slot       *)
(* whenever a context is put in it.                                        *)
(***************************************************************************)
EXTENDS Uring, FunctionTheorems, FiniteSetTheorems, WellFoundedInduction, TLAPS

\* Where a caller's id comes from: io_await and io_ctx_put are about an id that
\* was issued; only a bare wait may be for the 0 of a refused submission.
AboutAnId ==
  \A t \in Callers : pc[t] # "run" /\ ~bare[t] => cur[t] \in Ids

\* A caller without a context is in ring_await or in its own code.
BareWaits ==
  \A t \in Callers : bare[t] => pc[t] \in Waiting \cup {"run"}

\* What Submit's guard bounds.
FewOutstanding == Cardinality(Outstanding) <= MaxOutstanding

IInv == TypeOK /\ AboutAnId /\ BareWaits /\ InOnePlace /\ FewOutstanding

-----------------------------------------------------------------------------
\* The ids of the ring are none of the direct results'.
LEMMA IdsDisjoint == RingIds \cap DirectIds = {}
BY UringAssumption DEF RingIds, DirectIds

\* Only finitely many operations were submitted.
LEMMA SubmittedFinite ==
  ASSUME TypeOK
  PROVE  /\ Submitted \subseteq RingIds
         /\ IsFiniteSet(Submitted)
<1>1. nextId - 1 \in Int /\ nextId - 1 <= MaxOps
  BY UringAssumption DEF TypeOK
<1>2. Submitted \subseteq RingIds
  BY <1>1, UringAssumption DEF Submitted, RingIds
<1>3. IsFiniteSet(Submitted)
  BY <1>1, FS_Interval DEF Submitted
<1> QED BY <1>2, <1>3

\* There is room in the stash for every completion in the queue.
LEMMA RoomForAll ==
  ASSUME IInv, NEW others \in SUBSET cq
  PROVE  Cardinality(others) <= Room
<1>1. IsFiniteSet(Outstanding)
  BY SubmittedFinite, FS_Subset DEF IInv, Outstanding
<1>2. /\ stash \cup others \subseteq Outstanding
      /\ stash \cap others = {}
  BY SubmittedFinite DEF IInv, TypeOK, InOnePlace, Outstanding
<1>3. /\ IsFiniteSet(stash) /\ IsFiniteSet(others)
      /\ Cardinality(stash \cup others) <= Cardinality(Outstanding)
  BY <1>1, <1>2, FS_Subset, FS_CardinalityType
<1>4. Cardinality(stash \cup others) = Cardinality(stash) + Cardinality(others)
  <2>1. Cardinality(stash \cap others) = 0
    BY <1>2, FS_EmptySet
  <2>2. Cardinality(stash) \in Nat /\ Cardinality(others) \in Nat
    BY <1>3, FS_CardinalityType
  <2>3. Cardinality(stash \cup others)
          = Cardinality(stash) + Cardinality(others) - Cardinality(stash \cap others)
    BY <1>3, FS_Union
  <2> QED BY <2>1, <2>2, <2>3
<1>5. /\ Cardinality(stash) \in Nat /\ Cardinality(others) \in Nat
      /\ Cardinality(Outstanding) \in Nat
  BY <1>1, <1>3, FS_CardinalityType
<1> QED
  BY <1>3, <1>4, <1>5, OutstandingAssumption, UringAssumption DEF IInv, FewOutstanding,
     Room

\* So pending_put never fails: a drain keeps all that is not its own.
LEMMA DrainKeepsAll ==
  ASSUME IInv, NEW t \in Callers, Drain(t)
  PROVE  stash' = stash \cup (cq \ {cur[t]})
<1> DEFINE others == cq \ {cur[t]}
<1>1. PICK kept \in SUBSET others :
        /\ kept = others \/ Cardinality(kept) = Room
        /\ stash' = stash \cup kept
  BY DEF Drain
<1>2. IsFiniteSet(others) /\ Cardinality(others) <= Room
  BY RoomForAll, SubmittedFinite, FS_Subset DEF IInv, TypeOK
<1>3. CASE kept # others
  <2>1. Cardinality(kept) < Cardinality(others)
    BY <1>2, <1>3, FS_Subset, FS_CardinalityType
  <2>2. IsFiniteSet(kept) /\ IsFiniteSet(stash)
    BY <1>2, SubmittedFinite, FS_Subset DEF IInv, TypeOK
  <2>3. Cardinality(kept) \in Nat /\ Cardinality(others) \in Nat /\ Room \in Int
    BY <1>2, <2>2, FS_CardinalityType, UringAssumption DEF Room
  <2> QED BY <1>1, <1>2, <1>3, <2>1, <2>3
<1> QED BY <1>1, <1>3

-----------------------------------------------------------------------------
(* The initial state. *)

LEMMA InitOK == Init => IInv
<1> SUFFICES ASSUME Init PROVE IInv
  OBVIOUS
<1>1. Submitted = {} /\ Outstanding = {}
  BY DEF Init, Submitted, Outstanding
<1>2. TypeOK
  <2>1. nextDirect \in DirectBase..(DirectBase + MaxDirect)
    BY UringAssumption DEF Init
  <2>2. nextId \in 1..(MaxOps + 1)
    BY UringAssumption DEF Init
  <2>3. used \in [Ids -> 0..MaxUses]
    BY UringAssumption DEF Init
  <2> QED BY <2>1, <2>2, <2>3, <1>1 DEF Init, TypeOK, Waiting
<1>3. FewOutstanding
  BY <1>1, FS_EmptySet, UringAssumption DEF FewOutstanding
<1> QED BY <1>1, <1>2, <1>3 DEF Init, IInv, AboutAnId, BareWaits, InOnePlace

-----------------------------------------------------------------------------
(* The steps: one lemma per conjunct of the invariant. *)

\* Whatever is put in a slot or taken out of one, the table is a table of ids.
LEMMA TableType ==
  ASSUME TypeOK, NEW id \in Ids
  PROVE  /\ Put(id) \in [Slots -> Ids \cup {0}]
         /\ Taken(id) \in [Slots -> Ids \cup {0}]
BY DEF TypeOK, Put, Taken

\* Types.
LEMMA TypeStep ==
  ASSUME IInv, [Next]_vars
  PROVE  TypeOK'
<1>1. ASSUME NEW t \in Callers, NEW kind \in Kinds, Submit(t, kind)
     PROVE  TypeOK'
  BY <1>1, UringAssumption DEF IInv, TypeOK, Submit, Goto, About, Submitted, RingIds,
     Ids, Waiting, Kinds
<1>2. ASSUME NEW t \in Callers, SubmitBareRefused(t)
     PROVE  TypeOK'
  BY <1>2 DEF IInv, TypeOK, SubmitBareRefused, Goto, About, ringVars, Submitted, Ids,
     Waiting
<1>3. ASSUME NEW t \in Callers, Direct(t)
     PROVE  TypeOK'
  BY <1>3, UringAssumption DEF IInv, TypeOK, Direct, Goto, About, ringVars, Submitted,
     DirectIds, Ids, Waiting
<1>4. ASSUME NEW t \in Callers, NEW id \in holds[t], Await(t, id)
     PROVE  TypeOK'
  <2>1. id \in Ids /\ table' \in [Slots -> Ids \cup {0}]
    BY <1>4, TableType DEF IInv, TypeOK, Await
  <2>2. used' \in [Ids -> 0..MaxUses]
    BY <1>4, <2>1, UringAssumption DEF IInv, TypeOK, Await
  <2>3. /\ pc' \in [Callers -> {"run", "attach", "putback", "finish"} \cup Waiting]
        /\ cur' \in [Callers -> Ids \cup {0}] /\ bare' \in [Callers -> BOOLEAN]
        /\ answered' \subseteq Ids
    BY <1>4, <2>1 DEF IInv, TypeOK, Await, Goto, About, Waiting
  <2> QED
    BY <1>4, <2>1, <2>2, <2>3 DEF IInv, TypeOK, Await, ringVars, Submitted
<1>5. ASSUME NEW t \in Callers, Attach(t)
     PROVE  TypeOK'
  BY <1>5, TableType DEF IInv, TypeOK, AboutAnId, BareWaits, Attach, Goto, ringVars,
     Submitted, Ids, Waiting
<1>6. ASSUME NEW t \in Callers, PutBack(t)
     PROVE  TypeOK'
  BY <1>6, TableType DEF IInv, TypeOK, AboutAnId, BareWaits, PutBack, Goto, ringVars,
     Submitted, Ids, Waiting
<1>7. ASSUME NEW t \in Callers, NoRing(t)
     PROVE  TypeOK'
  BY <1>7 DEF IInv, TypeOK, NoRing, Goto, Returns, OnlyRing, Submitted, Ids, Waiting
<1>8. ASSUME NEW t \in Callers, TakeStashed(t)
     PROVE  TypeOK'
  <2>1. Submitted \subseteq Ids
    BY SubmittedFinite DEF IInv, Ids
  <2>2. /\ pc' \in [Callers -> {"run", "attach", "putback", "finish"} \cup Waiting]
        /\ answered' \subseteq Ids /\ stash' \subseteq Submitted
    BY <1>8, <2>1 DEF IInv, TypeOK, TakeStashed, Returns, Goto, Given, Waiting
  <2> QED BY <1>8, <2>2 DEF IInv, TypeOK, TakeStashed, OnlyRing, Submitted
<1>9. ASSUME NEW t \in Callers, Drain(t)
     PROVE  TypeOK'
  <2>1. Submitted \subseteq Ids
    BY SubmittedFinite DEF IInv, Ids
  <2>2. stash' \subseteq Submitted /\ cq' \subseteq Submitted
    BY <1>9, DrainKeepsAll DEF IInv, TypeOK, Drain
  <2>3. /\ pc' \in [Callers -> {"run", "attach", "putback", "finish"} \cup Waiting]
        /\ answered' \subseteq Ids
    BY <1>9, <2>1 DEF IInv, TypeOK, Drain, Returns, Goto, Given, Waiting
  <2> QED BY <1>9, <2>2, <2>3 DEF IInv, TypeOK, Drain, OnlyRing, Submitted
<1>10. ASSUME NEW t \in Callers, Enter(t)
     PROVE  TypeOK'
  BY <1>10 DEF IInv, TypeOK, Enter, Goto, ringVars, Submitted, Ids, Waiting
<1>11. ASSUME NEW t \in Callers, Finish(t)
     PROVE  TypeOK'
  BY <1>11, TableType DEF IInv, TypeOK, AboutAnId, BareWaits, Finish, Goto, ringVars,
     Submitted, Ids, Waiting
<1>12. ASSUME NEW id \in inflight, Complete(id)
     PROVE  TypeOK'
  BY <1>12 DEF IInv, TypeOK, Complete, Submitted, Ids, Waiting
<1>13. CASE UNCHANGED vars
  BY <1>13 DEF IInv, vars, ringVars, TypeOK, Submitted
<1> QED BY <1>1, <1>2, <1>3, <1>4, <1>5, <1>6, <1>7, <1>8, <1>9, <1>10, <1>11, <1>12,
     <1>13 DEF Next, Program, AwaitStep

\* A caller that goes on is about an id that was issued.
LEMMA AboutStep ==
  ASSUME IInv, [Next]_vars
  PROVE  AboutAnId'
<1>1. ASSUME NEW t \in Callers, NEW kind \in Kinds, Submit(t, kind)
     PROVE  AboutAnId'
  BY <1>1, UringAssumption DEF IInv, TypeOK, AboutAnId, BareWaits, Submit, Goto, About,
     RingIds, Ids, Waiting
<1>2. ASSUME NEW t \in Callers, SubmitBareRefused(t)
     PROVE  AboutAnId'
  BY <1>2 DEF IInv, TypeOK, AboutAnId, BareWaits, SubmitBareRefused, Goto, About,
     ringVars, Ids, Waiting
<1>3. ASSUME NEW t \in Callers, Direct(t)
     PROVE  AboutAnId'
  BY <1>3, UringAssumption DEF IInv, TypeOK, AboutAnId, BareWaits, Direct, Goto, About,
     ringVars, DirectIds, Ids, Waiting
<1>4. ASSUME NEW t \in Callers, NEW id \in holds[t], Await(t, id)
     PROVE  AboutAnId'
  BY <1>4 DEF IInv, TypeOK, AboutAnId, BareWaits, Await, Goto, About, ringVars, Ids,
     Waiting
<1>5. ASSUME NEW t \in Callers, Attach(t)
     PROVE  AboutAnId'
  BY <1>5 DEF IInv, TypeOK, AboutAnId, BareWaits, Attach, Goto, ringVars, Ids, Waiting
<1>6. ASSUME NEW t \in Callers, PutBack(t)
     PROVE  AboutAnId'
  BY <1>6 DEF IInv, TypeOK, AboutAnId, BareWaits, PutBack, Goto, ringVars, Ids, Waiting
<1>7. ASSUME NEW t \in Callers, NoRing(t)
     PROVE  AboutAnId'
  BY <1>7 DEF IInv, TypeOK, AboutAnId, BareWaits, NoRing, Goto, Returns, OnlyRing, Ids,
     Waiting
<1>8. ASSUME NEW t \in Callers, TakeStashed(t)
     PROVE  AboutAnId'
  BY <1>8 DEF IInv, TypeOK, AboutAnId, BareWaits, TakeStashed, Goto, Returns, Given,
     OnlyRing, Ids, Waiting
<1>9. ASSUME NEW t \in Callers, Drain(t)
     PROVE  AboutAnId'
  BY <1>9 DEF IInv, TypeOK, AboutAnId, BareWaits, Drain, Goto, Returns, Given,
     OnlyRing, Ids, Waiting
<1>10. ASSUME NEW t \in Callers, Enter(t)
     PROVE  AboutAnId'
  BY <1>10 DEF IInv, TypeOK, AboutAnId, BareWaits, Enter, Goto, ringVars, Ids, Waiting
<1>11. ASSUME NEW t \in Callers, Finish(t)
     PROVE  AboutAnId'
  BY <1>11 DEF IInv, TypeOK, AboutAnId, BareWaits, Finish, Goto, ringVars, Ids, Waiting
<1>12. ASSUME NEW id \in inflight, Complete(id)
     PROVE  AboutAnId'
  BY <1>12 DEF IInv, TypeOK, AboutAnId, BareWaits, Complete, Ids, Waiting
<1>13. CASE UNCHANGED vars
  BY <1>13 DEF IInv, vars, ringVars, AboutAnId
<1> QED BY <1>1, <1>2, <1>3, <1>4, <1>5, <1>6, <1>7, <1>8, <1>9, <1>10, <1>11, <1>12,
     <1>13 DEF Next, Program, AwaitStep

\* A bare wait ends in the program.
LEMMA BareStep ==
  ASSUME IInv, [Next]_vars
  PROVE  BareWaits'
<1>1. ASSUME NEW t \in Callers, NEW kind \in Kinds, Submit(t, kind)
     PROVE  BareWaits'
  BY <1>1 DEF IInv, TypeOK, BareWaits, Submit, Goto, About, Waiting
<1>2. ASSUME NEW t \in Callers, SubmitBareRefused(t)
     PROVE  BareWaits'
  BY <1>2 DEF IInv, TypeOK, BareWaits, SubmitBareRefused, Goto, About, ringVars, Waiting
<1>3. ASSUME NEW t \in Callers, Direct(t)
     PROVE  BareWaits'
  BY <1>3 DEF IInv, TypeOK, BareWaits, Direct, Goto, About, ringVars, Waiting
<1>4. ASSUME NEW t \in Callers, NEW id \in holds[t], Await(t, id)
     PROVE  BareWaits'
  BY <1>4 DEF IInv, TypeOK, BareWaits, Await, Goto, About, ringVars, Waiting
<1>5. ASSUME NEW t \in Callers, Attach(t)
     PROVE  BareWaits'
  BY <1>5 DEF IInv, TypeOK, BareWaits, Attach, Goto, ringVars, Waiting
<1>6. ASSUME NEW t \in Callers, PutBack(t)
     PROVE  BareWaits'
  BY <1>6 DEF IInv, TypeOK, BareWaits, PutBack, Goto, ringVars, Waiting
<1>7. ASSUME NEW t \in Callers, NoRing(t)
     PROVE  BareWaits'
  BY <1>7 DEF IInv, TypeOK, BareWaits, NoRing, Goto, Returns, OnlyRing, Waiting
<1>8. ASSUME NEW t \in Callers, TakeStashed(t)
     PROVE  BareWaits'
  BY <1>8 DEF IInv, TypeOK, BareWaits, TakeStashed, Goto, Returns, Given, OnlyRing,
     Waiting
<1>9. ASSUME NEW t \in Callers, Drain(t)
     PROVE  BareWaits'
  BY <1>9 DEF IInv, TypeOK, BareWaits, Drain, Goto, Returns, Given, OnlyRing, Waiting
<1>10. ASSUME NEW t \in Callers, Enter(t)
     PROVE  BareWaits'
  BY <1>10 DEF IInv, TypeOK, BareWaits, Enter, Goto, ringVars, Waiting
<1>11. ASSUME NEW t \in Callers, Finish(t)
     PROVE  BareWaits'
  BY <1>11 DEF IInv, TypeOK, BareWaits, Finish, Goto, ringVars, Waiting
<1>12. ASSUME NEW id \in inflight, Complete(id)
     PROVE  BareWaits'
  BY <1>12 DEF IInv, TypeOK, BareWaits, Complete, Waiting
<1>13. CASE UNCHANGED vars
  BY <1>13 DEF IInv, vars, ringVars, BareWaits
<1> QED BY <1>1, <1>2, <1>3, <1>4, <1>5, <1>6, <1>7, <1>8, <1>9, <1>10, <1>11, <1>12,
     <1>13 DEF Next, Program, AwaitStep

\* A completion is never in two places, nor in none.
LEMMA PlaceStep ==
  ASSUME IInv, [Next]_vars
  PROVE  InOnePlace'
<1>1. ASSUME NEW t \in Callers, NEW kind \in Kinds, Submit(t, kind)
     PROVE  InOnePlace'
  BY <1>1, SubmittedFinite, UringAssumption DEF IInv, TypeOK, InOnePlace, Submit, Goto,
     About, Submitted, RingIds
<1>2. ASSUME NEW t \in Callers, SubmitBareRefused(t)
     PROVE  InOnePlace'
  BY <1>2 DEF IInv, TypeOK, InOnePlace, SubmitBareRefused, Goto, About, ringVars,
     Submitted
<1>3. ASSUME NEW t \in Callers, Direct(t)
     PROVE  InOnePlace'
  BY <1>3 DEF IInv, TypeOK, InOnePlace, Direct, Goto, About, ringVars, Submitted
<1>4. ASSUME NEW t \in Callers, NEW id \in holds[t], Await(t, id)
     PROVE  InOnePlace'
  BY <1>4, IdsDisjoint, SubmittedFinite DEF IInv, TypeOK, InOnePlace, Await, Goto,
     About, ringVars, Submitted, RingIds
<1>5. ASSUME NEW t \in Callers, Attach(t)
     PROVE  InOnePlace'
  BY <1>5 DEF IInv, TypeOK, InOnePlace, Attach, Goto, ringVars, Submitted
<1>6. ASSUME NEW t \in Callers, PutBack(t)
     PROVE  InOnePlace'
  BY <1>6 DEF IInv, TypeOK, InOnePlace, PutBack, Goto, ringVars, Submitted
<1>7. ASSUME NEW t \in Callers, NoRing(t)
     PROVE  InOnePlace'
  BY <1>7 DEF IInv, TypeOK, InOnePlace, NoRing, Goto, Returns, OnlyRing, Submitted
<1>8. ASSUME NEW t \in Callers, TakeStashed(t)
     PROVE  InOnePlace'
  BY <1>8, SubmittedFinite DEF IInv, TypeOK, InOnePlace, TakeStashed, Goto, Returns,
     Given, OnlyRing, Submitted
<1>9. ASSUME NEW t \in Callers, Drain(t)
     PROVE  InOnePlace'
  <2>1. stash' = stash \cup (cq \ {cur[t]}) /\ cq' = {} /\ inflight' = inflight
    BY <1>9, DrainKeepsAll DEF Drain, OnlyRing
  <2>2. Submitted' = Submitted /\ Submitted \subseteq RingIds
    BY <1>9, SubmittedFinite DEF IInv, Drain, OnlyRing, Submitted
  <2>3. CASE cur[t] \in cq
    <3>1. answered' = answered \cup {cur[t]}
      <4>1. ~(cur[t] \notin cq) BY <2>3
      <4> QED BY <1>9, <4>1 DEF Drain, Given
    <3> QED BY <2>1, <2>2, <2>3, <3>1 DEF IInv, TypeOK, InOnePlace
  <2>4. CASE cur[t] \notin cq
    <3>1. answered' = answered
      BY <1>9, <2>4 DEF Drain
    <3> QED BY <2>1, <2>2, <2>4, <3>1 DEF IInv, TypeOK, InOnePlace
  <2> QED BY <2>3, <2>4
<1>10. ASSUME NEW t \in Callers, Enter(t)
     PROVE  InOnePlace'
  BY <1>10 DEF IInv, TypeOK, InOnePlace, Enter, Goto, ringVars, Submitted
<1>11. ASSUME NEW t \in Callers, Finish(t)
     PROVE  InOnePlace'
  BY <1>11 DEF IInv, TypeOK, InOnePlace, Finish, Goto, ringVars, Submitted
<1>12. ASSUME NEW id \in inflight, Complete(id)
     PROVE  InOnePlace'
  BY <1>12 DEF IInv, TypeOK, InOnePlace, Complete, Submitted
<1>13. CASE UNCHANGED vars
  BY <1>13 DEF IInv, vars, ringVars, InOnePlace, Submitted
<1> QED BY <1>1, <1>2, <1>3, <1>4, <1>5, <1>6, <1>7, <1>8, <1>9, <1>10, <1>11, <1>12,
     <1>13 DEF Next, Program, AwaitStep

\* A step that submits nothing and forgets no answer leaves no more outstanding.
LEMMA FewerOutstanding ==
  ASSUME IInv, nextId' = nextId, answered \subseteq answered'
  PROVE  FewOutstanding'
<1>1. Outstanding' \subseteq Outstanding
  BY DEF Outstanding, Submitted
<1>2. IsFiniteSet(Outstanding)
  BY SubmittedFinite, FS_Subset DEF IInv, Outstanding
<1>3. IsFiniteSet(Outstanding') /\ Cardinality(Outstanding') <= Cardinality(Outstanding)
  BY <1>1, <1>2, FS_Subset
<1> QED
  BY <1>2, <1>3, FS_CardinalityType, UringAssumption DEF IInv, FewOutstanding

\* Submit stops at the bound.
LEMMA FewStep ==
  ASSUME IInv, [Next]_vars
  PROVE  FewOutstanding'
<1>1. ASSUME NEW t \in Callers, NEW kind \in Kinds, Submit(t, kind)
     PROVE  FewOutstanding'
  <2>1. Outstanding' \subseteq Outstanding \cup {nextId}
    BY <1>1, UringAssumption DEF IInv, TypeOK, Submit, Submitted, Outstanding
  <2>2. IsFiniteSet(Outstanding) /\ Cardinality(Outstanding) \in Nat
    BY SubmittedFinite, FS_Subset, FS_CardinalityType DEF IInv, Outstanding
  <2>3. /\ IsFiniteSet(Outstanding \cup {nextId})
        /\ Cardinality(Outstanding \cup {nextId}) <= Cardinality(Outstanding) + 1
    <3>1. /\ IsFiniteSet(Outstanding \cup {nextId})
          /\ Cardinality(Outstanding \cup {nextId})
               = IF nextId \in Outstanding THEN Cardinality(Outstanding)
                 ELSE Cardinality(Outstanding) + 1
      BY <2>2, FS_AddElement
    <3> QED BY <2>2, <3>1
  <2>4. /\ IsFiniteSet(Outstanding')
        /\ Cardinality(Outstanding') <= Cardinality(Outstanding \cup {nextId})
    BY <2>1, <2>3, FS_Subset
  <2>5. Cardinality(Outstanding') \in Nat /\ Cardinality(Outstanding \cup {nextId}) \in Nat
    BY <2>3, <2>4, FS_CardinalityType
  <2> QED BY <1>1, <2>2, <2>3, <2>4, <2>5, UringAssumption DEF Submit, FewOutstanding
<1>2. ASSUME NEW t \in Callers, SubmitBareRefused(t)
     PROVE  FewOutstanding'
  BY <1>2, FewerOutstanding DEF SubmitBareRefused, Goto, About, ringVars
<1>3. ASSUME NEW t \in Callers, Direct(t)
     PROVE  FewOutstanding'
  BY <1>3, FewerOutstanding DEF Direct, Goto, About, ringVars
<1>4. ASSUME NEW t \in Callers, NEW id \in holds[t], Await(t, id)
     PROVE  FewOutstanding'
  BY <1>4, FewerOutstanding DEF Await, Goto, About, ringVars
<1>5. ASSUME NEW t \in Callers, Attach(t)
     PROVE  FewOutstanding'
  BY <1>5, FewerOutstanding DEF Attach, Goto, ringVars
<1>6. ASSUME NEW t \in Callers, PutBack(t)
     PROVE  FewOutstanding'
  BY <1>6, FewerOutstanding DEF PutBack, Goto, ringVars
<1>7. ASSUME NEW t \in Callers, NoRing(t)
     PROVE  FewOutstanding'
  BY <1>7, FewerOutstanding DEF NoRing, Goto, Returns, OnlyRing
<1>8. ASSUME NEW t \in Callers, TakeStashed(t)
     PROVE  FewOutstanding'
  BY <1>8, FewerOutstanding DEF TakeStashed, Goto, Returns, Given, OnlyRing
<1>9. ASSUME NEW t \in Callers, Drain(t)
     PROVE  FewOutstanding'
  BY <1>9, FewerOutstanding DEF Drain, Goto, Returns, Given, OnlyRing
<1>10. ASSUME NEW t \in Callers, Enter(t)
     PROVE  FewOutstanding'
  BY <1>10, FewerOutstanding DEF Enter, Goto, ringVars
<1>11. ASSUME NEW t \in Callers, Finish(t)
     PROVE  FewOutstanding'
  BY <1>11, FewerOutstanding DEF Finish, Goto, ringVars
<1>12. ASSUME NEW id \in inflight, Complete(id)
     PROVE  FewOutstanding'
  BY <1>12, FewerOutstanding DEF Complete
<1>13. CASE UNCHANGED vars
  BY <1>13 DEF IInv, vars, ringVars, FewOutstanding, Outstanding, Submitted
<1> QED BY <1>1, <1>2, <1>3, <1>4, <1>5, <1>6, <1>7, <1>8, <1>9, <1>10, <1>11, <1>12,
     <1>13 DEF Next, Program, AwaitStep

-----------------------------------------------------------------------------
(* The theorems. *)

\* IInv holds in every state.
THEOREM RingInvariant == Spec => []IInv
<1>1. IInv /\ [Next]_vars => IInv'
  BY TypeStep, AboutStep, BareStep, PlaceStep, FewStep DEF IInv
<1> QED BY <1>1, InitOK, PTL DEF Spec

\* Every variable has its type: no id beyond the counters that issue ids
\* (ring_submit_sqe, io_register_direct_result) is ever in a queue or a slot.
THEOREM RingTypes == Spec => []TypeOK
<1>1. IInv => TypeOK
  BY DEF IInv
<1> QED BY <1>1, RingInvariant, PTL

\* No completion is dropped and none is given twice, whoever reaps it in
\* ring_await, in whatever order.
THEOREM RingAnswersOnce == Spec => []InOnePlace
<1>1. IInv => InOnePlace
  BY DEF IInv
<1> QED BY <1>1, RingInvariant, PTL
-----------------------------------------------------------------------------
(* The table of contexts.  A context is kept as long as io_ctx_put finds a *)
(* free slot (TableHasRoom); where in the table it goes does not matter.   *)

\* The ids a caller has got, the one it is still filing among them.
Own(t) == holds[t] \cup {i \in {cur[t]} : pc[t] = "attach"}

\* The ids that the two counters have issued.
Issued == Submitted \cup DirectBase..(nextDirect - 1)

\* A caller that is about a promise it has awaited.
AboutAwaited(t) == ~bare[t] /\ pc[t] \in Waiting \cup {"putback", "finish"}

\* An id is issued to one caller, which awaits only what it holds.
OneOwner ==
  /\ \A t \in Callers : Own(t) \subseteq Issued
  /\ \A t, u \in Callers : t # u => Own(t) \cap Own(u) = {}
  /\ \A t \in Callers : pc[t] = "attach" => cur[t] \notin holds[t] /\ used[cur[t]] = 0
  /\ \A t \in Callers : AboutAwaited(t) => cur[t] \in holds[t] /\ used[cur[t]] > 0

\* A context is in one slot, of a promise somebody holds; it is in none while
\* its id is about to be put in one.
OneSlot ==
  /\ \A s \in Slots : table[s] # 0 => \E t \in Callers : table[s] \in holds[t]
  /\ \A s, r \in Slots : table[s] # 0 /\ table[s] = table[r] => s = r
  /\ \A t \in Callers : pc[t] \in {"attach", "putback"} => \A s \in Slots : table[s] # cur[t]

\* What nobody has awaited is in a slot.
Filed ==
  \A t \in Callers : \A id \in holds[t] : used[id] = 0 => \E s \in Slots : table[s] = id

TInv == OneOwner /\ OneSlot /\ Filed

\* io_ctx_put finds a free slot.
TableHasRoom ==
  \A t \in Callers : pc[t] \in {"attach", "putback"} => \E s \in Slots : table[s] = 0

\* A set of numbers that is not empty has a least one.
LEMMA LeastOf ==
  ASSUME NEW S \in SUBSET Nat, S # {}
  PROVE  Min(S) \in S
<1> DEFINE R == {ss \in Nat \X Nat : ss[1] < ss[2]}
<1>1. IsWellFoundedOn(R, Nat)
  BY NatLessThanWellFounded DEF OpToRel
<1>2. \A a, b \in Nat : a < b => <<a, b>> \in R
  OBVIOUS
<1> HIDE DEF R
<1>3. PICK x \in S : \A y \in S : ~ (<<y, x>> \in R)
  BY <1>1, WFMin
<1>4. ASSUME NEW y \in S  PROVE x <= y
  <2>1. x \in Nat /\ y \in Nat  OBVIOUS
  <2>2. ~(y < x)  BY <1>2, <1>3, <2>1, Zenon
  <2> QED  BY <2>1, <2>2
<1> QED BY <1>4 DEF Min

\* A number is a multiple of n and a rest.
LEMMA Whole ==
  ASSUME NEW n \in Nat, n > 0, NEW x \in Int
  PROVE  \E q \in Int : x = (q * n) + (x % n)
<1> DEFINE q == (x - (x % n)) \div n
<1>1. x - (x % n) = n * q  OBVIOUS
<1>2. q \in Int /\ x % n \in Int  OBVIOUS
<1> HIDE DEF q
<1>3. x = (q * n) + (x % n)  BY <1>1, <1>2
<1> QED BY <1>2, <1>3

\* Probing from any id goes through every slot, and through slots only.
LEMMA Probed ==
  ASSUME NEW id \in Int
  PROVE  /\ \A s \in Slots : \E i \in Slots : Probe(id, i) = s
         /\ \A i \in Slots : Probe(id, i) \in Slots
<1> DEFINE n == TableSize
<1>0. n \in Nat /\ n > 0 /\ Slots = 0..(n - 1)
  BY UringAssumption DEF Slots
<1> HIDE DEF n
<1>1. ASSUME NEW s \in Slots  PROVE \E i \in Slots : (id + i) % n = s
  <2>1. PICK q \in Int : s - id = (q * n) + ((s - id) % n)
    BY <1>0, Whole
  <2>2. (s - id) % n \in Slots
    BY <1>0
  <2>3. id + ((s - id) % n) = ((-q) * n) + s
    BY <1>0, <2>1, <2>2
  <2>4. (((-q) * n) + s) % n = s
    BY <1>0
  <2> QED BY <2>2, <2>3, <2>4
<1>2. ASSUME NEW i \in Slots  PROVE (id + i) % n \in Slots
  BY <1>0
<1> QED BY <1>1, <1>2 DEF Probe, n

LEMMA IdsArePositive == \A id \in Ids : id \in Int /\ id > 0
BY UringAssumption DEF Ids, RingIds, DirectIds

\* io_ctx_put with a free slot somewhere files the context in a free slot.
LEMMA PutFiles ==
  ASSUME TypeOK, NEW id \in Ids, \E s \in Slots : table[s] = 0
  PROVE  \E s \in Slots : table[s] = 0 /\ Put(id) = [table EXCEPT ![s] = id]
<1>1. id \in Int
  BY IdsArePositive
<1>2. FreeAt(id) # {}
  BY <1>1, Probed DEF FreeAt
<1>3. FreeAt(id) \in SUBSET Nat
  BY UringAssumption DEF FreeAt, Slots
<1>4. Min(FreeAt(id)) \in FreeAt(id)
  BY <1>2, <1>3, LeastOf
<1>5. Probe(id, Min(FreeAt(id))) \in Slots /\ table[Probe(id, Min(FreeAt(id)))] = 0
  BY <1>1, <1>4, Probed DEF FreeAt
<1> QED BY <1>2, <1>5 DEF Put

\* io_ctx_take frees the slot of the context, or leaves the table as it is.
LEMMA TakenFrees ==
  ASSUME TypeOK, NEW id \in Ids
  PROVE  IF Found(id) THEN \E s \in Slots : table[s] = id /\ Taken(id) = [table EXCEPT ![s] = 0]
                      ELSE Taken(id) = table
<1>1. CASE ~Found(id)
  BY <1>1 DEF Taken
<1>2. CASE Found(id)
  <2>1. id \in Int
    BY IdsArePositive
  <2>2. HeldAt(id) # {} /\ HeldAt(id) \in SUBSET Nat
    BY <1>2, UringAssumption DEF Found, HeldAt, Slots
  <2>3. Min(HeldAt(id)) \in HeldAt(id)
    BY <2>2, LeastOf
  <2>4. Probe(id, Min(HeldAt(id))) \in Slots /\ table[Probe(id, Min(HeldAt(id)))] = id
    BY <2>1, <2>3, Probed DEF HeldAt
  <2> QED BY <1>2, <2>4 DEF Taken
<1> QED BY <1>1, <1>2

LEMMA InitFiled == Init => TInv
BY DEF Init, TInv, OneOwner, OneSlot, Filed, Own, AboutAwaited, Waiting

\* Steps that are not about the table: they issue no id, file none, take none.
LEMMA QuietKeeps ==
  ASSUME TInv, UNCHANGED <<table, holds, used, nextId, nextDirect>>,
         \A t \in Callers : /\ pc'[t] \in {"attach", "putback"} => pc'[t] = pc[t] /\ cur'[t] = cur[t]
                            /\ AboutAwaited(t)' => AboutAwaited(t) /\ cur'[t] = cur[t]
  PROVE  TInv'
<1> USE DEF TInv
<1>1. \A t \in Callers : Own(t)' \subseteq Own(t)
  BY DEF Own
<1>2. OneOwner'
  BY <1>1 DEF OneOwner, Issued, Submitted
<1>3. OneSlot'
  BY DEF OneSlot
<1>4. Filed'
  BY DEF Filed
<1> QED BY <1>2, <1>3, <1>4

\* The ids issued are ids, and the next of each kind is not among them.
LEMMA IssuedIds ==
  ASSUME TypeOK
  PROVE  /\ Issued \subseteq Ids
         /\ nextId \in RingIds => nextId \notin Issued
         /\ nextDirect \notin Issued
BY UringAssumption DEF TypeOK, Issued, Submitted, Ids, RingIds, DirectIds

\* A new id is its caller's, who goes on to file it or waits for it without a
\* context.
LEMMA IssueKeeps ==
  ASSUME TypeOK, TInv, NEW t \in Callers, NEW id \in Ids,
         pc[t] = "run", id \notin Issued, id \in Issued', Issued \subseteq Issued',
         used[id] = 0, UNCHANGED <<table, holds, used>>,
         cur' = [cur EXCEPT ![t] = id],
         \/ pc' = [pc EXCEPT ![t] = "attach"]
         \/ pc' = [pc EXCEPT ![t] = "reap"] /\ bare'[t],
         \A u \in Callers : u # t => bare'[u] = bare[u]
  PROVE  TInv'
<1> USE DEF TInv
<1>1. \A u \in Callers : u # t => pc'[u] = pc[u] /\ cur'[u] = cur[u] /\ bare'[u] = bare[u]
  BY DEF TypeOK
<1>2. \A u \in Callers : id \notin Own(u) /\ (u # t => Own(u)' = Own(u))
  BY <1>1 DEF Own, OneOwner
<1>3. /\ Own(t)' \subseteq holds[t] \cup {id} /\ holds[t] \subseteq Own(t)
      /\ ~AboutAwaited(t)' /\ cur'[t] = id
      /\ pc'[t] \in {"attach", "reap"}
  BY DEF Own, AboutAwaited, TypeOK, Waiting
<1>4. OneOwner'
  <2>1. \A u \in Callers : Own(u)' \subseteq Issued'
    BY <1>2, <1>3 DEF OneOwner
  <2>2. \A u, v \in Callers : u # v => Own(u)' \cap Own(v)' = {}
    BY <1>2, <1>3 DEF OneOwner
  <2>3. \A u \in Callers : pc'[u] = "attach" => cur'[u] \notin holds'[u] /\ used'[cur'[u]] = 0
    BY <1>1, <1>2, <1>3 DEF OneOwner
  <2>4. \A u \in Callers : AboutAwaited(u)' => cur'[u] \in holds'[u] /\ used'[cur'[u]] > 0
    BY <1>1, <1>3 DEF OneOwner, AboutAwaited
  <2> QED BY <2>1, <2>2, <2>3, <2>4 DEF OneOwner
<1>5. OneSlot'
  <2>1. \A s \in Slots : table[s] # id
    BY <1>2, IdsArePositive DEF OneSlot, Own
  <2>2. \A u \in Callers : pc'[u] \in {"attach", "putback"} => \A s \in Slots : table'[s] # cur'[u]
    BY <1>1, <1>3, <2>1 DEF OneSlot
  <2> QED BY <2>2 DEF OneSlot
<1>6. Filed'
  BY DEF Filed
<1> QED BY <1>4, <1>5, <1>6

\* io_ctx_put of an id its caller holds, or comes to hold.
LEMMA PutKeeps ==
  ASSUME TypeOK, AboutAnId, BareWaits, TInv, TableHasRoom, NEW t \in Callers, Attach(t) \/ PutBack(t)
  PROVE  TInv'
<1> USE DEF TInv
<1> DEFINE id == cur[t]
<1>1. id \in Ids /\ id # 0 /\ pc[t] \in {"attach", "putback"}
  BY IdsArePositive DEF AboutAnId, BareWaits, Attach, PutBack, Waiting
<1>2. PICK s \in Slots : table[s] = 0 /\ table' = [table EXCEPT ![s] = id]
  BY <1>1, PutFiles DEF TableHasRoom, Attach, PutBack
<1>3. /\ pc' = [pc EXCEPT ![t] = pc'[t]] /\ pc'[t] \in {"run", "reap"}
      /\ holds' = [holds EXCEPT ![t] = @ \cup {id}] /\ UNCHANGED <<cur, used, bare, nextId, nextDirect>>
      /\ pc[t] = "putback" => holds' = holds /\ pc'[t] = "reap" /\ id \in holds[t] /\ AboutAwaited(t)
      /\ pc[t] = "attach" => pc'[t] = "run"
  <2>1. CASE Attach(t)
    BY <2>1 DEF Attach, Goto, TypeOK, ringVars
  <2>2. CASE PutBack(t)
    <3>1. AboutAwaited(t)
      BY <2>2 DEF PutBack, AboutAwaited, BareWaits, TypeOK, Waiting
    <3> QED BY <2>2, <3>1 DEF PutBack, Goto, TypeOK, ringVars, OneOwner
  <2> QED BY <2>1, <2>2
<1>4. \A u \in Callers : u # t => pc'[u] = pc[u] /\ holds'[u] = holds[u] /\ Own(u)' = Own(u)
  BY <1>3 DEF TypeOK, Own
<1>5. Own(t)' = Own(t) /\ holds'[t] = holds[t] \cup {id} /\ id \in Own(t)
  BY <1>1, <1>3 DEF TypeOK, Own
<1> HIDE DEF id
<1>6. OneOwner'
  <2>1. \A u \in Callers : Own(u)' \subseteq Issued'
    BY <1>3, <1>4, <1>5 DEF OneOwner, Issued, Submitted
  <2>2. \A u, v \in Callers : u # v => Own(u)' \cap Own(v)' = {}
    BY <1>4, <1>5 DEF OneOwner
  <2>3. \A u \in Callers : pc'[u] = "attach" => cur'[u] \notin holds'[u] /\ used'[cur'[u]] = 0
    BY <1>3, <1>4 DEF OneOwner
  <2>4. \A u \in Callers : AboutAwaited(u)' => AboutAwaited(u)
    BY <1>1, <1>3, <1>4 DEF AboutAwaited, Waiting
  <2>5. \A u \in Callers : AboutAwaited(u)' => cur'[u] \in holds'[u] /\ used'[cur'[u]] > 0
    BY <1>3, <1>4, <1>5, <2>4 DEF OneOwner
  <2> QED BY <2>1, <2>2, <2>3, <2>5 DEF OneOwner
<1>7. \A r \in Slots : table[r] # id /\ table'[r] = IF r = s THEN id ELSE table[r]
  BY <1>1, <1>2 DEF TypeOK, OneSlot, id
<1>8. OneSlot'
  <2>1. \A r \in Slots : table'[r] # 0 => \E u \in Callers : table'[r] \in holds'[u]
    BY <1>4, <1>5, <1>7 DEF OneSlot
  <2>2. \A r, q \in Slots : table'[r] # 0 /\ table'[r] = table'[q] => r = q
    BY <1>7 DEF OneSlot
  <2>3. ASSUME NEW u \in Callers, pc'[u] \in {"attach", "putback"}, NEW r \in Slots
        PROVE  table'[r] # cur'[u]
    <3>1. u # t /\ pc[u] = pc'[u] /\ cur'[u] = cur[u]
      BY <1>3, <1>4, <2>3
    <3>2. cur[u] \in Own(u)
      <4>1. pc[u] = "putback" => AboutAwaited(u)
        BY DEF AboutAwaited, BareWaits, Waiting
      <4> QED BY <2>3, <3>1, <4>1 DEF Own, OneOwner
    <3>3. cur[u] # id
      BY <1>5, <3>1, <3>2 DEF OneOwner
    <3> QED BY <1>7, <2>3, <3>1, <3>3 DEF OneSlot
  <2> QED BY <2>1, <2>2, <2>3 DEF OneSlot
<1>9. Filed'
  <2> SUFFICES ASSUME NEW u \in Callers, NEW i \in holds'[u], used'[i] = 0
               PROVE  \E r \in Slots : table'[r] = i
    BY DEF Filed
  <2>1. CASE i = id
    BY <1>7, <2>1
  <2>2. CASE i # id
    <3>1. i \in holds[u]  BY <1>4, <1>5, <2>2
    <3>2. PICK r \in Slots : table[r] = i  BY <1>3, <3>1 DEF Filed
    <3>3. i # 0  BY <3>1, IdsArePositive DEF TypeOK
    <3> QED BY <1>2, <1>7, <3>2, <3>3
  <2> QED BY <2>1, <2>2
<1> QED BY <1>6, <1>8, <1>9

\* io_ctx_take of an id its caller awaits.
LEMMA TakeKeeps ==
  ASSUME TypeOK, BareWaits, TInv, NEW t \in Callers,
         (\E i \in holds[t] : Await(t, i)) \/ Finish(t)
  PROVE  TInv'
<1> USE DEF TInv
<1>1. PICK id \in holds[t] :
        /\ table' = Taken(id) /\ UNCHANGED <<holds, nextId, nextDirect>>
        /\ pc[t] \in {"run", "finish"} /\ pc' = [pc EXCEPT ![t] = pc'[t]]
        /\ pc'[t] \in {"run", "reap", "putback"} /\ (pc'[t] = "putback" => Found(id))
        /\ cur' = [cur EXCEPT ![t] = id] /\ \A u \in Callers : u # t => bare'[u] = bare[u]
        /\ used'[id] > 0 /\ \A i \in Ids : i # id => used'[i] = used[i]
  <2>1. ASSUME NEW i \in holds[t], Await(t, i)
        PROVE  \* the conjuncts of <1>1, for i
          /\ table' = Taken(i) /\ UNCHANGED <<holds, nextId, nextDirect>>
          /\ pc[t] \in {"run", "finish"} /\ pc' = [pc EXCEPT ![t] = pc'[t]]
          /\ pc'[t] \in {"run", "reap", "putback"} /\ (pc'[t] = "putback" => Found(i))
          /\ cur' = [cur EXCEPT ![t] = i] /\ \A u \in Callers : u # t => bare'[u] = bare[u]
          /\ used'[i] > 0 /\ \A k \in Ids : k # i => used'[k] = used[k]
    <3>1. i \in Ids  BY DEF TypeOK
    <3>2. used'[i] > 0 /\ \A k \in Ids : k # i => used'[k] = used[k]
      BY <2>1, <3>1, UringAssumption DEF TypeOK, Await
    <3> QED BY <2>1, <3>2 DEF TypeOK, Await, Goto, About, ringVars
  <2>2. CASE Finish(t)
    <3>1. AboutAwaited(t)
      BY <2>2 DEF Finish, AboutAwaited, BareWaits, TypeOK, Waiting
    <3>2. cur[t] \in holds[t] /\ used[cur[t]] > 0
      BY <3>1 DEF OneOwner
    <3> QED BY <2>2, <3>2 DEF Finish, Goto, TypeOK, ringVars
  <2> QED BY <2>1, <2>2
<1>2. id \in Ids /\ id # 0
  BY IdsArePositive DEF TypeOK
<1>3. \A u \in Callers : u # t => pc'[u] = pc[u] /\ cur'[u] = cur[u]
  BY <1>1 DEF TypeOK
<1>4. cur'[t] = id
  BY <1>1 DEF TypeOK
<1>5. /\ \A u \in Callers : u # t => Own(u)' = Own(u)
      /\ Own(t)' = holds[t] /\ Own(t) = holds[t]
  BY <1>1, <1>3, <1>4 DEF Own
<1>6. OneOwner'
  <2>1. \A u \in Callers : Own(u)' \subseteq Issued'
    BY <1>1, <1>5 DEF OneOwner, Issued, Submitted
  <2>2. \A u, v \in Callers : u # v => Own(u)' \cap Own(v)' = {}
    BY <1>5 DEF OneOwner
  <2>3. ASSUME NEW u \in Callers, pc'[u] = "attach"
        PROVE  cur'[u] \notin holds'[u] /\ used'[cur'[u]] = 0
    <3>1. u # t /\ pc[u] = "attach" /\ cur'[u] = cur[u]
      BY <1>1, <1>3, <2>3
    <3>2. cur[u] \in Own(u) /\ id \in Own(t)
      BY <1>5, <3>1 DEF Own
    <3>3. cur[u] # id /\ cur[u] \in Ids
      BY <3>1, <3>2, IssuedIds DEF OneOwner
    <3> QED BY <1>1, <3>1, <3>3 DEF OneOwner
  <2>4. ASSUME NEW u \in Callers, AboutAwaited(u)'
        PROVE  cur'[u] \in holds'[u] /\ used'[cur'[u]] > 0
    <3>1. CASE u = t
      BY <1>1, <1>4, <3>1
    <3>2. CASE u # t
      <4>1. AboutAwaited(u) /\ cur'[u] = cur[u]
        BY <1>1, <1>3, <2>4, <3>2 DEF AboutAwaited
      <4>2. cur[u] \in holds[u] /\ used[cur[u]] > 0 /\ cur[u] \in Ids
        BY <4>1 DEF OneOwner, TypeOK
      <4> QED BY <1>1, <4>1, <4>2
    <3> QED BY <3>1, <3>2
  <2> QED BY <2>1, <2>2, <2>3, <2>4 DEF OneOwner
\* What is in a slot afterwards was there before; it is not id, if id was found.
<1>7. /\ \A r \in Slots : table'[r] # 0 => table'[r] = table[r]
      /\ \A r \in Slots : table[r] # id => table'[r] = table[r]
      /\ Found(id) => \A r \in Slots : table'[r] # id
  <2>1. CASE Found(id)
    <3>1. PICK s \in Slots : table[s] = id /\ table' = [table EXCEPT ![s] = 0]
      BY <1>1, <1>2, <2>1, TakenFrees
    <3>2. \A r \in Slots : table'[r] = IF r = s THEN 0 ELSE table[r]
      BY <3>1 DEF TypeOK
    <3> QED BY <1>2, <3>1, <3>2 DEF OneSlot
  <2>2. CASE ~Found(id)
    <3>1. table' = table
      BY <1>1, <1>2, <2>2, TakenFrees
    <3> QED BY <2>2, <3>1
  <2> QED BY <2>1, <2>2
<1>8. OneSlot'
  <2>1. \A r \in Slots : table'[r] # 0 => \E u \in Callers : table'[r] \in holds'[u]
    BY <1>1, <1>7 DEF OneSlot
  <2>2. \A r, q \in Slots : table'[r] # 0 /\ table'[r] = table'[q] => r = q
    BY <1>7 DEF OneSlot
  <2>3. ASSUME NEW u \in Callers, pc'[u] \in {"attach", "putback"}, NEW r \in Slots
        PROVE  table'[r] # cur'[u]
    <3>1. CASE u = t
      BY <1>1, <1>4, <1>7, <2>3, <3>1
    <3>2. CASE u # t
      <4>1. table[r] # cur[u] /\ cur'[u] = cur[u]
        BY <1>3, <2>3, <3>2 DEF OneSlot
      <4>2. cur[u] # 0
        <5>1. pc[u] = "attach" => cur[u] \in Own(u)
          BY DEF Own
        <5>2. pc[u] = "putback" => AboutAwaited(u)
          BY DEF AboutAwaited, BareWaits, Waiting
        <5>3. cur[u] \in Ids
          BY <1>3, <2>3, <3>2, <5>1, <5>2, IssuedIds DEF OneOwner, TypeOK
        <5> QED BY <5>3, IdsArePositive
      <4> QED BY <1>7, <4>1, <4>2
    <3> QED BY <3>1, <3>2
  <2> QED BY <2>1, <2>2, <2>3 DEF OneSlot
<1>9. Filed'
  <2> SUFFICES ASSUME NEW u \in Callers, NEW i \in holds'[u], used'[i] = 0
               PROVE  \E r \in Slots : table'[r] = i
    BY DEF Filed
  <2>1. i \in holds[u] /\ i \in Ids /\ i # id
    BY <1>1 DEF TypeOK
  <2>2. PICK r \in Slots : table[r] = i
    BY <1>1, <2>1 DEF Filed
  <2> QED BY <1>7, <2>1, <2>2
<1> QED BY <1>6, <1>8, <1>9

\* What has not been issued has not been awaited.
UnusedNew == \A i \in Ids : i \notin Issued => used[i] = 0

LEMMA UnusedStep ==
  ASSUME IInv, UnusedNew, TInv, [Next]_vars
  PROVE  UnusedNew'
<1> USE DEF IInv, UnusedNew
<1>1. ASSUME NEW t \in Callers, NEW i \in holds[t], Await(t, i)
      PROVE  UnusedNew'
  <2>1. Issued' = Issued
    BY <1>1 DEF Await, ringVars, Issued, Submitted
  <2>2. i \in Issued
    BY DEF TInv, OneOwner, Own
  <2>3. \A k \in Ids : k # i => used'[k] = used[k]
    BY <1>1 DEF Await, TypeOK
  <2> QED BY <2>1, <2>2, <2>3
<1>2. ASSUME UNCHANGED used, nextId' = nextId \/ nextId' = nextId + 1,
             nextDirect' = nextDirect \/ nextDirect' = nextDirect + 1
      PROVE  UnusedNew'
  <2>1. Issued \subseteq Issued'
    BY <1>2, UringAssumption DEF TypeOK, Issued, Submitted
  <2> QED BY <1>2, <2>1
<1>3. CASE UNCHANGED vars
  BY <1>2, <1>3 DEF vars, ringVars
<1>4. ASSUME NEW t \in Callers, \/ \E kind \in Kinds : Submit(t, kind)
                                \/ SubmitBareRefused(t) \/ Direct(t)
      PROVE  UnusedNew'
  BY <1>2, <1>4 DEF Submit, SubmitBareRefused, Direct, ringVars
<1>5. ASSUME NEW t \in Callers, AwaitStep(t)
      PROVE  UnusedNew'
  BY <1>2, <1>5 DEF AwaitStep, Attach, PutBack, NoRing, TakeStashed, Drain, Enter, Finish,
     OnlyRing, ringVars
<1>6. ASSUME NEW id \in inflight, Complete(id)
      PROVE  UnusedNew'
  BY <1>2, <1>6 DEF Complete
<1> QED BY <1>1, <1>3, <1>4, <1>5, <1>6 DEF Next, Program

\* While io_ctx_put finds room, every step keeps the contexts.
LEMMA TableStep ==
  ASSUME IInv, UnusedNew, TInv, TableHasRoom, [Next]_vars
  PROVE  TInv'
<1> USE DEF IInv
<1>1. ASSUME NEW t \in Callers, NEW kind \in Kinds, Submit(t, kind)
      PROVE  TInv'
  <2>1. /\ nextId \in Ids /\ nextId \notin Issued /\ nextId \in Issued' /\ Issued \subseteq Issued'
        /\ UNCHANGED nextDirect
    BY <1>1, IssuedIds, UringAssumption DEF Submit, TypeOK, Issued, Submitted, Ids
  <2>2. /\ pc[t] = "run" /\ cur' = [cur EXCEPT ![t] = nextId]
        /\ UNCHANGED <<table, holds, used>>
        /\ \A u \in Callers : u # t => bare'[u] = bare[u]
        /\ \/ pc' = [pc EXCEPT ![t] = "attach"]
           \/ pc' = [pc EXCEPT ![t] = "reap"] /\ bare'[t]
    BY <1>1 DEF Submit, Goto, About, TypeOK, Kinds
  <2>3. used[nextId] = 0
    BY <2>1 DEF UnusedNew
  <2> QED BY <2>1, <2>2, <2>3, IssueKeeps
<1>2. ASSUME NEW t \in Callers, Direct(t)
      PROVE  TInv'
  <2>1. /\ nextDirect \in Ids /\ nextDirect \notin Issued
        /\ nextDirect \in Issued' /\ Issued \subseteq Issued'
    BY <1>2, IssuedIds, UringAssumption DEF Direct, ringVars, TypeOK, Issued, Submitted, Ids,
       DirectIds
  <2>2. /\ pc[t] = "run" /\ cur' = [cur EXCEPT ![t] = nextDirect]
        /\ UNCHANGED <<table, holds, used>>
        /\ \A u \in Callers : u # t => bare'[u] = bare[u]
        /\ pc' = [pc EXCEPT ![t] = "attach"]
    BY <1>2 DEF Direct, Goto, About, TypeOK
  <2>3. used[nextDirect] = 0
    BY <2>1 DEF UnusedNew
  <2> QED BY <2>1, <2>2, <2>3, IssueKeeps
<1>3. ASSUME NEW t \in Callers, NEW id \in holds[t], Await(t, id)
      PROVE  TInv'
  BY <1>3, TakeKeeps
<1>4. ASSUME NEW t \in Callers, Attach(t) \/ PutBack(t)
      PROVE  TInv'
  BY <1>4, PutKeeps
<1>5. ASSUME NEW t \in Callers, Finish(t)
      PROVE  TInv'
  BY <1>5, TakeKeeps
<1>6. ASSUME NEW t \in Callers, SubmitBareRefused(t)
      PROVE  TInv'
  BY <1>6, QuietKeeps DEF SubmitBareRefused, Goto, About, ringVars, TypeOK, AboutAwaited
<1>7. ASSUME NEW t \in Callers, NoRing(t) \/ TakeStashed(t) \/ Drain(t)
      PROVE  TInv'
  BY <1>7, QuietKeeps DEF NoRing, TakeStashed, Drain, Returns, Goto, OnlyRing, TypeOK,
     AboutAwaited, Waiting
<1>8. ASSUME NEW t \in Callers, Enter(t)
      PROVE  TInv'
  BY <1>8, QuietKeeps DEF Enter, Goto, ringVars, TypeOK, AboutAwaited, Waiting
<1>9. ASSUME NEW id \in inflight, Complete(id)
      PROVE  TInv'
  BY <1>9, QuietKeeps DEF Complete, TypeOK, AboutAwaited, Waiting
<1>10. CASE UNCHANGED vars
  BY <1>10, QuietKeeps DEF vars, ringVars, AboutAwaited
<1> QED BY <1>1, <1>2, <1>3, <1>4, <1>5, <1>6, <1>7, <1>8, <1>9, <1>10
        DEF Next, Program, AwaitStep

\* One slot, and no more, has the context.
LEMMA KeptOnce == TypeOK /\ TInv => ContextsKept
<1> SUFFICES ASSUME TypeOK, TInv, NEW t \in Callers, NEW id \in holds[t], used[id] = 0
             PROVE  Cardinality({s \in Slots : table[s] = id}) = 1
  BY DEF ContextsKept
<1>1. PICK s \in Slots : table[s] = id
  BY DEF TInv, Filed
<1>2. id # 0
  BY IdsArePositive DEF TypeOK
<1>3. {r \in Slots : table[r] = id} = {s}
  BY <1>1, <1>2 DEF TInv, OneSlot
<1> QED BY <1>3, FS_Singleton

\* A context is in the table, once, until its promise is first awaited
\* (io_ctx_put, io_ctx_take), as long as io_ctx_put finds a free slot:
\* collisions, and the taking and putting back of io_await, overwrite none and
\* duplicate none.  (Whether io_ctx_take, which stops at the first free slot,
\* finds it there is another matter.)
THEOREM ContextsWithRoom == Spec /\ []TableHasRoom => []ContextsKept
<1>1. Init => UnusedNew
  BY DEF Init, UnusedNew
<1>2. IInv /\ UnusedNew /\ TInv /\ TableHasRoom /\ [Next]_vars => UnusedNew' /\ TInv'
  BY UnusedStep, TableStep
<1>3. IInv /\ TInv => ContextsKept
  BY KeptOnce DEF IInv
<1> QED BY <1>1, <1>2, <1>3, InitFiled, RingInvariant, PTL DEF Spec

=============================================================================
