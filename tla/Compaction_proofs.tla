------------------------- MODULE Compaction_proofs -------------------------
(***************************************************************************)
(* What TLAPS proves of Compaction, for any number of engines, sessions,   *)
(* rows and compare-and-swap attempts.                                     *)
(***************************************************************************)
EXTENDS Compaction, TLAPS

\* A call that will move nodes to a session has that session to itself: no
\* node, no other engine's history and no other call names it.  This is what
\* reassign_session_nodes relies on and what the claim check of a publication,
\* which looks at one session only, cannot see.
Opening(e) ==
  loc[e].from # NULL =>
    /\ At(e, "bndFin") \/ At(e, "bndMove") \/ loc[e].then = "carry"
    /\ loc[e].pc \in {"bndFin", "bndMove", "pendFin", "bindRead", "bindWrite",
                      "bindDone", "bindTxn", "carry"}
    /\ loc[e].pc \notin {"bndFin", "bndMove", "pendFin"} => loc[e].tgt \in eng[e].hist
    /\ loc[e].from # loc[e].tgt
    /\ \A n \in nodes : n.sess # loc[e].tgt
    /\ \A o \in Engines : o # e =>
         loc[o].tgt # loc[e].tgt /\ loc[e].tgt \notin eng[o].hist

\* Every session an engine is bound to, is about to be bound to after a move,
\* or has nodes was started by some engine.
Started ==
  /\ \A e \in Engines : eng[e].sess # NULL => eng[e].sess \in eng[e].hist
  /\ \A n \in nodes : \E e \in Engines : n.sess \in eng[e].hist


\* What a call in progress knows of itself: compress() runs bound, a call that
\* switches sessions has a target, and the compare-and-swap loop has attempts
\* left while it reads or writes.
Calls ==
  \A e \in Engines :
    /\ loc[e].pc \in {"select", "expect", "carried", "publish"} => eng[e].sess # NULL
    /\ loc[e].pc \in {"pendFin", "bndFin", "bndMove"} => loc[e].tgt # NULL
    /\ loc[e].pc = "carry" \/ loc[e].then = "carry" => loc[e].tgt # NULL
    /\ loc[e].pc \in {"pendFin", "bndFin", "bndMove", "bindRead", "bindWrite"}
         => loc[e].tries < CasAttempts

Typed == TypeOK /\ Calls

IInv == Typed /\ Started /\ (\A e \in Engines : Opening(e)) /\ NoDoubleClaim

-----------------------------------------------------------------------------
(* Typing                                                                  *)

\* Every statement on the lifecycle row yields a row.
LEMMA RowTypes ==
  ASSUME NEW r \in LifeRow, NEW q \in LifeRow, NEW s \in SessionOrNull,
         NEW f \in Nat, NEW now \in Nat
  PROVE  /\ NoRow \in LifeRow
         /\ Larger(f, now) \in Nat
         /\ BindWrite(r, q, s) \in LifeRow
         /\ RebindOwn(r, s) \in LifeRow
         /\ Finalize(r, s, f, now) \in LifeRow
         /\ RecordReset(r, now) \in LifeRow
         /\ Advance(r, s, f) \in LifeRow
<1>1. NoRow \in LifeRow /\ Larger(f, now) \in Nat
  BY DEF NoRow, LifeRow, SessionOrNull, Larger
<1>2. BindWrite(r, q, s) \in LifeRow
  BY <1>1 DEF BindWrite, BindFrontier, NoRow, LifeRow, SessionOrNull
<1>3. RebindOwn(r, s) \in LifeRow
  BY DEF RebindOwn, LifeRow
<1>4. Finalize(r, s, f, now) \in LifeRow
  BY DEF Finalize, LifeRow, SessionOrNull, Larger
<1>5. RecordReset(r, now) \in LifeRow /\ Advance(r, s, f) \in LifeRow
  BY DEF RecordReset, Advance, LifeRow, Larger
<1> QED BY <1>1, <1>2, <1>3, <1>4, <1>5

LEMMA IdleType == Idle \in LocalType /\ Unbound \in EngineType
<1>1. NoRow \in LifeRow
  BY DEF NoRow, LifeRow, SessionOrNull
<1> QED
  BY <1>1, BoundsAssumption DEF Idle, Unbound, LocalType, EngineType, PCs, Returns, SessionOrNull

LEMMA InitTyped == Init => Typed
<1> SUFFICES ASSUME Init PROVE Typed
  OBVIOUS
<1>1. NoRow \in LifeRow
  BY DEF NoRow, LifeRow, SessionOrNull
<1>2. TypeOK
  BY <1>1, IdleType, BoundsAssumption DEF Init, TypeOK
<1>3. Calls
  BY DEF Init, Calls, Idle
<1> QED BY <1>2, <1>3 DEF Typed

\* Ingest keeps the store a sequence of rows within the bound.
LEMMA IngestTyped ==
  ASSUME Typed, NEW e \in Engines, NEW ign \in BOOLEAN, Ingest(e, ign)
  PROVE  Typed'
<1>1. eng[e].sess \in Sessions
  BY DEF Typed, TypeOK, Ingest, Bound, EngineType, SessionOrNull
<1>2. rows' \in Seq([sess : Sessions, ign : BOOLEAN]) /\ Len(rows') <= MaxRows
  BY <1>1, BoundsAssumption DEF Typed, TypeOK, Ingest
<1>3. eng' \in [Engines -> EngineType]
  BY DEF Typed, TypeOK, Ingest, EngineType
<1>4. Calls'
  BY DEF Typed, TypeOK, Ingest, Calls
<1> QED
  BY <1>2, <1>3, <1>4 DEF Typed, TypeOK, Ingest

\* So does the suffix of an off-current end.
LEMMA AppendSuffixTyped ==
  ASSUME Typed, NEW e \in Engines, NEW s \in Sessions, NEW ign \in BOOLEAN,
         AppendSuffix(e, s, ign)
  PROVE  Typed'
<1>1. rows' \in Seq([sess : Sessions, ign : BOOLEAN]) /\ Len(rows') <= MaxRows
  BY BoundsAssumption DEF Typed, TypeOK, AppendSuffix
<1>2. [Idle EXCEPT !.pc = "offRead", !.tgt = s] \in LocalType
  BY IdleType DEF LocalType, PCs, SessionOrNull
<1>3. Calls'
  BY DEF Typed, TypeOK, Calls, AppendSuffix, Idle
<1> QED BY <1>1, <1>2, <1>3 DEF AppendSuffix, Typed, TypeOK

LEMMA SwitchedType ==
  ASSUME Typed, NEW e \in Engines, NEW s \in Sessions
  PROVE  Switched(e, s) \in EngineType /\ Switched(e, s).sess = s
BY DEF Typed, TypeOK, Switched, EngineType, SessionOrNull

LEMMA BindCallType ==
  ASSUME NEW s \in SessionOrNull, NEW then \in Returns
  PROVE  BindCall(s, then) \in LocalType
BY IdleType DEF BindCall, LocalType, PCs, Returns

LEMMA StartTyped ==
  ASSUME Typed, NEW e \in Engines, NEW s \in Sessions, Start(e, s)
  PROVE  Typed'
<1>1. eng' \in [Engines -> EngineType]
  BY SwitchedType DEF Typed, TypeOK, Start
<1>2. loc' \in [Engines -> LocalType]
  BY BindCallType DEF Typed, TypeOK, Start, Returns, SessionOrNull
<1>3. Calls'
  BY BoundsAssumption DEF Typed, TypeOK, Start, Calls, BindCall, Idle, Switched
<1> QED
  BY <1>1, <1>2, <1>3 DEF Typed, TypeOK, Start

LEMMA StartAfterResetTyped ==
  ASSUME Typed, NEW e \in Engines, NEW s \in Sessions,
         NEW then \in {"idle", "carry"}, StartAfterReset(e, s, then)
  PROVE  Typed'
<1> DEFINE f == IF life.present /\ life.cur = eng[e].sess
                THEN Larger(eng[e].pendF, life.frontier) ELSE eng[e].pendF
           from == IF then = "carry" THEN eng[e].sess ELSE NULL
           call == [Idle EXCEPT !.pc = "pendFin", !.tgt = s, !.then = then,
                                !.from = from, !.f = f]
<1>1. f \in Nat
  BY DEF Typed, TypeOK, EngineType, LifeRow, Larger
<1>2. from \in SessionOrNull
  BY DEF Typed, TypeOK, EngineType, SessionOrNull
<1>3. call \in LocalType
  <2> HIDE DEF f, from
  <2> QED BY <1>1, <1>2, IdleType DEF LocalType, PCs, Returns, SessionOrNull
<1>4. call.pc = "pendFin" /\ call.tgt = s /\ call.tries = 0
  BY DEF Idle
<1>5. loc' = [loc EXCEPT ![e] = call]
  BY DEF StartAfterReset
<1> HIDE DEF call
<1>6. loc' \in [Engines -> LocalType]
  BY <1>3, <1>5 DEF Typed, TypeOK
<1>7. s # NULL /\ 0 < CasAttempts
  BY NullAssumption, BoundsAssumption
<1>8. Calls'
  BY <1>4, <1>5, <1>7 DEF Typed, TypeOK, Calls, StartAfterReset
<1> QED
  BY <1>6, <1>8 DEF Typed, TypeOK, StartAfterReset

LEMMA FinalizePendingResetTyped ==
  ASSUME Typed, NEW e \in Engines, FinalizePendingReset(e)
  PROVE  Typed'
<1>1. loc[e].tgt \in Sessions
  BY DEF Typed, TypeOK, Calls, FinalizePendingReset, At, LocalType, SessionOrNull
<1>2. clock' \in Nat /\ loc[e].f \in Nat /\ eng[e].pend \in SessionOrNull
  BY DEF Typed, TypeOK, FinalizePendingReset, LocalType, EngineType
<1>3. life' \in LifeRow
  BY <1>2, RowTypes DEF Typed, TypeOK, FinalizePendingReset
<1>4. eng' \in [Engines -> EngineType]
  BY <1>1, SwitchedType DEF Typed, TypeOK, FinalizePendingReset
<1>5. loc' \in [Engines -> LocalType]
  <2>1. loc[e] \in LocalType
    BY DEF Typed, TypeOK
  <2>2. [loc[e] EXCEPT !.pc = "bindRead", !.f = 0] \in LocalType
    BY <2>1 DEF LocalType, PCs
  <2> QED BY <2>2 DEF Typed, TypeOK, FinalizePendingReset
<1>6. Calls'
  <2> SUFFICES ASSUME NEW o \in Engines PROVE Calls!(o)'
    BY DEF Calls
  <2> QED BY DEF Typed, TypeOK, Calls, FinalizePendingReset, At
<1> QED
  BY <1>2, <1>3, <1>4, <1>5, <1>6 DEF Typed, TypeOK, FinalizePendingReset

\* Whatever row bind_session returns, its caller goes on well-typed.
LEMMA BindReturnsTyped ==
  ASSUME Typed, NEW e \in Engines, NEW row \in LifeRow, BindReturns(e, row)
  PROVE  /\ eng' \in [Engines -> EngineType]
         /\ loc' \in [Engines -> LocalType]
         /\ Calls'
<1>0. eng[e] \in EngineType /\ loc[e] \in LocalType
  BY DEF Typed, TypeOK
<1>1. eng' \in [Engines -> EngineType]
  <2>1. [eng[e] EXCEPT !.front = row.frontier] \in EngineType
    BY <1>0 DEF EngineType, LifeRow
  <2> QED BY <2>1 DEF Typed, TypeOK, BindReturns
<1>2. loc' \in [Engines -> LocalType]
  <2>1. [loc[e] EXCEPT !.pc = loc[e].then, !.read = row, !.tries = 0] \in LocalType
    <3>1. 0 \in 0..CasAttempts
      BY BoundsAssumption
    <3> QED BY <1>0, <3>1 DEF LocalType, PCs, Returns
  <2> QED BY <2>1, IdleType DEF Typed, TypeOK, BindReturns
<1>3. Calls'
  <2>1. CASE loc[e].then = "idle"
    BY <2>1 DEF Typed, TypeOK, Calls, BindReturns, Idle
  <2>2. CASE loc[e].then # "idle"
    BY <2>2, BoundsAssumption DEF Typed, TypeOK, Calls, BindReturns, LocalType, Returns
  <2> QED BY <2>1, <2>2
<1> QED BY <1>1, <1>2, <1>3

LEMMA BindTyped ==
  ASSUME Typed, NEW e \in Engines,
         \/ BindRead(e) \/ BindSwap(e) \/ BindLost(e) \/ BindDone(e)
         \/ BindInTransaction(e)
  PROVE  Typed'
<1>0. /\ loc[e] \in LocalType /\ life \in LifeRow /\ NoRow \in LifeRow
      /\ loc[e].tgt \in SessionOrNull /\ loc[e].read \in LifeRow
  BY IdleType DEF Typed, TypeOK, LocalType, Idle
<1>1. CASE BindRead(e)
  <2>1. CASE life.present /\ life.cur = loc[e].tgt
    BY <1>0, <1>1, <2>1, BindReturnsTyped DEF BindRead, Typed, TypeOK
  <2>2. CASE ~(life.present /\ life.cur = loc[e].tgt)
    <3>1. [loc[e] EXCEPT !.pc = "bindWrite", !.read = life] \in LocalType
      BY <1>0 DEF LocalType, PCs
    <3>2. /\ loc'[e].tgt = loc[e].tgt /\ loc'[e].then = loc[e].then
          /\ loc'[e].tries = loc[e].tries /\ loc'[e].pc = "bindWrite"
          /\ \A o \in Engines : o # e => loc'[o] = loc[o]
          /\ eng' = eng
      BY <1>0, <1>1, <2>2 DEF Typed, TypeOK, BindRead, LocalType
    <3>3. Calls'
      BY <1>1, <3>2 DEF Typed, Calls, BindRead, At
    <3> QED BY <1>1, <2>2, <3>1, <3>3 DEF BindRead, Typed, TypeOK
  <2> QED BY <2>1, <2>2
<1>2. CASE BindSwap(e)
  <2>1. [loc[e] EXCEPT !.pc = "bindDone", !.read = NoRow] \in LocalType
    BY <1>0 DEF LocalType, PCs
  <2>2. life' \in LifeRow
    BY <1>0, <1>2, RowTypes DEF BindSwap
  <2>3. Calls'
    BY <1>2 DEF Typed, TypeOK, Calls, BindSwap
  <2> QED BY <1>2, <2>1, <2>2, <2>3 DEF BindSwap, Typed, TypeOK
<1>3. CASE BindLost(e)
  <2>1. loc[e].tries \in Nat /\ loc[e].tries + 1 <= CasAttempts
    BY <1>0, <1>3, BoundsAssumption DEF Typed, Calls, BindLost, At, LocalType
  <2> DEFINE l == [loc[e] EXCEPT !.tries = loc[e].tries + 1, !.read = NoRow,
                     !.pc = IF loc[e].tries + 1 = CasAttempts THEN "bindTxn"
                            ELSE "bindRead"]
  <2>2. l \in LocalType
    <3>1. loc[e].tries + 1 \in 0..CasAttempts
      BY <2>1, BoundsAssumption
    <3> QED BY <1>0, <3>1 DEF LocalType, PCs
  <2>3. /\ loc' = [loc EXCEPT ![e] = l]
        /\ l.tries = loc[e].tries + 1 /\ l.then = loc[e].then
        /\ l.tgt = loc[e].tgt /\ l.pc \in {"bindTxn", "bindRead"}
        /\ l.pc = "bindRead" => l.tries < CasAttempts
    BY <1>0, <1>3, <2>1, BoundsAssumption DEF BindLost, LocalType
  <2> HIDE DEF l
  <2>4. Calls'
    BY <1>3, <2>3 DEF Typed, TypeOK, Calls, BindLost
  <2> QED BY <1>3, <2>2, <2>3, <2>4 DEF BindLost, Typed, TypeOK
<1>4. CASE BindDone(e)
  <2>1. CASE life.present
    BY <1>0, <1>4, <2>1, BindReturnsTyped DEF BindDone, Typed, TypeOK
  <2>2. CASE ~life.present
    <3>1. Calls'
      BY <1>4, <2>2 DEF Typed, TypeOK, Calls, BindDone, Idle
    <3> QED BY <1>4, <2>2, <3>1, IdleType DEF BindDone, Typed, TypeOK
  <2> QED BY <2>1, <2>2
<1>5. CASE BindInTransaction(e)
  <2>1. life' \in LifeRow
    BY <1>0, <1>5, RowTypes DEF BindInTransaction
  <2> QED BY <1>5, <2>1, BindReturnsTyped DEF BindInTransaction, Typed, TypeOK
<1> QED BY <1>1, <1>2, <1>3, <1>4, <1>5

LEMMA ReassignedType ==
  ASSUME Typed, NEW from, NEW to \in Sessions
  PROVE  Reassigned(from, to) \subseteq NodeType
BY DEF Typed, TypeOK, Reassigned, NodeType

LEMMA CarryOverTyped ==
  ASSUME Typed, NEW e \in Engines, CarryOver(e)
  PROVE  Typed'
<1>1. loc[e].tgt \in Sessions
  BY DEF Typed, TypeOK, Calls, CarryOver, At, LocalType, SessionOrNull
<1>2. nodes' \subseteq NodeType
  BY <1>1, ReassignedType DEF CarryOver
<1>3. Calls'
  BY DEF Typed, TypeOK, Calls, CarryOver, Idle
<1> QED BY <1>2, <1>3, IdleType DEF Typed, TypeOK, CarryOver

LEMMA IdsWithinBound ==
  ASSUME Typed PROVE Ids \subseteq 1..MaxRows
BY BoundsAssumption DEF Typed, TypeOK, Ids

LEMMA CompressTyped ==
  ASSUME Typed, NEW e \in Engines,
         \/ Compress(e) \/ SelectLeaf(e) \/ NoLeaf(e)
         \/ ReadExpected(e) \/ ReadCarried(e)
  PROVE  Typed'
<1>0. /\ eng[e] \in EngineType /\ loc[e] \in LocalType /\ life \in LifeRow
      /\ eng[e].sess \in SessionOrNull
  BY DEF Typed, TypeOK, EngineType
<1>1. CASE Compress(e)
  <2>1. life' \in LifeRow
    BY <1>0, <1>1, RowTypes DEF Compress
  <2>2. [eng[e] EXCEPT !.front = life'.frontier] \in EngineType
    BY <1>0, <2>1 DEF EngineType, LifeRow
  <2>3. [Idle EXCEPT !.pc = "select"] \in LocalType
    BY IdleType DEF LocalType, PCs
  <2>4. Calls'
    BY <1>1 DEF Typed, TypeOK, Calls, Compress, Idle, Bound
  <2> QED BY <1>1, <2>1, <2>2, <2>3, <2>4 DEF Compress, Typed, TypeOK
<1>2. CASE SelectLeaf(e)
  <2>1. PICK end \in ReadableRows(e) :
          loc' = [loc EXCEPT ![e] =
            [Idle EXCEPT !.pc = "expect", !.end = end,
                         !.cov = {i \in ReadableRows(e) : i <= end},
                         !.exc = {i \in OwnedAbove(e) \ ReadableRows(e) : i <= end}]]
    BY <1>2 DEF SelectLeaf
  <2>2. OwnedAbove(e) \subseteq 1..MaxRows /\ ReadableRows(e) \subseteq 1..MaxRows
    BY IdsWithinBound DEF OwnedAbove, ReadableRows, Owned, OwnedWith
  <2> DEFINE cov == {i \in ReadableRows(e) : i <= end}
             exc == {i \in OwnedAbove(e) \ ReadableRows(e) : i <= end}
             l == [Idle EXCEPT !.pc = "expect", !.end = end, !.cov = cov, !.exc = exc]
  <2>3. cov \subseteq 1..MaxRows /\ exc \subseteq 1..MaxRows /\ end \in 0..MaxRows
    BY <2>2, BoundsAssumption
  <2>4. l \in LocalType
    <3> HIDE DEF cov, exc
    <3> QED BY <2>3, IdleType DEF LocalType, PCs
  <2>5. l.pc = "expect" /\ l.tgt = NULL /\ l.then = "idle"
    BY DEF Idle
  <2>6. loc' = [loc EXCEPT ![e] = l]
    BY <2>1
  <2> HIDE DEF l
  <2>7. Calls'
    BY <1>2, <2>5, <2>6 DEF Typed, TypeOK, Calls, SelectLeaf, At
  <2> QED BY <1>2, <2>4, <2>6, <2>7 DEF SelectLeaf, Typed, TypeOK
<1>3. CASE NoLeaf(e)
  <2>1. Calls'
    BY <1>3 DEF Typed, TypeOK, Calls, NoLeaf, Idle
  <2> QED BY <1>3, <2>1, IdleType DEF NoLeaf, Typed, TypeOK
<1>4. CASE ReadExpected(e)
  <2> DEFINE l == [loc[e] EXCEPT !.pc = "carried", !.f = life.frontier]
  <2>1. l \in LocalType
    BY <1>0 DEF LocalType, LifeRow, PCs
  <2>2. /\ loc' = [loc EXCEPT ![e] = l]
        /\ l.pc = "carried" /\ l.then = loc[e].then /\ l.tgt = loc[e].tgt
    BY <1>0, <1>4 DEF ReadExpected, LocalType
  <2> HIDE DEF l
  <2>3. Calls'
    BY <1>4, <2>2 DEF Typed, TypeOK, Calls, ReadExpected, At
  <2> QED BY <1>4, <2>1, <2>2, <2>3 DEF ReadExpected, Typed, TypeOK
<1>5. CASE ReadCarried(e)
  <2> DEFINE ignored == {i \in Owned(eng[e].sess) :
                           rows[i].ign /\ i > loc[e].f /\ i <= loc[e].end}
             exc == loc[e].exc \cup (ignored \ loc[e].cov)
             l == [loc[e] EXCEPT !.pc = "publish", !.own = carry[eng[e].sess], !.exc = exc]
  <2>1. carry[eng[e].sess] \subseteq 1..MaxRows
    BY <1>0, <1>5 DEF Typed, TypeOK, Calls, ReadCarried, At, SessionOrNull
  <2>2. exc \subseteq 1..MaxRows
    BY <1>0, IdsWithinBound DEF Owned, OwnedWith, LocalType
  <2>3. l \in LocalType
    <3> HIDE DEF exc
    <3> QED BY <1>0, <2>1, <2>2 DEF LocalType, PCs
  <2>4. /\ loc' = [loc EXCEPT ![e] = l]
        /\ l.pc = "publish" /\ l.then = loc[e].then /\ l.tgt = loc[e].tgt
    BY <1>0, <1>5 DEF ReadCarried, LocalType
  <2> HIDE DEF l
  <2>5. Calls'
    BY <1>5, <2>4 DEF Typed, TypeOK, Calls, ReadCarried, At
  <2> QED BY <1>5, <2>3, <2>4, <2>5 DEF ReadCarried, Typed, TypeOK
<1> QED BY <1>1, <1>2, <1>3, <1>4, <1>5

LEMMA PublishTyped ==
  ASSUME Typed, NEW e \in Engines, Publish(e) \/ PublicationFails(e)
  PROVE  Typed'
<1>0. /\ eng[e] \in EngineType /\ loc[e] \in LocalType /\ life \in LifeRow
      /\ loc[e].end \in Nat /\ loc[e].f \in Nat
      /\ loc[e].cov \subseteq 1..MaxRows
  BY DEF Typed, TypeOK, LocalType
<1>1. CASE Publish(e)
  <2>1. eng[e].sess \in Sessions
    BY <1>0, <1>1 DEF Typed, Calls, Publish, At, EngineType, SessionOrNull
  <2>2. life' \in LifeRow
    <3>1. PublishedFrontier(e) \in Nat
      BY <1>0 DEF PublishedFrontier, Larger
    <3> QED BY <1>0, <1>1, <2>1, <3>1, RowTypes DEF Publish, SessionOrNull
  <2>3. nodes' \subseteq NodeType
    BY <1>0, <1>1, <2>1 DEF Publish, Typed, TypeOK, NodeType
  <2> DEFINE proof == {i \in Owned(eng[e].sess) : i > loc[e].end}
  <2>4. proof \subseteq 1..MaxRows
    BY IdsWithinBound DEF Owned, OwnedWith
  <2>5. [eng[e] EXCEPT !.front = loc[e].end, !.proofSt = "fresh", !.proof = proof]
          \in EngineType
    <3> HIDE DEF proof
    <3> QED BY <1>0, <2>4 DEF EngineType
  <2>6. eng' \in [Engines -> EngineType]
    BY <1>1, <2>5 DEF Publish, Typed, TypeOK
  <2>7. Calls'
    BY <1>1 DEF Typed, TypeOK, Calls, Publish, Idle
  <2> QED BY <1>1, <2>2, <2>3, <2>6, <2>7, IdleType DEF Publish, Typed, TypeOK
<1>2. CASE PublicationFails(e)
  <2>1. Calls'
    BY <1>2 DEF Typed, TypeOK, Calls, PublicationFails, Idle
  <2> QED BY <1>2, <2>1, IdleType DEF PublicationFails, Typed, TypeOK
<1> QED BY <1>1, <1>2

LEMMA EndTyped ==
  ASSUME Typed, NEW e \in Engines, End(e) \/ EndLocked(e) \/ FinalizeOffCurrent(e)
  PROVE  Typed'
<1>0. /\ eng[e] \in EngineType /\ loc[e] \in LocalType /\ life \in LifeRow
      /\ eng[e].sess \in SessionOrNull /\ eng[e].front \in Nat
      /\ loc[e].tgt \in SessionOrNull /\ loc[e].f \in Nat
  BY DEF Typed, TypeOK, LocalType, EngineType
<1>1. CASE End(e)
  <2>1. clock' \in Nat /\ life' \in LifeRow
    BY <1>0, <1>1, RowTypes DEF End, Typed, TypeOK
  <2>2. /\ [eng[e] EXCEPT !.proofSt = "consumed"] \in EngineType
        /\ [eng[e] EXCEPT !.proofSt = "none", !.proof = {}] \in EngineType
    BY <1>0 DEF EngineType
  <2>3. eng' \in [Engines -> EngineType]
    BY <1>1, <2>2 DEF End, Typed, TypeOK
  <2>4. Calls'
    BY <1>1 DEF Typed, TypeOK, Calls, End, At
  <2> QED BY <1>1, <2>1, <2>3, <2>4 DEF End, Typed, TypeOK
<1>2. CASE EndLocked(e)
  <2>1. [eng[e] EXCEPT !.proofSt = "consumed"] \in EngineType
    BY <1>0 DEF EngineType
  <2>2. Calls'
    BY <1>2 DEF Typed, TypeOK, Calls, EndLocked, At
  <2> QED BY <1>2, <2>1, <2>2 DEF EndLocked, Typed, TypeOK
<1>3. CASE FinalizeOffCurrent(e)
  <2>1. clock' \in Nat /\ life' \in LifeRow
    BY <1>0, <1>3, RowTypes DEF FinalizeOffCurrent, Typed, TypeOK
  <2>2. Calls'
    BY <1>3 DEF Typed, TypeOK, Calls, FinalizeOffCurrent, Idle
  <2> QED BY <1>3, <2>1, <2>2, IdleType DEF FinalizeOffCurrent, Typed, TypeOK
<1> QED BY <1>1, <1>2, <1>3

LEMMA EndOffCurrentTyped ==
  ASSUME Typed, NEW e \in Engines, NEW s \in Sessions, EndOffCurrent(e, s)
  PROVE  Typed'
<1>1. [Idle EXCEPT !.pc = "offFin", !.tgt = s, !.f = life.frontier] \in LocalType
  BY IdleType DEF Typed, TypeOK, LocalType, LifeRow, PCs, SessionOrNull
<1>2. Calls'
  BY DEF Typed, TypeOK, Calls, EndOffCurrent, Idle
<1> QED BY <1>1, <1>2 DEF EndOffCurrent, Typed, TypeOK

LEMMA ResetTyped ==
  ASSUME Typed, NEW e \in Engines, Reset(e) \/ DropProof(e) \/ DeleteBatch(e)
  PROVE  Typed'
<1>0. eng[e] \in EngineType /\ loc[e] \in LocalType /\ life \in LifeRow
  BY DEF Typed, TypeOK
<1>1. CASE Reset(e)
  <2>1. clock' \in Nat /\ life' \in LifeRow
    <3>1. clock' \in Nat
      BY <1>1 DEF Reset, Typed, TypeOK
    <3> QED BY <1>0, <1>1, <3>1 DEF Reset, RecordReset, LifeRow
  <2>2. [eng[e] EXCEPT !.pend = eng[e].sess, !.pendF = eng[e].front, !.front = 0,
                       !.proof = {}, !.proofSt = "none"] \in EngineType
    BY <1>0 DEF EngineType
  <2>3. [loc[e] EXCEPT !.pc = "unprove"] \in LocalType
    BY <1>0 DEF LocalType, PCs
  <2>4. eng' \in [Engines -> EngineType] /\ loc' \in [Engines -> LocalType]
    BY <1>1, <2>2, <2>3 DEF Reset, Typed, TypeOK
  <2>5. /\ loc'[e].tgt = loc[e].tgt /\ loc'[e].then = loc[e].then
        /\ loc'[e].pc = "unprove"
        /\ \A o \in Engines : o # e => loc'[o] = loc[o] /\ eng'[o] = eng[o]
    BY <1>0, <1>1 DEF Typed, TypeOK, Reset, LocalType
  <2>6. Calls'
    BY <2>5 DEF Typed, Calls
  <2> QED BY <1>1, <2>1, <2>4, <2>6 DEF Reset, Typed, TypeOK
<1>2. CASE DeleteBatch(e)
  <2>1. nodes' \subseteq nodes /\ (loc' = [loc EXCEPT ![e] = Idle] \/ loc' = loc)
    BY <1>2 DEF DeleteBatch
  <2>2. Calls'
    BY <1>2, <2>1 DEF Typed, TypeOK, Calls, DeleteBatch, Idle
  <2> QED BY <1>2, <2>1, <2>2, IdleType DEF DeleteBatch, Typed, TypeOK
<1>3. CASE DropProof(e)
  <2> DEFINE l == [loc[e] EXCEPT !.pc = IF RetainLeaves THEN "idle" ELSE "delete"]
  <2>1. l \in LocalType
    BY <1>0 DEF LocalType, PCs
  <2>2. /\ loc' = [loc EXCEPT ![e] = l] /\ eng' = eng
        /\ l.tgt = loc[e].tgt /\ l.then = loc[e].then /\ l.pc \in {"idle", "delete"}
    BY <1>0, <1>3 DEF DropProof, LocalType
  <2>3. carry' \in [Sessions -> SUBSET (1..MaxRows)]
    BY <1>3 DEF DropProof, Typed, TypeOK
  <2> HIDE DEF l
  <2>4. Calls'
    BY <2>2 DEF Typed, TypeOK, Calls
  <2> QED BY <1>3, <2>1, <2>2, <2>3, <2>4 DEF DropProof, Typed, TypeOK
<1> QED BY <1>1, <1>2, <1>3

LEMMA BoundaryTyped ==
  ASSUME Typed, NEW e \in Engines, NEW s \in Sessions, Boundary(e, s)
  PROVE  Typed'
<1> DEFINE f == BoundaryFrontier(e)
           l == [Idle EXCEPT !.pc = "bndFin", !.tgt = s, !.from = eng[e].sess, !.f = f]
<1>1. f \in Nat
  BY DEF Typed, TypeOK, BoundaryFrontier, EngineType, LifeRow, Larger
<1>2. eng[e].sess \in SessionOrNull
  BY DEF Typed, TypeOK, EngineType
<1>3. l \in LocalType
  <2> HIDE DEF f
  <2> QED BY <1>1, <1>2, IdleType DEF LocalType, PCs, SessionOrNull
<1>4. /\ loc' = [loc EXCEPT ![e] = l]
      /\ l.pc = "bndFin" /\ l.tgt = s /\ l.tries = 0 /\ l.then = "idle"
  BY DEF Boundary, Idle
<1> HIDE DEF l
<1>5. s # NULL /\ 0 < CasAttempts
  BY NullAssumption, BoundsAssumption
<1>6. Calls'
  BY <1>4, <1>5 DEF Typed, TypeOK, Calls, Boundary
<1> QED BY <1>3, <1>4, <1>6 DEF Boundary, Typed, TypeOK

LEMMA BoundaryStepsTyped ==
  ASSUME Typed, NEW e \in Engines,
         BoundaryFinalize(e) \/ BoundaryMove(e) \/ BoundaryAdvance(e)
  PROVE  Typed'
<1>0. /\ eng[e] \in EngineType /\ loc[e] \in LocalType /\ life \in LifeRow
      /\ loc[e].from \in SessionOrNull /\ loc[e].tgt \in SessionOrNull
      /\ loc[e].f \in Nat
  BY DEF Typed, TypeOK, LocalType
<1>1. CASE BoundaryFinalize(e)
  <2>1. clock' \in Nat /\ life' \in LifeRow
    BY <1>0, <1>1, RowTypes DEF BoundaryFinalize, Typed, TypeOK
  <2>2. [loc[e] EXCEPT !.pc = "bndMove"] \in LocalType
    BY <1>0 DEF LocalType, PCs
  <2>3. /\ loc'[e].tgt = loc[e].tgt /\ loc'[e].then = loc[e].then
        /\ loc'[e].tries = loc[e].tries /\ loc'[e].pc = "bndMove"
        /\ \A o \in Engines : o # e => loc'[o] = loc[o]
        /\ eng' = eng
    BY <1>0, <1>1 DEF Typed, TypeOK, BoundaryFinalize, LocalType
  <2>4. Calls'
    BY <1>1, <2>3 DEF Typed, Calls, BoundaryFinalize, At
  <2> QED BY <1>1, <2>1, <2>2, <2>4 DEF BoundaryFinalize, Typed, TypeOK
<1>2. CASE BoundaryMove(e)
  <2>1. loc[e].tgt \in Sessions
    BY <1>0, <1>2 DEF Typed, Calls, BoundaryMove, At, SessionOrNull
  <2>2. nodes' \subseteq NodeType
    BY <1>2, <2>1, ReassignedType DEF BoundaryMove
  <2>3. [eng[e] EXCEPT !.sess = loc[e].tgt, !.hist = eng[e].hist \cup {loc[e].tgt}]
          \in EngineType
    BY <1>0, <2>1 DEF EngineType
  <2>4. [loc[e] EXCEPT !.pc = "bindRead", !.then = "bndAdvance", !.from = NULL]
          \in LocalType
    BY <1>0 DEF LocalType, PCs, Returns, SessionOrNull
  <2>5. /\ loc'[e].tgt = loc[e].tgt /\ loc'[e].then = "bndAdvance"
        /\ loc'[e].tries = loc[e].tries /\ loc'[e].pc = "bindRead"
        /\ \A o \in Engines : o # e => loc'[o] = loc[o] /\ eng'[o] = eng[o]
    BY <1>0, <1>2 DEF Typed, TypeOK, BoundaryMove, LocalType
  <2>6. Calls'
    BY <1>2, <2>5 DEF Typed, Calls, BoundaryMove, At
  <2> QED BY <1>2, <2>2, <2>3, <2>4, <2>6 DEF BoundaryMove, Typed, TypeOK
<1>3. CASE BoundaryAdvance(e)
  <2> DEFINE carried == IF eng[e].proofSt = "consumed"
                        THEN {i \in eng[e].proof : i > loc[e].f} ELSE {}
             front == IF loc[e].f > 0 /\ life.present THEN life'.frontier
                      ELSE eng[e].front
  <2>1. life' \in LifeRow
    BY <1>0, <1>3, RowTypes DEF BoundaryAdvance
  <2>2. carried \subseteq 1..MaxRows /\ front \in Nat
    BY <1>0, <2>1 DEF EngineType, LifeRow
  <2>3. [eng[e] EXCEPT !.front = front, !.proof = carried,
           !.proofSt = IF eng[e].proofSt = "consumed" THEN "consumed" ELSE "none",
           !.pend = NULL, !.pendF = 0] \in EngineType
    <3> HIDE DEF carried, front
    <3> QED BY <1>0, <2>2 DEF EngineType, SessionOrNull
  <2>4. eng' \in [Engines -> EngineType] /\ carry' \in [Sessions -> SUBSET (1..MaxRows)]
    BY <1>3, <2>2, <2>3 DEF BoundaryAdvance, Typed, TypeOK
  <2>5. Calls'
    BY <1>3 DEF Typed, TypeOK, Calls, BoundaryAdvance, Idle
  <2> QED BY <1>3, <2>1, <2>4, <2>5, IdleType DEF BoundaryAdvance, Typed, TypeOK
<1> QED BY <1>1, <1>2, <1>3

LEMMA InPlaceTyped ==
  ASSUME Typed, NEW e \in Engines, InPlaceBoundary(e) \/ InPlaceAdvance(e)
  PROVE  Typed'
<1>0. /\ eng[e] \in EngineType /\ loc[e] \in LocalType /\ life \in LifeRow
      /\ eng[e].sess \in SessionOrNull /\ eng[e].front \in Nat
      /\ loc[e].tgt \in SessionOrNull /\ loc[e].read \in LifeRow
  BY DEF Typed, TypeOK, LocalType, EngineType
<1>1. CASE InPlaceBoundary(e)
  <2>1. eng[e].sess \in Sessions
    BY <1>0, <1>1 DEF InPlaceBoundary, Bound, SessionOrNull
  <2>2. PICK l \in {BindCall(eng[e].sess, "idle"), BindCall(eng[e].sess, "inplace"),
                    [Idle EXCEPT !.pc = "inplace", !.tgt = eng[e].sess, !.read = life]} :
          loc' = [loc EXCEPT ![e] = l]
    BY <1>1 DEF InPlaceBoundary
  <2>3. l \in LocalType
    <3>1. [Idle EXCEPT !.pc = "inplace", !.tgt = eng[e].sess, !.read = life] \in LocalType
      BY <1>0, IdleType DEF LocalType, PCs
    <3> QED BY <1>0, <2>2, <3>1, BindCallType DEF Returns
  <2>4. eng' \in [Engines -> EngineType]
    BY <1>1, <2>1, SwitchedType DEF InPlaceBoundary, Typed, TypeOK
  <2>5. l.pc \in {"bindRead", "inplace"} /\ l.then # "carry" /\ l.tries = 0
    BY <2>2 DEF BindCall, Idle
  <2>6. 0 < CasAttempts
    BY BoundsAssumption
  <2>7. \A o \in Engines : o # e => eng'[o] = eng[o]
    BY <1>1 DEF InPlaceBoundary, Typed, TypeOK
  <2>8. Calls'
    BY <2>2, <2>5, <2>6, <2>7 DEF Typed, TypeOK, Calls
  <2> QED BY <1>1, <2>2, <2>3, <2>4, <2>8 DEF InPlaceBoundary, Typed, TypeOK
<1>2. CASE InPlaceAdvance(e)
  <2> DEFINE read == loc[e].read
             resumable == IF read.fin = loc[e].tgt /\ NotResetSince(read)
                          THEN read.finFrontier ELSE 0
             frontier == Larger(eng[e].front, Larger(read.frontier, resumable))
             front == IF frontier > read.frontier THEN life'.frontier ELSE read.frontier
  <2>1. frontier \in Nat
    BY <1>0 DEF LifeRow, Larger
  <2>2. life' \in LifeRow
    <3> HIDE DEF frontier
    <3>1. Advance(life, loc[e].tgt, frontier) \in LifeRow
      BY <1>0, <2>1, RowTypes
    <3> QED BY <1>0, <1>2, <3>1 DEF InPlaceAdvance, frontier
  <2>3. front \in Nat
    BY <1>0, <2>2 DEF LifeRow
  <2>4. [eng[e] EXCEPT !.pend = NULL, !.pendF = 0, !.front = front] \in EngineType
    <3> HIDE DEF front
    <3> QED BY <1>0, <2>3 DEF EngineType, SessionOrNull
  <2>5. eng' \in [Engines -> EngineType]
    BY <1>2, <2>4 DEF InPlaceAdvance, Typed, TypeOK
  <2>6. Calls'
    BY <1>2 DEF Typed, TypeOK, Calls, InPlaceAdvance, Idle
  <2> QED BY <1>2, <2>2, <2>5, <2>6, IdleType DEF InPlaceAdvance, Typed, TypeOK
<1> QED BY <1>1, <1>2

LEMMA OperatorTyped ==
  ASSUME Typed,
         PruneEmpty \/ (\E e \in Engines : \E first \in 1..MaxRows : Rotate(e, first))
  PROVE  Typed'
<1>1. CASE PruneEmpty
  BY <1>1, IdleType DEF PruneEmpty, Typed, TypeOK, Calls, Idle, LocalType
<1>2. ASSUME NEW e \in Engines, NEW first \in 1..MaxRows, Rotate(e, first)
      PROVE  Typed'
  <2>1. eng[e].sess \in SessionOrNull /\ first - 1 \in Nat /\ life \in LifeRow
    BY DEF Typed, TypeOK, EngineType
  <2>2. life' \in LifeRow
    BY <1>2, <2>1, RowTypes DEF Rotate
  <2> QED BY <1>2, <2>2 DEF Rotate, Typed, TypeOK, Calls
<1> QED BY <1>1, <1>2

LEMMA TypedStep == Typed /\ [Next]_vars => Typed'
<1> SUFFICES ASSUME Typed, [Next]_vars PROVE Typed'
  OBVIOUS
<1>1. CASE UNCHANGED vars
  BY <1>1 DEF vars, Typed, TypeOK, Calls
<1>2. CASE Next
  BY <1>2, IngestTyped, AppendSuffixTyped, StartTyped, StartAfterResetTyped, FinalizePendingResetTyped,
     BindTyped, CarryOverTyped, CompressTyped, PublishTyped, EndTyped,
     EndOffCurrentTyped, ResetTyped, BoundaryTyped, BoundaryStepsTyped,
     InPlaceTyped, OperatorTyped DEF Next
<1> QED BY <1>1, <1>2

\* Type correctness for every number of engines, sessions and rows: no chain
\* of binds, compactions, boundaries and resets leaves a state the code's own
\* fields could not hold (bind_session, _continue_compression_boundary).
THEOREM TypeCorrect == Spec => []TypeOK
<1>1. Typed => TypeOK
  BY DEF Typed
<1> QED BY <1>1, InitTyped, TypedStep, PTL DEF Spec

-----------------------------------------------------------------------------
(* No row is claimed by two leaves of one session                          *)

LEMMA InitIInv == Init => IInv
<1> SUFFICES ASSUME Init PROVE IInv
  OBVIOUS
<1>1. Started /\ (\A e \in Engines : Opening(e)) /\ NoDoubleClaim
  BY DEF Init, Started, Opening, NoDoubleClaim, Unbound, Idle
<1> QED BY <1>1, InitTyped DEF IInv

\* The session a call is opening is a session, not NULL.
LEMMA OpeningTarget ==
  ASSUME IInv, NEW e \in Engines, loc[e].from # NULL
  PROVE  loc[e].tgt # NULL
BY DEF IInv, Typed, Calls, Opening, At

\* A session of an engine's history, or its own target, is not one another
\* call is opening.
LEMMA NotBeingOpened ==
  ASSUME IInv, NEW e \in Engines, NEW o \in Engines, o # e, loc[o].from # NULL,
         NEW s \in {NULL, loc[e].tgt, eng[e].sess} \cup eng[e].hist
  PROVE  s # loc[o].tgt
BY OpeningTarget DEF IInv, Started, Opening

\* What a step of engine e must respect so that every call keeps the session
\* it is opening to itself.
LEMMA Frame ==
  ASSUME IInv, NEW e \in Engines,
         \A o \in Engines : o # e => loc'[o] = loc[o] /\ eng'[o] = eng[o],
         eng[e].hist \subseteq eng'[e].hist,
         eng'[e].sess # NULL => eng'[e].sess \in eng'[e].hist,
         \A n \in nodes' : (\E m \in nodes : m.sess = n.sess) \/ n.sess \in eng'[e].hist,
         \A o \in Engines : o # e /\ loc[o].from # NULL =>
           /\ loc'[e].tgt # loc[o].tgt /\ loc[o].tgt \notin eng'[e].hist
           /\ \A n \in nodes' : n.sess # loc[o].tgt,
         Opening(e)'
  PROVE  Started' /\ \A o \in Engines : Opening(o)'
<1>1. Started'
  <2>1. \A o \in Engines : eng'[o].sess # NULL => eng'[o].sess \in eng'[o].hist
    BY DEF IInv, Started
  <2>2. \A n \in nodes' : \E o \in Engines : n.sess \in eng'[o].hist
    <3> TAKE n \in nodes'
    <3>1. CASE n.sess \in eng'[e].hist
      BY <3>1
    <3>2. CASE \E m \in nodes : m.sess = n.sess
      <4>1. PICK o \in Engines : n.sess \in eng[o].hist
        BY <3>2 DEF IInv, Started
      <4> QED BY <4>1
    <3> QED BY <3>1, <3>2
  <2> QED BY <2>1, <2>2 DEF Started
<1>2. ASSUME NEW o \in Engines PROVE Opening(o)'
  <2>1. CASE o = e
    BY <2>1
  <2>2. CASE o # e
    <3>1. Opening(o)
      BY DEF IInv
    <3> QED BY <2>2, <3>1 DEF Opening, At
  <2> QED BY <2>1, <2>2
<1> QED BY <1>1, <1>2

\* A step that starts no session, adds no node and opens no session.
LEMMA Quiet ==
  ASSUME IInv, NEW e \in Engines,
         \A o \in Engines : o # e => loc'[o] = loc[o] /\ eng'[o] = eng[o],
         eng'[e].hist = eng[e].hist, eng'[e].sess = eng[e].sess,
         nodes' \subseteq nodes,
         loc'[e].tgt \in {NULL, loc[e].tgt, eng[e].sess} \cup eng[e].hist,
         loc'[e].from # NULL =>
           /\ loc'[e].from = loc[e].from /\ loc'[e].tgt = loc[e].tgt
           /\ \/ /\ loc[e].pc = "bndFin"
                 /\ loc'[e].pc = "bndMove"
              \/ /\ loc'[e].then = loc[e].then /\ loc[e].pc \notin {"bndFin", "bndMove", "pendFin"}
                 /\ loc'[e].pc \in {"bindRead", "bindWrite", "bindDone", "bindTxn", "carry"}
  PROVE  Started' /\ (\A o \in Engines : Opening(o)') /\ NoDoubleClaim'
<1>1. NoDoubleClaim'
  BY DEF IInv, NoDoubleClaim
<1>2. \A o \in Engines : o # e /\ loc[o].from # NULL =>
           /\ loc'[e].tgt # loc[o].tgt /\ loc[o].tgt \notin eng'[e].hist
           /\ \A n \in nodes' : n.sess # loc[o].tgt
  <2> TAKE o \in Engines
  <2> HAVE o # e /\ loc[o].from # NULL
  <2>1. loc'[e].tgt # loc[o].tgt
    BY NotBeingOpened
  <2>2. loc[o].tgt \notin eng'[e].hist
    BY NotBeingOpened
  <2>3. \A n \in nodes' : n.sess # loc[o].tgt
    BY DEF IInv, Opening
  <2> QED BY <2>1, <2>2, <2>3
<1>3. Opening(e)'
  <2>1. CASE loc'[e].from = NULL
    BY <2>1 DEF Opening
  <2>2. CASE loc'[e].from # NULL
    <3>1. Opening(e) /\ loc[e].from # NULL
      BY <2>2 DEF IInv
    <3> QED BY <2>2, <3>1 DEF Opening, At
  <2> QED BY <2>1, <2>2
<1>4. eng'[e].sess # NULL => eng'[e].sess \in eng'[e].hist
  BY DEF IInv, Started
<1> QED BY <1>1, <1>2, <1>3, <1>4, Frame

LEMMA QuietSteps ==
  ASSUME IInv, NEW e \in Engines,
         \/ \E ign \in BOOLEAN : Ingest(e, ign)
         \/ \E s \in Sessions :
              EndOffCurrent(e, s) \/ \E ign \in BOOLEAN : AppendSuffix(e, s, ign)
         \/ Compress(e) \/ SelectLeaf(e) \/ NoLeaf(e) \/ ReadExpected(e)
         \/ ReadCarried(e)
         \/ PublicationFails(e) \/ End(e) \/ EndLocked(e) \/ FinalizeOffCurrent(e)
         \/ Reset(e) \/ DropProof(e) \/ DeleteBatch(e) \/ BoundaryFinalize(e)
         \/ BoundaryAdvance(e) \/ InPlaceAdvance(e)
  PROVE  Started' /\ (\A o \in Engines : Opening(o)') /\ NoDoubleClaim'
<1>0. /\ eng \in [Engines -> EngineType] /\ loc \in [Engines -> LocalType]
      /\ eng[e] \in EngineType /\ loc[e] \in LocalType
  BY DEF IInv, Typed, TypeOK
<1> DEFINE Others == \A o \in Engines : o # e => loc'[o] = loc[o] /\ eng'[o] = eng[o]
           SameHome == eng'[e].hist = eng[e].hist /\ eng'[e].sess = eng[e].sess
           Closed == loc'[e].from = NULL
                     /\ loc'[e].tgt \in {NULL, loc[e].tgt, eng[e].sess} \cup eng[e].hist
<1>1. ASSUME NEW ign \in BOOLEAN, Ingest(e, ign)
      PROVE  Others /\ SameHome /\ nodes' \subseteq nodes /\ Closed
  <2>1. loc[e].from = NULL
    BY <1>1 DEF IInv, Opening, Ingest, At
  <2> QED BY <1>0, <1>1, <2>1 DEF Ingest, EngineType
<1>2. ASSUME NEW s \in Sessions,
             EndOffCurrent(e, s) \/ \E ign \in BOOLEAN : AppendSuffix(e, s, ign)
      PROVE  Others /\ SameHome /\ nodes' \subseteq nodes /\ Closed
  <2>1. Others /\ eng' = eng /\ nodes' = nodes
        /\ loc'[e].from = NULL /\ loc'[e].tgt = s
    BY <1>0, <1>2 DEF EndOffCurrent, AppendSuffix, Idle
  <2>2. s \in eng[e].hist \/ s = loc[e].tgt
    BY <1>2 DEF EndOffCurrent, AppendSuffix, Left
  <2> QED BY <2>1, <2>2
<1>3. CASE Compress(e)
  <2>1. Others /\ nodes' \subseteq nodes /\ Closed
    BY <1>0, <1>3 DEF Compress, Idle
  <2>2. SameHome
    BY <1>0, <1>3 DEF Compress, EngineType
  <2> QED BY <2>1, <2>2, Quiet
<1>4. CASE SelectLeaf(e)
  <2>1. Others /\ SameHome /\ nodes' \subseteq nodes /\ Closed
    BY <1>0, <1>4 DEF SelectLeaf, Idle
  <2> QED BY <2>1, Quiet
<1>5. CASE NoLeaf(e) \/ PublicationFails(e) \/ FinalizeOffCurrent(e)
  <2>1. Others /\ SameHome /\ nodes' \subseteq nodes /\ Closed
    BY <1>0, <1>5 DEF NoLeaf, PublicationFails, FinalizeOffCurrent, Idle
  <2> QED BY <2>1, Quiet
<1>6. CASE ReadExpected(e) \/ ReadCarried(e)
  <2>1. loc[e].from = NULL
    BY <1>6 DEF IInv, Opening, ReadExpected, ReadCarried, At
  <2>2. Others /\ SameHome /\ nodes' \subseteq nodes /\ Closed
    BY <1>0, <1>6, <2>1 DEF ReadExpected, ReadCarried, LocalType
  <2> QED BY <2>2, Quiet
<1>7. CASE End(e) \/ EndLocked(e)
  <2>1. loc[e].from = NULL
    BY <1>7 DEF IInv, Opening, End, EndLocked, At
  <2>2. Others /\ nodes' \subseteq nodes /\ Closed
    BY <1>0, <1>7, <2>1 DEF End, EndLocked
  <2>3. SameHome
    <3>1. \/ eng'[e] = [eng[e] EXCEPT !.proofSt = "consumed"]
          \/ eng'[e] = [eng[e] EXCEPT !.proofSt = "none", !.proof = {}]
      BY <1>0, <1>7 DEF End, EndLocked
    <3> QED BY <1>0, <3>1 DEF EngineType
  <2> QED BY <2>2, <2>3, Quiet
<1>8. CASE Reset(e)
  <2>1. loc[e].from = NULL
    BY <1>8 DEF IInv, Opening, Reset, At
  <2>2. Others /\ SameHome /\ nodes' \subseteq nodes /\ Closed
    BY <1>0, <1>8, <2>1 DEF Reset, EngineType, LocalType
  <2> QED BY <2>2, Quiet
<1>9. CASE DeleteBatch(e)
  <2>1. loc[e].from = NULL
    BY <1>9 DEF IInv, Opening, DeleteBatch, At
  <2>2. nodes' \subseteq nodes /\ (loc' = [loc EXCEPT ![e] = Idle] \/ loc' = loc) /\ eng' = eng
    BY <1>9 DEF DeleteBatch
  <2>3. Others /\ SameHome /\ Closed
    BY <1>0, <2>1, <2>2 DEF Idle
  <2> QED BY <2>2, <2>3, Quiet
<1>10. CASE BoundaryFinalize(e)
  <2>1. Others /\ SameHome /\ nodes' \subseteq nodes
    BY <1>0, <1>10 DEF BoundaryFinalize
  <2>2. /\ loc'[e].from = loc[e].from /\ loc'[e].tgt = loc[e].tgt
        /\ loc[e].pc = "bndFin" /\ loc'[e].pc = "bndMove"
    BY <1>0, <1>10 DEF BoundaryFinalize, At, LocalType
  <2> QED BY <2>1, <2>2, Quiet
<1>11. CASE BoundaryAdvance(e)
  <2>1. Others /\ nodes' \subseteq nodes /\ Closed
    BY <1>0, <1>11 DEF BoundaryAdvance, Idle
  <2>2. SameHome
    BY <1>0, <1>11 DEF BoundaryAdvance, EngineType
  <2> QED BY <2>1, <2>2, Quiet
<1>13. CASE DropProof(e)
  <2>1. loc[e].from = NULL
    BY <1>13 DEF IInv, Opening, DropProof, At
  <2>2. Others /\ SameHome /\ nodes' \subseteq nodes /\ Closed
    BY <1>0, <1>13, <2>1 DEF DropProof, LocalType
  <2> QED BY <2>2, Quiet
<1>12. CASE InPlaceAdvance(e)
  <2>1. Others /\ nodes' \subseteq nodes /\ Closed
    BY <1>0, <1>12 DEF InPlaceAdvance, Idle
  <2>2. SameHome
    BY <1>0, <1>12 DEF InPlaceAdvance, EngineType
  <2> QED BY <2>1, <2>2, Quiet
<1> QED
  BY <1>1, <1>2, <1>3, <1>4, <1>5, <1>6, <1>7, <1>8, <1>9, <1>10,
     <1>11, <1>12, <1>13, Quiet

LEMMA BindSteps ==
  ASSUME IInv, NEW e \in Engines,
         \/ BindRead(e) \/ BindSwap(e) \/ BindLost(e) \/ BindDone(e)
         \/ BindInTransaction(e)
  PROVE  Started' /\ (\A o \in Engines : Opening(o)') /\ NoDoubleClaim'
<1>0. /\ eng \in [Engines -> EngineType] /\ loc \in [Engines -> LocalType]
      /\ eng[e] \in EngineType /\ loc[e] \in LocalType
  BY DEF IInv, Typed, TypeOK
<1>1. ASSUME NEW row, BindReturns(e, row)
      PROVE  /\ \A o \in Engines : o # e => loc'[o] = loc[o] /\ eng'[o] = eng[o]
             /\ eng'[e].hist = eng[e].hist /\ eng'[e].sess = eng[e].sess
             /\ loc'[e].tgt \in {NULL, loc[e].tgt}
             /\ loc'[e].from # NULL =>
                  /\ loc'[e].from = loc[e].from /\ loc'[e].tgt = loc[e].tgt
                  /\ loc'[e].then = loc[e].then /\ loc'[e].pc = loc[e].then
  <2>1. CASE loc[e].then = "idle"
    BY <1>0, <1>1, <2>1 DEF BindReturns, Idle, EngineType
  <2>2. CASE loc[e].then # "idle"
    <3>1. loc'[e] = [loc[e] EXCEPT !.pc = loc[e].then, !.read = row, !.tries = 0]
      BY <1>0, <1>1, <2>2 DEF BindReturns
    <3>2. /\ loc'[e].pc = loc[e].then /\ loc'[e].then = loc[e].then
          /\ loc'[e].tgt = loc[e].tgt /\ loc'[e].from = loc[e].from
      BY <1>0, <3>1 DEF LocalType
    <3>3. eng'[e] = eng[e] \/ eng'[e] = [eng[e] EXCEPT !.front = row.frontier]
      BY <1>0, <1>1 DEF BindReturns
    <3>4. eng'[e].hist = eng[e].hist /\ eng'[e].sess = eng[e].sess
      BY <1>0, <3>3 DEF EngineType
    <3>5. \A o \in Engines : o # e => loc'[o] = loc[o] /\ eng'[o] = eng[o]
      BY <1>0, <1>1 DEF BindReturns
    <3> QED BY <3>2, <3>4, <3>5
  <2> QED BY <2>1, <2>2
<1>2. /\ nodes' = nodes
      /\ loc[e].pc \notin {"bndFin", "bndMove", "pendFin"}
      /\ loc[e].from # NULL => loc[e].then = "carry"
  BY DEF BindRead, BindSwap, BindLost, BindDone, BindInTransaction, IInv, Opening, At
<1>3. CASE BindDone(e) \/ BindInTransaction(e)
  <2>1. CASE BindDone(e) /\ ~life.present
    <3>1. loc' = [loc EXCEPT ![e] = Idle] /\ eng' = eng
      BY <2>1 DEF BindDone
    <3>2. loc'[e].from = NULL /\ loc'[e].tgt = NULL
      BY <1>0, <3>1 DEF Idle
    <3> QED BY <1>0, <1>2, <3>1, <3>2, Quiet
  <2>2. CASE ~(BindDone(e) /\ ~life.present)
    <3>1. PICK row : BindReturns(e, row)
      BY <1>3, <2>2 DEF BindDone, BindInTransaction
    <3> QED BY <1>1, <1>2, <3>1, Quiet
  <2> QED BY <2>1, <2>2
<1>4. CASE BindRead(e) /\ life.present /\ life.cur = loc[e].tgt
  <2>1. BindReturns(e, life)
    BY <1>4 DEF BindRead
  <2> QED BY <1>1, <1>2, <2>1, Quiet
<1>5. ASSUME NEW l, loc' = [loc EXCEPT ![e] = l], eng' = eng,
             l.tgt = loc[e].tgt, l.from = loc[e].from, l.then = loc[e].then,
             l.pc \in {"bindRead", "bindWrite", "bindDone", "bindTxn"}
      PROVE  Started' /\ (\A o \in Engines : Opening(o)') /\ NoDoubleClaim'
  BY <1>0, <1>2, <1>5, Quiet
<1>6. CASE BindRead(e) /\ ~(life.present /\ life.cur = loc[e].tgt)
  <2> DEFINE l == [loc[e] EXCEPT !.pc = "bindWrite", !.read = life]
  <2>1. l.tgt = loc[e].tgt /\ l.from = loc[e].from /\ l.then = loc[e].then /\ l.pc = "bindWrite"
    BY <1>0 DEF LocalType
  <2>2. loc' = [loc EXCEPT ![e] = l] /\ eng' = eng
    BY <1>6 DEF BindRead
  <2> QED BY <1>5, <2>1, <2>2
<1>7. CASE BindSwap(e)
  <2> DEFINE l == [loc[e] EXCEPT !.pc = "bindDone", !.read = NoRow]
  <2>1. l.tgt = loc[e].tgt /\ l.from = loc[e].from /\ l.then = loc[e].then /\ l.pc = "bindDone"
    BY <1>0 DEF LocalType
  <2>2. loc' = [loc EXCEPT ![e] = l] /\ eng' = eng
    BY <1>7 DEF BindSwap
  <2> QED BY <1>5, <2>1, <2>2
<1>8. CASE BindLost(e)
  <2> DEFINE l == [loc[e] EXCEPT !.tries = loc[e].tries + 1, !.read = NoRow,
                     !.pc = IF loc[e].tries + 1 = CasAttempts THEN "bindTxn"
                            ELSE "bindRead"]
  <2>1. /\ l.tgt = loc[e].tgt /\ l.from = loc[e].from /\ l.then = loc[e].then
        /\ l.pc \in {"bindTxn", "bindRead"}
    BY <1>0 DEF LocalType
  <2>2. loc' = [loc EXCEPT ![e] = l] /\ eng' = eng
    BY <1>8 DEF BindLost
  <2> QED BY <1>5, <2>1, <2>2
<1> QED BY <1>3, <1>4, <1>6, <1>7, <1>8

\* A session an engine may start is not one another call is opening.
LEMMA StartableNotBeingOpened ==
  ASSUME IInv, NEW e \in Engines, NEW s \in Sessions, Startable(e, s),
         NEW o \in Engines, o # e, loc[o].from # NULL
  PROVE  s # loc[o].tgt
BY NotBeingOpened DEF Startable, Fresh

\* No node and no other engine knows a session the host has never used.
LEMMA FreshUnknown ==
  ASSUME IInv, NEW s \in Sessions, Fresh(s)
  PROVE  /\ \A n \in nodes : n.sess # s
         /\ \A e \in Engines : eng[e].sess # s /\ loc[e].tgt # s /\ s \notin eng[e].hist
BY NullAssumption DEF IInv, Started, Fresh

LEMMA SwitchedHome ==
  ASSUME IInv, NEW e \in Engines, NEW s \in Sessions
  PROVE  Switched(e, s).sess = s /\ Switched(e, s).hist = eng[e].hist \cup {s}
BY DEF IInv, Typed, TypeOK, EngineType, Switched

LEMMA StartStep ==
  ASSUME IInv, NEW e \in Engines, NEW s \in Sessions, Start(e, s)
  PROVE  Started' /\ (\A o \in Engines : Opening(o)') /\ NoDoubleClaim'
<1>0. eng \in [Engines -> EngineType] /\ loc \in [Engines -> LocalType]
  BY DEF IInv, Typed, TypeOK
<1>1. /\ \A o \in Engines : o # e => loc'[o] = loc[o] /\ eng'[o] = eng[o]
      /\ eng'[e].sess = s /\ eng'[e].hist = eng[e].hist \cup {s}
      /\ nodes' = nodes
      /\ loc'[e].from = NULL /\ loc'[e].tgt = s
  BY <1>0, SwitchedHome DEF Start, BindCall, Idle
<1>2. \A o \in Engines : o # e /\ loc[o].from # NULL =>
        /\ loc'[e].tgt # loc[o].tgt /\ loc[o].tgt \notin eng'[e].hist
        /\ \A n \in nodes' : n.sess # loc[o].tgt
  <2> TAKE o \in Engines
  <2> HAVE o # e /\ loc[o].from # NULL
  <2>1. s # loc[o].tgt
    BY StartableNotBeingOpened DEF Start
  <2>2. loc[o].tgt \notin eng[e].hist
    BY NotBeingOpened
  <2>3. \A n \in nodes : n.sess # loc[o].tgt
    BY DEF IInv, Opening
  <2> QED BY <1>1, <2>1, <2>2, <2>3
<1>3. Opening(e)'
  BY <1>1 DEF Opening
<1>4. NoDoubleClaim'
  BY <1>1 DEF IInv, NoDoubleClaim
<1> QED BY <1>1, <1>2, <1>3, <1>4, Frame

\* The steps that open a fresh session for nodes to move to, or (a start after
\* a reset without rollover) only target one.
LEMMA OpenSteps ==
  ASSUME IInv, NEW e \in Engines, NEW s \in Sessions,
         \/ Boundary(e, s)
         \/ \E then \in {"idle", "carry"} : StartAfterReset(e, s, then)
  PROVE  Started' /\ (\A o \in Engines : Opening(o)') /\ NoDoubleClaim'
<1>0. eng \in [Engines -> EngineType] /\ loc \in [Engines -> LocalType]
  BY DEF IInv, Typed, TypeOK
<1>1. /\ \A o \in Engines : o # e => loc'[o] = loc[o]
      /\ eng' = eng /\ nodes' = nodes /\ loc'[e].tgt = s
      /\ loc'[e].from # NULL =>
           /\ loc'[e].from = eng[e].sess /\ Fresh(s)
           /\ \/ loc'[e].pc = "bndFin"
              \/ loc'[e].pc = "pendFin" /\ loc'[e].then = "carry"
  <2>1. CASE Boundary(e, s)
    BY <1>0, <2>1 DEF Boundary, Idle
  <2>2. ASSUME NEW then \in {"idle", "carry"}, StartAfterReset(e, s, then)
        PROVE  /\ \A o \in Engines : o # e => loc'[o] = loc[o]
               /\ eng' = eng /\ nodes' = nodes /\ loc'[e].tgt = s
               /\ loc'[e].from = IF then = "carry" THEN eng[e].sess ELSE NULL
               /\ loc'[e].pc = "pendFin" /\ loc'[e].then = then
               /\ then = "carry" => Fresh(s)
    BY <1>0, <2>2 DEF StartAfterReset, Idle
  <2> QED BY <2>1, <2>2
<1>2. Startable(e, s)
  BY DEF Boundary, StartAfterReset, Startable
<1>3. \A o \in Engines : o # e /\ loc[o].from # NULL =>
        /\ loc'[e].tgt # loc[o].tgt /\ loc[o].tgt \notin eng'[e].hist
        /\ \A n \in nodes' : n.sess # loc[o].tgt
  <2> TAKE o \in Engines
  <2> HAVE o # e /\ loc[o].from # NULL
  <2>1. s # loc[o].tgt
    BY <1>2, StartableNotBeingOpened
  <2>2. loc[o].tgt \notin eng[e].hist
    BY NotBeingOpened
  <2>3. \A n \in nodes : n.sess # loc[o].tgt
    BY DEF IInv, Opening
  <2> QED BY <1>1, <2>1, <2>2, <2>3
<1>4. Opening(e)'
  <2>1. CASE loc'[e].from = NULL
    BY <2>1 DEF Opening
  <2>2. CASE loc'[e].from # NULL
    BY <1>1, <2>2, FreshUnknown DEF Opening, At
  <2> QED BY <2>1, <2>2
<1>5. NoDoubleClaim' /\ (eng'[e].sess # NULL => eng'[e].sess \in eng'[e].hist)
  BY <1>1 DEF IInv, NoDoubleClaim, Started
<1> QED BY <1>1, <1>3, <1>4, <1>5, Frame

\* Moving nodes to a session nothing else names keeps their sources apart.
LEMMA MoveKeepsClaims ==
  ASSUME IInv, NEW e \in Engines
  PROVE  LET moved == Reassigned(loc[e].from, loc[e].tgt)
         IN  /\ \A m, n \in moved : m.sess = n.sess /\ m # n => m.src \cap n.src = {}
             /\ \A n \in moved : (\E m \in nodes : m.sess = n.sess) \/ n.sess = loc[e].tgt
<1>0. nodes \subseteq NodeType
  BY DEF IInv, Typed, TypeOK
<1>1. CASE loc[e].from = NULL
  <2>1. \A n \in nodes : n.sess # loc[e].from
    BY <1>0, <1>1, NullAssumption DEF NodeType
  <2>2. Reassigned(loc[e].from, loc[e].tgt) = nodes
    BY <2>1 DEF Reassigned
  <2> QED BY <2>2 DEF IInv, NoDoubleClaim
<1>2. CASE loc[e].from # NULL
  <2> DEFINE from == loc[e].from
             to == loc[e].tgt
             Moved(n) == IF n.sess = from THEN [n EXCEPT !.sess = to] ELSE n
  <2>1. from # to /\ \A n \in nodes : n.sess # to
    BY <1>2 DEF IInv, Opening
  <2>2. \A n \in nodes : /\ Moved(n).src = n.src
                         /\ Moved(n).sess = IF n.sess = from THEN to ELSE n.sess
    BY <1>0 DEF NodeType
  <2>3. Reassigned(from, to) = {Moved(n) : n \in nodes}
    BY DEF Reassigned
  <2> HIDE DEF from, to, Moved
  <2>4. ASSUME NEW m \in nodes, NEW n \in nodes,
               Moved(m).sess = Moved(n).sess, Moved(m) # Moved(n)
        PROVE  Moved(m).src \cap Moved(n).src = {}
    <3>1. m.sess = n.sess /\ m # n
      BY <2>1, <2>2, <2>4
    <3> QED BY <2>2, <3>1 DEF IInv, NoDoubleClaim
  <2>5. \A n \in nodes : (\E m \in nodes : m.sess = Moved(n).sess) \/ Moved(n).sess = to
    BY <2>2
  <2> QED BY <2>3, <2>4, <2>5 DEF from, to
<1> QED BY <1>1, <1>2

LEMMA FinalizePendingResetStep ==
  ASSUME IInv, NEW e \in Engines, FinalizePendingReset(e)
  PROVE  Started' /\ (\A o \in Engines : Opening(o)') /\ NoDoubleClaim'
<1>0. /\ eng \in [Engines -> EngineType] /\ loc \in [Engines -> LocalType]
      /\ loc[e] \in LocalType
  BY DEF IInv, Typed, TypeOK
<1>1. loc[e].pc = "pendFin" /\ loc[e].tgt \in Sessions
  BY <1>0 DEF IInv, Typed, Calls, FinalizePendingReset, At, LocalType, SessionOrNull
<1>2. /\ loc'[e].tgt = loc[e].tgt /\ loc'[e].from = loc[e].from
      /\ loc'[e].then = loc[e].then /\ loc'[e].pc = "bindRead"
  BY <1>0 DEF FinalizePendingReset, LocalType
<1>3. /\ \A o \in Engines : o # e => loc'[o] = loc[o] /\ eng'[o] = eng[o]
      /\ eng'[e].sess = loc[e].tgt /\ eng'[e].hist = eng[e].hist \cup {loc[e].tgt}
      /\ nodes' = nodes
  BY <1>0, <1>1, SwitchedHome DEF FinalizePendingReset
<1>4. \A o \in Engines : o # e /\ loc[o].from # NULL =>
        /\ loc'[e].tgt # loc[o].tgt /\ loc[o].tgt \notin eng'[e].hist
        /\ \A n \in nodes' : n.sess # loc[o].tgt
  BY <1>2, <1>3, NotBeingOpened DEF IInv, Opening
<1>5. Opening(e)'
  <2>1. Opening(e)
    BY DEF IInv
  <2> QED BY <1>1, <1>2, <1>3, <2>1 DEF Opening, At
<1>6. NoDoubleClaim'
  BY <1>3 DEF IInv, NoDoubleClaim
<1> QED BY <1>3, <1>4, <1>5, <1>6, Frame

LEMMA MoveSteps ==
  ASSUME IInv, NEW e \in Engines, CarryOver(e) \/ BoundaryMove(e)
  PROVE  Started' /\ (\A o \in Engines : Opening(o)') /\ NoDoubleClaim'
<1>0. /\ eng \in [Engines -> EngineType] /\ loc \in [Engines -> LocalType]
      /\ loc[e] \in LocalType /\ eng[e] \in EngineType /\ nodes \subseteq NodeType
  BY DEF IInv, Typed, TypeOK
<1>1. nodes' = Reassigned(loc[e].from, loc[e].tgt)
  BY DEF CarryOver, BoundaryMove
<1>2. NoDoubleClaim'
  BY <1>1, MoveKeepsClaims DEF NoDoubleClaim
<1>3. /\ \A o \in Engines : o # e => loc'[o] = loc[o] /\ eng'[o] = eng[o]
      /\ loc'[e].from = NULL /\ loc'[e].tgt \in {NULL, loc[e].tgt}
  <2>1. CASE CarryOver(e)
    BY <1>0, <2>1 DEF CarryOver, Idle
  <2>2. CASE BoundaryMove(e)
    BY <1>0, <2>2 DEF BoundaryMove, LocalType
  <2> QED BY <2>1, <2>2
<1>4. /\ eng[e].hist \subseteq eng'[e].hist
      /\ eng'[e].hist \subseteq eng[e].hist \cup {loc[e].tgt}
      /\ eng'[e].sess # NULL => eng'[e].sess \in eng'[e].hist
      /\ loc[e].from # NULL => loc[e].tgt \in eng'[e].hist
  <2>1. CASE CarryOver(e)
    <3>1. eng' = eng /\ loc[e].pc = "carry"
      BY <2>1 DEF CarryOver, At
    <3> QED BY <3>1 DEF IInv, Started, Opening
  <2>2. CASE BoundaryMove(e)
    BY <1>0, <2>2 DEF BoundaryMove, EngineType
  <2> QED BY <2>1, <2>2
<1>5. \A n \in nodes' : (\E m \in nodes : m.sess = n.sess) \/ n.sess \in eng'[e].hist
  <2>1. CASE loc[e].from = NULL
    <3>1. \A n \in nodes : n.sess # loc[e].from
      BY <1>0, <2>1, NullAssumption DEF NodeType
    <3> QED BY <1>1, <3>1 DEF Reassigned
  <2>2. CASE loc[e].from # NULL
    BY <1>1, <1>4, <2>2, MoveKeepsClaims
  <2> QED BY <2>1, <2>2
<1>6. \A o \in Engines : o # e /\ loc[o].from # NULL =>
        /\ loc'[e].tgt # loc[o].tgt /\ loc[o].tgt \notin eng'[e].hist
        /\ \A n \in nodes' : n.sess # loc[o].tgt
  <2> TAKE o \in Engines
  <2> HAVE o # e /\ loc[o].from # NULL
  <2>1. /\ NULL # loc[o].tgt /\ loc[e].tgt # loc[o].tgt
        /\ loc[o].tgt \notin eng[e].hist
    BY NotBeingOpened
  <2>2. \A n \in nodes : n.sess # loc[o].tgt
    BY DEF IInv, Opening
  <2>3. \A n \in nodes' : n.sess # loc[o].tgt
    BY <1>1, <2>1, <2>2, MoveKeepsClaims
  <2> QED BY <1>3, <1>4, <2>1, <2>3
<1>7. Opening(e)'
  BY <1>3 DEF Opening
<1> QED BY <1>2, <1>3, <1>4, <1>5, <1>6, <1>7, Frame

LEMMA PublishStep ==
  ASSUME IInv, NEW e \in Engines, Publish(e)
  PROVE  Started' /\ (\A o \in Engines : Opening(o)') /\ NoDoubleClaim'
<1>0. /\ eng \in [Engines -> EngineType] /\ loc \in [Engines -> LocalType]
      /\ eng[e] \in EngineType
  BY DEF IInv, Typed, TypeOK
<1> DEFINE new == [sess |-> eng[e].sess, src |-> loc[e].cov]
<1>1. nodes' = nodes \cup {new} /\ loc' = [loc EXCEPT ![e] = Idle]
  BY DEF Publish
<1>2. \A n \in nodes : n.sess = new.sess => n.src \cap new.src = {}
  BY DEF Publish, Publishable, LineageUnclaimed, ClaimedIn
<1>3. NoDoubleClaim'
  BY <1>1, <1>2 DEF IInv, NoDoubleClaim
<1>4. eng[e].sess # NULL /\ eng[e].sess \in eng[e].hist
  BY DEF IInv, Typed, Calls, Started, Publish, At
<1>5. eng'[e].hist = eng[e].hist /\ eng'[e].sess = eng[e].sess
  BY <1>0 DEF Publish, EngineType
<1>6. /\ \A o \in Engines : o # e => loc'[o] = loc[o] /\ eng'[o] = eng[o]
      /\ loc'[e].from = NULL /\ loc'[e].tgt = NULL
  BY <1>0 DEF Publish, Idle
<1>7. \A o \in Engines : o # e /\ loc[o].from # NULL =>
        /\ loc'[e].tgt # loc[o].tgt /\ loc[o].tgt \notin eng'[e].hist
        /\ \A n \in nodes' : n.sess # loc[o].tgt
  <2> TAKE o \in Engines
  <2> HAVE o # e /\ loc[o].from # NULL
  <2>1. /\ NULL # loc[o].tgt /\ eng[e].sess # loc[o].tgt
        /\ loc[o].tgt \notin eng[e].hist
    BY NotBeingOpened
  <2>2. \A n \in nodes : n.sess # loc[o].tgt
    BY DEF IInv, Opening
  <2> QED BY <1>1, <1>5, <1>6, <2>1, <2>2
<1>8. Opening(e)'
  BY <1>6 DEF Opening
<1> QED BY <1>1, <1>3, <1>4, <1>5, <1>6, <1>7, <1>8, Frame

LEMMA InPlaceStep ==
  ASSUME IInv, NEW e \in Engines, InPlaceBoundary(e)
  PROVE  Started' /\ (\A o \in Engines : Opening(o)') /\ NoDoubleClaim'
<1>0. /\ eng \in [Engines -> EngineType] /\ loc \in [Engines -> LocalType]
      /\ eng[e].sess \in Sessions /\ eng[e].sess \in eng[e].hist
  BY DEF IInv, Typed, TypeOK, EngineType, SessionOrNull, Started, InPlaceBoundary, Bound
<1>1. eng'[e].hist = eng[e].hist /\ eng'[e].sess = eng[e].sess
  <2>1. eng' = [eng EXCEPT ![e] = Switched(e, eng[e].sess)] \/ eng' = eng
    BY DEF InPlaceBoundary
  <2>2. CASE eng' = [eng EXCEPT ![e] = Switched(e, eng[e].sess)]
    <3>1. eng[e].hist \cup {eng[e].sess} = eng[e].hist
      BY <1>0
    <3>2. eng'[e] = Switched(e, eng[e].sess)
      BY <1>0, <2>2
    <3>3. /\ Switched(e, eng[e].sess).sess = eng[e].sess
          /\ Switched(e, eng[e].sess).hist = eng[e].hist \cup {eng[e].sess}
      BY <1>0, SwitchedHome
    <3> QED BY <3>1, <3>2, <3>3
  <2> QED BY <2>1, <2>2
<1>2. /\ \A o \in Engines : o # e => loc'[o] = loc[o] /\ eng'[o] = eng[o]
      /\ nodes' = nodes
  BY <1>0 DEF InPlaceBoundary
<1>3. loc'[e].from = NULL /\ loc'[e].tgt = eng[e].sess
  <2>1. PICK l \in {BindCall(eng[e].sess, "idle"), BindCall(eng[e].sess, "inplace"),
                    [Idle EXCEPT !.pc = "inplace", !.tgt = eng[e].sess, !.read = life]} :
          loc' = [loc EXCEPT ![e] = l]
    BY DEF InPlaceBoundary
  <2>2. l.from = NULL /\ l.tgt = eng[e].sess
    BY DEF BindCall, Idle
  <2> QED BY <1>0, <2>1, <2>2
<1> QED BY <1>1, <1>2, <1>3, Quiet

LEMMA IInvStep == IInv /\ [Next]_vars => IInv'
<1> SUFFICES ASSUME IInv, [Next]_vars PROVE IInv'
  OBVIOUS
<1>1. Typed'
  BY TypedStep DEF IInv
<1>2. Started' /\ (\A o \in Engines : Opening(o)') /\ NoDoubleClaim'
  <2>1. CASE nodes' = nodes /\ eng' = eng /\ loc' = loc
    BY <2>1 DEF IInv, Started, Opening, NoDoubleClaim, At
  <2>2. CASE UNCHANGED vars
    BY <2>1, <2>2 DEF vars
  <2>3. CASE PruneEmpty
    BY <2>1, <2>3 DEF PruneEmpty
  <2>4. CASE \E e \in Engines : \E first \in 1..MaxRows : Rotate(e, first)
    BY <2>1, <2>4 DEF Rotate
  <2> QED
    BY <2>2, <2>3, <2>4, QuietSteps, BindSteps, StartStep, OpenSteps,
       FinalizePendingResetStep, MoveSteps, PublishStep, InPlaceStep DEF Next
<1> QED BY <1>1, <1>2 DEF IInv

\* For any number of engines and sessions, in any interleaving of compactions,
\* resets, ends and boundaries, no row is summarised by two leaves of one
\* session: of several engines that summarised the same rows at most one
\* publishes (stage_compaction_publication), and moving leaves to another
\* session (reassign_session_nodes) brings no second claim there.
THEOREM NoDoubleClaimHolds == Spec => []NoDoubleClaim
<1>1. IInv => NoDoubleClaim
  BY DEF IInv
<1> QED BY <1>1, InitIInv, IInvStep, PTL DEF Spec

-----------------------------------------------------------------------------
(* The frontier of a bound session never goes back                         *)

\* A compare-and-swap in flight changes the binding: bind_session returns the
\* row at once when it already holds the session.  Without this a swap could
\* be a rebind of the bound session, at frontier 0.
Rebinds ==
  \A e \in Engines :
    At(e, "bindWrite") => ~(loc[e].read.present /\ loc[e].read.cur = loc[e].tgt)

\* Only a read of the compare-and-swap loop leads to its write.
LEMMA RebindsStep ==
  ASSUME Typed, Rebinds, [Next]_vars
  PROVE  Rebinds'
<1>0. eng \in [Engines -> EngineType] /\ loc \in [Engines -> LocalType]
  BY DEF Typed, TypeOK
<1> DEFINE Only(e) == \A o \in Engines : o # e => loc'[o] = loc[o]
<1>1. ASSUME NEW e \in Engines, Only(e), loc'[e].pc # "bindWrite" PROVE Rebinds'
  BY <1>1 DEF Rebinds, At
<1>2. CASE loc' = loc
  BY <1>2 DEF Rebinds, At
<1>3. ASSUME NEW e \in Engines, NEW row, BindReturns(e, row) PROVE Rebinds'
  <2>1. CASE loc[e].then = "idle"
    BY <1>0, <1>1, <1>3, <2>1 DEF BindReturns, Idle
  <2>2. CASE loc[e].then # "idle"
    <3>1. loc' = [loc EXCEPT ![e] = [loc[e] EXCEPT !.pc = loc[e].then, !.read = row, !.tries = 0]]
      BY <1>0, <1>3, <2>2 DEF BindReturns
    <3>2. loc[e].then # "bindWrite"
      BY <1>0 DEF LocalType, Returns
    <3> QED BY <1>0, <1>1, <3>1, <3>2 DEF LocalType
  <2> QED BY <2>1, <2>2
<1>4. ASSUME NEW e \in Engines, BindRead(e) PROVE Rebinds'
  <2>1. CASE life.present /\ life.cur = loc[e].tgt
    BY <1>3, <1>4, <2>1 DEF BindRead
  <2>2. CASE ~(life.present /\ life.cur = loc[e].tgt)
    <3>1. loc' = [loc EXCEPT ![e] = [loc[e] EXCEPT !.pc = "bindWrite", !.read = life]]
      BY <1>4, <2>2 DEF BindRead
    <3>2. loc'[e].read = life /\ loc'[e].tgt = loc[e].tgt /\ Only(e)
      BY <1>0, <3>1 DEF LocalType
    <3> QED BY <2>2, <3>2 DEF Rebinds, At
  <2> QED BY <2>1, <2>2
<1>5. ASSUME NEW e \in Engines, BindDone(e) \/ BindInTransaction(e) PROVE Rebinds'
  <2>1. CASE \E row : BindReturns(e, row)
    BY <1>3, <2>1
  <2>2. CASE loc' = [loc EXCEPT ![e] = Idle]
    BY <1>0, <1>1, <2>2 DEF Idle
  <2> QED BY <1>5, <2>1, <2>2 DEF BindDone, BindInTransaction
<1>6. ASSUME NEW e \in Engines, FinalizePendingReset(e) \/ BoundaryFinalize(e) \/ BoundaryMove(e)
      PROVE  Rebinds'
  BY <1>0, <1>1, <1>6, ZenonT(40) DEF FinalizePendingReset, BoundaryFinalize, BoundaryMove, LocalType
<1>7. ASSUME NEW e \in Engines, BindSwap(e) \/ BindLost(e) PROVE Rebinds'
  BY <1>0, <1>1, <1>7 DEF BindSwap, BindLost, LocalType
<1>8. ASSUME NEW e \in Engines,
             ReadExpected(e) \/ ReadCarried(e) \/ Reset(e) \/ DropProof(e)
      PROVE  Rebinds'
  <2>1. CASE ReadExpected(e) \/ ReadCarried(e)
    <3>1. Only(e) /\ loc'[e].pc \in {"carried", "publish"}
      BY <1>0, <2>1 DEF ReadExpected, ReadCarried, LocalType
    <3> QED BY <1>1, <3>1
  <2>2. CASE Reset(e)
    <3>1. Only(e) /\ loc'[e].pc = "unprove"
      BY <1>0, <2>2 DEF Reset, LocalType
    <3> QED BY <1>1, <3>1
  <2>3. CASE DropProof(e)
    <3>1. Only(e) /\ loc'[e].pc \in {"idle", "delete"}
      BY <1>0, <2>3 DEF DropProof, LocalType
    <3> QED BY <1>1, <3>1
  <2> QED BY <1>8, <2>1, <2>2, <2>3
<1>9. ASSUME NEW e \in Engines, NEW s \in Sessions,
             \/ Start(e, s) \/ EndOffCurrent(e, s) \/ Boundary(e, s)
             \/ \E ign \in BOOLEAN : AppendSuffix(e, s, ign)
      PROVE  Rebinds'
  <2>1. Only(e) /\ loc'[e].pc \in {"bindRead", "offRead", "offFin", "bndFin"}
    <3>1. CASE Start(e, s)
      BY <1>0, <3>1 DEF Start, BindCall, Idle
    <3>2. CASE EndOffCurrent(e, s) \/ \E ign \in BOOLEAN : AppendSuffix(e, s, ign)
      BY <1>0, <3>2 DEF EndOffCurrent, AppendSuffix, Idle
    <3>3. CASE Boundary(e, s)
      BY <1>0, <3>3 DEF Boundary, Idle
    <3> QED BY <1>9, <3>1, <3>2, <3>3
  <2> QED BY <1>1, <2>1
<1>10. ASSUME NEW e \in Engines, NEW s \in Sessions, NEW then \in {"idle", "carry"},
              StartAfterReset(e, s, then)
       PROVE  Rebinds'
  BY <1>0, <1>1, <1>10 DEF StartAfterReset, Idle
<1>11. ASSUME NEW e \in Engines, SelectLeaf(e) PROVE Rebinds'
  <2>1. Only(e) /\ loc'[e].pc = "expect"
    BY <1>0, <1>11 DEF SelectLeaf, Idle
  <2> QED BY <1>1, <2>1
<1>12. ASSUME NEW e \in Engines,
             \/ CarryOver(e) \/ Compress(e) \/ NoLeaf(e) \/ Publish(e)
             \/ PublicationFails(e) \/ FinalizeOffCurrent(e) \/ BoundaryAdvance(e)
             \/ InPlaceAdvance(e)
       PROVE  Rebinds'
  <2>1. loc' = [loc EXCEPT ![e] = Idle] \/ loc' = [loc EXCEPT ![e] = [Idle EXCEPT !.pc = "select"]]
    BY <1>12 DEF CarryOver, Compress, NoLeaf, Publish, PublicationFails,
       FinalizeOffCurrent, BoundaryAdvance, InPlaceAdvance
  <2> QED BY <1>0, <1>1, <2>1 DEF Idle
<1>13. ASSUME NEW e \in Engines, InPlaceBoundary(e) PROVE Rebinds'
  <2>1. PICK l \in {BindCall(eng[e].sess, "idle"), BindCall(eng[e].sess, "inplace"),
                   [Idle EXCEPT !.pc = "inplace", !.tgt = eng[e].sess, !.read = life]} :
          loc' = [loc EXCEPT ![e] = l]
    BY <1>13 DEF InPlaceBoundary
  <2>2. l.pc \in {"bindRead", "inplace"}
    BY DEF BindCall, Idle
  <2>3. Only(e) /\ loc'[e].pc \in {"bindRead", "inplace"}
    BY <1>0, <2>1, <2>2
  <2> QED BY <1>1, <2>3
<1>14. ASSUME NEW e \in Engines, DeleteBatch(e) PROVE Rebinds'
  <2>1. loc' = loc \/ loc' = [loc EXCEPT ![e] = Idle]
    BY <1>14 DEF DeleteBatch
  <2> QED BY <1>0, <1>1, <1>2, <2>1 DEF Idle
<1>15. CASE UNCHANGED vars \/ PruneEmpty
  BY <1>2, <1>15 DEF vars, PruneEmpty
<1>16. ASSUME NEW e \in Engines,
              \/ \E ign \in BOOLEAN : Ingest(e, ign)
              \/ End(e) \/ EndLocked(e)
              \/ \E first \in 1..MaxRows : Rotate(e, first)
       PROVE  Rebinds'
  BY <1>2, <1>16 DEF Ingest, End, EndLocked, Rotate
<1> QED
  BY <1>4, <1>5, <1>6, <1>7, <1>8, <1>9, <1>10, <1>11, <1>12, <1>13, <1>14, <1>15,
     <1>16 DEF Next

\* No statement lowers the frontier of a row whose binding it keeps.
LEMMA RowMonotone ==
  ASSUME NEW r \in LifeRow, NEW b \in LifeRow, NEW s \in SessionOrNull,
         NEW f \in Nat, NEW now, r.present, r.cur # NULL
  PROVE  /\ Finalize(r, s, f, now).cur = r.cur => Finalize(r, s, f, now).frontier = r.frontier
         /\ Advance(r, s, f).frontier >= r.frontier
         /\ RecordReset(r, now).frontier = r.frontier
         /\ RebindOwn(r, s) = r
         /\ BindApplies(r, b) /\ s # r.cur => BindWrite(r, b, s).cur # r.cur
<1>1. Finalize(r, s, f, now).cur = r.cur => Finalize(r, s, f, now).frontier = r.frontier
  <2>1. CASE r.cur = s
    <3>1. Finalize(r, s, f, now).cur = NULL
      BY <2>1 DEF Finalize, LifeRow
    <3> QED BY <3>1
  <2>2. CASE r.cur # s
    BY <2>2 DEF Finalize, LifeRow
  <2> QED BY <2>1, <2>2
<1>2. Advance(r, s, f).frontier >= r.frontier
  BY DEF Advance, Larger, LifeRow
<1>3. RecordReset(r, now).frontier = r.frontier /\ RebindOwn(r, s) = r
  BY DEF RecordReset, RebindOwn, OwnFinalized, LifeRow
<1>4. BindApplies(r, b) /\ s # r.cur => BindWrite(r, b, s).cur # r.cur
  BY DEF BindApplies, BindWrite, LifeRow
<1> QED BY <1>1, <1>2, <1>3, <1>4

LEMMA MonotoneStep ==
  ASSUME Typed, Rebinds, [Next]_vars,
         life.present, life'.present, life.cur # NULL, life'.cur = life.cur
  PROVE  life'.frontier >= life.frontier
<1>0. /\ eng \in [Engines -> EngineType] /\ loc \in [Engines -> LocalType]
      /\ life \in LifeRow /\ clock \in Nat /\ rows \in Seq([sess : Sessions, ign : BOOLEAN])
  BY DEF Typed, TypeOK
<1>1. CASE life' = life
  BY <1>0, <1>1 DEF LifeRow
<1>2. ASSUME NEW s \in SessionOrNull, NEW f \in Nat, NEW now, life' = Finalize(life, s, f, now)
      PROVE  life'.frontier >= life.frontier
  BY <1>0, <1>1, <1>2, RowMonotone DEF LifeRow
<1>3. ASSUME NEW s \in SessionOrNull, NEW f \in Nat, life' = Advance(life, s, f)
      PROVE  life'.frontier >= life.frontier
  BY <1>0, <1>3, RowMonotone
<1>4. ASSUME NEW e \in Engines,
             FinalizePendingReset(e) \/ End(e) \/ FinalizeOffCurrent(e) \/ BoundaryFinalize(e)
      PROVE  life'.frontier >= life.frontier
  <2>1. /\ eng[e].pend \in SessionOrNull /\ eng[e].sess \in SessionOrNull
        /\ eng[e].front \in Nat /\ loc[e].f \in Nat
        /\ loc[e].tgt \in SessionOrNull /\ loc[e].from \in SessionOrNull
    BY <1>0 DEF EngineType, LocalType
  <2> QED BY <1>2, <1>4, <2>1 DEF FinalizePendingReset, End, FinalizeOffCurrent, BoundaryFinalize
<1>5. ASSUME NEW e \in Engines,
             \/ Publish(e) \/ BoundaryAdvance(e) \/ InPlaceAdvance(e)
             \/ \E first \in 1..MaxRows : Rotate(e, first)
      PROVE  life'.frontier >= life.frontier
  <2>1. /\ eng[e].sess \in SessionOrNull /\ eng[e].front \in Nat
        /\ loc[e].f \in Nat /\ loc[e].end \in Nat /\ loc[e].tgt \in SessionOrNull
        /\ loc[e].read \in LifeRow
    BY <1>0, BoundsAssumption DEF EngineType, LocalType
  <2>2. CASE Publish(e)
    <3>1. PublishedFrontier(e) \in Nat
      BY <2>1 DEF PublishedFrontier, Larger
    <3> QED BY <1>3, <2>1, <2>2, <3>1 DEF Publish
  <2>3. CASE BoundaryAdvance(e)
    BY <1>3, <2>1, <2>3 DEF BoundaryAdvance
  <2>4. CASE InPlaceAdvance(e)
    <3> DEFINE read == loc[e].read
               resumable == IF read.fin = loc[e].tgt /\ NotResetSince(read)
                            THEN read.finFrontier ELSE 0
               frontier == Larger(eng[e].front, Larger(read.frontier, resumable))
    <3>1. frontier \in Nat
      BY <2>1 DEF Larger, LifeRow
    <3>2. life' = life \/ life' = Advance(life, loc[e].tgt, frontier)
      BY <2>4 DEF InPlaceAdvance
    <3> QED BY <1>1, <1>3, <2>1, <3>1, <3>2
  <2>5. ASSUME NEW first \in 1..MaxRows, Rotate(e, first)
        PROVE  life'.frontier >= life.frontier
    <3>1. first - 1 \in Nat
      BY BoundsAssumption
    <3> QED BY <1>3, <2>1, <2>5, <3>1 DEF Rotate
  <2> QED BY <1>5, <2>2, <2>3, <2>4, <2>5
<1>6. ASSUME NEW e \in Engines, BindSwap(e) PROVE FALSE
  <2>1. loc[e].read \in LifeRow /\ loc[e].tgt \in SessionOrNull
    BY <1>0 DEF LocalType
  <2>2. loc[e].tgt # life.cur
    BY <1>6 DEF BindSwap, BindApplies, Rebinds
  <2> QED BY <1>0, <1>6, <2>1, <2>2, RowMonotone DEF BindSwap
<1>7. ASSUME NEW e \in Engines, BindInTransaction(e) PROVE life'.frontier >= life.frontier
  <2>1. loc[e].tgt \in SessionOrNull /\ BindApplies(life, life)
    BY <1>0 DEF LocalType, BindApplies
  <2>2. CASE life.cur = loc[e].tgt
    BY <1>1, <1>7, <2>2 DEF BindInTransaction
  <2>3. CASE life.cur # loc[e].tgt
    <3>1. life' = BindWrite(life, life, loc[e].tgt)
      BY <1>7, <2>3 DEF BindInTransaction
    <3> QED BY <1>0, <2>1, <2>3, <3>1, RowMonotone
  <2> QED BY <2>2, <2>3
<1>8. ASSUME NEW e \in Engines, Compress(e) PROVE life'.frontier >= life.frontier
  <2>1. eng[e].sess \in SessionOrNull
    BY <1>0 DEF EngineType
  <2> QED BY <1>0, <1>1, <1>8, <2>1, RowMonotone DEF Compress
<1>9. ASSUME NEW e \in Engines, Reset(e) PROVE life'.frontier >= life.frontier
  <2>1. NULL \in SessionOrNull
    BY DEF SessionOrNull
  <2> QED BY <1>0, <1>9, <2>1, RowMonotone DEF Reset, LifeRow
<1>10. CASE UNCHANGED vars
  BY <1>1, <1>10 DEF vars
<1>11. CASE PruneEmpty
  BY <1>11 DEF PruneEmpty, NoRow
<1>12. ASSUME NEW e \in Engines,
             \/ \E ign \in BOOLEAN : Ingest(e, ign)
             \/ BindRead(e) \/ BindLost(e) \/ BindDone(e) \/ CarryOver(e)
             \/ SelectLeaf(e) \/ NoLeaf(e) \/ ReadExpected(e) \/ ReadCarried(e)
             \/ PublicationFails(e) \/ EndLocked(e) \/ DropProof(e) \/ DeleteBatch(e)
             \/ BoundaryMove(e) \/ InPlaceBoundary(e)
             \/ \E s \in Sessions :
                  \/ \E ign \in BOOLEAN : AppendSuffix(e, s, ign)
                  \/ Start(e, s) \/ EndOffCurrent(e, s) \/ Boundary(e, s)
                  \/ \E then \in {"idle", "carry"} : StartAfterReset(e, s, then)
       PROVE  life'.frontier >= life.frontier
  <2>1. life' = life
    BY <1>12 DEF Ingest, BindRead, BindLost, BindDone, CarryOver, SelectLeaf, NoLeaf,
       ReadExpected, ReadCarried, PublicationFails, EndLocked, DropProof, DeleteBatch,
       BoundaryMove, AppendSuffix, InPlaceBoundary, Start, EndOffCurrent, Boundary, StartAfterReset
  <2> QED BY <1>1, <2>1
<1> QED
  BY <1>4, <1>5, <1>6, <1>7, <1>8, <1>9, <1>10, <1>11, <1>12 DEF Next

\* For any number of engines and sessions: while a session stays bound the
\* frontier of its row never goes back, whatever stale frontier an end, a
\* boundary, a lost compare-and-swap or a publication carries
\* (bind_session, advance_frontier, stage_frontier_advance).
THEOREM FrontierMonotoneHolds == Spec => FrontierMonotone
<1>1. Init => Typed /\ Rebinds
  BY InitTyped DEF Init, Rebinds, At, Idle
<1>2. Typed /\ Rebinds /\ [Next]_vars => Typed' /\ Rebinds'
  BY TypedStep, RebindsStep
<1>3. Typed /\ Rebinds /\ [Next]_vars =>
        [life.present /\ life'.present /\ life.cur # NULL /\ life'.cur = life.cur
           => life'.frontier >= life.frontier]_vars
  BY MonotoneStep
<1> QED BY <1>1, <1>2, <1>3, PTL DEF Spec, FrontierMonotone

-----------------------------------------------------------------------------
(* A publication skips no row                                              *)

\* What the rows a leaf accounts for without summarising them are, from the
\* selection on: rows an ignore pattern matches or some leaf already claims.
Accounted ==
  \A e \in Engines : loc[e].pc \in {"expect", "carried", "publish"} =>
    \A i \in loc[e].exc : i \in Ids /\ (rows[i].ign \/ i \in Claimed)

\* No reset is deleting leaves.
NoDelete == \A e \in Engines : loc[e].pc # "delete"

\* Only a selection, the read of the expected frontier and a reset lead an
\* engine to where a leaf is in the making or leaves are deleted.
LEMMA IntoLeaf ==
  ASSUME Typed, [Next]_vars, NEW o \in Engines, loc'[o] # loc[o],
         loc'[o].pc \in {"expect", "carried", "publish", "delete"}
  PROVE  \/ SelectLeaf(o) /\ loc'[o].pc = "expect"
         \/ ReadExpected(o) /\ loc'[o].pc = "carried"
         \/ ReadCarried(o) /\ loc'[o].pc = "publish"
         \/ DropProof(o) /\ loc'[o].pc = "delete" /\ ~RetainLeaves
<1> DEFINE Goal == \/ SelectLeaf(o) /\ loc'[o].pc = "expect"
                   \/ ReadExpected(o) /\ loc'[o].pc = "carried"
                   \/ ReadCarried(o) /\ loc'[o].pc = "publish"
                   \/ DropProof(o) /\ loc'[o].pc = "delete" /\ ~RetainLeaves
           Away == {"idle", "pendFin", "bindRead", "bindWrite", "bindDone", "bindTxn",
                    "carry", "select", "offRead", "offFin", "unprove", "bndFin", "bndMove",
                    "bndAdvance", "inplace"}
<1> SUFFICES Goal
  OBVIOUS
<1>0. loc \in [Engines -> LocalType]
  BY DEF Typed, TypeOK
<1>1. ASSUME NEW e \in Engines, NEW l, loc' = [loc EXCEPT ![e] = l], l.pc \in Away
      PROVE  FALSE
  BY <1>0, <1>1
<1>2. ASSUME loc' = loc PROVE FALSE
  BY <1>2
<1>3. ASSUME NEW e \in Engines, NEW row, BindReturns(e, row) PROVE FALSE
  <2>1. [loc[e] EXCEPT !.pc = loc[e].then, !.read = row, !.tries = 0].pc \in Away
    BY <1>0 DEF LocalType, Returns
  <2>2. Idle.pc \in Away
    BY DEF Idle
  <2> QED BY <1>1, <1>3, <2>1, <2>2 DEF BindReturns
<1>4. ASSUME NEW e \in Engines, BindRead(e) \/ BindDone(e) \/ BindInTransaction(e)
      PROVE  FALSE
  <2>1. CASE \E row : BindReturns(e, row)
    BY <1>3, <2>1
  <2>2. CASE loc' = [loc EXCEPT ![e] = Idle]
    BY <1>1, <2>2 DEF Idle
  <2>3. CASE loc' = [loc EXCEPT ![e] = [loc[e] EXCEPT !.pc = "bindWrite", !.read = life]]
    <3>1. [loc[e] EXCEPT !.pc = "bindWrite", !.read = life].pc \in Away
      BY <1>0 DEF LocalType
    <3> QED BY <1>1, <2>3, <3>1
  <2> QED BY <1>4, <2>1, <2>2, <2>3 DEF BindRead, BindDone, BindInTransaction
<1>5. ASSUME NEW e \in Engines, FinalizePendingReset(e) \/ BoundaryFinalize(e) \/ BoundaryMove(e)
      PROVE  FALSE
  BY <1>0, <1>5 DEF FinalizePendingReset, BoundaryFinalize, BoundaryMove, LocalType
<1>6. ASSUME NEW e \in Engines, BindSwap(e) \/ BindLost(e) PROVE FALSE
  BY <1>0, <1>6 DEF BindSwap, BindLost, LocalType
<1>7. ASSUME NEW e \in Engines, ReadExpected(e) \/ ReadCarried(e) PROVE Goal
  <2>1. /\ \A x \in Engines : x # e => loc'[x] = loc[x]
        /\ \/ ReadExpected(e) /\ loc'[e].pc = "carried"
           \/ ReadCarried(e) /\ loc'[e].pc = "publish"
    BY <1>0, <1>7 DEF ReadExpected, ReadCarried, LocalType
  <2> QED BY <1>7, <2>1
<1>8. ASSUME NEW e \in Engines, DropProof(e) PROVE Goal
  <2>1. /\ \A x \in Engines : x # e => loc'[x] = loc[x]
        /\ loc'[e].pc = IF RetainLeaves THEN "idle" ELSE "delete"
    BY <1>0, <1>8 DEF DropProof, LocalType
  <2> QED BY <1>8, <2>1
<1>17. ASSUME NEW e \in Engines, Reset(e) PROVE FALSE
  <2>1. [loc[e] EXCEPT !.pc = "unprove"].pc \in Away
    BY <1>0 DEF LocalType
  <2> QED BY <1>1, <1>17, <2>1 DEF Reset
<1>9. ASSUME NEW e \in Engines, NEW s \in Sessions,
             \/ Start(e, s) \/ EndOffCurrent(e, s) \/ Boundary(e, s)
             \/ \E ign \in BOOLEAN : AppendSuffix(e, s, ign)
      PROVE  FALSE
  <2>1. CASE Start(e, s)
    BY <1>0, <2>1 DEF Start, BindCall, Idle
  <2>2. CASE EndOffCurrent(e, s) \/ \E ign \in BOOLEAN : AppendSuffix(e, s, ign)
    BY <1>0, <2>2 DEF EndOffCurrent, AppendSuffix, Idle
  <2>3. CASE Boundary(e, s)
    BY <1>0, <2>3 DEF Boundary, Idle
  <2> QED BY <1>9, <2>1, <2>2, <2>3
<1>10. ASSUME NEW e \in Engines, NEW s \in Sessions, NEW then \in {"idle", "carry"},
              StartAfterReset(e, s, then)
       PROVE  FALSE
  BY <1>0, <1>10 DEF StartAfterReset, Idle
<1>11. ASSUME NEW e \in Engines, SelectLeaf(e) PROVE Goal
  <2>1. /\ \A x \in Engines : x # e => loc'[x] = loc[x]
        /\ loc'[e].pc = "expect"
    BY <1>0, <1>11 DEF SelectLeaf, Idle
  <2> QED BY <1>11, <2>1
<1>12. ASSUME NEW e \in Engines,
             \/ CarryOver(e) \/ Compress(e) \/ NoLeaf(e) \/ Publish(e)
             \/ PublicationFails(e) \/ FinalizeOffCurrent(e) \/ BoundaryAdvance(e)
             \/ InPlaceAdvance(e)
       PROVE  FALSE
  <2>1. loc' = [loc EXCEPT ![e] = Idle] \/ loc' = [loc EXCEPT ![e] = [Idle EXCEPT !.pc = "select"]]
    BY <1>12 DEF CarryOver, Compress, NoLeaf, Publish, PublicationFails,
       FinalizeOffCurrent, BoundaryAdvance, InPlaceAdvance
  <2> QED BY <1>1, <2>1 DEF Idle
<1>13. ASSUME NEW e \in Engines, InPlaceBoundary(e) PROVE FALSE
  <2>1. PICK l \in {BindCall(eng[e].sess, "idle"), BindCall(eng[e].sess, "inplace"),
                   [Idle EXCEPT !.pc = "inplace", !.tgt = eng[e].sess, !.read = life]} :
          loc' = [loc EXCEPT ![e] = l]
    BY <1>13 DEF InPlaceBoundary
  <2>2. l.pc \in Away
    BY DEF BindCall, Idle
  <2> QED BY <1>1, <2>1, <2>2
<1>14. ASSUME NEW e \in Engines, DeleteBatch(e) PROVE FALSE
  <2>1. loc' = loc \/ loc' = [loc EXCEPT ![e] = Idle]
    BY <1>14 DEF DeleteBatch
  <2> QED BY <1>1, <1>2, <2>1 DEF Idle
<1>15. CASE UNCHANGED vars \/ PruneEmpty
  BY <1>2, <1>15 DEF vars, PruneEmpty
<1>16. ASSUME NEW e \in Engines,
              \/ \E ign \in BOOLEAN : Ingest(e, ign)
              \/ End(e) \/ EndLocked(e)
              \/ \E first \in 1..MaxRows : Rotate(e, first)
       PROVE  FALSE
  BY <1>2, <1>16 DEF Ingest, End, EndLocked, Rotate
<1> QED
  BY <1>4, <1>5, <1>6, <1>7, <1>8, <1>9, <1>10, <1>11, <1>12, <1>13, <1>14, <1>15,
     <1>16, <1>17 DEF Next

\* A row is appended, by an ingest or by an off-current end.
Appends ==
  \E e \in Engines, ign \in BOOLEAN :
    Ingest(e, ign) \/ \E s \in Sessions : AppendSuffix(e, s, ign)

LEMMA Appended ==
  ASSUME rows \in Seq([sess : Sessions, ign : BOOLEAN]), Appends
  PROVE  /\ Len(rows) \in Nat /\ Len(rows') = Len(rows) + 1 /\ Ids \subseteq Ids'
         /\ \A i \in Ids : rows'[i] = rows[i]
<1>1. PICK r : rows' = Append(rows, r)
  BY DEF Appends, Ingest, AppendSuffix
<1> QED BY <1>1 DEF Ids

\* Rows are only ever appended; nodes are written by a
\* publication, moved by a boundary or a rollover, and deleted by a reset.
LEMMA StoreWriters ==
  ASSUME [Next]_vars
  PROVE  \/ rows' = rows /\ nodes' = nodes
         \/ nodes' = nodes /\ Appends
         \/ rows' = rows /\ \E e \in Engines :
              Publish(e) \/ CarryOver(e) \/ BoundaryMove(e) \/ DeleteBatch(e)
<1>1. CASE UNCHANGED vars \/ PruneEmpty
  BY <1>1 DEF vars, PruneEmpty
<1>2. ASSUME NEW e \in Engines, NEW s \in Sessions,
             \/ Start(e, s) \/ EndOffCurrent(e, s) \/ Boundary(e, s)
             \/ \E then \in {"idle", "carry"} : StartAfterReset(e, s, then)
      PROVE  rows' = rows /\ nodes' = nodes
  BY <1>2 DEF Start, EndOffCurrent, Boundary, StartAfterReset
<1>3. ASSUME NEW e \in Engines,
             \/ FinalizePendingReset(e) \/ BindRead(e) \/ BindSwap(e) \/ BindLost(e)
             \/ BindDone(e) \/ BindInTransaction(e) \/ Compress(e) \/ SelectLeaf(e)
             \/ NoLeaf(e) \/ ReadExpected(e) \/ ReadCarried(e) \/ PublicationFails(e)
      PROVE  rows' = rows /\ nodes' = nodes
  BY <1>3 DEF FinalizePendingReset, BindRead, BindSwap, BindLost, BindDone,
     BindInTransaction, Compress, SelectLeaf, NoLeaf, ReadExpected, ReadCarried,
     PublicationFails
<1>4. ASSUME NEW e \in Engines,
             \/ End(e) \/ EndLocked(e) \/ FinalizeOffCurrent(e) \/ Reset(e) \/ DropProof(e)
             \/ BoundaryFinalize(e) \/ BoundaryAdvance(e) \/ InPlaceBoundary(e)
             \/ InPlaceAdvance(e) \/ \E first \in 1..MaxRows : Rotate(e, first)
      PROVE  rows' = rows /\ nodes' = nodes
  BY <1>4 DEF End, EndLocked, FinalizeOffCurrent, Reset, DropProof, BoundaryFinalize,
     BoundaryAdvance, InPlaceBoundary, InPlaceAdvance, Rotate
<1>5. ASSUME NEW e \in Engines,
             Publish(e) \/ CarryOver(e) \/ BoundaryMove(e) \/ DeleteBatch(e)
      PROVE  rows' = rows
  BY <1>5 DEF Publish, CarryOver, BoundaryMove, DeleteBatch
<1>6. Appends => nodes' = nodes
  BY DEF Appends, Ingest, AppendSuffix
<1> QED BY <1>1, <1>2, <1>3, <1>4, <1>5, <1>6 DEF Next, Appends

\* While no leaf is deleted the store only grows: rows keep their place and
\* claims survive, also when a boundary or a rollover moves the nodes.
LEMMA StoreGrows ==
  ASSUME Typed, [Next]_vars, NoDelete
  PROVE  /\ Ids \subseteq Ids'
         /\ \A i \in Ids : rows'[i] = rows[i]
         /\ Claimed \subseteq Claimed'
<1>0. rows \in Seq([sess : Sessions, ign : BOOLEAN])
  BY DEF Typed, TypeOK
<1>1. Ids \subseteq Ids' /\ \A i \in Ids : rows'[i] = rows[i]
  <2>1. CASE rows' = rows
    BY <2>1 DEF Ids
  <2>2. rows' = rows \/ Appends
    BY StoreWriters
  <2> QED BY <1>0, <2>1, <2>2, Appended
<1>2. Claimed \subseteq Claimed'
  <2>1. CASE nodes \subseteq nodes'
    BY <2>1 DEF Claimed
  <2>2. ASSUME NEW from, NEW to, nodes' = Reassigned(from, to)
        PROVE  Claimed \subseteq Claimed'
    <3> SUFFICES ASSUME NEW n \in nodes, NEW i \in n.src
                 PROVE  \E m \in nodes' : i \in m.src
      BY DEF Claimed
    <3>1. n \in NodeType
      BY DEF Typed, TypeOK
    <3>2. [n EXCEPT !.sess = to].src = n.src
      BY <3>1 DEF NodeType
    <3> QED BY <2>2, <3>2 DEF Reassigned
  <2>3. \/ nodes \subseteq nodes'
        \/ \E e \in Engines : nodes' = Reassigned(loc[e].from, loc[e].tgt)
    <3>1. ASSUME NEW e \in Engines, DeleteBatch(e) PROVE FALSE
      BY <3>1 DEF NoDelete, At, DeleteBatch
    <3> QED BY <3>1, StoreWriters DEF Publish, CarryOver, BoundaryMove
  <2> QED BY <2>1, <2>2, <2>3
<1> QED BY <1>1, <1>2

\* A row a leaf accounts for otherwise is ignored or claimed when it is first
\* listed.
LEMMA Excluded ==
  ASSUME Typed, NEW e \in Engines, SelectLeaf(e) \/ ReadExpected(e) \/ ReadCarried(e),
         NEW k \in loc'[e].exc
  PROVE  \/ (ReadExpected(e) \/ ReadCarried(e)) /\ k \in loc[e].exc
         \/ k \in Ids /\ (rows[k].ign \/ k \in Claimed)
<1>0. loc \in [Engines -> LocalType]
  BY DEF Typed, TypeOK
<1>1. CASE SelectLeaf(e)
  <2>1. PICK end \in ReadableRows(e) :
          loc' = [loc EXCEPT ![e] =
            [Idle EXCEPT !.pc = "expect", !.end = end,
                         !.cov = {i \in ReadableRows(e) : i <= end},
                         !.exc = {i \in OwnedAbove(e) \ ReadableRows(e) : i <= end}]]
    BY <1>1 DEF SelectLeaf
  <2>2. loc'[e].exc = {i \in OwnedAbove(e) \ ReadableRows(e) : i <= end}
    BY <1>0, <2>1 DEF Idle
  <2> QED BY <2>2 DEF OwnedAbove, ReadableRows, Owned, OwnedWith
<1>2. CASE ReadExpected(e)
  BY <1>0, <1>2 DEF ReadExpected, LocalType
<1>3. CASE ReadCarried(e)
  <2> DEFINE ignored == {i \in Owned(eng[e].sess) :
                           rows[i].ign /\ i > loc[e].f /\ i <= loc[e].end}
  <2>1. loc'[e].exc = loc[e].exc \cup (ignored \ loc[e].cov)
    BY <1>0, <1>3 DEF ReadCarried, LocalType
  <2>2. CASE k \in ignored
    BY <2>2 DEF Owned, OwnedWith
  <2> QED BY <1>3, <2>1, <2>2
<1> QED BY <1>1, <1>2, <1>3

LEMMA AccountedStep ==
  ASSUME RetainLeaves, Typed, NoDelete, Accounted, [Next]_vars
  PROVE  NoDelete' /\ Accounted'
<1>1. NoDelete'
  BY IntoLeaf DEF NoDelete
<1>2. ASSUME NEW e \in Engines, loc'[e].pc \in {"expect", "carried", "publish"}, NEW k \in loc'[e].exc
      PROVE  k \in Ids /\ (rows[k].ign \/ k \in Claimed)
  <2>1. CASE loc'[e] = loc[e]
    BY <1>2, <2>1 DEF Accounted
  <2>2. CASE SelectLeaf(e) \/ ReadExpected(e) \/ ReadCarried(e)
    BY <1>2, <2>2, Excluded DEF Accounted, ReadExpected, ReadCarried, At
  <2> QED BY <1>2, <2>1, <2>2, IntoLeaf
<1>3. Accounted'
  BY <1>2, StoreGrows DEF Accounted
<1> QED BY <1>1, <1>3

\* The only step that both changes nodes and moves the frontier is a
\* publication.
LEMMA OnlyPublishes ==
  ASSUME [Next]_vars, NoDelete, nodes' # nodes, life' # life
  PROVE  \E e \in Engines : Publish(e)
<1>1. ASSUME NEW e \in Engines, DeleteBatch(e) PROVE FALSE
  BY <1>1 DEF NoDelete, At, DeleteBatch
<1> QED BY <1>1, StoreWriters DEF CarryOver, BoundaryMove

LEMMA SkipsNoRowStep ==
  ASSUME Typed, NoDelete, Accounted, [Next]_vars, NEW i \in Ids,
         nodes' # nodes, life'.cur = life.cur, rows[i].sess = life.cur,
         life.frontier < i, i <= life'.frontier
  PROVE  rows[i].ign \/ i \in Claimed'
<1>0. /\ loc \in [Engines -> LocalType] /\ life \in LifeRow
      /\ rows \in Seq([sess : Sessions, ign : BOOLEAN])
  BY DEF Typed, TypeOK
<1>1. PICK e \in Engines : Publish(e)
  <2>1. life' # life
    BY <1>0 DEF LifeRow, Ids
  <2> QED BY <2>1, OnlyPublishes
<1> DEFINE l == loc[e]
           within == {j \in Ids : j > l.f /\ j <= Larger(l.f, l.end)}
<1>2. /\ l.f \in Nat /\ l.end \in Nat /\ life.frontier \in Nat
      /\ life.frontier = l.f /\ life.present /\ life.cur = eng[e].sess
      /\ OwnedWith(eng[e].sess, l.own) \cap within = (l.cov \cup l.exc) \cap within
      /\ l.pc = "publish"
  BY <1>0, <1>1, BoundsAssumption DEF Publish, Publishable, LocalType, LifeRow, At
<1>3. life'.frontier = Larger(life.frontier, Larger(l.f, l.end))
  BY <1>0, <1>1, <1>2 DEF Publish, Advance, PublishedFrontier, LifeRow
<1>4. i \in within
  BY <1>2, <1>3 DEF Larger, Ids
<1>5. i \in l.cov \cup l.exc
  BY <1>2, <1>4 DEF OwnedWith
<1>6. CASE i \in l.cov
  <2>1. [sess |-> eng[e].sess, src |-> l.cov] \in nodes'
    BY <1>1 DEF Publish
  <2>2. Claimed' = UNION {n.src : n \in nodes'}
    BY DEF Claimed
  <2> QED BY <1>6, <2>1, <2>2
<1>7. CASE i \in l.exc
  BY <1>2, <1>7, StoreGrows DEF Accounted
<1> QED BY <1>5, <1>6, <1>7

\* For any number of engines and sessions, with rotates, prunes and resets that
\* keep leaves (new_session_retain_depth = -1): a publication moves the frontier
\* over no row of the bound session that is neither ignored nor claimed, though
\* its rows were chosen before the summariser ran and others acted since
\* (_build_leaf_publication, stage_compaction_publication).
THEOREM PublicationSkipsNoRowHolds ==
  ASSUME RetainLeaves
  PROVE  Spec => PublicationSkipsNoRow
<1>1. Init => Typed /\ NoDelete /\ Accounted
  BY InitTyped DEF Init, NoDelete, Accounted, Idle
<1>2. Typed /\ NoDelete /\ Accounted /\ [Next]_vars => (Typed /\ NoDelete /\ Accounted)'
  BY TypedStep, AccountedStep
<1>3. Typed /\ NoDelete /\ Accounted /\ [Next]_vars =>
        [\A i \in Ids :
           /\ nodes' # nodes /\ life'.cur = life.cur
           /\ rows[i].sess = life.cur
           /\ life.frontier < i /\ i <= life'.frontier
           => rows[i].ign \/ i \in Claimed']_vars
  BY SkipsNoRowStep
<1> QED BY <1>1, <1>2, <1>3, PTL DEF Spec, PublicationSkipsNoRow

-----------------------------------------------------------------------------
(* The frontier is honest: any number of engines on one session            *)

\* The instances of this part: one session id, no operator rotate (which moves
\* the frontier over rows it leaves to the raw history) and no prune by an
\* engine of another conversation.
OneSession == (\E s : Sessions = {s}) /\ HostOps \cap {"rotate", "prune"} = {}

\* No leaf was ever deleted.
Whole == RetainLeaves \/ life.resetAt = 0

\* Every store id that is, or may become, somebody's frontier: in the row, in
\* an engine, in a call that decided on it earlier.
MarkOf(e) == {eng[e].front, eng[e].pendF, loc[e].f, loc[e].read.frontier,
              loc[e].read.finFrontier}
Marks == {0, life.frontier, life.finFrontier} \cup UNION {MarkOf(e) : e \in Engines}

Honest(f) ==
  /\ f <= Len(rows)
  /\ Whole => \A i \in Ids : i <= f => rows[i].ign \/ i \in Claimed

\* What one session id rules out, and what the row owes an engine: a bound
\* engine finds it unless it is just binding; who deletes leaves recorded a
\* reset in it.
AloneAt(e) ==
  /\ loc[e].pc \notin {"pendFin", "carry", "offRead", "offFin", "bndFin", "bndMove", "bndAdvance"}
  /\ loc[e].then \notin {"carry", "bndAdvance"}
  /\ eng[e].hist \subseteq {eng[e].sess}
  /\ eng[e].sess # NULL => eng[e].sess \in eng[e].hist
  /\ eng[e].sess # NULL => life.present \/ loc[e].pc \in {"bindRead", "bindWrite", "bindTxn"}
  /\ loc[e].pc = "bindDone" => life.present
  /\ loc[e].pc = "unprove" => life.resetAt > 0
  /\ loc[e].pc = "delete" => ~RetainLeaves /\ life.resetAt > 0

Alone == (~life.present => life = NoRow) /\ \A e \in Engines : AloneAt(e)

LeafAt(e) ==
  loc[e].pc \in {"expect", "carried", "publish"} =>
    /\ loc[e].end \in Ids
    /\ Whole => \A i \in loc[e].exc : i \in Ids /\ (rows[i].ign \/ i \in Claimed)

HonestInv ==
  Alone /\ (\A e \in Engines : LeafAt(e)) /\ (\A f \in Marks : Honest(f))

\* A statement on the row keeps it, keeps the record of a reset, and takes its
\* frontiers from M.
RowKept(r, q, M) ==
  /\ r.present => q.present /\ (r.resetAt > 0 => q.resetAt > 0)
  /\ ~r.present => q = r \/ q.present
  /\ q.frontier \in M /\ q.finFrontier \in M

LEMMA RowsKept ==
  ASSUME NEW r \in LifeRow, NEW b \in LifeRow, NEW s, NEW f \in Nat,
         NEW now \in Nat, now > 0
  PROVE  /\ RowKept(r, r, {0, r.frontier, r.finFrontier})
         /\ RowKept(r, Finalize(r, s, f, now), {0, r.frontier, r.finFrontier, f})
         /\ RowKept(r, RecordReset(r, now), {0, r.frontier, r.finFrontier})
         /\ r.present => RecordReset(r, now).resetAt > 0
         /\ RowKept(r, Advance(r, s, f), {0, r.frontier, r.finFrontier, f})
         /\ RowKept(r, RebindOwn(r, s), {0, r.frontier, r.finFrontier})
         /\ BindApplies(r, b) => /\ RowKept(r, BindWrite(r, b, s), {0, r.frontier, r.finFrontier})
                                 /\ BindWrite(r, b, s).present
<1> USE DEF RowKept
<1>1. RowKept(r, Finalize(r, s, f, now), {0, r.frontier, r.finFrontier, f})
  <2>1. CASE ~r.present
    BY <2>1 DEF Finalize
  <2>2. CASE r.present
    <3> DEFINE q == Finalize(r, s, f, now)
    <3>1. /\ q.present = r.present /\ q.resetAt = r.resetAt
          /\ q.frontier = IF r.cur = s THEN 0 ELSE r.frontier
          /\ q.finFrontier = IF r.fin = s /\ NotResetSince(r) THEN Larger(f, r.finFrontier) ELSE f
      BY <2>2 DEF Finalize, LifeRow
    <3>2. Larger(f, r.finFrontier) \in {f, r.finFrontier}
      BY DEF Larger
    <3> QED BY <2>2, <3>1, <3>2
  <2> QED BY <2>1, <2>2
<1>2. /\ RowKept(r, RecordReset(r, now), {0, r.frontier, r.finFrontier})
      /\ r.present => RecordReset(r, now).resetAt > 0
  BY DEF RecordReset, LifeRow
<1>3. RowKept(r, Advance(r, s, f), {0, r.frontier, r.finFrontier, f})
  BY DEF Advance, LifeRow, Larger
<1>4. RowKept(r, RebindOwn(r, s), {0, r.frontier, r.finFrontier})
  BY DEF RebindOwn, OwnFinalized, LifeRow
<1>5. ASSUME BindApplies(r, b)
      PROVE  /\ RowKept(r, BindWrite(r, b, s), {0, r.frontier, r.finFrontier})
             /\ BindWrite(r, b, s).present
  BY <1>5 DEF BindApplies, BindWrite, BindFrontier, NoRow, LifeRow
<1> QED BY <1>1, <1>2, <1>3, <1>4, <1>5

\* What one step of engine e does, with E the marks it makes itself.
Moved(e, E) ==
  /\ \A o \in Engines : o # e => eng'[o] = eng[o] /\ loc'[o] = loc[o]
  /\ RowKept(life, life', Marks \cup E)
  /\ MarkOf(e)' \subseteq Marks \cup E
  /\ AloneAt(e)'

LEMMA MarksOf ==
  ASSUME NEW e \in Engines
  PROVE  {0, life.frontier, life.finFrontier, eng[e].front, eng[e].pendF, loc[e].f,
          loc[e].read.frontier, loc[e].read.finFrontier} \subseteq Marks
BY DEF Marks, MarkOf

LEMMA LargerIsOne == ASSUME NEW a, NEW b PROVE Larger(a, b) = a \/ Larger(a, b) = b
BY DEF Larger

LEMMA IdleMarks ==
  ASSUME NEW e \in Engines, eng[e].front' \in Marks, eng[e].pendF' \in Marks,
         loc'[e] = Idle \/ loc'[e] = [Idle EXCEPT !.pc = "select"]
  PROVE  MarkOf(e)' \subseteq Marks
BY DEF MarkOf, Idle, NoRow, Marks

LEMMA BindReturnsMoved ==
  ASSUME Typed, Alone, NEW e \in Engines, NEW row, BindReturns(e, row),
         row.frontier \in Marks, row.finFrontier \in Marks, life'.present,
         life.resetAt > 0 => life'.resetAt > 0
  PROVE  MarkOf(e)' \subseteq Marks /\ AloneAt(e)'
<1>0. /\ eng[e] \in EngineType /\ loc[e] \in LocalType
      /\ eng \in [Engines -> EngineType] /\ loc \in [Engines -> LocalType]
  BY DEF Typed, TypeOK
<1>1. /\ eng'[e].front \in {eng[e].front, row.frontier} /\ eng'[e].pendF = eng[e].pendF
      /\ eng'[e].sess = eng[e].sess /\ eng'[e].hist = eng[e].hist
  BY <1>0 DEF BindReturns, EngineType
<1>2. CASE loc[e].then = "idle"
  <2>1. loc'[e] = Idle
    BY <1>0, <1>2 DEF BindReturns
  <2>2. MarkOf(e)' \subseteq Marks
    BY <1>1, <2>1, MarksOf, IdleMarks
  <2> QED BY <1>1, <2>1, <2>2 DEF Alone, AloneAt, Idle
<1>3. CASE loc[e].then # "idle"
  <2>1. /\ loc'[e].pc = loc[e].then /\ loc'[e].then = loc[e].then
        /\ loc'[e].read = row /\ loc'[e].f = loc[e].f
    BY <1>0, <1>3 DEF BindReturns, LocalType
  <2>2. MarkOf(e)' \subseteq Marks
    BY <1>1, <2>1, MarksOf DEF MarkOf
  <2>3. loc[e].then = "inplace"
    BY <1>0, <1>3 DEF Alone, AloneAt, LocalType, Returns
  <2> QED BY <1>1, <2>1, <2>2, <2>3 DEF Alone, AloneAt
<1> QED BY <1>2, <1>3

LEMMA BindMoved ==
  ASSUME Typed, Alone, NEW e \in Engines,
         \/ BindRead(e) \/ BindSwap(e) \/ BindLost(e) \/ BindDone(e)
         \/ BindInTransaction(e)
  PROVE  Moved(e, {})
<1>0. /\ eng[e] \in EngineType /\ loc[e] \in LocalType /\ life \in LifeRow
      /\ loc[e].read \in LifeRow
      /\ eng \in [Engines -> EngineType] /\ loc \in [Engines -> LocalType]
  BY DEF Typed, TypeOK, LocalType
<1>1. \A o \in Engines : o # e => eng'[o] = eng[o] /\ loc'[o] = loc[o]
  BY <1>0 DEF BindRead, BindSwap, BindLost, BindDone, BindInTransaction, BindReturns
<1>2. /\ RowKept(life, life, {0, life.frontier, life.finFrontier})
      /\ {0, life.frontier, life.finFrontier} \subseteq Marks
  BY <1>0, MarksOf DEF RowKept, LifeRow
<1>3. RowKept(life, life, Marks)
  BY <1>2 DEF RowKept
<1>4. CASE BindRead(e)
  <2>1. CASE life.present /\ life.cur = loc[e].tgt
    <3>1. BindReturns(e, life) /\ life' = life
      BY <1>4, <2>1 DEF BindRead
    <3> QED BY <1>1, <1>2, <1>3, <2>1, <3>1, BindReturnsMoved DEF Moved
  <2>2. CASE ~(life.present /\ life.cur = loc[e].tgt)
    <3>1. /\ eng' = eng /\ life' = life
          /\ loc'[e].pc = "bindWrite" /\ loc'[e].read = life /\ loc'[e].f = loc[e].f
          /\ loc'[e].then = loc[e].then
      BY <1>0, <1>4, <2>2 DEF BindRead, LocalType
    <3>2. MarkOf(e)' \subseteq Marks
      BY <3>1, MarksOf DEF MarkOf
    <3> QED BY <1>1, <1>3, <3>1, <3>2 DEF Moved, Alone, AloneAt
  <2> QED BY <2>1, <2>2
<1>5. CASE BindSwap(e)
  <2>1. /\ eng' = eng /\ loc'[e].pc = "bindDone" /\ loc'[e].read = NoRow
        /\ loc'[e].f = loc[e].f /\ loc'[e].then = loc[e].then
    BY <1>0, <1>5 DEF BindSwap, LocalType
  <2>2. MarkOf(e)' \subseteq Marks
    BY <2>1, MarksOf DEF MarkOf, NoRow
  <2>3. RowKept(life, life', Marks) /\ life'.present
    <3>1. /\ RowKept(life, life', {0, life.frontier, life.finFrontier})
          /\ life'.present
      BY <1>0, <1>5, RowsKept, 1 > 0 DEF BindSwap
    <3> QED BY <1>2, <3>1 DEF RowKept
  <2> QED BY <1>1, <2>1, <2>2, <2>3 DEF Moved, Alone, AloneAt
<1>6. CASE BindLost(e)
  <2>1. /\ eng' = eng /\ life' = life /\ loc'[e].pc \in {"bindRead", "bindTxn"}
        /\ loc'[e].read = NoRow /\ loc'[e].f = loc[e].f /\ loc'[e].then = loc[e].then
    BY <1>0, <1>6 DEF BindLost, LocalType
  <2>2. MarkOf(e)' \subseteq Marks
    BY <2>1, MarksOf DEF MarkOf, NoRow
  <2> QED BY <1>1, <1>3, <2>1, <2>2 DEF Moved, Alone, AloneAt
<1>7. CASE BindDone(e)
  <2>1. life.present /\ life' = life
    BY <1>7 DEF BindDone, Alone, AloneAt, At
  <2>2. BindReturns(e, life)
    BY <1>7, <2>1 DEF BindDone
  <2> QED BY <1>1, <1>2, <1>3, <2>1, <2>2, BindReturnsMoved DEF Moved
<1>8. CASE BindInTransaction(e)
  <2>1. RowKept(life, life', {0, life.frontier, life.finFrontier}) /\ life'.present
    <3>1. BindApplies(life, life)
      BY DEF BindApplies
    <3> QED BY <1>0, <1>2, <1>8, <3>1, RowsKept, 1 > 0 DEF BindInTransaction
  <2>2. life'.frontier \in Marks /\ life'.finFrontier \in Marks /\ RowKept(life, life', Marks)
    BY <1>2, <2>1 DEF RowKept
  <2>3. life.resetAt > 0 => life'.resetAt > 0
    BY <2>1 DEF RowKept, Alone, NoRow
  <2> QED BY <1>1, <1>8, <2>1, <2>2, <2>3, BindReturnsMoved DEF Moved, BindInTransaction
<1> QED BY <1>4, <1>5, <1>6, <1>7, <1>8

LEMMA CompressMoved ==
  ASSUME Typed, Alone, NEW e \in Engines,
         \/ Compress(e) \/ SelectLeaf(e) \/ NoLeaf(e) \/ ReadExpected(e) \/ ReadCarried(e)
         \/ PublicationFails(e)
  PROVE  Moved(e, {})
<1>0. /\ eng[e] \in EngineType /\ loc[e] \in LocalType /\ life \in LifeRow
      /\ eng \in [Engines -> EngineType] /\ loc \in [Engines -> LocalType]
      /\ eng[e].sess # NULL
  BY DEF Typed, TypeOK, Calls, Compress, Bound, SelectLeaf, NoLeaf, ReadExpected,
     ReadCarried, PublicationFails, At
<1>1. \A o \in Engines : o # e => eng'[o] = eng[o] /\ loc'[o] = loc[o]
  BY <1>0 DEF Compress, SelectLeaf, NoLeaf, ReadExpected, ReadCarried, PublicationFails
<1>2. /\ RowKept(life, life, {0, life.frontier, life.finFrontier})
      /\ {0, life.frontier, life.finFrontier} \subseteq Marks
  BY <1>0, MarksOf DEF RowKept, LifeRow
<1>3. RowKept(life, life, Marks) /\ life.present
  BY <1>0, <1>2 DEF RowKept, Alone, AloneAt, Compress, SelectLeaf, NoLeaf, ReadExpected,
     ReadCarried, PublicationFails, At
<1>4. CASE Compress(e)
  <2>1. RowKept(life, life', {0, life.frontier, life.finFrontier})
    BY <1>0, <1>4, RowsKept, 1 > 0 DEF Compress
  <2>2. RowKept(life, life', Marks) /\ life'.frontier \in Marks /\ life'.present
    BY <1>2, <1>3, <2>1 DEF RowKept
  <2>3. /\ eng'[e].front \in {eng[e].front, life'.frontier} /\ eng'[e].pendF = eng[e].pendF
        /\ eng'[e].sess = eng[e].sess /\ eng'[e].hist = eng[e].hist
        /\ loc'[e] = [Idle EXCEPT !.pc = "select"]
    BY <1>0, <1>4 DEF Compress, EngineType
  <2>4. MarkOf(e)' \subseteq Marks
    BY <2>2, <2>3, MarksOf, IdleMarks
  <2> QED BY <1>1, <2>2, <2>3, <2>4 DEF Moved, Alone, AloneAt, Idle
<1>5. CASE SelectLeaf(e)
  <2>1. /\ eng' = eng /\ life' = life /\ loc'[e].pc = "expect" /\ loc'[e].then = "idle"
        /\ loc'[e].read = NoRow /\ loc'[e].f = 0
    BY <1>0, <1>5 DEF SelectLeaf, Idle
  <2>2. MarkOf(e)' \subseteq Marks
    BY <2>1, MarksOf DEF MarkOf, NoRow
  <2> QED BY <1>1, <1>3, <2>1, <2>2 DEF Moved, Alone, AloneAt
<1>6. CASE NoLeaf(e) \/ PublicationFails(e)
  <2>1. eng' = eng /\ life' = life /\ loc'[e] = Idle
    BY <1>0, <1>6 DEF NoLeaf, PublicationFails
  <2>2. MarkOf(e)' \subseteq Marks
    BY <2>1, MarksOf, IdleMarks
  <2> QED BY <1>1, <1>3, <2>1, <2>2 DEF Moved, Alone, AloneAt, Idle
<1>7. CASE ReadExpected(e) \/ ReadCarried(e)
  <2>1. /\ eng' = eng /\ life' = life /\ loc'[e].pc \in {"carried", "publish"}
        /\ loc'[e].then = loc[e].then /\ loc'[e].read = loc[e].read
        /\ loc'[e].f \in {life.frontier, loc[e].f}
    BY <1>0, <1>7 DEF ReadExpected, ReadCarried, LocalType
  <2>2. MarkOf(e)' \subseteq Marks
    BY <2>1, MarksOf DEF MarkOf
  <2> QED BY <1>1, <1>3, <2>1, <2>2 DEF Moved, Alone, AloneAt
<1> QED BY <1>4, <1>5, <1>6, <1>7

LEMMA PublishMoved ==
  ASSUME Typed, Alone, NEW e \in Engines, Publish(e)
  PROVE  Moved(e, {loc[e].end})
<1>0. /\ eng[e] \in EngineType /\ loc[e] \in LocalType /\ life \in LifeRow
      /\ eng \in [Engines -> EngineType] /\ loc \in [Engines -> LocalType]
      /\ loc[e].f \in Nat /\ loc[e].end \in Nat
  BY BoundsAssumption DEF Typed, TypeOK, LocalType
<1>1. \A o \in Engines : o # e => eng'[o] = eng[o] /\ loc'[o] = loc[o]
  BY <1>0 DEF Publish
<1>2. {0, life.frontier, life.finFrontier, loc[e].f, loc[e].end} \subseteq Marks \cup {loc[e].end}
  BY MarksOf
<1>3. life.present
  BY DEF Publish, Publishable
<1>4. PublishedFrontier(e) \in {loc[e].f, loc[e].end}
  BY LargerIsOne DEF PublishedFrontier
<1>5. RowKept(life, life', {0, life.frontier, life.finFrontier, PublishedFrontier(e)})
  BY <1>0, <1>4, RowsKept, 1 > 0 DEF Publish
<1>6. RowKept(life, life', Marks \cup {loc[e].end}) /\ life'.present
  BY <1>2, <1>3, <1>4, <1>5 DEF RowKept
<1>7. /\ eng'[e].front = loc[e].end /\ eng'[e].pendF = eng[e].pendF
      /\ eng'[e].sess = eng[e].sess /\ eng'[e].hist = eng[e].hist
      /\ loc'[e] = Idle
  BY <1>0 DEF Publish, EngineType
<1>8. MarkOf(e)' \subseteq Marks \cup {loc[e].end}
  BY <1>7, MarksOf DEF MarkOf, Idle, NoRow
<1> QED BY <1>1, <1>6, <1>7, <1>8 DEF Moved, Alone, AloneAt, Idle

LEMMA EndMoved ==
  ASSUME Typed, Alone, NEW e \in Engines,
         \/ \E ign \in BOOLEAN : Ingest(e, ign)
         \/ End(e) \/ EndLocked(e) \/ Reset(e) \/ DropProof(e) \/ DeleteBatch(e)
  PROVE  Moved(e, {})
<1>0. /\ eng[e] \in EngineType /\ loc[e] \in LocalType /\ life \in LifeRow
      /\ eng \in [Engines -> EngineType] /\ loc \in [Engines -> LocalType]
      /\ eng[e].front \in Nat /\ clock \in Nat
  BY DEF Typed, TypeOK, EngineType
<1>1. \A o \in Engines : o # e => eng'[o] = eng[o] /\ loc'[o] = loc[o]
  BY <1>0 DEF Ingest, End, EndLocked, Reset, DropProof, DeleteBatch
<1>2. /\ RowKept(life, life, Marks)
      /\ {0, life.frontier, life.finFrontier, eng[e].front} \subseteq Marks
  BY <1>0, MarksOf DEF RowKept, LifeRow
<1>3. CASE (\E ign \in BOOLEAN : Ingest(e, ign)) \/ EndLocked(e)
  <2>1. /\ life' = life /\ loc' = loc
        /\ eng'[e].front = eng[e].front /\ eng'[e].pendF = eng[e].pendF
        /\ eng'[e].sess = eng[e].sess /\ eng'[e].hist = eng[e].hist
    <3>1. CASE \E ign \in BOOLEAN : Ingest(e, ign)
      BY <1>0, <3>1 DEF Ingest, EngineType
    <3>2. CASE EndLocked(e)
      BY <1>0, <3>2 DEF EndLocked, EngineType
    <3> QED BY <1>3, <3>1, <3>2
  <2>2. MarkOf(e)' \subseteq Marks
    BY <2>1, MarksOf DEF MarkOf
  <2> QED BY <1>1, <1>2, <2>1, <2>2 DEF Moved, Alone, AloneAt
<1>4. CASE End(e)
  <2>1. /\ loc' = loc
        /\ eng'[e].front = eng[e].front /\ eng'[e].pendF = eng[e].pendF
        /\ eng'[e].sess = eng[e].sess /\ eng'[e].hist = eng[e].hist
    BY <1>0, <1>4 DEF End, EngineType
  <2>2. MarkOf(e)' \subseteq Marks
    BY <2>1, MarksOf DEF MarkOf
  <2>3. RowKept(life, life', {0, life.frontier, life.finFrontier, eng[e].front})
    <3>1. clock' \in Nat /\ clock' > 0 /\ life' = Finalize(life, eng[e].sess, eng[e].front, clock')
      BY <1>0, <1>4 DEF End
    <3> QED BY <1>0, <3>1, RowsKept
  <2>4. RowKept(life, life', Marks)
    BY <1>2, <2>3 DEF RowKept
  <2>5. (life.resetAt > 0 => life'.resetAt > 0) /\ (life.present => life'.present)
    BY <2>4 DEF RowKept, Alone, NoRow
  <2> QED BY <1>1, <2>1, <2>2, <2>4, <2>5 DEF Moved, Alone, AloneAt
<1>5. CASE Reset(e)
  <2>1. /\ eng'[e].front = 0 /\ eng'[e].pendF = eng[e].front
        /\ eng'[e].sess = eng[e].sess /\ eng'[e].hist = eng[e].hist
        /\ loc'[e].pc = "unprove"
        /\ loc'[e].f = loc[e].f /\ loc'[e].read = loc[e].read /\ loc'[e].then = loc[e].then
    BY <1>0, <1>5 DEF Reset, EngineType, LocalType
  <2>2. MarkOf(e)' \subseteq Marks
    BY <2>1, MarksOf DEF MarkOf
  <2>3. life.present
    BY <1>5 DEF Reset, Bound, At, Alone, AloneAt
  <2>4. RowKept(life, life', {0, life.frontier, life.finFrontier}) /\ life'.resetAt > 0
    <3>1. clock' \in Nat /\ clock' > 0 /\ life' = RecordReset(life, clock')
      BY <1>0, <1>5 DEF Reset
    <3> QED BY <1>0, <2>3, <3>1, RowsKept
  <2>5. RowKept(life, life', Marks) /\ life'.present
    BY <1>2, <2>3, <2>4 DEF RowKept
  <2> QED BY <1>1, <2>1, <2>2, <2>4, <2>5 DEF Moved, Alone, AloneAt
<1>6. CASE DeleteBatch(e)
  <2>1. eng' = eng /\ life' = life /\ (loc'[e] = Idle \/ loc' = loc)
    BY <1>0, <1>6 DEF DeleteBatch
  <2>2. MarkOf(e)' \subseteq Marks
    BY <2>1, MarksOf, IdleMarks DEF MarkOf
  <2>3. eng[e].sess # NULL => life.present
    BY <1>6 DEF DeleteBatch, At, Alone, AloneAt
  <2> QED BY <1>1, <1>2, <2>1, <2>2, <2>3 DEF Moved, Alone, AloneAt, Idle
<1>7. CASE DropProof(e)
  <2>1. /\ eng' = eng /\ life' = life
        /\ loc'[e].pc = (IF RetainLeaves THEN "idle" ELSE "delete")
        /\ loc'[e].f = loc[e].f /\ loc'[e].read = loc[e].read /\ loc'[e].then = loc[e].then
    BY <1>0, <1>7 DEF DropProof, LocalType
  <2>2. MarkOf(e)' \subseteq Marks
    BY <2>1, MarksOf DEF MarkOf
  <2>3. (eng[e].sess # NULL => life.present) /\ life.resetAt > 0
    BY <1>7 DEF DropProof, At, Alone, AloneAt
  <2> QED BY <1>1, <1>2, <2>1, <2>2, <2>3 DEF Moved, Alone, AloneAt
<1> QED BY <1>3, <1>4, <1>5, <1>6, <1>7

LEMMA StartMoved ==
  ASSUME OneSession, Typed, Alone, NEW e \in Engines,
         (\E s \in Sessions : Start(e, s)) \/ InPlaceBoundary(e) \/ InPlaceAdvance(e)
  PROVE  Moved(e, {})
<1>0. /\ eng[e] \in EngineType /\ loc[e] \in LocalType /\ life \in LifeRow
      /\ eng \in [Engines -> EngineType] /\ loc \in [Engines -> LocalType]
  BY DEF Typed, TypeOK
<1>1. \A o \in Engines : o # e => eng'[o] = eng[o] /\ loc'[o] = loc[o]
  BY <1>0 DEF Start, InPlaceBoundary, InPlaceAdvance
<1>2. /\ RowKept(life, life, Marks)
      /\ {0, life.frontier, life.finFrontier, eng[e].front} \subseteq Marks
  BY <1>0, MarksOf DEF RowKept, LifeRow
<1>3. ASSUME NEW s \in Sessions, eng' = [eng EXCEPT ![e] = Switched(e, s)],
             loc' = [loc EXCEPT ![e] = BindCall(s, "idle")], life' = life
      PROVE  Moved(e, {})
  <2>1. /\ eng'[e].front = 0 /\ eng'[e].pendF = 0 /\ eng'[e].sess = s
        /\ eng'[e].hist = eng[e].hist \cup {s}
    BY <1>0, <1>3 DEF Switched, EngineType
  <2>2. /\ loc'[e].pc = "bindRead" /\ loc'[e].then = "idle" /\ loc'[e].f = 0
        /\ loc'[e].read = NoRow
    BY <1>0, <1>3 DEF BindCall, Idle
  <2>3. MarkOf(e)' \subseteq Marks
    BY <1>2, <2>1, <2>2 DEF MarkOf, NoRow
  <2>4. eng[e].hist \subseteq {s}
    BY <1>0 DEF OneSession, EngineType
  <2> QED BY <1>1, <1>2, <1>3, <2>1, <2>2, <2>3, <2>4 DEF Moved, Alone, AloneAt
<1>4. ASSUME NEW s \in Sessions, Start(e, s) PROVE Moved(e, {})
  BY <1>3, <1>4 DEF Start
<1>5. CASE InPlaceBoundary(e)
  <2>1. eng[e].sess \in Sessions /\ life' = life /\ life.present
    BY <1>0, <1>5 DEF InPlaceBoundary, Bound, At, EngineType, SessionOrNull, Alone, AloneAt
  <2>2. CASE eng' = [eng EXCEPT ![e] = Switched(e, eng[e].sess)]
             /\ loc' = [loc EXCEPT ![e] = BindCall(eng[e].sess, "idle")]
    BY <1>3, <2>1, <2>2
  <2>3. CASE eng' = eng /\ loc' = [loc EXCEPT ![e] = BindCall(eng[e].sess, "inplace")]
    <3>1. /\ loc'[e].pc = "bindRead" /\ loc'[e].then = "inplace" /\ loc'[e].f = 0
          /\ loc'[e].read = NoRow
      BY <1>0, <2>3 DEF BindCall, Idle
    <3>2. MarkOf(e)' \subseteq Marks
      BY <2>3, <3>1, MarksOf DEF MarkOf, NoRow
    <3> QED BY <1>1, <1>2, <2>1, <2>3, <3>1, <3>2 DEF Moved, Alone, AloneAt
  <2>4. CASE /\ eng' = eng
             /\ loc' = [loc EXCEPT ![e] = [Idle EXCEPT !.pc = "inplace",
                                                     !.tgt = eng[e].sess, !.read = life]]
    <3>1. /\ loc'[e].pc = "inplace" /\ loc'[e].then = "idle" /\ loc'[e].f = 0
          /\ loc'[e].read = life
      BY <1>0, <2>4 DEF Idle
    <3>2. MarkOf(e)' \subseteq Marks
      BY <2>4, <3>1, MarksOf DEF MarkOf
    <3> QED BY <1>1, <1>2, <2>1, <2>4, <3>1, <3>2 DEF Moved, Alone, AloneAt
  <2> QED BY <1>5, <2>2, <2>3, <2>4 DEF InPlaceBoundary
<1>6. CASE InPlaceAdvance(e)
  <2> DEFINE read == loc[e].read
             resumable == IF read.fin = loc[e].tgt /\ NotResetSince(read)
                          THEN read.finFrontier ELSE 0
             frontier == Larger(eng[e].front, Larger(read.frontier, resumable))
  <2>1. frontier \in {eng[e].front, read.frontier, read.finFrontier, 0}
    BY DEF Larger
  <2>2. frontier \in Nat
    BY <1>0, <2>1 DEF EngineType, LocalType, LifeRow
  <2>3. frontier \in Marks
    BY <2>1, MarksOf
  <2>4. life' = life \/ life' = Advance(life, loc[e].tgt, frontier)
    BY <1>6 DEF InPlaceAdvance
  <2>5. RowKept(life, life', {0, life.frontier, life.finFrontier, frontier})
    <3> HIDE DEF frontier
    <3>1. CASE life' = life
      BY <3>1 DEF RowKept
    <3>2. CASE life' = Advance(life, loc[e].tgt, frontier)
      BY <1>0, <2>2, <3>2, RowsKept, 1 > 0
    <3> QED BY <2>4, <3>1, <3>2
  <2>6. RowKept(life, life', Marks)
    BY <1>2, <2>3, <2>5 DEF RowKept
  <2>7. /\ eng'[e].front \in {life'.frontier, read.frontier} /\ eng'[e].pendF = 0
        /\ eng'[e].sess = eng[e].sess /\ eng'[e].hist = eng[e].hist
        /\ loc'[e] = Idle
    BY <1>0, <1>6 DEF InPlaceAdvance, EngineType
  <2>8. MarkOf(e)' \subseteq Marks
    BY <1>2, <2>6, <2>7, MarksOf, IdleMarks DEF RowKept
  <2>9. /\ life.resetAt > 0 => life'.resetAt > 0
        /\ eng[e].sess # NULL => life'.present
    BY <1>6, <2>6 DEF RowKept, Alone, AloneAt, NoRow, InPlaceAdvance, At
  <2> QED BY <1>1, <2>6, <2>7, <2>8, <2>9 DEF Moved, Alone, AloneAt, Idle
<1> QED BY <1>4, <1>5, <1>6

LEMMA MovedKeeps ==
  ASSUME Typed, Alone, NEW e \in Engines, NEW E, Moved(e, E), life' \in LifeRow
  PROVE  /\ Alone'
         /\ Marks' \subseteq Marks \cup E
         /\ Whole' => Whole /\ NoDelete
<1>0. life \in LifeRow
  BY DEF Typed, TypeOK
<1>1. /\ life.present => life'.present
      /\ life.resetAt > 0 => life'.resetAt > 0
      /\ ~life'.present => life' = NoRow
  BY DEF Moved, RowKept, Alone, NoRow
<1>2. ASSUME NEW o \in Engines PROVE AloneAt(o)'
  <2>1. CASE o = e
    BY <2>1 DEF Moved
  <2>2. CASE o # e
    BY <1>1, <2>2 DEF Moved, Alone, AloneAt
  <2> QED BY <2>1, <2>2
<1>3. Alone'
  BY <1>1, <1>2 DEF Alone
<1>4. Marks' \subseteq Marks \cup E
  <2>1. ASSUME NEW o \in Engines PROVE MarkOf(o)' \subseteq Marks \cup E
    <3>1. CASE o = e
      BY <3>1 DEF Moved
    <3>2. CASE o # e
      BY <3>2, MarksOf DEF Moved, MarkOf
    <3> QED BY <3>1, <3>2
  <2>2. {0, life'.frontier, life'.finFrontier} \subseteq Marks \cup E
    BY DEF Moved, RowKept, Marks
  <2>3. Marks' = {0, life'.frontier, life'.finFrontier} \cup UNION {MarkOf(o)' : o \in Engines}
    BY DEF Marks
  <2> QED BY <2>1, <2>2, <2>3
<1>5. Whole' => Whole
  BY <1>0, <1>1 DEF Whole, LifeRow
<1>6. Whole => NoDelete
  BY <1>0 DEF Whole, NoDelete, Alone, AloneAt, LifeRow
<1> QED BY <1>3, <1>4, <1>5, <1>6

LEMMA StepMoves ==
  ASSUME OneSession, Typed, Alone, Next
  PROVE  \E e \in Engines : Moved(e, {}) \/ (Publish(e) /\ Moved(e, {loc[e].end}))
<1>0. /\ eng \in [Engines -> EngineType] /\ loc \in [Engines -> LocalType]
  BY DEF Typed, TypeOK
<1>1. ASSUME NEW e \in Engines, NEW s \in Sessions,
             \/ EndOffCurrent(e, s) \/ Boundary(e, s)
             \/ \E ign \in BOOLEAN : AppendSuffix(e, s, ign)
             \/ \E then \in {"idle", "carry"} : StartAfterReset(e, s, then)
      PROVE  FALSE
  <2>1. /\ eng[e].sess \in {s, NULL} /\ eng[e].hist \subseteq {s}
        /\ eng[e].hist \subseteq {eng[e].sess}
        /\ eng[e].sess # NULL => eng[e].sess \in eng[e].hist
    BY <1>0 DEF OneSession, EngineType, SessionOrNull, Alone, AloneAt
  <2>2. s # NULL
    BY NullAssumption
  <2>3. loc[e].pc # "offRead"
    BY DEF Alone, AloneAt
  <2> QED BY <1>1, <2>1, <2>2, <2>3 DEF EndOffCurrent, AppendSuffix, Left, At, Boundary,
       StartAfterReset, Bound, Fresh
<1>2. ASSUME NEW e \in Engines,
             \/ FinalizePendingReset(e) \/ CarryOver(e) \/ FinalizeOffCurrent(e)
             \/ BoundaryFinalize(e) \/ BoundaryMove(e) \/ BoundaryAdvance(e)
             \/ \E first \in 1..MaxRows : Rotate(e, first)
      PROVE  FALSE
  BY <1>2 DEF OneSession, Alone, AloneAt, At, FinalizePendingReset, CarryOver,
     FinalizeOffCurrent, BoundaryFinalize, BoundaryMove, BoundaryAdvance, Rotate
<1>3. ~PruneEmpty
  BY DEF OneSession, PruneEmpty
<1> QED
  BY <1>1, <1>2, <1>3, BindMoved, CompressMoved, PublishMoved, EndMoved, StartMoved DEF Next

\* Rows are appended: what is honest stays so while no leaf is deleted.
LEMMA HonestStays ==
  ASSUME Typed, [Next]_vars, Whole' => Whole /\ NoDelete, NEW f \in Nat, Honest(f)
  PROVE  Honest(f)'
<1>0. rows \in Seq([sess : Sessions, ign : BOOLEAN])
  BY DEF Typed, TypeOK
<1>1. /\ Len(rows) \in Nat /\ Len(rows') \in Nat /\ Len(rows) <= Len(rows')
  <2>1. CASE rows' = rows
    BY <1>0, <2>1
  <2> QED BY <1>0, <2>1, Appended, StoreWriters
<1>2. ASSUME Whole', NEW i \in Ids', i <= f PROVE rows'[i].ign \/ i \in Claimed'
  <2>1. i \in Ids
    BY <1>1, <1>2 DEF Ids, Honest
  <2> QED BY <1>2, <2>1, StoreGrows DEF Honest
<1> QED BY <1>1, <1>2 DEF Honest

LEMMA ElementOf == ASSUME NEW S, NEW q \in Seq(S), NEW i \in 1..Len(q) PROVE q[i] \in S
OBVIOUS

\* The frontier a publication makes is honest: below the expected one it was
\* before, and above it every row of the one session is in the leaf or was
\* accounted for.
LEMMA PublishedHonest ==
  ASSUME OneSession, Typed, NEW e \in Engines, Publish(e), [Next]_vars,
         Whole' => Whole /\ NoDelete, LeafAt(e), Honest(loc[e].f),
         NEW f, f = loc[e].end
  PROVE  Honest(f)'
<1>0. /\ loc \in [Engines -> LocalType] /\ eng \in [Engines -> EngineType]
      /\ rows \in Seq([sess : Sessions, ign : BOOLEAN])
      /\ loc[e].f \in Nat /\ loc[e].end \in Nat
  BY BoundsAssumption DEF Typed, TypeOK, LocalType
<1> DEFINE l == loc[e]
           within == {j \in Ids : j > l.f /\ j <= Larger(l.f, l.end)}
<1>1. /\ OwnedWith(eng[e].sess, l.own) \cap within = (l.cov \cup l.exc) \cap within
      /\ l.pc = "publish" /\ rows' = rows /\ eng[e].sess # NULL
      /\ [sess |-> eng[e].sess, src |-> l.cov] \in nodes'
  BY DEF Publish, Publishable, At, Typed, Calls
<1>2. l.end <= Len(rows)
  BY <1>0, <1>1 DEF LeafAt, Ids
<1>3. ASSUME Whole', NEW i \in Ids, i <= l.end PROVE rows[i].ign \/ i \in Claimed'
  <2>1. Claimed \subseteq Claimed' /\ Whole
    BY <1>3, StoreGrows
  <2>2. CASE i <= l.f
    BY <1>0, <2>1, <2>2 DEF Honest
  <2>3. CASE i > l.f
    <3>1. i \in within
      BY <1>0, <1>3, <2>3 DEF Larger, Ids
    <3>2. rows[i].sess = eng[e].sess
      <4>0. rows \in Seq([sess : Sessions, ign : BOOLEAN]) /\ i \in 1..Len(rows)
        BY <1>0 DEF Ids
      <4>1. rows[i] \in [sess : Sessions, ign : BOOLEAN]
        BY <4>0, ElementOf
      <4>2. rows[i].sess \in Sessions /\ eng[e].sess \in Sessions
        BY <1>0, <1>1, <4>1 DEF EngineType, SessionOrNull
      <4> QED BY <4>2 DEF OneSession
    <3>3. i \in l.cov \/ i \in l.exc
      BY <1>1, <3>1, <3>2 DEF OwnedWith
    <3>4. CASE i \in l.cov
      <4>1. Claimed' = UNION {n.src : n \in nodes'}
        BY DEF Claimed
      <4> QED BY <1>1, <3>4, <4>1
    <3>5. CASE i \in l.exc
      BY <1>1, <2>1, <3>5 DEF LeafAt
    <3> QED BY <3>3, <3>4, <3>5
  <2> QED BY <1>0, <2>2, <2>3 DEF Ids
<1>4. Ids' = Ids
  BY <1>1 DEF Ids
<1> QED BY <1>1, <1>2, <1>3, <1>4 DEF Honest

LEMMA LeafStep ==
  ASSUME Typed, [Next]_vars, Whole' => Whole /\ NoDelete, NEW e \in Engines, LeafAt(e)
  PROVE  LeafAt(e)'
<1>0. /\ loc \in [Engines -> LocalType] /\ rows \in Seq([sess : Sessions, ign : BOOLEAN])
  BY DEF Typed, TypeOK
<1>1. Ids \subseteq Ids'
  BY <1>0, Appended, StoreWriters DEF Ids
<1>2. ASSUME loc'[e].pc \in {"expect", "carried", "publish"} PROVE loc'[e].end \in Ids
  <2>1. CASE loc'[e] = loc[e]
    BY <1>2, <2>1 DEF LeafAt
  <2>2. CASE SelectLeaf(e)
    <3>1. loc'[e].end \in ReadableRows(e)
      BY <1>0, <2>2 DEF SelectLeaf, Idle
    <3> QED BY <3>1 DEF ReadableRows, OwnedAbove, Owned, OwnedWith
  <2>3. CASE ReadExpected(e) \/ ReadCarried(e)
    <3>1. loc'[e].end = loc[e].end /\ loc[e].pc \in {"expect", "carried"}
      BY <1>0, <2>3 DEF ReadExpected, ReadCarried, At, LocalType
    <3> QED BY <3>1 DEF LeafAt
  <2> QED BY <1>2, <2>1, <2>2, <2>3, IntoLeaf
<1>3. ASSUME loc'[e].pc \in {"expect", "carried", "publish"}, Whole', NEW k \in loc'[e].exc
      PROVE  k \in Ids /\ (rows[k].ign \/ k \in Claimed)
  <2>1. CASE loc'[e] = loc[e]
    BY <1>3, <2>1 DEF LeafAt
  <2>2. CASE SelectLeaf(e) \/ ReadExpected(e) \/ ReadCarried(e)
    BY <1>3, <2>2, Excluded DEF LeafAt, ReadExpected, ReadCarried, At
  <2> QED BY <1>3, <2>1, <2>2, IntoLeaf
<1>4. ASSUME loc'[e].pc \in {"expect", "carried", "publish"}, Whole', NEW k \in loc'[e].exc
      PROVE  k \in Ids' /\ (rows'[k].ign \/ k \in Claimed')
  BY <1>3, <1>4, StoreGrows
<1> QED BY <1>1, <1>2, <1>4 DEF LeafAt

LEMMA HonestStep ==
  ASSUME OneSession, Typed, HonestInv, [Next]_vars
  PROVE  HonestInv'
<1>0. Typed' /\ life' \in LifeRow /\ life \in LifeRow
  BY TypedStep DEF Typed, TypeOK
<1>1. Alone /\ (\A e \in Engines : LeafAt(e)) /\ (\A f \in Marks : Honest(f))
  BY DEF HonestInv
<1>2. Marks \subseteq Nat
  BY DEF Typed, TypeOK, Marks, MarkOf, EngineType, LocalType, LifeRow
<1>3. CASE UNCHANGED vars
  BY <1>1, <1>3 DEF HonestInv, vars, Alone, AloneAt, LeafAt, Marks, MarkOf, Honest, Whole,
     Ids, Claimed
<1>4. CASE Next
  <2>1. PICK e \in Engines : Moved(e, {}) \/ (Publish(e) /\ Moved(e, {loc[e].end}))
    BY <1>1, <1>4, StepMoves
  <2>2. /\ Alone' /\ (Whole' => Whole /\ NoDelete)
        /\ Marks' \subseteq Marks \/ (Publish(e) /\ Marks' \subseteq Marks \cup {loc[e].end})
    BY <1>0, <1>1, <2>1, MovedKeeps
  <2>3. \A o \in Engines : LeafAt(o)'
    BY <1>1, <2>2, LeafStep
  <2>4. \A f \in Marks : Honest(f)'
    BY <1>1, <1>2, <2>2, HonestStays
  <2>5. ASSUME Publish(e), NEW f, f = loc[e].end PROVE Honest(f)'
    <3>1. LeafAt(e) /\ Honest(loc[e].f)
      BY <1>1, MarksOf
    <3> QED BY <2>2, <2>5, <3>1, PublishedHonest
  <2>6. ASSUME NEW f \in Marks' PROVE Honest(f)'
    BY <2>2, <2>4, <2>5
  <2> QED BY <2>2, <2>3, <2>6 DEF HonestInv
<1> QED BY <1>3, <1>4

\* For any number of engines on one session, with stale ends, resumes, lost
\* compare-and-swaps, in-place boundaries and resets: until a reset deletes
\* leaves, every row at or below the bound frontier is ignored or claimed by a
\* leaf (_bind_plan: "its DAG still claims every source row up to it").
THEOREM FrontierClaimedHolds ==
  ASSUME OneSession
  PROVE  Spec => []FrontierClaimed
<1>1. Init => Typed /\ HonestInv
  <2> SUFFICES ASSUME Init PROVE HonestInv
    BY InitTyped
  <2>1. Alone
    BY DEF Init, Alone, AloneAt, Idle, Unbound
  <2>2. \A e \in Engines : LeafAt(e)
    BY DEF Init, LeafAt, Idle
  <2>3. Marks \subseteq {0}
    BY DEF Init, Marks, MarkOf, Idle, Unbound, NoRow
  <2>4. Honest(0)
    BY DEF Init, Honest, Ids
  <2> QED BY <2>1, <2>2, <2>3, <2>4 DEF HonestInv
<1>2. Typed /\ HonestInv /\ [Next]_vars => (Typed /\ HonestInv)'
  BY TypedStep, HonestStep
<1>3. Typed /\ HonestInv => FrontierClaimed
  <2> SUFFICES ASSUME Typed, HonestInv PROVE FrontierClaimed
    OBVIOUS
  <2>1. Honest(life.frontier)
    BY DEF HonestInv, Marks
  <2> QED BY <2>1 DEF FrontierClaimed, Honest, Whole, Owned, OwnedWith
<1> QED BY <1>1, <1>2, <1>3, PTL DEF Spec

=============================================================================
