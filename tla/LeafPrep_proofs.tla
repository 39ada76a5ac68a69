-------------------------- MODULE LeafPrep_proofs --------------------------
(***************************************************************************)
(* What TLAPS proves of LeafPrep, for any conversations, sessions, routes, *)
(* rows, bounds of the cache and number of shutdowns and changes.          *)
(***************************************************************************)
EXTENDS LeafPrep, Collections_proofs

(* The state is made of the records and functions the steps expect. *)
Shape ==
    /\ DOMAIN wrk = {"pc", "job", "rows", "chain", "leaf"}
    /\ DOMAIN cache = Convs /\ DOMAIN eng = Convs
    /\ \A c \in Convs : DOMAIN eng[c] = {"pc", "leaf", "expected"}

(* A leaf ends at a row it covers, and its text is a function of its rows. *)
Whole(l) == l.end \in DOMAIN l.text /\ l.text = [i \in DOMAIN l.text |-> l.text[i]]

(* Leaves are whole wherever they are kept, and what is queued or cached   *)
(* is of the current generation.  The leaf the worker holds has the        *)
(* generation of its job, which _cache_leaf compares with the current one. *)
CacheInv == \A c \in Convs : \A l \in cache[c] : Whole(l) /\ l.gen = gen
JobInv == \A j \in jobs : j.gen = gen
WorkInv == wrk.pc \in {"check", "store"} =>
               Whole(wrk.leaf) /\ wrk.leaf.gen = wrk.job.gen
EngInv == \A c \in Convs : eng[c].pc = "publish" => Whole(eng[c].leaf)

IInv == Shape /\ CacheInv /\ JobInv /\ WorkInv /\ EngInv

(* The initial states satisfy the invariant. *)
LEMMA InitIInv == Init => IInv
  BY DEF Init, IInv, Shape, CacheInv, JobInv, WorkInv, EngInv, Resting, AtRest

(* A chain is part of the cache. *)
LEMMA ChainInCache == \A c \in Convs : \A f : ChainFrom(c, f) \subseteq cache[c]
  BY DEF ChainFrom

(* What ready_chain leaves of the cache was there. *)
LEMMA ReadyChainKeeps ==
  ASSUME IInv, gen' = gen, NEW c \in Convs, NEW f, NEW gone, ReadyChain(c, f, gone)
  PROVE  CacheInv' /\ DOMAIN cache' = Convs
  <1>1. cache' = [cache EXCEPT ![c] = ChainFrom(c, f) \ gone]
    BY DEF ReadyChain
  <1>2. DOMAIN cache' = Convs
    BY <1>1 DEF IInv, Shape
  <1>3. \A d \in Convs : cache'[d] \subseteq cache[d]
    BY <1>1, ChainInCache DEF IInv, Shape
  <1>4. CacheInv'
    BY <1>3 DEF IInv, CacheInv, Whole
  <1> QED
    BY <1>2, <1>4

(* _remove_locked only removes. *)
LEMMA RemoveKeeps ==
  ASSUME IInv, gen' = gen, NEW c \in Convs, NEW gone, Remove(c, gone)
  PROVE  CacheInv' /\ DOMAIN cache' = Convs
  <1>1. DOMAIN cache' = Convs
    BY DEF Remove, IInv, Shape
  <1>2. \A d \in Convs : cache'[d] \subseteq cache[d]
    BY DEF Remove, IInv, Shape
  <1> QED
    BY <1>1, <1>2 DEF IInv, CacheInv, Whole

(* _cache_leaf adds the worker's leaf, of the current generation, or none. *)
LEMMA CacheLeafKeeps ==
  ASSUME IInv, gen' = gen, wrk.pc = "store", CacheLeaf
  PROVE  CacheInv' /\ DOMAIN cache' = Convs
  <1>1. CASE gen # wrk.job.gen
    BY <1>1 DEF CacheLeaf, IInv, Shape, CacheInv, Whole
  <1>2. CASE gen = wrk.job.gen
    <2> DEFINE conv == wrk.job.conv
               held == [cache EXCEPT ![conv] = @ \cup {wrk.leaf}]
               gone == Evicted(held, Append(Drop(lru, conv), conv), conv)
    <2>1. cache' = [d \in Convs |-> IF d \in gone THEN {} ELSE held[d]]
      <3>1. cache' = Without(held, gone)
        BY <1>2 DEF CacheLeaf
      <3> HIDE DEF held, gone
      <3> QED BY <3>1 DEF Without
    <2>2. \A d \in Convs : held[d] \subseteq cache[d] \cup {wrk.leaf}
      BY DEF IInv, Shape
    <2>3. \A d \in Convs : cache'[d] \subseteq cache[d] \cup {wrk.leaf}
      <3> HIDE DEF held, gone
      <3> QED BY <2>1, <2>2
    <2>4. Whole(wrk.leaf) /\ wrk.leaf.gen = gen
      BY <1>2 DEF IInv, WorkInv
    <2>5. DOMAIN cache' = Convs
      <3> HIDE DEF held, gone
      <3> QED BY <2>1
    <2> QED
      BY <2>3, <2>4, <2>5 DEF IInv, CacheInv, Whole
  <1> QED
    BY <1>1, <1>2

(* Every step keeps the invariant. *)
LEMMA NextIInv == IInv /\ [Next]_vars => IInv'
  <1> SUFFICES ASSUME IInv, [Next]_vars PROVE IInv'
    OBVIOUS
  <1> USE DEF IInv
  <1>1. CASE UNCHANGED vars
    BY <1>1 DEF vars, Shape, CacheInv, JobInv, WorkInv, EngInv, Whole
  <1>2. ASSUME NEW c \in Convs, Enqueue(c) PROVE IInv'
    <2>1. JobInv'
      BY <1>2 DEF Enqueue, Queue, JobInv
    <2> QED
      BY <1>2, <2>1 DEF Enqueue, Shape, CacheInv, WorkInv, EngInv, Whole
  <1>3. ASSUME NEW c \in Convs, Match(c) PROVE IInv'
    <2>1. gen' = gen /\ jobs' = jobs /\ wrk' = wrk
      BY <1>3 DEF Match
    <2>2. CacheInv' /\ DOMAIN cache' = Convs
      <3>1. \E gone : ReadyChain(c, frontier[c], gone)
        BY <1>3 DEF Match
      <3> QED BY <2>1, <3>1, ReadyChainKeeps
    <2>3. EngInv' /\ DOMAIN eng' = Convs
          /\ \A d \in Convs : DOMAIN eng'[d] = {"pc", "leaf", "expected"}
      <3>1. CASE eng' = eng
        BY <3>1 DEF EngInv, Shape, Whole
      <3>2. ASSUME NEW l \in cache[c],
                   eng' = [eng EXCEPT ![c] = [pc |-> "publish", leaf |-> l,
                                              expected |-> frontier[c]]]
            PROVE  EngInv' /\ DOMAIN eng' = Convs
                   /\ \A d \in Convs : DOMAIN eng'[d] = {"pc", "leaf", "expected"}
        <4>1. Whole(l)
          BY <3>2 DEF CacheInv
        <4>2. \A d \in Convs : d # c => eng'[d] = eng[d]
          BY <3>2 DEF Shape
        <4>3. eng'[c].leaf = l /\ DOMAIN eng'[c] = {"pc", "leaf", "expected"}
          BY <3>2 DEF Shape
        <4>4. EngInv'
          BY <4>1, <4>2, <4>3 DEF EngInv, Whole
        <4> QED
          BY <3>2, <4>2, <4>3, <4>4 DEF Shape
      <3> QED
        BY <1>3, <3>1, <3>2 DEF Match
    <2> QED
      BY <2>1, <2>2, <2>3 DEF Shape, JobInv, WorkInv, Whole
  <1>4. ASSUME NEW c \in Convs, PublishPrepared(c) PROVE IInv'
    <2>1. gen' = gen /\ jobs' = jobs /\ wrk' = wrk
      BY <1>4 DEF PublishPrepared
    <2>2. CacheInv' /\ DOMAIN cache' = Convs
      <3>1. CASE UNCHANGED <<cache, lru>>
        BY <3>1, <2>1 DEF CacheInv, Shape, Whole
      <3>2. CASE Reject(c, eng[c].leaf)
        BY <3>2, <2>1, ReadyChainKeeps DEF Reject
      <3> QED
        BY <1>4, <3>1, <3>2 DEF PublishPrepared
    <2>3. EngInv' /\ DOMAIN eng' = Convs
          /\ \A d \in Convs : DOMAIN eng'[d] = {"pc", "leaf", "expected"}
      BY <1>4 DEF PublishPrepared, AtRest, EngInv, Shape, Whole
    <2> QED
      BY <2>1, <2>2, <2>3 DEF Shape, JobInv, WorkInv, Whole
  <1>5. ASSUME NEW c \in Convs, Promoted(c) PROVE IInv'
    <2>1. gen' = gen /\ jobs' = jobs /\ wrk' = wrk
      BY <1>5 DEF Promoted
    <2>2. CacheInv' /\ DOMAIN cache' = Convs
      BY <1>5, <2>1, RemoveKeeps DEF Promoted
    <2>3. EngInv' /\ DOMAIN eng' = Convs
          /\ \A d \in Convs : DOMAIN eng'[d] = {"pc", "leaf", "expected"}
      BY <1>5 DEF Promoted, AtRest, EngInv, Shape, Whole
    <2> QED
      BY <2>1, <2>2, <2>3 DEF Shape, JobInv, WorkInv, Whole
  <1>6. CASE Take
    BY <1>6 DEF Take, Resting, Shape, CacheInv, JobInv, WorkInv, EngInv, Whole
  <1>7. CASE Start \/ Read \/ Ask \/ Check
    <2>1. UNCHANGED <<gen, jobs, cache, eng>>
      BY <1>7 DEF Start, Read, Ask, Check
    <2>2. WorkInv' /\ DOMAIN wrk' = {"pc", "job", "rows", "chain", "leaf"}
      <3>1. CASE Quit
        BY <3>1 DEF Quit, Resting, WorkInv
      <3>2. ASSUME NEW pc \in {"read", "call"}, Goto(pc)
            PROVE  WorkInv' /\ DOMAIN wrk' = {"pc", "job", "rows", "chain", "leaf"}
        BY <3>2 DEF Goto, WorkInv, Shape
      <3>3. CASE wrk.pc = "check" /\ Goto("store")
        <4>1. wrk'.leaf = wrk.leaf /\ wrk'.job = wrk.job
              /\ DOMAIN wrk' = {"pc", "job", "rows", "chain", "leaf"}
          BY <3>3 DEF Goto, Shape
        <4> QED
          BY <3>3, <4>1 DEF WorkInv, Whole
      <3>4. ASSUME NEW r, wrk' = [wrk EXCEPT !.pc = "chain", !.rows = r]
            PROVE  WorkInv' /\ DOMAIN wrk' = {"pc", "job", "rows", "chain", "leaf"}
        BY <3>4 DEF WorkInv, Shape
      <3>5. CASE Read
        BY <3>1, <3>4, <3>5 DEF Read
      <3>6. CASE Start \/ Ask \/ Check
        BY <3>1, <3>2, <3>3, <3>6 DEF Start, Ask, Check
      <3> QED
        BY <1>7, <3>5, <3>6
    <2> QED
      BY <2>1, <2>2 DEF Shape, CacheInv, JobInv, EngInv, Whole
  <1>8. CASE MatchChain
    <2>1. UNCHANGED <<gen, jobs, eng>>
      BY <1>8 DEF MatchChain
    <2>2. WorkInv' /\ DOMAIN wrk' = {"pc", "job", "rows", "chain", "leaf"}
      BY <1>8 DEF MatchChain, WorkInv, Shape
    <2>3. CacheInv' /\ DOMAIN cache' = Convs
      <3>1. CASE wrk.job.conv \in Convs
        BY <1>8, <2>1, <3>1, ReadyChainKeeps DEF MatchChain
      <3>2. CASE wrk.job.conv \notin Convs
        BY <1>8, <2>1, <3>2 DEF MatchChain, ReadyChain, CacheInv, Shape, Whole
      <3> QED BY <3>1, <3>2
    <2> QED
      BY <2>1, <2>2, <2>3 DEF Shape, JobInv, EngInv, Whole
  <1>9. CASE Answer
    <2>1. UNCHANGED <<gen, jobs, cache, eng>>
      BY <1>9 DEF Answer
    <2>2. WorkInv' /\ DOMAIN wrk' = {"pc", "job", "rows", "chain", "leaf"}
      <3>1. CASE Quit
        BY <3>1 DEF Quit, Resting, WorkInv
      <3>2. ASSUME NEW end \in Rest(ChainEnd), NEW ids,
                   ids = {end} \cup {i \in Rest(ChainEnd) : i < end},
                   wrk' = [wrk EXCEPT !.pc = "check", !.leaf =
                     [session |-> wrk.job.session, start |-> ChainEnd,
                      end |-> end, text |-> [i \in ids |-> wrk.rows[i]],
                      route |-> wrk.job.route, gen |-> wrk.job.gen]]
            PROVE  WorkInv' /\ DOMAIN wrk' = {"pc", "job", "rows", "chain", "leaf"}
        <4>1. end \in ids
          BY <3>2
        <4>2. /\ wrk'.leaf.end = end /\ wrk'.leaf.text = [i \in ids |-> wrk.rows[i]]
              /\ wrk'.leaf.gen = wrk'.job.gen
              /\ DOMAIN wrk' = {"pc", "job", "rows", "chain", "leaf"}
          BY <3>2 DEF Shape
        <4> QED
          BY <4>1, <4>2 DEF WorkInv, Whole
      <3> QED
        BY <1>9, <3>1, <3>2 DEF Answer
    <2> QED
      BY <2>1, <2>2 DEF Shape, CacheInv, JobInv, EngInv, Whole
  <1>10. CASE StoreLeaf
    <2>1. UNCHANGED <<gen, jobs, eng>> /\ wrk.pc = "store" /\ CacheLeaf
      BY <1>10 DEF StoreLeaf
    <2>2. CacheInv' /\ DOMAIN cache' = Convs
      BY <2>1, CacheLeafKeeps
    <2>3. WorkInv' /\ DOMAIN wrk' = {"pc", "job", "rows", "chain", "leaf"}
      <3>1. CASE Quit
        BY <3>1 DEF Quit, Resting, WorkInv
      <3>2. CASE wrk' = [wrk EXCEPT !.pc = "ask", !.chain = @ \cup {wrk.leaf}]
        BY <3>2 DEF WorkInv, Shape
      <3> QED
        BY <2>1, <3>1, <3>2 DEF CacheLeaf
    <2> QED
      BY <2>1, <2>2, <2>3 DEF Shape, JobInv, EngInv, Whole
  <1>11. CASE Discard
    BY <1>11 DEF Discard, Change, Shape, CacheInv, JobInv, WorkInv, EngInv, Whole
  <1>12. CASE Restart
    BY <1>12 DEF Restart, Resting, AtRest, Shape, CacheInv, JobInv, WorkInv, EngInv
  <1>13. CASE Around
    BY <1>13 DEF Around, prepVars, Shape, CacheInv, JobInv, WorkInv, EngInv, Whole
  <1> QED
    BY <1>1, <1>2, <1>3, <1>4, <1>5, <1>6, <1>7, <1>8, <1>9, <1>10, <1>11, <1>12,
       <1>13 DEF Next

(* The invariant holds throughout. *)
LEMMA AlwaysIInv == Spec => []IInv
  BY InitIInv, NextIInv, PTL DEF Spec

(* A shutdown or storage rebind leaves no prepared leaf and no queued job  *)
(* behind, the job that is running included: discard bumps the generation  *)
(* and _cache_leaf compares it under the same lock.                        *)
THEOREM DiscardIsFinal == Spec => []NothingSurvivesDiscard
  <1>1. IInv => NothingSurvivesDiscard
    BY DEF IInv, CacheInv, JobInv, NothingSurvivesDiscard
  <1> QED
    BY <1>1, AlwaysIInv, PTL

(* The promotion transaction publishes what LeafPublication allows. *)
LEMMA PromotionImplements ==
  ASSUME IInv, NEW c \in Convs, PublishPrepared(c)
  PROVE  [Pub!PubNext]_pubVars
  <1> DEFINE l == eng[c].leaf
  <1>1. CASE ~(Revalidated(c, l) /\ Fenced(c, l, eng[c].expected))
    BY <1>1 DEF PublishPrepared, pubVars
  <1>2. CASE Revalidated(c, l) /\ Fenced(c, l, eng[c].expected)
    <2> DEFINE ids == Span(rows[c], bound[c], frontier[c], l.end)
    <2>1. DOMAIN l.text = ids
      BY <1>2 DEF Fenced, Ids, CoveredEnd
    <2>2. l.end \in ids /\ l.text = [i \in ids |-> l.text[i]]
      BY <2>1 DEF PublishPrepared, IInv, EngInv, Whole
    <2>3. l.text = Text(rows[c], ids) /\ l.route = route
      BY <1>2, <2>1, <2>2 DEF Revalidated, Ids, Text
    <2>4. l.end \in DOMAIN rows[c]
      BY <2>2 DEF Span
    <2>5. Pub!Publish(c, l.end, TRUE)
      BY <1>2, <2>2, <2>3 DEF PublishPrepared, CoveredEnd, Pub!Publish, Publish,
         Pub!Span, Pub!Text, Span, Text
    <2> QED
      BY <2>4, <2>5 DEF Pub!PubNext
  <1> QED
    BY <1>1, <1>2

(* Every step is a step of LeafPublication, or none. *)
LEMMA StepImplements == IInv /\ [Next]_vars => [Pub!PubNext]_pubVars
  <1> SUFFICES ASSUME IInv, [Next]_vars PROVE [Pub!PubNext]_pubVars
    OBVIOUS
  <1>1. CASE UNCHANGED vars
    BY <1>1 DEF vars, pubVars
  <1>2. ASSUME NEW c \in Convs, PublishPrepared(c) PROVE [Pub!PubNext]_pubVars
    BY <1>2, PromotionImplements
  <1>3. ASSUME NEW c \in Convs, Enqueue(c) \/ Match(c) \/ Promoted(c)
        PROVE  UNCHANGED pubVars
    BY <1>3 DEF Enqueue, Match, Promoted
  <1>4. CASE Take \/ Start \/ Read \/ MatchChain \/ Ask \/ Answer \/ Check \/ StoreLeaf
    BY <1>4 DEF Take, Start, Read, MatchChain, Ask, Answer, Check, StoreLeaf
  <1>5. CASE Discard \/ Restart
    BY <1>5 DEF Discard, Restart
  <1>6. CASE Around
    BY <1>6 DEF Around, Pub!PubNext, Store, Rewrite, Bind, Configure, Publish,
       Pub!Store, Pub!Rewrite, Pub!Bind, Pub!Configure, Pub!Publish,
       Pub!Span, Pub!Text, Pub!NoLeaf, Span, Text, NoLeaf
  <1> QED
    BY <1>1, <1>2, <1>3, <1>4, <1>5, <1>6 DEF Next

(* Preparation in the background implements LeafPublication: whatever      *)
(* happened to the rows, the route, the frontier and the binding since a   *)
(* leaf was made, it is published only as the leaf the committed rows and  *)
(* the configured route give at that moment.                               *)
THEOREM PreparationImplementsPublication == Spec => PublishesCommitted
  <1>1. Init => Pub!PubInit
    BY DEF Init, PubInit, Pub!PubInit, Pub!NoLeaf, NoLeaf
  <1>2. Pub!pubVars = pubVars
    BY DEF Pub!pubVars, pubVars
  <1>3. IInv /\ [Next]_vars => [Pub!PubNext]_(Pub!pubVars)
    BY <1>2, StepImplements DEF Pub!pubVars, pubVars
  <1> QED
    BY <1>1, <1>3, AlwaysIInv, PTL DEF Spec, PublishesCommitted, Pub!PubSpec

-----------------------------------------------------------------------------
(* Types, the queue and the bounds of the cache.                           *)

\* A leaf, whose rows are rows there can be.
Leaf(l) == IsLeaf(l) /\ l.end \in 1..MaxRows

RowsOK ==
    /\ rows \in [Convs -> Seq(Row)] /\ \A c \in Convs : Len(rows[c]) <= MaxRows
    /\ bound \in [Convs -> Sessions]
    /\ frontier \in [Convs -> 0..MaxRows] /\ route \in Fingerprints
    /\ changes \in Nat /\ gen \in Nat /\ gen <= changes /\ changes <= MaxChanges

\* The queue q names each conversation with a job in J once, and J has one job each.
QueueFine(J, q) ==
    /\ J \subseteq Job /\ q \in Seq(Convs)
    /\ \A j, k \in J : j.conv = k.conv => j = k
    /\ \A i, j \in 1..Len(q) : q[i] = q[j] => i = j
    /\ \A i \in 1..Len(q) : \E j \in J : j.conv = q[i]
    /\ \A j \in J : \E i \in 1..Len(q) : q[i] = j.conv

\* The cache k with the order u of its keys.
CacheFine(k, u) ==
    /\ DOMAIN k = Convs
    /\ \A c \in Convs :
         /\ IsFiniteSet(k[c]) /\ Cardinality(k[c]) <= PerConversation
         /\ \A l \in k[c] : Leaf(l)
         /\ \A l, m \in k[c] : l.start = m.start => l = m
    /\ u \in Seq(Convs) /\ Elements(u) = {c \in Convs : k[c] # {}}
    /\ Cached(k) <= PerProcess

\* The worker w on the cache k: once it has matched the chain, the cached leaves of
\* its conversation are among those it has counted, and the leaf it makes follows
\* them all.
Matched(w) == w.pc \in {"ask", "call", "check", "store"}
WorkFine(w, k) ==
    /\ DOMAIN w = {"pc", "job", "rows", "chain", "leaf"}
    /\ w.pc \in {"idle", "start", "read", "chain", "ask", "call", "check", "store"}
    /\ w.pc # "idle" => w.job \in Job
    /\ w.pc \notin {"idle", "start", "read"} => DOMAIN w.rows \subseteq 1..MaxRows
    /\ Matched(w) =>
          /\ IsFiniteSet(w.chain) /\ Cardinality(w.chain) <= PerConversation
          /\ \A l \in w.chain : Leaf(l)
          /\ k[w.job.conv] \subseteq w.chain
    /\ w.pc \in {"call", "check", "store"} => Cardinality(w.chain) < PerConversation
    /\ w.pc \in {"check", "store"} =>
          /\ Leaf(w.leaf)
          /\ \A l \in w.chain : l.end <= w.leaf.start

EngOK ==
    /\ DOMAIN eng = Convs
    /\ \A c \in Convs :
         /\ eng[c].pc \in {"idle", "publish", "promoted"}
         /\ eng[c].pc # "idle" => Leaf(eng[c].leaf)

BInv == RowsOK /\ QueueFine(jobs, queue) /\ CacheFine(cache, lru) /\ WorkFine(wrk, cache) /\ EngOK

(* What the constants are. *)
LEMMA Numbers ==
  /\ MaxRows \in Nat /\ MaxVersion \in Nat /\ FreshTail \in Nat /\ MaxChanges \in Nat
  /\ PerConversation \in Nat /\ PerConversation > 0 /\ PerProcess \in Nat
  /\ PerConversation <= PerProcess /\ IsFiniteSet(Convs)
  BY PrepAssumption, PublicationAssumption

(* Dropping a conversation from an order. *)
LEMMA DropElements ==
  ASSUME NEW u \in Seq(Convs), NEW gone
  PROVE  /\ Kept(u, Convs \ gone) \in Seq(Convs)
         /\ Elements(Kept(u, Convs \ gone)) = Elements(u) \ gone
  <1> DEFINE keep == Convs \ gone
             t == Kept(u, keep)
  <1>1. t \in Seq(Convs)
    BY KeptFilters
  <1>2. /\ \A i \in 1..Len(t) : t[i] \in keep /\ \E j \in 1..Len(u) : t[i] = u[j]
        /\ \A j \in 1..Len(u) : u[j] \in keep => \E i \in 1..Len(t) : t[i] = u[j]
    <2> HIDE DEF keep
    <2> QED BY KeptElements
  <1> HIDE DEF t
  <1>3. DOMAIN t = 1..Len(t) /\ DOMAIN u = 1..Len(u) /\ \A j \in 1..Len(u) : u[j] \in Convs
    BY <1>1
  <1>4. Elements(t) \subseteq Elements(u) \ gone
    BY <1>2, <1>3 DEF Elements
  <1>5. Elements(u) \ gone \subseteq Elements(t)
    BY <1>2, <1>3 DEF Elements
  <1> QED BY <1>1, <1>4, <1>5 DEF t

(* Adding one at the end of an order. *)
LEMMA AppendElements ==
  ASSUME NEW u \in Seq(Convs), NEW c \in Convs
  PROVE  Append(u, c) \in Seq(Convs) /\ Elements(Append(u, c)) = Elements(u) \cup {c}
  <1> DEFINE t == Append(u, c)
  <1>1. t \in Seq(Convs) /\ Len(t) = Len(u) + 1 /\ t[Len(u) + 1] = c
        /\ \A i \in 1..Len(u) : t[i] = u[i]
    OBVIOUS
  <1> HIDE DEF t
  <1>2. DOMAIN t = 1..(Len(u) + 1) /\ DOMAIN u = 1..Len(u) /\ Len(u) \in Nat
    BY <1>1
  <1>3. Elements(t) \subseteq Elements(u) \cup {c}
    <2> SUFFICES ASSUME NEW i \in 1..(Len(u) + 1) PROVE t[i] \in Elements(u) \cup {c}
      BY <1>2 DEF Elements
    <2>1. CASE i = Len(u) + 1
      BY <1>1, <2>1
    <2>2. CASE i # Len(u) + 1
      <3>1. i \in 1..Len(u)
        BY <1>2, <2>2
      <3> QED BY <1>1, <1>2, <3>1 DEF Elements
    <2> QED BY <2>1, <2>2
  <1>4. Elements(u) \subseteq Elements(t) /\ c \in Elements(t)
    <2>1. \A i \in 1..Len(u) : i \in 1..(Len(u) + 1)
      BY <1>2
    <2>2. Len(u) + 1 \in 1..(Len(u) + 1)
      BY <1>2
    <2> QED BY <1>1, <1>2, <2>1, <2>2 DEF Elements
  <1> QED BY <1>1, <1>3, <1>4 DEF t

(* The number of cached leaves of each conversation. *)
Counts(k) == [c \in Convs |-> Cardinality(k[c])]
AllFinite(k) == \A c \in Convs : IsFiniteSet(k[c])

(* The sizes of a finite cache are natural, and so is their sum. *)
LEMMA CountsType ==
  ASSUME NEW k, AllFinite(k)
  PROVE  Counts(k) \in [Convs -> Nat] /\ Cached(k) = SumFunction(Counts(k)) /\ Cached(k) \in Nat
  <1>1. \A c \in Convs : Cardinality(k[c]) \in Nat
    BY FS_CardinalityType DEF AllFinite
  <1>2. Counts(k) \in [Convs -> Nat]
    BY <1>1 DEF Counts
  <1>3. Cached(k) = SumFunction(Counts(k))
    BY DEF Cached, Counts
  <1>4. SumFunction(Counts(k)) \in Nat
    BY <1>2, Numbers, SumType
  <1> QED BY <1>2, <1>3, <1>4

(* An empty cache counts nothing. *)
LEMMA CachedNone ==
  ASSUME NEW k, \A c \in Convs : k[c] = {}
  PROVE  Cached(k) = 0 /\ AllFinite(k)
  <1>1. AllFinite(k)
    BY FS_EmptySet DEF AllFinite
  <1>2. \A c \in Convs : Counts(k)[c] = 0
    BY FS_EmptySet DEF Counts
  <1> QED BY <1>1, <1>2, CountsType, SumOfZeros, Numbers

(* A cache that holds the leaves of one conversation counts those. *)
LEMMA CachedOne ==
  ASSUME NEW k, AllFinite(k), NEW own \in Convs, \A c \in Convs \ {own} : k[c] = {}
  PROVE  Cached(k) = Cardinality(k[own])
  <1>1. \A c \in Convs \ {own} : Counts(k)[c] = 0
    BY FS_EmptySet DEF Counts
  <1>2. Counts(k)[own] = Cardinality(k[own])
    BY DEF Counts
  <1> QED BY <1>1, <1>2, CountsType, SumOfOne, Numbers

(* Leaves leave one conversation. *)
LEMMA CachedShrinks ==
  ASSUME NEW k, DOMAIN k = Convs, AllFinite(k), NEW c \in Convs, NEW T, T \subseteq k[c],
         NEW m, m = [k EXCEPT ![c] = T]
  PROVE  AllFinite(m) /\ Cached(m) <= Cached(k)
  <1>1. IsFiniteSet(T) /\ Cardinality(T) <= Cardinality(k[c])
    BY FS_Subset DEF AllFinite
  <1>2. DOMAIN m = Convs /\ \A d \in Convs : m[d] = IF d = c THEN T ELSE k[d]
    OBVIOUS
  <1>3. AllFinite(m)
    BY <1>1, <1>2 DEF AllFinite
  <1> DEFINE f == Counts(k)
             v == Cardinality(T)
  <1>4. v \in Nat /\ f[c] = Cardinality(k[c])
    BY <1>1, FS_CardinalityType DEF Counts
  <1>5. Counts(m) = [f EXCEPT ![c] = v]
    BY <1>2 DEF Counts
  <1>6. f \in [Convs -> Nat] /\ Cached(k) = SumFunction(f) /\ SumFunction(f) \in Nat
        /\ Cached(m) = SumFunction(Counts(m))
    BY <1>3, CountsType
  <1> HIDE DEF f, v
  <1>7. SumFunction([f EXCEPT ![c] = v]) = SumFunction(f) - f[c] + v
    <2>1. IsFiniteSet(Convs) /\ v \in Nat /\ f \in [Convs -> Nat]
      BY <1>4, <1>6, Numbers
    <2> QED BY <2>1, SumUpdate
  <1>8. f[c] \in Nat /\ v <= f[c]
    BY <1>1, <1>4, <1>6 DEF v
  <1> QED BY <1>3, <1>4, <1>5, <1>6, <1>7, <1>8

(* The least member of a set of naturals is its Min. *)
LEMMA MinIsLeast ==
  ASSUME NEW S \in SUBSET Nat, S # {}
  PROVE  Min(S) \in S
  <1>1. \E n \in S : \A m \in S : n <= m
    BY LeastNat
  <1> QED BY <1>1 DEF Min

(* The greatest member of a bounded set of naturals is its Max. *)
LEMMA MaxIsGreatest ==
  ASSUME NEW S \in SUBSET Nat, S # {}, NEW b \in Nat, \A x \in S : x <= b
  PROVE  Max(S) \in S /\ \A x \in S : x <= Max(S)
  <1>1. \E n \in S : \A m \in S : m <= n
    BY LargestNat
  <1>2. \E n \in S : \A m \in S : n >= m
    BY <1>1
  <1>3. Max(S) \in S /\ \A x \in S : Max(S) >= x
    BY <1>2 DEF Max
  <1> QED BY <1>3

(* The elements of a prefix. *)
LEMMA PrefixElements ==
  ASSUME NEW s \in Seq(Convs), NEW n \in 0..Len(s)
  PROVE  Elements(SubSeq(s, 1, n)) = {s[i] : i \in 1..n}
  <1> DEFINE t == SubSeq(s, 1, n)
  <1>1. DOMAIN t = 1..n /\ \A i \in 1..n : t[i] = s[i]
    <2>1. Len(s) \in Nat /\ n \in Nat /\ n <= Len(s)
      OBVIOUS
    <2> QED BY <2>1
  <1> HIDE DEF t
  <1>2. Elements(t) = {s[i] : i \in 1..n}
    BY <1>1 DEF Elements
  <1> QED BY <1>2 DEF t

(* The point n at which the eviction loop stops, and the keys before it. *)
First(order, n) == {order[i] : i \in 1..n}
Stops(k, order, own, n) ==
    \/ Cached(Without(k, Elements(SubSeq(order, 1, n)))) <= PerProcess
    \/ n = Len(order)
    \/ order[n + 1] = own

(* The eviction loop evicts the keys before the point where it stops. *)
LEMMA EvictedPrefix ==
  ASSUME NEW k, NEW order \in Seq(Convs), NEW own
  PROVE  \E n \in 0..Len(order) :
            Stops(k, order, own, n) /\ Evicted(k, order, own) = First(order, n)
  <1> DEFINE S == {n \in 0..Len(order) : Stops(k, order, own, n)}
  <1>1. Evicted(k, order, own) = Elements(SubSeq(order, 1, Min(S)))
    BY DEF Evicted, Stops
  <1>2. S \in SUBSET Nat /\ S # {}
    <2>1. Len(order) \in Nat /\ Len(order) \in 0..Len(order)
      OBVIOUS
    <2>2. Stops(k, order, own, Len(order))
      BY DEF Stops
    <2> QED BY <2>1, <2>2
  <1>3. Min(S) \in S
    <2> HIDE DEF S
    <2> QED BY <1>2, MinIsLeast
  <1> DEFINE n == Min(S)
  <1>4. n \in 0..Len(order) /\ Stops(k, order, own, n)
    BY <1>3
  <1>5. Evicted(k, order, own) = Elements(SubSeq(order, 1, n))
    BY <1>1
  <1> HIDE DEF S, n
  <1> QED BY <1>4, <1>5, PrefixElements DEF First

(* The loop of _cache_leaf ends below the bound: it stops at the job's own *)
(* conversation only when no other has a leaf left, and one conversation   *)
(* alone stays below the bound of the process.                             *)
LEMMA EvictionFits ==
  ASSUME NEW k, AllFinite(k), NEW u \in Seq(Convs), NEW own \in Convs,
         own \notin Elements(u), \A c \in Convs \ {own} : k[c] # {} => c \in Elements(u),
         Cardinality(k[own]) <= PerProcess
  PROVE  Cached(Without(k, Evicted(k, Append(u, own), own))) <= PerProcess
  <1> DEFINE order == Append(u, own)
             gone == Evicted(k, order, own)
             m == Without(k, gone)
  <1>1. order \in Seq(Convs) /\ Len(order) = Len(u) + 1 /\ order[Len(u) + 1] = own
        /\ (\A i \in 1..Len(u) : order[i] = u[i]) /\ Len(u) \in Nat /\ DOMAIN u = 1..Len(u)
    OBVIOUS
  <1> HIDE DEF order
  <1>2. PICK n \in 0..Len(order) :
            Stops(k, order, own, n) /\ gone = First(order, n)
    BY <1>1, EvictedPrefix
  <1>3. gone = Elements(SubSeq(order, 1, n))
    BY <1>1, <1>2, PrefixElements DEF First
  <1> HIDE DEF gone
  <1>4. \A c \in Convs : m[c] = IF c \in gone THEN {} ELSE k[c]
    BY DEF Without
  <1>5. AllFinite(m)
    BY <1>4, FS_EmptySet DEF AllFinite
  <1>6. PerProcess \in Nat
    BY Numbers
  <1>7. \A i \in 1..Len(u) : u[i] \in Elements(u)
    BY <1>1 DEF Elements
  <1>8. Elements(u) = {u[i] : i \in 1..Len(u)}
    BY <1>1 DEF Elements
  <1>9. CASE Cached(m) <= PerProcess
    BY <1>9 DEF m, gone, order
  <1>10. CASE n = Len(order)
    <2>1. \A c \in Elements(u) \cup {own} : c \in gone
      <3>1. \A i \in 1..Len(u) : i \in 1..n /\ order[i] = u[i]
        BY <1>1, <1>10
      <3>2. Len(u) + 1 \in 1..n /\ order[Len(u) + 1] = own
        BY <1>1, <1>10
      <3> QED BY <1>2, <1>8, <3>1, <3>2 DEF First
    <2>2. \A c \in Convs : m[c] = {}
      BY <1>4, <2>1
    <2>3. Cached(m) = 0
      <3> HIDE DEF m
      <3> QED BY <2>2, CachedNone
    <2> QED BY <1>6, <2>3 DEF m, gone, order
  <1>11. CASE n # Len(order) /\ order[n + 1] = own
    <2>1. n = Len(u)
      <3>1. n \in Nat /\ n <= Len(u) /\ Len(u) \in Nat
        BY <1>1, <1>11
      <3>2. CASE n < Len(u)
        <4>1. n + 1 \in 1..Len(u)
          BY <1>1, <3>1, <3>2
        <4> QED BY <1>1, <1>7, <1>11, <4>1
      <3> QED BY <3>1, <3>2
    <2>2. gone = Elements(u)
      BY <1>1, <1>2, <1>8, <2>1 DEF First
    <2>3. \A c \in Convs \ {own} : m[c] = {}
      BY <1>4, <2>2
    <2>4. m[own] = k[own]
      BY <1>4, <2>2
    <2>5. Cached(m) = Cardinality(k[own])
      <3> HIDE DEF m
      <3> QED BY <1>5, <2>3, <2>4, CachedOne
    <2> QED BY <1>6, <2>5 DEF m, gone, order
  <1> QED BY <1>2, <1>3, <1>9, <1>10, <1>11 DEF Stops, m

(* Leaves leave the cache of a conversation, and its key the order with    *)
(* the last of them.                                                       *)
LEMMA CacheCut ==
  ASSUME NEW k, NEW u, CacheFine(k, u), NEW c \in Convs, NEW T, T \subseteq k[c],
         NEW v \in Seq(Convs), T = {} => Elements(v) = Elements(u) \ {c},
         T # {} => Elements(v) = Elements(u) \cup {c}
  PROVE  CacheFine([k EXCEPT ![c] = T], v)
  <1> DEFINE m == [k EXCEPT ![c] = T]
  <1>1. DOMAIN k = Convs /\ AllFinite(k)
    BY DEF CacheFine, AllFinite
  <1>2. DOMAIN m = Convs /\ m[c] = T /\ \A d \in Convs : d # c => m[d] = k[d]
    BY <1>1
  <1>3. AllFinite(m) /\ Cached(m) <= Cached(k)
    BY <1>1, CachedShrinks
  <1>4. Cached(m) \in Nat /\ Cached(k) \in Nat /\ PerProcess \in Nat /\ PerConversation \in Nat
    <2> HIDE DEF m
    <2> QED BY <1>1, <1>3, CountsType, Numbers
  <1> HIDE DEF m
  <1>5. Cached(m) <= PerProcess
    <2>1. Cached(k) <= PerProcess
      BY DEF CacheFine
    <2> QED BY <1>3, <1>4, <2>1
  <1>6. \A d \in Convs : m[d] \subseteq k[d]
    BY <1>2
  <1>7. \A d \in Convs : IsFiniteSet(m[d]) /\ Cardinality(m[d]) <= PerConversation
    <2> TAKE d \in Convs
    <2>1. IsFiniteSet(k[d]) /\ Cardinality(k[d]) <= PerConversation
      BY DEF CacheFine
    <2>2. IsFiniteSet(m[d]) /\ Cardinality(m[d]) <= Cardinality(k[d])
      BY <1>6, <2>1, FS_Subset
    <2>3. Cardinality(m[d]) \in Nat /\ Cardinality(k[d]) \in Nat
      BY <2>1, <2>2, FS_CardinalityType
    <2> QED BY <1>4, <2>1, <2>2, <2>3
  <1>8. \A d \in Convs : (\A l \in m[d] : Leaf(l))
                         /\ (\A l, n \in m[d] : l.start = n.start => l = n)
    BY <1>6 DEF CacheFine
  <1>9. Elements(v) = {d \in Convs : m[d] # {}}
    BY <1>2 DEF CacheFine
  <1>10. CacheFine(m, v)
    BY <1>2, <1>5, <1>7, <1>8, <1>9 DEF CacheFine
  <1> QED BY <1>10 DEF m

(* _cache_leaf: the new leaves of a conversation go in, and the oldest     *)
(* conversations out.                                                      *)
LEMMA CacheFill ==
  ASSUME NEW k, NEW u, CacheFine(k, u), NEW c \in Convs, NEW T, IsFiniteSet(T), T # {},
         Cardinality(T) <= PerConversation, \A l \in T : Leaf(l),
         \A l, n \in T : l.start = n.start => l = n,
         NEW held, held = [k EXCEPT ![c] = T],
         NEW order, order = Append(Drop(u, c), c),
         NEW gone, gone = Evicted(held, order, c)
  PROVE  CacheFine(Without(held, gone), Kept(order, Convs \ gone))
  <1> DEFINE m == Without(held, gone)
             d0 == Drop(u, c)
             v == Kept(order, Convs \ gone)
  <1>1. DOMAIN k = Convs /\ u \in Seq(Convs) /\ Elements(u) = {d \in Convs : k[d] # {}}
    BY DEF CacheFine
  <1>2. DOMAIN held = Convs /\ held[c] = T /\ \A d \in Convs : d # c => held[d] = k[d]
    BY <1>1
  <1>3. d0 \in Seq(Convs) /\ Elements(d0) = Elements(u) \ {c}
    BY <1>1, DropElements DEF Drop
  <1> HIDE DEF d0
  <1>4. order \in Seq(Convs) /\ Elements(order) = Elements(d0) \cup {c} /\ order = Append(d0, c)
    BY <1>3, AppendElements DEF d0
  <1>5. Elements(order) = {d \in Convs : held[d] # {}}
    BY <1>1, <1>2, <1>3, <1>4
  <1>6. v \in Seq(Convs) /\ Elements(v) = Elements(order) \ gone
    BY <1>4, DropElements
  <1>7. DOMAIN m = Convs /\ \A d \in Convs : m[d] = IF d \in gone THEN {} ELSE held[d]
    BY DEF Without
  <1>8. AllFinite(held)
    BY <1>2 DEF AllFinite, CacheFine
  <1>9. Cached(m) <= PerProcess
    <2>1. Cardinality(held[c]) <= PerProcess
      <3>1. Cardinality(T) \in Nat
        BY FS_CardinalityType
      <3> QED BY <1>2, <3>1, Numbers
    <2>2. c \notin Elements(d0) /\ \A d \in Convs \ {c} : held[d] # {} => d \in Elements(d0)
      BY <1>1, <1>2, <1>3
    <2> QED BY <1>3, <1>4, <1>8, <2>1, <2>2, EvictionFits
  <1> HIDE DEF m, v
  <1>10. \A d \in Convs : m[d] = {} \/ m[d] = k[d] \/ m[d] = T
    BY <1>2, <1>7
  <1>11. \A d \in Convs :
            /\ IsFiniteSet(m[d]) /\ Cardinality(m[d]) <= PerConversation
            /\ \A l \in m[d] : Leaf(l)
            /\ \A l, n \in m[d] : l.start = n.start => l = n
    <2> TAKE d \in Convs
    <2>1. IsFiniteSet({}) /\ Cardinality({}) <= PerConversation
      BY FS_EmptySet, Numbers
    <2> QED BY <1>10, <2>1 DEF CacheFine
  <1>12. Elements(v) = {d \in Convs : m[d] # {}}
    BY <1>5, <1>6, <1>7
  <1>13. CacheFine(m, v)
    BY <1>6, <1>7, <1>9, <1>11, <1>12 DEF CacheFine
  <1> QED BY <1>13 DEF m, v

(* What the worker has matched stays above what is left of the cache. *)
LEMMA WorkOutlives ==
  ASSUME NEW w, NEW k, NEW m, WorkFine(w, k), \A c \in Convs : m[c] \subseteq k[c]
  PROVE  WorkFine(w, m)
  <1>1. Matched(w) => w.job.conv \in Convs
    BY DEF WorkFine, Matched, Job
  <1>2. Matched(w) => m[w.job.conv] \subseteq w.chain
    BY <1>1 DEF WorkFine
  <1> QED BY <1>2 DEF WorkFine

(* The queue is as long as there are jobs. *)
LEMMA QueueCounts ==
  ASSUME NEW J, NEW q, QueueFine(J, q)
  PROVE  Len(q) = Cardinality(J) /\ {q[i] : i \in DOMAIN q} = {j.conv : j \in J}
  <1> DEFINE f == [i \in 1..Len(q) |-> CHOOSE j \in J : j.conv = q[i]]
  <1>1. q \in Seq(Convs) /\ Len(q) \in Nat /\ DOMAIN q = 1..Len(q)
    BY DEF QueueFine
  <1>2. \A i \in 1..Len(q) : f[i] \in J /\ f[i].conv = q[i]
    BY DEF QueueFine
  <1>3. f \in [1..Len(q) -> J]
    BY <1>2
  <1> HIDE DEF f
  <1>4. \A i, j \in 1..Len(q) : f[i] = f[j] => i = j
    BY <1>2 DEF QueueFine
  <1>5. \A j \in J : \E i \in 1..Len(q) : f[i] = j
    <2> SUFFICES ASSUME NEW j \in J PROVE \E i \in 1..Len(q) : f[i] = j
      OBVIOUS
    <2>1. PICK i \in 1..Len(q) : q[i] = j.conv
      BY DEF QueueFine
    <2>2. f[i] \in J /\ f[i].conv = j.conv
      BY <1>2, <2>1
    <2>3. f[i] = j
      BY <2>2 DEF QueueFine
    <2> QED BY <2>3
  <1>6. f \in Injection(1..Len(q), J) /\ f \in Surjection(1..Len(q), J)
    BY <1>3, <1>4, <1>5 DEF Injection, Surjection, IsInjective
  <1>7. ExistsBijection(1..Len(q), J)
    BY <1>6 DEF ExistsBijection, Bijection
  <1>8. Len(q) = Cardinality(J)
    BY <1>1, <1>7, FS_CountingElements
  <1>9. {q[i] : i \in DOMAIN q} = {j.conv : j \in J}
    BY <1>1 DEF QueueFine
  <1> QED BY <1>8, <1>9

(* A newer job of a conversation takes the place of its older one. *)
LEMMA QueueRenews ==
  ASSUME NEW J, NEW q, QueueFine(J, q), NEW job \in Job, NEW c \in Convs, job.conv = c
  PROVE  QueueFine({old \in J : old.conv # c} \cup {job}, Append(Drop(q, c), c))
  <1> DEFINE K == {old \in J : old.conv # c} \cup {job}
             keep == Convs \ {c}
             t == Kept(q, keep)
             p == Append(t, c)
  <1>1. q \in Seq(Convs) /\ Len(q) \in Nat
    BY DEF QueueFine
  <1>2. t \in Seq(Convs)
    BY <1>1, KeptFilters
  <1>3. /\ \A i \in 1..Len(t) : t[i] \in keep /\ \E j \in 1..Len(q) : t[i] = q[j]
        /\ \A j \in 1..Len(q) : q[j] \in keep => \E i \in 1..Len(t) : t[i] = q[j]
    <2> HIDE DEF keep
    <2> QED BY <1>1, KeptElements
  <1>4. \A i, j \in 1..Len(t) : t[i] = t[j] => i = j
    <2>1. \A i, j \in 1..Len(q) : q[i] = q[j] => i = j
      BY DEF QueueFine
    <2> HIDE DEF keep
    <2> QED BY <1>1, <2>1, KeptOnce
  <1> HIDE DEF t
  <1>5. p \in Seq(Convs) /\ Len(p) = Len(t) + 1 /\ p[Len(t) + 1] = c /\ Len(t) \in Nat
        /\ \A i \in 1..Len(t) : p[i] = t[i]
    BY <1>2
  <1> HIDE DEF p
  <1>6. \A i \in 1..Len(p) : i = Len(t) + 1 \/ (i \in 1..Len(t) /\ i # Len(t) + 1)
    BY <1>5
  <1>7. \A i \in 1..Len(t) : t[i] # c /\ i \in 1..Len(p)
    BY <1>3, <1>5
  <1>8. \A i, j \in 1..Len(p) : p[i] = p[j] => i = j
    <2> SUFFICES ASSUME NEW i \in 1..Len(p), NEW j \in 1..Len(p), p[i] = p[j] PROVE i = j
      OBVIOUS
    <2>1. CASE i = Len(t) + 1
      BY <1>5, <1>6, <1>7, <2>1
    <2>2. CASE i \in 1..Len(t)
      BY <1>4, <1>5, <1>6, <1>7, <2>2
    <2> QED BY <1>6, <2>1, <2>2
  <1>9. K \subseteq Job
    BY DEF QueueFine
  <1>10. \A j, k \in K : j.conv = k.conv => j = k
    BY DEF QueueFine
  <1>11. \A i \in 1..Len(p) : \E j \in K : j.conv = p[i]
    <2> SUFFICES ASSUME NEW i \in 1..Len(p) PROVE \E j \in K : j.conv = p[i]
      OBVIOUS
    <2>1. CASE i = Len(t) + 1
      BY <1>5, <2>1
    <2>2. CASE i \in 1..Len(t)
      <3>1. PICK n \in 1..Len(q) : t[i] = q[n]
        BY <1>3, <2>2
      <3>2. PICK j \in J : j.conv = q[n]
        BY DEF QueueFine
      <3>3. j.conv = p[i] /\ j.conv # c
        BY <1>5, <1>7, <2>2, <3>1, <3>2
      <3> QED BY <3>3
    <2> QED BY <1>6, <2>1, <2>2
  <1>12. \A j \in K : \E i \in 1..Len(p) : p[i] = j.conv
    <2> SUFFICES ASSUME NEW j \in K PROVE \E i \in 1..Len(p) : p[i] = j.conv
      OBVIOUS
    <2>1. CASE j = job
      <3>1. Len(t) + 1 \in 1..Len(p)
        BY <1>5
      <3> QED BY <1>5, <2>1, <3>1
    <2>2. CASE j \in J /\ j.conv # c
      <3>1. PICK n \in 1..Len(q) : q[n] = j.conv
        BY <2>2 DEF QueueFine
      <3>2. q[n] \in keep
        BY <1>1, <2>2, <3>1
      <3>3. PICK i \in 1..Len(t) : t[i] = q[n]
        BY <1>3, <3>2
      <3> QED BY <1>5, <1>7, <3>1, <3>3
    <2> QED BY <2>1, <2>2
  <1> HIDE DEF K
  <1>13. QueueFine(K, p)
    BY <1>5, <1>8, <1>9, <1>10, <1>11, <1>12 DEF QueueFine
  <1> QED BY <1>13 DEF K, p, t, keep, Drop

(* The worker takes the oldest job. *)
LEMMA QueueAdvances ==
  ASSUME NEW J, NEW q, QueueFine(J, q), q # << >>, NEW job \in J, job.conv = Head(q)
  PROVE  QueueFine(J \ {job}, Tail(q))
  <1> DEFINE t == Tail(q)
             K == J \ {job}
  <1>1. q \in Seq(Convs) /\ Len(q) \in Nat /\ Len(q) > 0 /\ job.conv = q[1]
    BY DEF QueueFine
  <1>2. t \in Seq(Convs) /\ Len(t) = Len(q) - 1 /\ \A i \in 1..Len(t) : t[i] = q[i + 1]
    BY <1>1
  <1> HIDE DEF t
  <1>3. \A i \in 1..Len(t) : i + 1 \in 1..Len(q) /\ i + 1 # 1 /\ i \in Nat
    BY <1>1, <1>2
  <1>4. \A i, j \in 1..Len(t) : t[i] = t[j] => i = j
    <2> SUFFICES ASSUME NEW i \in 1..Len(t), NEW j \in 1..Len(t), t[i] = t[j] PROVE i = j
      OBVIOUS
    <2>1. i + 1 \in 1..Len(q) /\ j + 1 \in 1..Len(q) /\ q[i + 1] = q[j + 1]
      BY <1>2, <1>3
    <2>2. i + 1 = j + 1
      BY <2>1 DEF QueueFine
    <2> QED BY <1>3, <2>2
  <1>5. 1 \in 1..Len(q)
    BY <1>1
  <1>6. \A i \in 1..Len(t) : \E j \in K : j.conv = t[i]
    <2> SUFFICES ASSUME NEW i \in 1..Len(t) PROVE \E j \in K : j.conv = t[i]
      OBVIOUS
    <2>1. PICK j \in J : j.conv = q[i + 1]
      BY <1>3 DEF QueueFine
    <2>2. q[i + 1] # q[1]
      BY <1>3, <1>5 DEF QueueFine
    <2> QED BY <1>1, <1>2, <2>1, <2>2
  <1>7. \A j \in K : \E i \in 1..Len(t) : t[i] = j.conv
    <2> SUFFICES ASSUME NEW j \in K PROVE \E i \in 1..Len(t) : t[i] = j.conv
      OBVIOUS
    <2>1. PICK n \in 1..Len(q) : q[n] = j.conv
      BY DEF QueueFine
    <2>2. j.conv # job.conv
      BY DEF QueueFine
    <2>3. n # 1 /\ n \in Nat
      BY <1>1, <2>1, <2>2
    <2>4. n - 1 \in 1..Len(t) /\ (n - 1) + 1 = n
      BY <1>1, <1>2, <2>3
    <2>5. t[n - 1] = q[n]
      BY <1>2, <2>4
    <2> QED BY <2>1, <2>4, <2>5
  <1>8. K \subseteq Job /\ \A j, k \in K : j.conv = k.conv => j = k
    BY DEF QueueFine
  <1> HIDE DEF K
  <1>9. QueueFine(K, t)
    BY <1>2, <1>4, <1>6, <1>7, <1>8 DEF QueueFine
  <1> QED BY <1>9 DEF K, t

(* An empty queue. *)
LEMMA QueueEmpty == QueueFine({}, << >>)
  BY DEF QueueFine

(* The cache after ready_chain. *)
LEMMA ReadyChainFine ==
  ASSUME CacheFine(cache, lru), NEW c \in Convs, NEW f, NEW gone, ReadyChain(c, f, gone)
  PROVE  CacheFine(cache', lru') /\ \A d \in Convs : cache'[d] \subseteq cache[d]
  <1> DEFINE T == ChainFrom(c, f) \ gone
             d0 == Drop(lru, c)
             v == d0 \o (IF T = {} THEN << >> ELSE <<c>>)
  <1>1. cache' = [cache EXCEPT ![c] = T] /\ lru' = v
    BY DEF ReadyChain
  <1>2. T \subseteq cache[c]
    BY ChainInCache
  <1> HIDE DEF T
  <1>3. lru \in Seq(Convs) /\ DOMAIN cache = Convs
    BY DEF CacheFine
  <1>4. d0 \in Seq(Convs) /\ Elements(d0) = Elements(lru) \ {c}
    BY <1>3, DropElements DEF Drop
  <1> HIDE DEF d0
  <1>5. CASE T = {}
    <2>1. v = d0
      BY <1>4, <1>5
    <2> QED BY <1>1, <1>2, <1>3, <1>4, <1>5, <2>1, CacheCut
  <1>6. CASE T # {}
    <2>1. v = Append(d0, c)
      <3>1. v = d0 \o <<c>>
        BY <1>6
      <3>2. d0 \o <<c>> = Append(d0, c)
        BY <1>4
      <3> QED BY <3>1, <3>2
    <2>2. v \in Seq(Convs) /\ Elements(v) = Elements(lru) \cup {c}
      <3> HIDE DEF v
      <3>1. Append(d0, c) \in Seq(Convs) /\ Elements(Append(d0, c)) = Elements(d0) \cup {c}
        BY <1>4, AppendElements
      <3> QED BY <1>4, <2>1, <3>1
    <2> HIDE DEF v
    <2> QED BY <1>1, <1>2, <1>3, <1>6, <2>2, CacheCut
  <1> QED BY <1>5, <1>6

(* The cache after _remove_locked. *)
LEMMA RemoveFine ==
  ASSUME CacheFine(cache, lru), NEW c \in Convs, NEW gone, Remove(c, gone)
  PROVE  CacheFine(cache', lru') /\ \A d \in Convs : cache'[d] \subseteq cache[d]
  <1> DEFINE T == cache[c] \ gone
             d0 == Drop(lru, c)
  <1>1. lru \in Seq(Convs) /\ DOMAIN cache = Convs /\ Elements(lru) = {d \in Convs : cache[d] # {}}
    BY DEF CacheFine
  <1>2. cache' = [cache EXCEPT ![c] = T]
        /\ lru' = IF cache[c] \subseteq gone THEN d0 ELSE lru
    BY DEF Remove
  <1>3. d0 \in Seq(Convs) /\ Elements(d0) = Elements(lru) \ {c}
    BY <1>1, DropElements DEF Drop
  <1> HIDE DEF d0
  <1>4. lru' \in Seq(Convs) /\ (T = {} => Elements(lru') = Elements(lru) \ {c})
        /\ (T # {} => Elements(lru') = Elements(lru) \cup {c}) /\ T \subseteq cache[c]
    BY <1>1, <1>2, <1>3
  <1> HIDE DEF T
  <1> QED BY <1>1, <1>2, <1>4, CacheCut

(* An empty cache. *)
LEMMA EmptyFine == CacheFine([c \in Convs |-> {}], << >>)
  <1> DEFINE k == [c \in Convs |-> {}]
  <1>1. DOMAIN k = Convs /\ \A c \in Convs : k[c] = {}
    OBVIOUS
  <1> HIDE DEF k
  <1>2. Cached(k) = 0 /\ AllFinite(k)
    BY <1>1, CachedNone
  <1>3. Cardinality({}) = 0
    BY FS_EmptySet
  <1>4. << >> \in Seq(Convs) /\ Elements(<< >>) = {c \in Convs : k[c] # {}}
    <2>1. << >> \in Seq(Convs) /\ DOMAIN << >> = {}
      OBVIOUS
    <2>2. Elements(<< >>) = {}
      BY <2>1 DEF Elements
    <2> QED BY <1>1, <2>1, <2>2
  <1>5. \A c \in Convs : IsFiniteSet(k[c]) /\ Cardinality(k[c]) <= PerConversation
    BY <1>1, <1>2, <1>3, Numbers DEF AllFinite
  <1>6. Cached(k) <= PerProcess
    BY <1>2, Numbers
  <1>7. CacheFine(k, << >>)
    BY <1>1, <1>4, <1>5, <1>6 DEF CacheFine
  <1> QED BY <1>7 DEF k

(* The end of the worker's chain is a row, and no leaf of it ends later. *)
LEMMA ChainEnds ==
  ASSUME Matched(wrk), WorkFine(wrk, cache)
  PROVE  ChainEnd \in 0..MaxRows /\ \A l \in wrk.chain : l.end <= ChainEnd
  <1> DEFINE S == {wrk.job.frontier} \cup {CoveredEnd(l) : l \in wrk.chain}
  <1>1. wrk.job.frontier \in 0..MaxRows
    BY DEF WorkFine, Matched, Job
  <1>2. \A l \in wrk.chain : l.end \in 1..MaxRows /\ l.end \in S
    BY DEF WorkFine, Leaf, CoveredEnd
  <1>3. S \in SUBSET Nat /\ S # {} /\ \A x \in S : x <= MaxRows /\ x \in 0..MaxRows
    BY <1>1, <1>2, Numbers DEF CoveredEnd
  <1> HIDE DEF S
  <1>4. Max(S) \in S /\ \A x \in S : x <= Max(S)
    BY <1>3, Numbers, MaxIsGreatest
  <1>5. ChainEnd = Max(S)
    BY DEF ChainEnd, S
  <1> QED BY <1>2, <1>3, <1>4, <1>5

(* What happens around the preparation keeps the rows and the bindings. *)
LEMMA AroundRows ==
  ASSUME RowsOK, Around
  PROVE  RowsOK'
  <1>1. gen' = gen
    BY DEF Around, prepVars
  <1>2. ASSUME NEW c \in Convs, Store(c), UNCHANGED changes PROVE RowsOK'
    <2> DEFINE r == Append(rows[c], [by |-> bound[c], v |-> 0])
    <2>1. rows' = [rows EXCEPT ![c] = r] /\ Len(rows[c]) < MaxRows
          /\ UNCHANGED <<bound, frontier, route, changes>>
      BY <1>2 DEF Store
    <2>2. [by |-> bound[c], v |-> 0] \in Row
      BY Numbers DEF RowsOK, Row
    <2>3. rows[c] \in Seq(Row) /\ Len(rows[c]) \in Nat
      BY DEF RowsOK
    <2>4. r \in Seq(Row) /\ Len(r) = Len(rows[c]) + 1
      BY <2>2, <2>3
    <2>5. Len(r) <= MaxRows
      BY <2>1, <2>3, <2>4, Numbers
    <2> HIDE DEF r
    <2>6. rows' \in [Convs -> Seq(Row)] /\ \A d \in Convs : Len(rows'[d]) <= MaxRows
      BY <2>1, <2>4, <2>5 DEF RowsOK
    <2> QED BY <1>1, <2>1, <2>6 DEF RowsOK
  <1>3. ASSUME NEW c \in Convs, NEW k \in DOMAIN rows[c], Publish(c, k, FALSE), UNCHANGED changes
        PROVE  RowsOK'
    <2>1. frontier' = [frontier EXCEPT ![c] = k] /\ UNCHANGED <<rows, bound, route, changes>>
      BY <1>3 DEF Publish
    <2>2. rows[c] \in Seq(Row) /\ Len(rows[c]) \in Nat /\ Len(rows[c]) <= MaxRows
      BY DEF RowsOK
    <2>3. k \in 0..MaxRows
      BY <2>2, Numbers
    <2>4. frontier' \in [Convs -> 0..MaxRows]
      BY <2>1, <2>3 DEF RowsOK
    <2> QED BY <1>1, <2>1, <2>4 DEF RowsOK
  <1>4. Change => changes' \in Nat /\ changes' <= MaxChanges /\ gen <= changes'
    BY Numbers DEF Change, RowsOK
  <1>5. ASSUME NEW c \in Convs, NEW i \in 1..MaxRows, Rewrite(c, i), Change PROVE RowsOK'
    <2> DEFINE r == [rows[c] EXCEPT ![i].v = @ + 1]
    <2>1. rows' = [rows EXCEPT ![c] = r] /\ i \in DOMAIN rows[c] /\ rows[c][i].v < MaxVersion
          /\ UNCHANGED <<bound, frontier, route>>
      BY <1>5 DEF Rewrite
    <2>2. rows[c] \in Seq(Row) /\ rows[c][i] \in Row
      BY <2>1 DEF RowsOK
    <2> DEFINE x == [rows[c][i] EXCEPT !.v = @ + 1]
    <2>3. x \in Row
      <3> DEFINE y == rows[c][i]
      <3>1. y \in Row /\ y.v < MaxVersion
        BY <2>1, <2>2
      <3> HIDE DEF y
      <3>2. y = [by |-> y.by, v |-> y.v] /\ y.by \in Sessions /\ y.v \in 0..MaxVersion
        BY <3>1 DEF Row
      <3>3. y.v + 1 \in 0..MaxVersion
        BY <3>1, <3>2, Numbers
      <3>4. [y EXCEPT !.v = @ + 1] \in Row
        BY <3>1, <3>3 DEF Row
      <3> QED BY <3>4 DEF y
    <2>4. r = [rows[c] EXCEPT ![i] = x]
      OBVIOUS
    <2> HIDE DEF x, r
    <2>5. r \in Seq(Row) /\ Len(r) = Len(rows[c])
      BY <2>1, <2>2, <2>3, <2>4
    <2>6. rows' \in [Convs -> Seq(Row)] /\ \A d \in Convs : Len(rows'[d]) <= MaxRows
      BY <2>1, <2>5 DEF RowsOK
    <2> QED BY <1>1, <1>4, <1>5, <2>1, <2>6 DEF RowsOK
  <1>6. ASSUME NEW c \in Convs, NEW s \in Sessions, Bind(c, s), Change PROVE RowsOK'
    <2>1. bound' \in [Convs -> Sessions] /\ frontier' \in [Convs -> 0..MaxRows]
          /\ UNCHANGED <<rows, route>>
      BY <1>6, Numbers DEF Bind, RowsOK
    <2> QED BY <1>1, <1>4, <1>6, <2>1 DEF RowsOK
  <1>7. ASSUME NEW r \in Fingerprints, Configure(r), Change PROVE RowsOK'
    BY <1>1, <1>4, <1>7 DEF Configure, RowsOK
  <1> QED BY <1>2, <1>3, <1>5, <1>6, <1>7 DEF Around

(* A job that ends leaves the worker at rest. *)
LEMMA QuitFine ==
  ASSUME NEW k, Quit
  PROVE  WorkFine(wrk', k)
  <1>1. wrk' = Resting /\ DOMAIN Resting = {"pc", "job", "rows", "chain", "leaf"} /\ Resting.pc = "idle"
    BY DEF Quit, Resting
  <1> QED BY <1>1 DEF WorkFine, Matched

(* The rows the worker reads are rows there can be. *)
LEMMA ReadFine ==
  ASSUME RowsOK, WorkFine(wrk, cache), Read
  PROVE  WorkFine(wrk', cache)
  <1>1. CASE Quit
    BY <1>1, QuitFine
  <1>2. CASE ~Quit
    <2> DEFINE E == Eligible(wrk.job)
               t == Text(rows[wrk.job.conv], E)
    <2>1. wrk' = [wrk EXCEPT !.pc = "chain", !.rows = t] /\ wrk.pc = "read"
      BY <1>2 DEF Read
    <2>2. wrk.job \in Job /\ wrk.job.conv \in Convs
      BY <2>1 DEF WorkFine, Job
    <2>3. E \subseteq DOMAIN rows[wrk.job.conv]
      BY DEF Eligible, Span
    <2>4. DOMAIN rows[wrk.job.conv] \subseteq 1..MaxRows
      BY <2>2, Numbers DEF RowsOK
    <2> HIDE DEF E
    <2>5. DOMAIN t = E
      BY DEF Text
    <2> HIDE DEF t
    <2>6. DOMAIN wrk = {"pc", "job", "rows", "chain", "leaf"}
      BY DEF WorkFine
    <2>7. /\ DOMAIN wrk' = {"pc", "job", "rows", "chain", "leaf"}
          /\ wrk'.pc = "chain" /\ wrk'.job = wrk.job /\ wrk'.rows = t
      BY <2>1, <2>6
    <2> QED BY <2>2, <2>3, <2>4, <2>5, <2>7 DEF WorkFine, Matched
  <1> QED BY <1>1, <1>2

(* A summary makes a leaf that starts where the chain ends. *)
LEMMA AnswerFine ==
  ASSUME WorkFine(wrk, cache), Answer
  PROVE  WorkFine(wrk', cache)
  <1>1. CASE Quit
    BY <1>1, QuitFine
  <1>2. CASE ~Quit
    <2>1. wrk.pc = "call" /\ Matched(wrk)
      BY DEF Answer, Matched
    <2>2. ChainEnd \in 0..MaxRows /\ \A l \in wrk.chain : l.end <= ChainEnd
      BY <2>1, ChainEnds
    <2>3. PICK end \in Rest(ChainEnd) :
            wrk' = [wrk EXCEPT !.pc = "check", !.leaf =
                     [session |-> wrk.job.session, start |-> ChainEnd,
                      end |-> end,
                      text |-> [i \in {end} \cup {j \in Rest(ChainEnd) : j < end} |-> wrk.rows[i]],
                      route |-> wrk.job.route, gen |-> wrk.job.gen]]
      BY <1>2 DEF Answer
    <2> DEFINE e == ChainEnd
               ids == {end} \cup {j \in Rest(e) : j < end}
               t == [i \in ids |-> wrk.rows[i]]
               x == [session |-> wrk.job.session, start |-> e, end |-> end, text |-> t,
                     route |-> wrk.job.route, gen |-> wrk.job.gen]
    <2>4. wrk' = [wrk EXCEPT !.pc = "check", !.leaf = x]
      BY <2>3
    <2> HIDE DEF e
    <2>5. e \in 0..MaxRows /\ \A l \in wrk.chain : l.end <= e
      BY <2>2 DEF e
    <2>6. \A i \in Rest(e) : i \in 1..MaxRows /\ i > e
      BY <2>1 DEF WorkFine, Rest
    <2>7. end \in 1..MaxRows /\ end > e
      BY <2>3, <2>6 DEF e
    <2>8. ids \subseteq (e + 1)..end /\ end \in ids
      <3>1. \A i \in ids : i \in 1..MaxRows /\ i > e /\ i <= end
        BY <2>6, <2>7
      <3>2. end \in ids
        OBVIOUS
      <3> HIDE DEF ids
      <3>3. \A i \in 1..MaxRows : i > e /\ i <= end => i \in (e + 1)..end
        BY <2>5, <2>7, Numbers
      <3> QED BY <3>1, <3>2, <3>3
    <2>9. DOMAIN t = ids /\ t = [i \in DOMAIN t |-> t[i]]
      <3> HIDE DEF ids
      <3> QED OBVIOUS
    <2> HIDE DEF t, ids
    <2>10. wrk.job \in Job /\ DOMAIN wrk = {"pc", "job", "rows", "chain", "leaf"}
      BY <2>1 DEF WorkFine
    <2>11. Leaf(x)
      BY <2>5, <2>7, <2>8, <2>9, <2>10 DEF Leaf, IsLeaf, Job
    <2>12. x.start = e
      OBVIOUS
    <2> HIDE DEF x
    <2>13. /\ DOMAIN wrk' = {"pc", "job", "rows", "chain", "leaf"}
           /\ wrk'.pc = "check" /\ wrk'.job = wrk.job /\ wrk'.rows = wrk.rows
           /\ wrk'.chain = wrk.chain /\ wrk'.leaf = x
      BY <2>4, <2>10
    <2> QED BY <2>1, <2>5, <2>10, <2>11, <2>12, <2>13 DEF WorkFine, Matched
  <1> QED BY <1>1, <1>2

(* Once matched, the chain is what is cached. *)
LEMMA MatchChainFine ==
  ASSUME CacheFine(cache, lru), WorkFine(wrk, cache), MatchChain
  PROVE  CacheFine(cache', lru') /\ WorkFine(wrk', cache')
  <1> DEFINE c == wrk.job.conv
             f == wrk.job.frontier
             chain == ChainFrom(c, f)
             kept == Prefix(chain)
  <1>1. /\ wrk.pc = "chain" /\ ReadyChain(c, f, chain \ kept)
        /\ wrk' = [wrk EXCEPT !.pc = "ask", !.chain = kept]
    BY DEF MatchChain
  <1>2. wrk.job \in Job /\ c \in Convs /\ DOMAIN wrk = {"pc", "job", "rows", "chain", "leaf"}
        /\ DOMAIN wrk.rows \subseteq 1..MaxRows
    BY <1>1 DEF WorkFine, Job
  <1>3. kept \subseteq chain /\ chain \subseteq cache[c]
    BY <1>2, ChainInCache DEF Prefix
  <1>4. cache'[c] = chain \ (chain \ kept)
    BY <1>1, <1>2 DEF ReadyChain, CacheFine
  <1> HIDE DEF chain, kept
  <1>5. CacheFine(cache', lru')
    <2> HIDE DEF c, f
    <2> QED BY <1>1, <1>2, ReadyChainFine
  <1>6. cache'[c] \subseteq kept
    BY <1>4
  <1>7. IsFiniteSet(kept) /\ Cardinality(kept) <= PerConversation /\ \A l \in kept : Leaf(l)
    <2>1. kept \subseteq cache[c]
      BY <1>3
    <2>2. IsFiniteSet(cache[c]) /\ Cardinality(cache[c]) <= PerConversation
          /\ \A l \in cache[c] : Leaf(l)
      BY <1>2 DEF CacheFine
    <2>3. IsFiniteSet(kept) /\ Cardinality(kept) <= Cardinality(cache[c])
      BY <2>1, <2>2, FS_Subset
    <2>4. Cardinality(kept) \in Nat /\ Cardinality(cache[c]) \in Nat
      BY <2>2, <2>3, FS_CardinalityType
    <2> QED BY <2>1, <2>2, <2>3, <2>4, Numbers
  <1>8. /\ DOMAIN wrk' = {"pc", "job", "rows", "chain", "leaf"}
        /\ wrk'.pc = "ask" /\ wrk'.job = wrk.job /\ wrk'.rows = wrk.rows
        /\ wrk'.chain = kept
    BY <1>1, <1>2
  <1>9. WorkFine(wrk', cache')
    BY <1>2, <1>6, <1>7, <1>8 DEF WorkFine, Matched
  <1> QED BY <1>5, <1>9

(* The leaf made of a chunk follows the leaves the worker matched, which   *)
(* are all the cached ones: adding it never forks the chain, and the       *)
(* conversation stays within its share.                                    *)
LEMMA StoreFine ==
  ASSUME CacheFine(cache, lru), WorkFine(wrk, cache), StoreLeaf
  PROVE  CacheFine(cache', lru') /\ WorkFine(wrk', cache')
  <1>1. CASE gen # wrk.job.gen
    <2>1. Quit /\ UNCHANGED <<cache, lru>>
      BY <1>1 DEF StoreLeaf, CacheLeaf
    <2> QED BY <2>1, QuitFine
  <1>2. CASE gen = wrk.job.gen
    <2> DEFINE c == wrk.job.conv
               x == wrk.leaf
               T == cache[c] \cup {x}
               held == [cache EXCEPT ![c] = T]
               order == Append(Drop(lru, c), c)
               gone == Evicted(held, order, c)
    <2>1. /\ wrk.pc = "store" /\ cache' = Without(held, gone)
          /\ lru' = Kept(order, Convs \ gone)
          /\ wrk' = [wrk EXCEPT !.pc = "ask", !.chain = @ \cup {x}]
      BY <1>2 DEF StoreLeaf, CacheLeaf
    <2> HIDE DEF gone
    <2>2. /\ wrk.job \in Job /\ c \in Convs
          /\ DOMAIN wrk = {"pc", "job", "rows", "chain", "leaf"}
          /\ DOMAIN wrk.rows \subseteq 1..MaxRows
      BY <2>1 DEF WorkFine, Job
    <2>3. /\ IsFiniteSet(wrk.chain) /\ Cardinality(wrk.chain) < PerConversation
          /\ \A l \in wrk.chain : Leaf(l)
          /\ cache[c] \subseteq wrk.chain
          /\ Leaf(x) /\ \A l \in wrk.chain : l.end <= x.start
      BY <2>1 DEF WorkFine, Matched
    <2>4. \A l \in wrk.chain : l.start < x.start
      <3> SUFFICES ASSUME NEW l \in wrk.chain PROVE l.start < x.start
        OBVIOUS
      <3>1. Leaf(l) /\ l.end <= x.start
        BY <2>3
      <3>2. l.start \in 0..MaxRows /\ l.end \in (l.start + 1)..l.end /\ l.end \in 1..MaxRows
        BY <3>1 DEF Leaf, IsLeaf
      <3>3. x.start \in 0..MaxRows
        BY <2>3 DEF Leaf, IsLeaf
      <3> DEFINE a == l.start
                 b == l.end
                 d == x.start
      <3>4. a \in Nat /\ b \in Nat /\ d \in Nat /\ b \in (a + 1)..b /\ b <= d
        BY <3>1, <3>2, <3>3, Numbers
      <3> HIDE DEF a, b, d
      <3>5. a < d
        BY <3>4
      <3> QED BY <3>5 DEF a, d
    <2>5. \A l, n \in T : l.start = n.start => l = n
      <3>1. \A l, n \in cache[c] : l.start = n.start => l = n
        BY <2>2 DEF CacheFine
      <3>2. \A l \in cache[c] : l.start # x.start
        <4> SUFFICES ASSUME NEW l \in cache[c] PROVE l.start # x.start
          OBVIOUS
        <4>1. l \in wrk.chain /\ Leaf(l) /\ Leaf(x)
          BY <2>3
        <4>2. l.start \in 0..MaxRows /\ x.start \in 0..MaxRows
          BY <4>1 DEF Leaf, IsLeaf
        <4>3. l.start < x.start
          BY <2>4, <4>1
        <4> QED BY <4>2, <4>3, Numbers
      <3> QED BY <3>1, <3>2
    <2> DEFINE U == wrk.chain \cup {x}
    <2>6. IsFiniteSet(U) /\ Cardinality(U) <= PerConversation
      <3>1. IsFiniteSet(U) /\ Cardinality(U) = IF x \in wrk.chain THEN Cardinality(wrk.chain)
                                               ELSE Cardinality(wrk.chain) + 1
        BY <2>3, FS_AddElement
      <3>2. Cardinality(wrk.chain) \in Nat
        BY <2>3, FS_CardinalityType
      <3> QED BY <2>3, <3>1, <3>2, Numbers
    <2>7. T \subseteq U
      BY <2>3
    <2>8. (\A l \in T : Leaf(l)) /\ (\A l \in U : Leaf(l))
      BY <2>3
    <2>9. T # {}
      OBVIOUS
    <2> HIDE DEF T, U
    <2>10. IsFiniteSet(T) /\ Cardinality(T) <= PerConversation
      <3>1. IsFiniteSet(T) /\ Cardinality(T) <= Cardinality(U)
        BY <2>6, <2>7, FS_Subset
      <3>2. Cardinality(T) \in Nat /\ Cardinality(U) \in Nat
        BY <2>6, <3>1, FS_CardinalityType
      <3> QED BY <2>6, <3>1, <3>2, Numbers
    <2>11. CacheFine(cache', lru')
      <3>1. held = [cache EXCEPT ![c] = T] /\ order = Append(Drop(lru, c), c)
            /\ gone = Evicted(held, order, c)
        BY DEF gone
      <3> HIDE DEF held, order, c, x
      <3>2. CacheFine(Without(held, gone), Kept(order, Convs \ gone))
        BY <2>2, <2>5, <2>8, <2>9, <2>10, <3>1, CacheFill
      <3> QED BY <2>1, <3>2
    <2>12. cache'[c] \subseteq T
      <3>1. held[c] = T
        BY <2>2 DEF CacheFine
      <3> HIDE DEF held, c
      <3>2. cache'[c] = IF c \in gone THEN {} ELSE held[c]
        BY <2>1, <2>2 DEF Without
      <3> QED BY <3>1, <3>2
    <2>13. /\ DOMAIN wrk' = {"pc", "job", "rows", "chain", "leaf"}
           /\ wrk'.pc = "ask" /\ wrk'.job = wrk.job /\ wrk'.rows = wrk.rows
           /\ wrk'.chain = U
      BY <2>1, <2>2 DEF U
    <2>14. cache'[wrk.job.conv] \subseteq U
      BY <2>7, <2>12
    <2>15. WorkFine(wrk', cache')
      BY <2>2, <2>6, <2>8, <2>13, <2>14 DEF WorkFine, Matched
    <2> QED BY <2>11, <2>15
  <1> QED BY <1>1, <1>2

(* The initial states satisfy the invariant of the bounds. *)
LEMMA InitBInv == Init => BInv
  <1> SUFFICES ASSUME Init PROVE BInv
    OBVIOUS
  <1>1. RowsOK
    <2>1. << >> \in Seq(Row) /\ Len(<< >>) = 0
      OBVIOUS
    <2>2. rows \in [Convs -> Seq(Row)] /\ \A c \in Convs : Len(rows[c]) <= MaxRows
      BY <2>1, Numbers DEF Init, PubInit
    <2>3. frontier \in [Convs -> 0..MaxRows]
      BY Numbers DEF Init, PubInit
    <2>4. changes \in Nat /\ gen \in Nat /\ gen <= changes /\ changes <= MaxChanges
      BY Numbers DEF Init
    <2> QED BY <2>2, <2>3, <2>4 DEF Init, PubInit, RowsOK
  <1>2. QueueFine(jobs, queue)
    BY QueueEmpty DEF Init
  <1>3. CacheFine(cache, lru)
    BY EmptyFine DEF Init
  <1>4. WorkFine(wrk, cache)
    BY DEF Init, Resting, WorkFine, Matched
  <1>5. EngOK
    BY DEF Init, AtRest, EngOK
  <1> QED BY <1>1, <1>2, <1>3, <1>4, <1>5 DEF BInv

(* Every step keeps it. *)
LEMMA NextBInv == IInv /\ BInv /\ [Next]_vars => BInv'
  <1> SUFFICES ASSUME IInv, BInv, [Next]_vars PROVE BInv'
    OBVIOUS
  <1>0. RowsOK /\ QueueFine(jobs, queue) /\ CacheFine(cache, lru) /\ WorkFine(wrk, cache) /\ EngOK
    BY DEF BInv
  <1> SUFFICES RowsOK' /\ QueueFine(jobs', queue') /\ CacheFine(cache', lru')
               /\ WorkFine(wrk', cache') /\ EngOK'
    BY DEF BInv
  <1>1. CASE UNCHANGED vars
    BY <1>0, <1>1 DEF vars, RowsOK, EngOK
  <1>2. ASSUME NEW c \in Convs, Enqueue(c)
        PROVE  RowsOK' /\ QueueFine(jobs', queue') /\ CacheFine(cache', lru')
               /\ WorkFine(wrk', cache') /\ EngOK'
    <2>1. PICK seen \in 0..gen :
             /\ Queue([conv |-> c, session |-> bound[c], gen |-> seen,
                       frontier |-> frontier[c], route |-> route])
             /\ UNCHANGED <<changes, pubVars, gen, cache, lru, wrk, eng>>
      BY <1>2 DEF Enqueue
    <2> DEFINE j == [conv |-> c, session |-> bound[c], gen |-> seen,
                     frontier |-> frontier[c], route |-> route]
    <2>2. j \in Job /\ j.conv = c
      <3>1. seen \in 0..MaxChanges
        BY <1>0, Numbers DEF RowsOK
      <3> QED BY <1>0, <3>1 DEF RowsOK, Job
    <2> HIDE DEF j
    <2>3. QueueFine(jobs', queue')
      <3>1. Queue(j)
        BY <2>1 DEF j
      <3> QED BY <1>0, <2>2, <3>1, QueueRenews DEF Queue
    <2> QED BY <1>0, <2>1, <2>3 DEF RowsOK, EngOK, pubVars
  <1>3. ASSUME NEW c \in Convs, Match(c)
        PROVE  RowsOK' /\ QueueFine(jobs', queue') /\ CacheFine(cache', lru')
               /\ WorkFine(wrk', cache') /\ EngOK'
    <2>1. UNCHANGED <<changes, pubVars, gen, jobs, queue, wrk>>
      BY <1>3 DEF Match
    <2>2. \E gone : ReadyChain(c, frontier[c], gone)
      BY <1>3 DEF Match
    <2>3. CacheFine(cache', lru') /\ \A d \in Convs : cache'[d] \subseteq cache[d]
      BY <1>0, <2>2, ReadyChainFine
    <2>4. WorkFine(wrk', cache')
      BY <1>0, <2>1, <2>3, WorkOutlives
    <2>5. EngOK'
      <3>1. CASE eng' = eng
        BY <1>0, <3>1 DEF EngOK
      <3>2. ASSUME NEW l \in cache[c],
                   eng' = [eng EXCEPT ![c] = [pc |-> "publish", leaf |-> l,
                                              expected |-> frontier[c]]]
            PROVE  EngOK'
        <4>1. Leaf(l)
          BY <1>0 DEF CacheFine
        <4>2. \A d \in Convs : d # c => eng'[d] = eng[d]
          BY <1>0, <3>2 DEF EngOK
        <4>3. eng'[c].leaf = l /\ eng'[c].pc = "publish" /\ DOMAIN eng' = Convs
          BY <1>0, <3>2 DEF EngOK
        <4> QED BY <1>0, <4>1, <4>2, <4>3 DEF EngOK
      <3> QED BY <1>3, <3>1, <3>2 DEF Match
    <2> QED BY <1>0, <2>1, <2>3, <2>4, <2>5 DEF RowsOK, pubVars
  <1>4. ASSUME NEW c \in Convs, PublishPrepared(c)
        PROVE  RowsOK' /\ QueueFine(jobs', queue') /\ CacheFine(cache', lru')
               /\ WorkFine(wrk', cache') /\ EngOK'
    <2> DEFINE l == eng[c].leaf
    <2>1. UNCHANGED <<changes, rows, bound, route, gen, jobs, queue, wrk>> /\ eng[c].pc = "publish"
      BY <1>4 DEF PublishPrepared
    <2>2. Leaf(l)
      BY <1>0, <2>1 DEF EngOK
    <2>3. CASE Revalidated(c, l) /\ Fenced(c, l, eng[c].expected)
      <3>1. frontier' = [frontier EXCEPT ![c] = l.end] /\ UNCHANGED <<cache, lru>>
            /\ eng' = [eng EXCEPT ![c].pc = "promoted"]
        BY <1>4, <2>3 DEF PublishPrepared, CoveredEnd
      <3>2. l.end \in 0..MaxRows
        BY <2>2, Numbers DEF Leaf
      <3>3. frontier' \in [Convs -> 0..MaxRows]
        BY <1>0, <3>1, <3>2 DEF RowsOK
      <3>4. /\ DOMAIN eng' = Convs /\ \A d \in Convs : d # c => eng'[d] = eng[d]
            /\ eng'[c].pc = "promoted" /\ eng'[c].leaf = l
        BY <3>1 DEF IInv, Shape
      <3>5. EngOK'
        BY <1>0, <2>2, <3>4 DEF EngOK
      <3> QED BY <1>0, <2>1, <3>1, <3>3, <3>5 DEF RowsOK
    <2>4. CASE ~(Revalidated(c, l) /\ Fenced(c, l, eng[c].expected))
      <3>1. ReadyChain(c, l.start, ChainFrom(c, l.start)) /\ UNCHANGED frontier
            /\ eng' = [eng EXCEPT ![c] = AtRest]
        BY <1>4, <2>4 DEF PublishPrepared, Reject
      <3>2. CacheFine(cache', lru') /\ \A d \in Convs : cache'[d] \subseteq cache[d]
        BY <1>0, <3>1, ReadyChainFine
      <3>3. WorkFine(wrk', cache')
        BY <1>0, <2>1, <3>2, WorkOutlives
      <3>4. EngOK'
        BY <1>0, <3>1 DEF EngOK, AtRest
      <3> QED BY <1>0, <2>1, <3>1, <3>2, <3>3, <3>4 DEF RowsOK
    <2> QED BY <2>3, <2>4
  <1>5. ASSUME NEW c \in Convs, Promoted(c)
        PROVE  RowsOK' /\ QueueFine(jobs', queue') /\ CacheFine(cache', lru')
               /\ WorkFine(wrk', cache') /\ EngOK'
    <2>1. UNCHANGED <<changes, pubVars, gen, jobs, queue, wrk>> /\ Remove(c, {eng[c].leaf})
          /\ eng' = [eng EXCEPT ![c] = AtRest]
      BY <1>5 DEF Promoted
    <2>2. CacheFine(cache', lru') /\ \A d \in Convs : cache'[d] \subseteq cache[d]
      BY <1>0, <2>1, RemoveFine
    <2>3. WorkFine(wrk', cache')
      BY <1>0, <2>1, <2>2, WorkOutlives
    <2>4. EngOK'
      BY <1>0, <2>1 DEF EngOK, AtRest
    <2> QED BY <1>0, <2>1, <2>2, <2>3, <2>4 DEF RowsOK, pubVars
  <1>6. CASE Take
    <2>1. UNCHANGED <<changes, pubVars, gen, cache, lru, eng>> /\ queue # << >>
          /\ queue' = Tail(queue)
      BY <1>6 DEF Take
    <2>2. PICK j \in jobs : j.conv = Head(queue) /\ jobs' = jobs \ {j}
                            /\ wrk' = [Resting EXCEPT !.pc = "start", !.job = j]
      BY <1>6 DEF Take
    <2>3. QueueFine(jobs', queue')
      BY <1>0, <2>1, <2>2, QueueAdvances
    <2>4. j \in Job
      BY <1>0, <2>2 DEF QueueFine
    <2>5. DOMAIN wrk' = {"pc", "job", "rows", "chain", "leaf"} /\ wrk'.pc = "start" /\ wrk'.job = j
      BY <2>2 DEF Resting
    <2>6. WorkFine(wrk', cache')
      BY <2>4, <2>5 DEF WorkFine, Matched
    <2> QED BY <1>0, <2>1, <2>3, <2>6 DEF RowsOK, EngOK, pubVars
  <1>7. CASE Start \/ Read \/ Ask \/ Answer \/ Check
    <2>1. UNCHANGED <<changes, pubVars, gen, jobs, queue, cache, lru, eng>>
      BY <1>7 DEF Start, Read, Ask, Answer, Check
    <2>2. WorkFine(wrk', cache)
      <3>1. CASE Quit
        BY <3>1, QuitFine
      <3>2. ASSUME NEW pc, Goto(pc)
            PROVE  /\ DOMAIN wrk' = {"pc", "job", "rows", "chain", "leaf"}
                   /\ wrk'.pc = pc /\ wrk'.job = wrk.job /\ wrk'.rows = wrk.rows
                   /\ wrk'.chain = wrk.chain /\ wrk'.leaf = wrk.leaf
        BY <3>2 DEF Goto, IInv, Shape
      <3>3. CASE wrk.pc = "start" /\ Goto("read")
        <4>1. wrk'.pc = "read" /\ wrk'.job = wrk.job
              /\ DOMAIN wrk' = {"pc", "job", "rows", "chain", "leaf"}
          BY <3>2, <3>3
        <4> QED BY <1>0, <3>3, <4>1 DEF WorkFine, Matched
      <3>4. CASE wrk.pc = "ask" /\ Goto("call") /\ Cardinality(wrk.chain) < PerConversation
        BY <1>0, <3>2, <3>4 DEF WorkFine, Matched
      <3>5. CASE wrk.pc = "check" /\ Goto("store")
        BY <1>0, <3>2, <3>5 DEF WorkFine, Matched
      <3>6. CASE Start \/ Ask \/ Check
        BY <3>1, <3>3, <3>4, <3>5, <3>6 DEF Start, Ask, Check
      <3>7. CASE Read
        BY <1>0, <3>7, ReadFine
      <3>8. CASE Answer
        BY <1>0, <3>8, AnswerFine
      <3> QED BY <1>7, <3>6, <3>7, <3>8
    <2> QED BY <1>0, <2>1, <2>2 DEF RowsOK, EngOK, pubVars
  <1>8. CASE MatchChain
    <2>1. UNCHANGED <<changes, pubVars, gen, jobs, queue, eng>>
      BY <1>8 DEF MatchChain
    <2>2. CacheFine(cache', lru') /\ WorkFine(wrk', cache')
      BY <1>0, <1>8, MatchChainFine
    <2> QED BY <1>0, <2>1, <2>2 DEF RowsOK, EngOK, pubVars
  <1>9. CASE StoreLeaf
    <2>1. UNCHANGED <<changes, pubVars, gen, jobs, queue, eng>>
      BY <1>9 DEF StoreLeaf
    <2>2. CacheFine(cache', lru') /\ WorkFine(wrk', cache')
      BY <1>0, <1>9, StoreFine
    <2> QED BY <1>0, <2>1, <2>2 DEF RowsOK, EngOK, pubVars
  <1>10. CASE Discard \/ Restart
    <2>1. /\ UNCHANGED pubVars /\ Change /\ jobs' = {} /\ queue' = << >>
          /\ cache' = [c \in Convs |-> {}] /\ lru' = << >> /\ (gen' = gen + 1 \/ gen' = 0)
      BY <1>10 DEF Discard, Restart
    <2>2. RowsOK'
      <3>1. changes' \in Nat /\ gen' \in Nat /\ gen' <= changes' /\ changes' <= MaxChanges
        BY <1>0, <2>1, Numbers DEF RowsOK, Change
      <3> QED BY <1>0, <2>1, <3>1 DEF RowsOK, pubVars
    <2>3. QueueFine(jobs', queue')
      BY <2>1, QueueEmpty
    <2>4. CacheFine(cache', lru')
      BY <2>1, EmptyFine
    <2>5. \A d \in Convs : cache'[d] \subseteq cache[d]
      BY <2>1
    <2>6. CASE Discard
      <3>1. UNCHANGED <<wrk, eng>>
        BY <2>6 DEF Discard
      <3>2. WorkFine(wrk', cache')
        BY <1>0, <2>5, <3>1, WorkOutlives
      <3>3. EngOK'
        BY <1>0, <3>1 DEF EngOK
      <3> QED BY <2>2, <2>3, <2>4, <3>2, <3>3
    <2>7. CASE Restart
      <3>1. Quit /\ eng' = [c \in Convs |-> AtRest]
        BY <2>7 DEF Restart, Quit
      <3>2. WorkFine(wrk', cache')
        BY <3>1, QuitFine
      <3>3. EngOK'
        BY <3>1 DEF EngOK, AtRest
      <3> QED BY <2>2, <2>3, <2>4, <3>2, <3>3
    <2> QED BY <1>10, <2>6, <2>7
  <1>11. CASE Around
    <2>1. RowsOK'
      BY <1>0, <1>11, AroundRows
    <2>2. UNCHANGED prepVars
      BY <1>11 DEF Around
    <2> QED BY <1>0, <2>1, <2>2 DEF prepVars, EngOK
  <1> QED
    BY <1>1, <1>2, <1>3, <1>4, <1>5, <1>6, <1>7, <1>8, <1>9, <1>10, <1>11 DEF Next

(* The invariant of the bounds holds throughout. *)
LEMMA AlwaysBInv == Spec => []BInv
  BY InitBInv, NextBInv, AlwaysIInv, PTL DEF Spec

(* Every step keeps the types: rows, bindings, jobs and leaves are what    *)
(* the code stores, and the queue names the conversation of each job once. *)
THEOREM TypeCorrect == Spec => []TypeOK
  <1>1. BInv => TypeOK
    <2> SUFFICES ASSUME BInv PROVE TypeOK
      OBVIOUS
    <2>1. Len(queue) = Cardinality(jobs) /\ {queue[i] : i \in DOMAIN queue} = {j.conv : j \in jobs}
      BY QueueCounts DEF BInv
    <2>2. gen \in 0..MaxChanges
      BY Numbers DEF BInv, RowsOK
    <2>3. jobs \subseteq Job /\ queue \in Seq(Convs)
      BY DEF BInv, QueueFine
    <2>4. DOMAIN cache = Convs /\ lru \in Seq(Convs) /\ \A c \in Convs : \A l \in cache[c] : IsLeaf(l)
      BY DEF BInv, CacheFine, Leaf
    <2>5. wrk.pc \in {"idle", "start", "read", "chain", "ask", "call", "check", "store"}
      BY DEF BInv, WorkFine
    <2> QED BY <2>1, <2>2, <2>3, <2>4, <2>5 DEF BInv, RowsOK, EngOK, TypeOK
  <1> QED BY <1>1, AlwaysBInv, PTL

(* The cache stays within the bound of a conversation and the bound of the *)
(* process, its order of use names exactly the conversations with leaves,  *)
(* and no chain forks, whatever the engines reject and promote while the   *)
(* worker waits for a summary: the worker matched a superset of what is    *)
(* cached when it adds a leaf, and the eviction loop of _cache_leaf stops  *)
(* at the job's own conversation only after all others are gone.           *)
THEOREM CacheBoundedHolds == Spec => []CacheBounded
  <1>1. BInv => CacheBounded
    BY DEF BInv, CacheFine, CacheBounded
  <1> QED BY <1>1, AlwaysBInv, PTL

=============================================================================
