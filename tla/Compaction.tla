----------------------------- MODULE Compaction -----------------------------
(***************************************************************************)
(* The compaction frontier of one conversation: several engines (clones in *)
(* one process, or processes) share the message store, the summary DAG and *)
(* the lifecycle row, and bind, end, reset, rotate and compact sessions    *)
(* with no lock between them.  SQLite serialises transactions; everything  *)
(* an engine read before one is stale when it is used.                     *)
(*                                                                         *)
(* One engine runs one lifecycle call or one compress() at a time: the     *)
(* lifecycle calls take one lock (_exclusive_lifecycle); compress() takes  *)
(* none, but belongs to a turn of the host, which makes these calls in     *)
(* sequence.  So an engine has a program counter, and each of its steps is *)
(* one transaction.                                                        *)
(*                                                                         *)
(* Abstracted: message text (a row is its session and whether an ignore    *)
(* pattern matches it), summary text, tokens and thresholds (compress may  *)
(* stop at any leaf or take none), depth >= 1 nodes (Condensation).        *)
(***************************************************************************)
EXTENDS LifecycleRow, Sequences, FiniteSets

CONSTANTS Engines,       \* engines on the same conversation
          MaxRows,       \* bound: rows in the message store
          MaxClock,      \* bound: finalizes and resets
          CasAttempts,   \* _BIND_CAS_ATTEMPTS
          RetainLeaves,  \* new_session_retain_depth = -1: a reset deletes no leaf
          HostOps        \* optional host calls this instance makes

ASSUME BoundsAssumption ==
  /\ MaxRows \in Nat /\ MaxClock \in Nat /\ CasAttempts \in Nat \ {0}
  /\ RetainLeaves \in BOOLEAN
  /\ HostOps \subseteq {"resume", "reset", "offcurrent", "boundary", "rotate", "prune"}

VARIABLES
  rows,    \* messages: store id -> [sess, ign]
  nodes,   \* summary_nodes at depth 0: set of [sess, src]
  life,    \* the conversation's lcm_lifecycle_state row
  clock,   \* time of the last finalize or reset
  carry,   \* session -> rows of its predecessors its commit proof carries
  eng,     \* engine -> in-process state that outlives a call
  loc      \* engine -> the call in progress

vars == <<rows, nodes, life, clock, carry, eng, loc>>

Ids == 1..Len(rows)
NodeType == [sess : Sessions, src : SUBSET (1..MaxRows)]

EngineType == [sess    : SessionOrNull,          \* _session_id
               front   : Nat,                    \* _last_compacted_store_id
               hist    : SUBSET Sessions,        \* sessions it was bound to
               pend    : SessionOrNull,          \* _pending_reset_session_id
               pendF   : Nat,                    \* _pending_reset_frontier_store_id
               proof   : SUBSET (1..MaxRows),    \* rows compress() handed back
               proofSt : {"none", "fresh", "consumed"}]

Unbound == [sess |-> NULL, front |-> 0, hist |-> {}, pend |-> NULL,
            pendF |-> 0, proof |-> {}, proofSt |-> "none"]

PCs == {"idle", "pendFin", "bindRead", "bindWrite", "bindDone", "bindTxn",
        "carry", "select", "expect", "carried", "publish", "offRead", "offFin",
        "unprove", "delete", "bndFin", "bndMove", "bndAdvance", "inplace"}

Returns == {"idle", "carry", "bndAdvance", "inplace"}

LocalType == [pc    : PCs,
              tgt   : SessionOrNull,        \* session being bound or ended
              from  : SessionOrNull,        \* session nodes are taken from
              then  : Returns,              \* where a bind returns to
              read  : LifeRow,              \* the row as last read
              tries : 0..CasAttempts,
              f     : Nat,                  \* frontier decided from a read
              cov   : SUBSET (1..MaxRows),  \* rows the leaf summarises
              exc   : SUBSET (1..MaxRows),  \* rows it accounts for otherwise
              own   : SUBSET (1..MaxRows),  \* carried rows as loaded
              end   : 0..MaxRows]           \* newest row the leaf summarises

Idle == [pc |-> "idle", tgt |-> NULL, from |-> NULL, then |-> "idle",
         read |-> NoRow, tries |-> 0, f |-> 0, cov |-> {}, exc |-> {},
         own |-> {}, end |-> 0]

TypeOK ==
  /\ rows \in Seq([sess : Sessions, ign : BOOLEAN]) /\ Len(rows) <= MaxRows
  /\ nodes \subseteq NodeType
  /\ life \in LifeRow
  /\ clock \in Nat
  /\ carry \in [Sessions -> SUBSET (1..MaxRows)]
  /\ eng \in [Engines -> EngineType]
  /\ loc \in [Engines -> LocalType]

Init ==
  /\ rows = <<>>
  /\ nodes = {}
  /\ life = NoRow
  /\ clock = 0
  /\ carry = [s \in Sessions |-> {}]
  /\ eng = [e \in Engines |-> Unbound]
  /\ loc = [e \in Engines |-> Idle]

-----------------------------------------------------------------------------
At(e, pc) == loc[e].pc = pc
Bound(e) == eng[e].sess # NULL

\* Rows a session's publication must account for: its own, and the ones its
\* commit proof carries over from its predecessors (row_is_owned).
OwnedWith(s, carried) == {i \in Ids : rows[i].sess = s \/ i \in carried}
Owned(s) == OwnedWith(s, carry[s])

\* _store_complete_node_covered: claimed by a leaf of any session.
Claimed == UNION {n.src : n \in nodes}
ClaimedIn(s) == UNION {n.src : n \in {m \in nodes : m.sess = s}}

\* A session id the host has never used: no engine was bound to it, none is
\* about to be.
Fresh(s) == \A e \in Engines : s \notin eng[e].hist /\ loc[e].tgt # s

\* A session the host can start an engine on: a new one, the engine's own, or
\* one that was started before and is not just being opened by another engine.
Startable(e, s) ==
  \/ s = eng[e].sess
  \/ Fresh(s)
  \/ /\ "resume" \in HostOps
     /\ \E o \in Engines : s \in eng[o].hist
     /\ \A o \in Engines : loc[o].from # NULL => loc[o].tgt # s

-----------------------------------------------------------------------------
(* Ingest                                                                  *)

\* _ingest_messages: rows are appended under the engine's session whatever
\* the lifecycle row says.  The host list now differs from the one
\* compress() returned, so its commit proof no longer matches an end.
Ingest(e, ign) ==
  /\ At(e, "idle") /\ Bound(e) /\ Len(rows) < MaxRows
  /\ rows' = Append(rows, [sess |-> eng[e].sess, ign |-> ign])
  /\ eng' = [eng EXCEPT ![e] = [@ EXCEPT !.proof = {}, !.proofSt = "none"]]
  /\ UNCHANGED <<nodes, life, clock, carry, loc>>

-----------------------------------------------------------------------------
(* Session start                                                           *)

\* The in-process side of a start once a pending reset is dealt with: the
\* session is switched, progress is zeroed, a proof of another session goes.
Switched(e, s) ==
  [eng[e] EXCEPT !.sess = s, !.front = 0, !.hist = @ \cup {s},
                 !.pend = NULL, !.pendF = 0,
                 !.proof = IF s = eng[e].sess THEN @ ELSE {},
                 !.proofSt = IF s = eng[e].sess THEN @ ELSE "none"]

BindCall(s, then) == [Idle EXCEPT !.pc = "bindRead", !.tgt = s, !.then = then]

\* _on_session_start_unlocked, generic path with no pending reset of the
\* session it leaves.
Start(e, s) ==
  /\ At(e, "idle") /\ Startable(e, s)
  /\ s = eng[e].sess \/ eng[e].pend = NULL \/ eng[e].pend # eng[e].sess
  /\ eng' = [eng EXCEPT ![e] = Switched(e, s)]
  /\ loc' = [loc EXCEPT ![e] = BindCall(s, "idle")]
  /\ UNCHANGED <<rows, nodes, life, clock, carry>>

\* The same with a reset of the session it leaves still pending
\* (_finalize_pending_reset_boundary): read the row, then finalize.  A start
\* by rollover_session carries the retained nodes over afterwards.
StartAfterReset(e, s, then) ==
  /\ At(e, "idle") /\ Bound(e)
  /\ s # eng[e].sess /\ eng[e].pend = eng[e].sess
  /\ Startable(e, s) /\ (then = "carry" => Fresh(s))
  /\ loc' = [loc EXCEPT ![e] =
       [Idle EXCEPT !.pc = "pendFin", !.tgt = s, !.then = then,
                    !.from = IF then = "carry" THEN eng[e].sess ELSE NULL,
                    !.f = IF life.present /\ life.cur = eng[e].sess
                          THEN Larger(eng[e].pendF, life.frontier)
                          ELSE eng[e].pendF]]
  /\ UNCHANGED <<rows, nodes, life, clock, carry, eng>>

FinalizePendingReset(e) ==
  /\ At(e, "pendFin") /\ clock < MaxClock
  /\ clock' = clock + 1
  /\ life' = Finalize(life, eng[e].pend, loc[e].f, clock')
  /\ eng' = [eng EXCEPT ![e] = Switched(e, loc[e].tgt)]
  /\ loc' = [loc EXCEPT ![e] = [@ EXCEPT !.pc = "bindRead", !.f = 0]]
  /\ UNCHANGED <<rows, nodes, carry>>

\* What the caller of bind_session does with the row it returns:
\* _bind_lifecycle_state takes its frontier; the in-place boundary keeps the
\* row and goes on.
BindReturns(e, row) ==
  /\ eng' = IF loc[e].then = "inplace" THEN eng
            ELSE [eng EXCEPT ![e] = [@ EXCEPT !.front = row.frontier]]
  /\ loc' = [loc EXCEPT ![e] =
       IF loc[e].then = "idle" THEN Idle
       ELSE [@ EXCEPT !.pc = loc[e].then, !.read = row, !.tries = 0]]

\* bind_session: one read of the compare-and-swap loop.
BindRead(e) ==
  /\ At(e, "bindRead")
  /\ IF life.present /\ life.cur = loc[e].tgt
     THEN BindReturns(e, life)
     ELSE /\ loc' = [loc EXCEPT ![e] = [@ EXCEPT !.pc = "bindWrite", !.read = life]]
          /\ eng' = eng
  /\ UNCHANGED <<rows, nodes, life, clock, carry>>

\* ... and its conditional write, or a lost race.
BindSwap(e) ==
  /\ At(e, "bindWrite") /\ BindApplies(life, loc[e].read)
  /\ life' = BindWrite(life, loc[e].read, loc[e].tgt)
  /\ loc' = [loc EXCEPT ![e] = [@ EXCEPT !.pc = "bindDone", !.read = NoRow]]
  /\ UNCHANGED <<rows, nodes, clock, carry, eng>>

\* Mutant of BindLost: one attempt too many before the write transaction.
BindLostOffByOne(e) ==
  /\ At(e, "bindWrite") /\ ~BindApplies(life, loc[e].read)
  /\ loc' = [loc EXCEPT ![e] = [@ EXCEPT !.tries = loc[e].tries + 1, !.read = NoRow,
               !.pc = IF loc[e].tries > CasAttempts THEN "bindTxn"
                         ELSE "bindRead"]]
  /\ UNCHANGED <<rows, nodes, life, clock, carry, eng>>

BindLost(e) ==
  /\ At(e, "bindWrite") /\ ~BindApplies(life, loc[e].read)
  /\ loc' = [loc EXCEPT ![e] = [@ EXCEPT !.tries = loc[e].tries + 1, !.read = NoRow,
               !.pc = IF loc[e].tries + 1 = CasAttempts THEN "bindTxn"
                         ELSE "bindRead"]]
  /\ UNCHANGED <<rows, nodes, life, clock, carry, eng>>

\* The row is read back in a statement of its own.  If it was pruned since,
\* the assertion ends the call where it is.
BindDone(e) ==
  /\ At(e, "bindDone")
  /\ IF life.present THEN BindReturns(e, life)
     ELSE eng' = eng /\ loc' = [loc EXCEPT ![e] = Idle]
  /\ UNCHANGED <<rows, nodes, life, clock, carry>>

\* _bind_session_in_write_transaction: read and write under BEGIN IMMEDIATE.
BindInTransaction(e) ==
  /\ At(e, "bindTxn")
  /\ life' = IF life.present /\ life.cur = loc[e].tgt THEN life
             ELSE BindWrite(life, life, loc[e].tgt)
  /\ BindReturns(e, life')
  /\ UNCHANGED <<rows, nodes, clock, carry>>

\* reassign_session_nodes
Reassigned(from, to) ==
  {IF n.sess = from THEN [n EXCEPT !.sess = to] ELSE n : n \in nodes}

\* carry_over_new_session_context, the last step of rollover_session.
CarryOver(e) ==
  /\ At(e, "carry")
  /\ nodes' = Reassigned(loc[e].from, loc[e].tgt)
  /\ loc' = [loc EXCEPT ![e] = Idle]
  /\ UNCHANGED <<rows, life, clock, carry, eng>>

-----------------------------------------------------------------------------
(* compress(): one leaf                                                    *)

\* _rebind_after_unadopted_compaction_commit: a row some other end unbound is
\* taken back at its own finalized frontier, never at the in-process one.
Compress(e) ==
  /\ At(e, "idle") /\ Bound(e)
  /\ life' = RebindOwn(life, eng[e].sess)
  /\ eng' = IF OwnFinalized(life, eng[e].sess)
            THEN [eng EXCEPT ![e] = [@ EXCEPT !.front = life'.frontier]] ELSE eng
  /\ loc' = [loc EXCEPT ![e] = [Idle EXCEPT !.pc = "select"]]
  /\ UNCHANGED <<rows, nodes, clock, carry>>

\* _store_complete_frontier: the row's frontier, never below the in-process
\* one.
SelectFrontier(e) == Larger(eng[e].front, life.frontier)

OwnedAbove(e) == {i \in Owned(eng[e].sess) : i > SelectFrontier(e)}

\* Mutant of ReadableRows: starts one row late.
ReadableRowsOneLate(e) ==
  {i \in OwnedAbove(e) : i > SelectFrontier(e) + 1 /\ ~rows[i].ign /\ i \notin Claimed}

\* The rows a leaf may summarise: owned, above the frontier, matched by no
\* ignore pattern, claimed by no leaf of any session.  A row that the code
\* excludes for another reason (a stored system prompt, a hidden reply, a copy)
\* is one more excluded row, as an ignored one is.
ReadableRows(e) ==
  {i \in OwnedAbove(e) : ~rows[i].ign /\ i \notin Claimed}

\* _select_leaf_candidate and _prepare_leaf_input: the leaf takes the readable
\* rows from the frontier up to some row; the other owned rows up to it are
\* accounted for as excluded.
SelectLeaf(e) ==
  LET above == OwnedAbove(e)
      readable == ReadableRows(e)
  IN /\ At(e, "select")
     /\ \E end \in readable :
          loc' = [loc EXCEPT ![e] =
            [Idle EXCEPT !.pc = "expect", !.end = end,
                         !.cov = {i \in readable : i <= end},
                         !.exc = {i \in above \ readable : i <= end}]]
     /\ UNCHANGED <<rows, nodes, life, clock, carry, eng>>

\* No candidate, no pressure, a closed engine, a summariser failure: the pass
\* ends with nothing published.
NoLeaf(e) ==
  /\ At(e, "select")
  /\ loc' = [loc EXCEPT ![e] = Idle]
  /\ UNCHANGED <<rows, nodes, life, clock, carry, eng>>

\* _build_leaf_publication, after the summariser returned: the expected
\* frontier (the publication's generation) is read now, ...
ReadExpected(e) ==
  /\ At(e, "expect")
  /\ loc' = [loc EXCEPT ![e] = [@ EXCEPT !.pc = "carried", !.f = life.frontier]]
  /\ UNCHANGED <<rows, nodes, life, clock, carry, eng>>

\* ... then the carried ranges and the rows that ignore patterns exclude.  A
\* stored row never changes, so that the second of these reads may be joined
\* to the first.
ReadCarried(e) ==
  LET l == loc[e]
      ignored == {i \in Owned(eng[e].sess) : rows[i].ign /\ i > l.f /\ i <= l.end}
  IN /\ At(e, "carried")
     /\ loc' = [loc EXCEPT ![e] =
          [@ EXCEPT !.pc = "publish", !.own = carry[eng[e].sess],
                    !.exc = l.exc \cup (ignored \ l.cov)]]
     /\ UNCHANGED <<rows, nodes, life, clock, carry, eng>>

\* Mutant of PublishedFrontier: one row past the coverage.
PublishedFrontierPastEnd(e) == Larger(loc[e].f, loc[e].end) + 1

\* covered_end of stage_compaction_publication.
PublishedFrontier(e) == Larger(loc[e].f, loc[e].end)

\* Mutant of LineageUnclaimed: trusts the frontier comparison alone.
LineageUnchecked(e) == loc[e].f = life.frontier

\* "Compaction publication source lineage is already claimed"
LineageUnclaimed(e) == loc[e].cov \cap ClaimedIn(eng[e].sess) = {}

\* stage_compaction_publication.  Left out are two more checks, which can only
\* refuse: that the in-memory copy proof still holds, and that the excluded
\* rows still match a filter (stored rows and patterns do not change here).
Publishable(e) ==
  LET s == eng[e].sess
      l == loc[e]
      end == Larger(l.f, l.end)
      within == {i \in Ids : i > l.f /\ i <= end}
      owned == OwnedWith(s, l.own)
  IN /\ l.cov \cap l.exc \cap within = {}
     /\ l.cov \cup (l.exc \cap within) \subseteq owned
     /\ owned \cap within = (l.cov \cup l.exc) \cap within
     /\ LineageUnclaimed(e)
     /\ life.present
     /\ life.cur = s
     /\ life.frontier = l.f

\* _publish_leaf_node: the node and the frontier advance are one transaction.
\* compress() then returns a list that still holds the owned rows above the
\* new frontier; that list is its commit proof.
Publish(e) ==
  LET s == eng[e].sess
      top == loc[e].end
  IN /\ At(e, "publish") /\ Publishable(e)
     /\ nodes' = nodes \cup {[sess |-> s, src |-> loc[e].cov]}
     /\ life' = Advance(life, s, PublishedFrontier(e))
     /\ eng' = [eng EXCEPT ![e] = [@ EXCEPT !.front = top, !.proofSt = "fresh",
                           !.proof = {i \in Owned(s) : i > top}]]
     /\ loc' = [loc EXCEPT ![e] = Idle]
     /\ UNCHANGED <<rows, clock, carry>>

\* _fail_open_after_publication_failure: a refused check, a missing row or a
\* locked database leaves the store as it was; compress() hands back what the
\* host had.
PublicationFails(e) ==
  /\ At(e, "publish")
  /\ loc' = [loc EXCEPT ![e] = Idle]
  /\ UNCHANGED <<rows, nodes, life, clock, carry, eng>>

-----------------------------------------------------------------------------
(* Session end and reset                                                   *)

\* _finalize_foreground_session_end_unlocked: finalize at the in-process
\* frontier.  An end whose list is the one compress() handed back consumes
\* the proof once; any other end first stores the rows it has not seen, which
\* is Ingest.  The engine keeps its session.
End(e) ==
  /\ At(e, "idle") /\ Bound(e) /\ clock < MaxClock
  /\ clock' = clock + 1
  /\ life' = Finalize(life, eng[e].sess, eng[e].front, clock')
  /\ eng' = [eng EXCEPT ![e] =
       IF eng[e].proofSt = "fresh" THEN [@ EXCEPT !.proofSt = "consumed"]
       ELSE [@ EXCEPT !.proofSt = "none", !.proof = {}]]
  /\ UNCHANGED <<rows, nodes, carry, loc>>

\* The finalize of an end whose list compress() handed back hits a locked
\* database: the proof is consumed all the same, the row stays bound.  (Any
\* other end that hits the lock changes nothing.)
EndLocked(e) ==
  /\ At(e, "idle") /\ Bound(e) /\ eng[e].proofSt = "fresh"
  /\ eng' = [eng EXCEPT ![e] = [@ EXCEPT !.proofSt = "consumed"]]
  /\ UNCHANGED <<rows, nodes, life, clock, carry, loc>>

Left(e) == eng[e].hist \ {eng[e].sess}

\* _on_session_end_unlocked for a session the engine left: what the host's
\* list has beyond the stored rows is appended to that session, ...
AppendSuffix(e, s, ign) ==
  /\ "offcurrent" \in HostOps
  /\ At(e, "idle") /\ s \in Left(e) /\ Len(rows) < MaxRows
  /\ rows' = Append(rows, [sess |-> s, ign |-> ign])
  /\ loc' = [loc EXCEPT ![e] = [Idle EXCEPT !.pc = "offRead", !.tgt = s]]
  /\ UNCHANGED <<nodes, life, clock, carry, eng>>

\* ... the frontier of the row is read, whichever session holds it (at once,
\* when there is nothing to append), ...
EndOffCurrent(e, s) ==
  /\ "offcurrent" \in HostOps
  /\ \/ At(e, "idle") /\ s \in Left(e)
     \/ At(e, "offRead") /\ s = loc[e].tgt
  /\ loc' = [loc EXCEPT ![e] =
       [Idle EXCEPT !.pc = "offFin", !.tgt = s, !.f = life.frontier]]
  /\ UNCHANGED <<rows, nodes, life, clock, carry, eng>>

\* ... and finalizes the ended session at it.
FinalizeOffCurrent(e) ==
  /\ At(e, "offFin") /\ clock < MaxClock
  /\ clock' = clock + 1
  /\ life' = Finalize(life, loc[e].tgt, loc[e].f, clock')
  /\ loc' = [loc EXCEPT ![e] = Idle]
  /\ UNCHANGED <<rows, nodes, carry, eng>>

\* _on_session_reset_unlocked up to the durable proof: remember the boundary,
\* record the reset; the progress kept in the process is zeroed.
Reset(e) ==
  /\ "reset" \in HostOps
  /\ At(e, "idle") /\ Bound(e) /\ clock < MaxClock
  /\ clock' = clock + 1
  /\ life' = RecordReset(life, clock')
  /\ eng' = [eng EXCEPT ![e] =
       [@ EXCEPT !.pend = eng[e].sess, !.pendF = eng[e].front,
                 !.front = 0, !.proof = {}, !.proofSt = "none"]]
  /\ loc' = [loc EXCEPT ![e] = [@ EXCEPT !.pc = "unprove"]]
  /\ UNCHANGED <<rows, nodes, carry>>

\* The durable proof is dropped in a transaction of its own, whose failure is
\* only logged.
DropProof(e) ==
  /\ At(e, "unprove")
  /\ \/ carry' = [carry EXCEPT ![eng[e].sess] = {}]
     \/ UNCHANGED carry
  /\ loc' = [loc EXCEPT ![e] =
       [@ EXCEPT !.pc = IF RetainLeaves THEN "idle" ELSE "delete"]]
  /\ UNCHANGED <<rows, nodes, life, clock, eng>>

\* _delete_nodes_batched: batches of leaves, each its own transaction, until
\* one finds none.
DeleteBatch(e) ==
  LET mine == {n \in nodes : n.sess = eng[e].sess}
  IN /\ At(e, "delete")
     /\ IF mine = {}
        THEN loc' = [loc EXCEPT ![e] = Idle] /\ nodes' = nodes
        ELSE \E batch \in SUBSET mine \ {{}} :
               nodes' = nodes \ batch /\ loc' = loc
     /\ UNCHANGED <<rows, life, clock, carry, eng>>

-----------------------------------------------------------------------------
(* Compression boundaries, rotate, garbage collection                      *)

\* Mutant of BoundaryFrontier: the newest stored row, not the newest
\* compacted one.
BoundaryFrontierNewestRow(e) == Larger(eng[e].front, Len(rows))

\* The frontier a boundary carries: the largest of the in-process one, the
\* row's current one, the row's last finalized one and a pending reset's.
BoundaryFrontier(e) ==
  LET known == life.present /\ (life.cur = eng[e].sess \/ life.fin = eng[e].sess)
      recorded == IF known THEN Larger(life.frontier, life.finFrontier) ELSE 0
      pending == IF eng[e].pend = eng[e].sess THEN eng[e].pendF ELSE 0
  IN Larger(eng[e].front, Larger(recorded, pending))

\* _continue_compression_boundary, the bound session rotating into a session
\* id the host has just minted: the frontier to carry is decided from a read
\* of the row, ...  (The host names the conversation, so no session id is a
\* conversation id, and it names the bound session as the old one: the
\* branches for a host that lost track of either are left out.)
Boundary(e, s) ==
  /\ "boundary" \in HostOps
  /\ At(e, "idle") /\ Bound(e) /\ Fresh(s)
  /\ loc' = [loc EXCEPT ![e] =
       [Idle EXCEPT !.pc = "bndFin", !.tgt = s, !.from = eng[e].sess,
                    !.f = BoundaryFrontier(e)]]
  /\ UNCHANGED <<rows, nodes, life, clock, carry, eng>>

\* ... the source is finalized there, ...
BoundaryFinalize(e) ==
  /\ At(e, "bndFin") /\ clock < MaxClock
  /\ clock' = clock + 1
  /\ life' = Finalize(life, loc[e].from, loc[e].f, clock')
  /\ loc' = [loc EXCEPT ![e] = [@ EXCEPT !.pc = "bndMove"]]
  /\ UNCHANGED <<rows, nodes, carry, eng>>

\* ... its nodes move to the child, and the child is bound, ...
BoundaryMove(e) ==
  /\ At(e, "bndMove")
  /\ nodes' = Reassigned(loc[e].from, loc[e].tgt)
  /\ eng' = [eng EXCEPT ![e] = [@ EXCEPT !.sess = loc[e].tgt, 
                                         !.hist = eng[e].hist \cup {loc[e].tgt}]]
  /\ loc' = [loc EXCEPT ![e] = [@ EXCEPT !.pc = "bindRead", !.then = "bndAdvance",
                        !.from = NULL]]
  /\ UNCHANGED <<rows, life, clock, carry>>

\* ... and advanced; a consumed commit proof hands the child its rows above
\* the frontier.
BoundaryAdvance(e) ==
  LET s == loc[e].tgt
      proven == eng[e].proofSt = "consumed"
      carried == IF proven THEN {i \in eng[e].proof : i > loc[e].f} ELSE {}
  IN /\ At(e, "bndAdvance")
     /\ life' = Advance(life, s, loc[e].f)
     /\ carry' = [carry EXCEPT ![s] = carried]
     /\ eng' = [eng EXCEPT ![e] = [@ EXCEPT
          !.front = IF loc[e].f > 0 /\ life.present THEN life'.frontier
                    ELSE eng[e].front,
          !.proof = carried, !.proofSt = IF proven THEN "consumed" ELSE "none",
          !.pend = NULL, !.pendF = 0]]
     /\ loc' = [loc EXCEPT ![e] = Idle]
     /\ UNCHANGED <<rows, nodes, clock>>

\* _continue_in_place_compression_boundary: the same session goes on.  When
\* the row does not prove continuity the generic start runs instead.
InPlaceBoundary(e) ==
  LET s == eng[e].sess
      mine == life.present /\ (life.cur = s \/ (life.cur = NULL /\ life.fin = s))
  IN /\ "boundary" \in HostOps
     /\ At(e, "idle") /\ Bound(e)
     /\ IF ~mine
        THEN /\ eng' = [eng EXCEPT ![e] = Switched(e, s)]
             /\ loc' = [loc EXCEPT ![e] = BindCall(s, "idle")]
        ELSE /\ eng' = eng
             /\ loc' = [loc EXCEPT ![e] =
                  IF life.cur = NULL THEN BindCall(s, "inplace")
                  ELSE [Idle EXCEPT !.pc = "inplace", !.tgt = s, !.read = life]]
     /\ UNCHANGED <<rows, nodes, life, clock, carry>>

InPlaceAdvance(e) ==
  LET s == loc[e].tgt
      read == loc[e].read
      resumable == IF read.fin = s /\ NotResetSince(read) THEN read.finFrontier ELSE 0
      frontier == Larger(eng[e].front, Larger(read.frontier, resumable))
  IN /\ At(e, "inplace")
     /\ life' = IF frontier > read.frontier THEN Advance(life, s, frontier) ELSE life
     /\ eng' = [eng EXCEPT ![e] = [@ EXCEPT !.pend = NULL, !.pendF = 0,
          !.front = IF frontier > read.frontier THEN life'.frontier
                       ELSE read.frontier]]
     /\ loc' = [loc EXCEPT ![e] = Idle]
     /\ UNCHANGED <<rows, nodes, clock, carry>>

\* rotate_active_session(apply=True): the operator moves the row's frontier to
\* just below the fresh tail; the in-process marker stays.
Rotate(e, first) ==
  /\ "rotate" \in HostOps
  /\ At(e, "idle") /\ Bound(e)
  /\ first \in Ids /\ rows[first].sess = eng[e].sess
  /\ \E i \in 1..(first - 1) : rows[i].sess = eng[e].sess
  /\ first - 1 > life.frontier
  /\ life' = Advance(life, eng[e].sess, first - 1)
  /\ UNCHANGED <<rows, nodes, clock, carry, eng, loc>>

\* prune_empty_sessions, run by an engine of another conversation in another
\* process when the table is large: it protects only its own sessions.
PruneEmpty ==
  /\ "prune" \in HostOps
  /\ life.present
  /\ \A s \in {life.cur, life.fin} \ {NULL} :
       (\A i \in Ids : rows[i].sess # s) /\ (\A n \in nodes : n.sess # s)
  /\ life' = NoRow
  /\ UNCHANGED <<rows, nodes, clock, carry, eng, loc>>

Next ==
  \/ PruneEmpty
  \/ \E e \in Engines :
       \/ \E ign \in BOOLEAN : Ingest(e, ign)
       \/ \E s \in Sessions :
            \/ Start(e, s)
            \/ \E then \in {"idle", "carry"} : StartAfterReset(e, s, then)
            \/ EndOffCurrent(e, s)
            \/ \E ign \in BOOLEAN : AppendSuffix(e, s, ign)
            \/ Boundary(e, s)
       \/ FinalizePendingReset(e)
       \/ BindRead(e) \/ BindSwap(e) \/ BindLost(e) \/ BindDone(e)
       \/ BindInTransaction(e)
       \/ CarryOver(e)
       \/ Compress(e) \/ SelectLeaf(e) \/ NoLeaf(e)
       \/ ReadExpected(e) \/ ReadCarried(e)
       \/ Publish(e) \/ PublicationFails(e)
       \/ End(e) \/ EndLocked(e) \/ FinalizeOffCurrent(e) \/ Reset(e) \/ DropProof(e)
       \/ DeleteBatch(e)
       \/ BoundaryFinalize(e) \/ BoundaryMove(e) \/ BoundaryAdvance(e)
       \/ InPlaceBoundary(e) \/ InPlaceAdvance(e)
       \/ \E first \in 1..MaxRows : Rotate(e, first)

Spec == Init /\ [][Next]_vars

-----------------------------------------------------------------------------
(* Properties                                                              *)

\* The frontier of the bound session is honest: every row that session must
\* account for at or below it is ignored by pattern or claimed by a leaf,
\* through binds that resume a finalized frontier (_bind_plan,
\* rebind_own_finalized), stale ends, boundaries and publications of other
\* engines, until a reset deletes leaves.
FrontierClaimed ==
  life.present /\ life.cur # NULL /\ (RetainLeaves \/ life.resetAt = 0) =>
    \A i \in Owned(life.cur) :
      i <= life.frontier => rows[i].ign \/ i \in Claimed

\* No row is summarised by two leaves of one session: of several engines that
\* summarised the same rows at most one publishes
\* (stage_compaction_publication, "source lineage is already claimed").
NoDoubleClaim ==
  \A m, n \in nodes : m.sess = n.sess /\ m # n => m.src \cap n.src = {}

\* While a session stays bound its frontier never goes back, whatever stale
\* frontier an engine writes (advance_frontier, stage_frontier_advance).
FrontierMonotone ==
  [][life.present /\ life'.present /\ life.cur # NULL /\ life'.cur = life.cur
       => life'.frontier >= life.frontier]_vars

\* A publication skips no row: of the bound session's own rows between the old
\* and the new frontier each is ignored by pattern or claimed by a leaf once
\* the transaction commits, though the rows were chosen before the summariser
\* call and every other engine may have acted since.
PublicationSkipsNoRow ==
  [][\A i \in Ids :
       /\ nodes' # nodes /\ life'.cur = life.cur
       /\ rows[i].sess = life.cur
       /\ life.frontier < i /\ i <= life'.frontier
       => rows[i].ign \/ i \in Claimed']_vars

\* A compression boundary loses no row of the list it hands over: each is
\* ignored, claimed by a leaf, or carried into what the child must account for
\* (_continue_compression_boundary decides the frontier from an earlier read).
BoundaryKeepsRows ==
  [][\A e \in Engines :
       /\ At(e, "bndAdvance") /\ loc'[e] = Idle
       /\ eng[e].proofSt = "consumed"
       => \A i \in eng[e].proof :
            rows[i].ign \/ i \in Claimed \/ i \in carry'[loc[e].tgt]]_vars
=============================================================================
