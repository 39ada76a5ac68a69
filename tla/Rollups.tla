------------------------------- MODULE Rollups -------------------------------
(***************************************************************************)
(* Temporal rollups of one scope: rollup_store.py (rows, build leases, the *)
(* durable invalidation outbox), rollup_builder.py (building a day and an  *)
(* aggregate, the maintenance pass), the node triggers of db_bootstrap.py, *)
(* /lcm rollups rebuild of command.py and the reader of recent.py.         *)
(*                                                                         *)
(* The builders are processes that share the database file.  One step of a *)
(* builder is one transaction, or one autocommitted SELECT, of the code.   *)
(* Period 0 is the aggregate that contains every day; week and month rows  *)
(* go through the same statements, so one of them is modelled.  The text a *)
(* rollup was built from is the set of <<node, version of its summary>>.   *)
(***************************************************************************)
EXTENDS Integers, Sequences, FiniteSets, FiniteSetsExt

CONSTANTS
    NDays,          \* days of the aggregate, numbered from 1
    Nodes,          \* summary node ids that may be published, naturals
    First, Last,    \* first and last UTC day a node's interval intersects
    Kids,           \* summary nodes a condensed node was made from
    Builders,       \* processes that run maintenance or a rebuild
    Readers,        \* lcm_recent calls over the window of all the days
    PerPass,        \* rollup_builds_per_pass
    EventLimit,     \* event_limit of a drain
    DayBudget,      \* day_budget of a drain
    GenBound,       \* generations are counted modulo this bound; with 1 a lease is
                    \* told by its nonce alone, a weaker check than the code's
    MaxMutations,   \* bound on node mutations
    MaxRebuilds,    \* bound on operator rebuilds
    Ceases,         \* whether failures may stop for good
    NoNonce         \* the empty lease nonce

Days == 1..NDays
Agg == 0
Periods == 0..NDays

ASSUME RollupAssumption ==
    /\ NDays \in Nat \ {0} /\ GenBound \in Nat \ {0}
    /\ PerPass \in Nat /\ EventLimit \in Nat /\ DayBudget \in Nat
    /\ MaxMutations \in Nat /\ MaxRebuilds \in Nat
    /\ Nodes \subseteq Nat /\ IsFiniteSet(Nodes)
    /\ First \in [Nodes -> Days] /\ Last \in [Nodes -> Days]
    /\ Kids \in [Nodes -> SUBSET Nodes]
    /\ NoNonce \notin Builders
    /\ \A n \in Nodes : /\ First[n] <= Last[n]
                        /\ \A k \in Kids[n] : /\ k < n
                                              /\ First[n] <= First[k]
                                              /\ Last[k] <= Last[n]

VARIABLES
    text,       \* version of each node's summary, 0 while it has no row
    born,       \* nodes ever published (node ids are never reused)
    outbox,     \* lcm_rollup_invalidations in event_id order
    row,        \* lcm_rollups and lcm_rollup_sources by period
    bld,        \* locals of each builder
    rd,         \* locals of each reader
    calm,       \* failures have stopped for good
    mutations,  \* node mutations so far
    rebuilds    \* operator rebuilds so far

vars == <<text, born, outbox, row, bld, rd, calm, mutations, rebuilds>>

\* A row that does not exist, and a builder between passes.
NoRow == [st |-> "none", gen |-> 0, nonce |-> NoNonce, late |-> FALSE, built |-> {}]
Idle == [pc |-> "idle", todo |-> <<>>, op |-> FALSE, gen |-> 0, days |-> {}, have |-> {}]
NotReading == [pc |-> "idle", seen |-> [d \in Days |-> {}], served |-> [d \in {} |-> {}]]

-----------------------------------------------------------------------------
(* The canonical frontier.                                                 *)

Live == {n \in Nodes : text[n] > 0}

\* Nodes a node's lineage ends in: a leaf, or a source that has no row.
Terminal[n \in Nodes] ==
    IF text[n] = 0 \/ Kids[n] = {} THEN {n} ELSE UNION {Terminal[k] : k \in Kids[n]}

Depth[n \in Nodes] == IF Kids[n] = {} THEN 0 ELSE 1 + Max({Depth[k] : k \in Kids[n]})

\* Two lineages share a node and neither contains the other: callers fail closed.
Ambiguous(S) ==
    \E a, b \in S : /\ Terminal[a] \cap Terminal[b] # {}
                    /\ ~ Terminal[a] \subseteq Terminal[b]
                    /\ ~ Terminal[b] \subseteq Terminal[a]

\* The widest lineages, each by its deepest node, the lowest id on a tie.
Canonical(S) ==
    {n \in S : \A m \in S \ {n} :
        /\ Terminal[n] \subseteq Terminal[m] => Terminal[n] = Terminal[m]
        /\ Terminal[n] = Terminal[m] =>
               Depth[m] < Depth[n] \/ (Depth[m] = Depth[n] /\ n < m)}

Sources(d) == {n \in Canonical(Live) : First[n] <= d /\ d <= Last[n]}
Texts(S) == {<<n, text[n]>> : n \in S}
NodesOf(built) == {x[1] : x \in built}

\* What a rollup of the period has to be built from.
Content(p) == IF p = Agg THEN Canonical(Live) ELSE Sources(p)

-----------------------------------------------------------------------------
(* The outbox.                                                             *)

Event(n) == [first |-> First[n], last |-> Last[n], next |-> First[n]]

\* Days the first k events still have to expand.
Cost[k \in 0..Len(outbox)] ==
    IF k = 0 THEN 0 ELSE Cost[k - 1] + (outbox[k].last - outbox[k].next + 1)

Batch == Min({EventLimit, Len(outbox)})
Finished == Max({k \in 0..Batch : Cost[k] <= DayBudget})
Spare == IF Finished < Batch THEN DayBudget - Cost[Finished] ELSE 0

\* How often a bounded drain stales the day.
Hits(d) ==
    Cardinality({k \in 1..Finished : outbox[k].next <= d /\ d <= outbox[k].last})
    + (IF Spare > 0 /\ outbox[Finished + 1].next <= d
                    /\ d < outbox[Finished + 1].next + Spare THEN 1 ELSE 0)

Processed == Cost[Finished] + Spare

\* INSERT ... 'stale' ON CONFLICT DO UPDATE, n times over the same row.
StaleBy(r, n) ==
    IF n = 0 THEN r
    ELSE [r EXCEPT !.st = "stale", !.nonce = NoNonce, !.late = FALSE,
                   !.gen = (IF r.st = "none" THEN n - 1 ELSE r.gen + n) % GenBound]

DrainedRows ==
    [p \in Periods |-> StaleBy(row[p], IF p = Agg THEN Processed ELSE Hits(p))]

\* Mutant of DrainedOutbox: an event that was begun is deleted with the others.
DrainedOutboxDropsRest ==
    SubSeq(outbox, Finished + 1 + (IF Spare > 0 THEN 1 ELSE 0), Len(outbox))

DrainedOutbox ==
    LET rest == SubSeq(outbox, Finished + 1, Len(outbox))
    IN  IF Spare > 0 THEN [rest EXCEPT ![1].next = @ + Spare] ELSE rest

drain_invalidations == row' = DrainedRows /\ outbox' = DrainedOutbox

\* An event whose interval overlaps the window of the period.
Pending(p) ==
    \E k \in DOMAIN outbox :
        p = Agg \/ (outbox[k].first <= p /\ p <= outbox[k].last)

-----------------------------------------------------------------------------
(* Mutations of summary_nodes: each trigger adds its event in the same     *)
(* transaction.  A reader in progress sees the new frontier.               *)

\* Readers take note of what the frontier of each day becomes.
Observe ==
    rd' = [r \in Readers |->
              IF rd[r].pc = "idle" THEN rd[r]
              ELSE [rd[r] EXCEPT !.seen = [d \in Days |-> @[d] \cup {Texts(Sources(d))'}]]]

Mutate(n, version) ==
    /\ mutations < MaxMutations
    /\ mutations' = mutations + 1
    /\ text' = [text EXCEPT ![n] = version]
    /\ outbox' = Append(outbox, Event(n))
    /\ Observe
    /\ UNCHANGED <<row, bld, calm, rebuilds>>

\* add_node: a leaf or a condensation of nodes that are there.
InsertNode(n) ==
    /\ n \notin born
    /\ \A k \in Kids[n] : text[k] > 0
    /\ born' = born \cup {n}
    /\ Mutate(n, 1)

\* A node is deleted, or moved to another session.
DeleteNode(n) == text[n] > 0 /\ Mutate(n, 0) /\ UNCHANGED born

\* level3_repair rewrites the summary of a node in place: two events.
UpdateNode(n) ==
    /\ text[n] > 0
    /\ mutations < MaxMutations
    /\ mutations' = mutations + 1
    /\ text' = [text EXCEPT ![n] = @ + 1]
    /\ outbox' = outbox \o <<Event(n), Event(n)>>
    /\ Observe
    /\ UNCHANGED <<born, row, bld, calm, rebuilds>>

\* mark_stale_for_published_summary: an engine drains after a publication.
EngineDrain ==
    /\ outbox # <<>>
    /\ drain_invalidations
    /\ UNCHANGED <<text, born, bld, rd, calm, mutations, rebuilds>>

\* Time passes: a build lease or the backoff of a failed row runs out.
Elapse(p) ==
    /\ row[p].st \in {"building", "failed"} /\ ~ row[p].late
    /\ row' = [row EXCEPT ![p].late = TRUE]
    /\ UNCHANGED <<text, born, outbox, bld, rd, calm, mutations, rebuilds>>

-----------------------------------------------------------------------------
(* A builder.  Only bld[b], the rows and the outbox change.                *)

At(b, pc) == bld[b].pc = pc
Step(b, l) == bld' = [bld EXCEPT ![b] = l]
Goto(b, pc) == Step(b, [bld[b] EXCEPT !.pc = pc])
Target(b) == Head(bld[b].todo)

\* The build of the first target is over; the next one, or the end of the pass.
Done(b) ==
    IF Len(bld[b].todo) = 1 THEN Idle
    ELSE [Idle EXCEPT !.pc = "next", !.todo = Tail(bld[b].todo), !.op = bld[b].op]

ReadOnly == UNCHANGED <<row, outbox>>
Outside == UNCHANGED <<text, born, rd, calm, mutations, rebuilds>>

\* The compare-and-set of every write a token guards.
Owns(b) ==
    LET r == row[Target(b)]
    IN  r.st = "building" /\ r.nonce = b /\ r.gen = bld[b].gen

\* A guarded UPDATE, which changes no row when the build was superseded.
Guarded(b, r) ==
    /\ row' = IF Owns(b) THEN [row EXCEPT ![Target(b)] = r] ELSE row
    /\ UNCHANGED outbox

\* Mutant of Released: the lease nonce is left behind.
ReleasedKeepsNonce(b, st) == [row[Target(b)] EXCEPT !.st = st, !.late = FALSE]

Released(b, st) == [row[Target(b)] EXCEPT !.st = st, !.nonce = NoNonce, !.late = FALSE]

\* run_rollup_maintenance: drain ...
StartPass(b) ==
    /\ At(b, "idle") /\ PerPass > 0
    /\ drain_invalidations
    /\ Step(b, [Idle EXCEPT !.pc = "reclaim"])
    /\ Outside

\* ... reclaim the rows whose build lease ran out ...
reclaim_stale_building(b) ==
    /\ At(b, "reclaim")
    /\ row' = [p \in Periods |->
                  IF row[p].st = "building" /\ row[p].late THEN StaleBy(row[p], 1) ELSE row[p]]
    /\ UNCHANGED outbox
    /\ Goto(b, "pick")
    /\ Outside

\* The SELECTs of a pass: stale days, failed days, stale and failed aggregates.
Selects == {"pick", "failedDays", "staleAgg", "failedAgg"}
Picks(b) == bld[b].pc \in Selects

\* Periods in ascending order.
Ascending(S) ==
    LET rank(p) == Cardinality({q \in S : q <= p})
    IN  [i \in 1..Cardinality(S) |-> CHOOSE p \in S : rank(p) = i]

\* Mutant of Retriable: a failed row is never picked again.
RetriableNever(p) == row[p].st = "none" /\ row[p].late

Retriable(p) == row[p].st = "failed" /\ row[p].late

\* Failed days come in the order in which they failed, which is not kept here:
\* any order.
Orders(S) == {f \in [1..Cardinality(S) -> S] : \A i, j \in DOMAIN f : f[i] = f[j] => i = j}

\* The rows a SELECT returns, oldest first, and the SELECT that follows it.
Found(pc) ==
    CASE pc = "pick"       -> {Ascending({d \in Days : row[d].st = "stale"})}
      [] pc = "failedDays" -> Orders({d \in Days : Retriable(d)})
      [] pc = "staleAgg"   -> {IF row[Agg].st = "stale" THEN <<Agg>> ELSE <<>>}
      [] OTHER             -> {IF Retriable(Agg) THEN <<Agg>> ELSE <<>>}

Following(pc) ==
    CASE pc = "pick"       -> "failedDays"
      [] pc = "failedDays" -> "staleAgg"
      [] pc = "staleAgg"   -> "failedAgg"
      [] OTHER             -> "next"

\* ... and pick what to build, SELECT by SELECT until there is enough.
Picked(had, found) == had \o SubSeq(found, 1, Min({PerPass - Len(had), Len(found)}))

PickRows(b) ==
    /\ Picks(b)
    /\ \E found \in Found(bld[b].pc) :
         LET todo == Picked(bld[b].todo, found)
             then == IF Len(todo) = PerPass THEN "next" ELSE Following(bld[b].pc)
         IN  Step(b, IF then = "next" /\ todo = <<>> THEN Idle
                     ELSE [Idle EXCEPT !.pc = then, !.todo = todo])
    /\ ReadOnly /\ Outside

\* /lcm rollups rebuild: seed every target in one transaction, build the first ones.
Rebuild(b, targets) ==
    /\ At(b, "idle") /\ rebuilds < MaxRebuilds
    /\ rebuilds' = rebuilds + 1
    /\ LET seeded == {targets[i] : i \in DOMAIN targets} \cup {Agg}
       IN  row' = [p \in Periods |->
                      IF p \in seeded /\ row[p].st # "building" THEN StaleBy(row[p], 1) ELSE row[p]]
    /\ Step(b, IF PerPass = 0 THEN Idle
               ELSE [Idle EXCEPT !.pc = "next", !.op = TRUE,
                                 !.todo = SubSeq(targets, 1, Min({PerPass, Len(targets)}))])
    /\ UNCHANGED <<text, born, outbox, rd, calm, mutations>>

\* The pass stops: its time budget is spent or the summary route is refused ...
StopPass(b) ==
    /\ ~ calm /\ (At(b, "reclaim") \/ Picks(b) \/ At(b, "next")) /\ ~ bld[b].op
    /\ Step(b, Idle) /\ ReadOnly /\ Outside

\* ... or builds the next row, which drains first.
BeginBuild(b) == At(b, "next") /\ drain_invalidations /\ Goto(b, "claim") /\ Outside

\* Claim the build before any source is read.
upsert_building(b) ==
    /\ At(b, "claim")
    /\ LET p == Target(b)
           g == IF row[p].st = "none" THEN 0 ELSE (row[p].gen + 1) % GenBound
       IN  /\ row' = [row EXCEPT ![p] = [@ EXCEPT !.st = "building", !.gen = g,
                                                  !.nonce = b, !.late = FALSE]]
           /\ Step(b, [bld[b] EXCEPT !.gen = g, !.pc = IF p = Agg THEN "statuses" ELSE "sources"])
    /\ UNCHANGED outbox /\ Outside

\* build_day reads the frontier of its day.
ReadDay(b) ==
    /\ At(b, "sources")
    /\ LET S == Sources(Target(b))
       IN  Step(b, [bld[b] EXCEPT !.have = Texts(S),
                                  !.pc = IF Ambiguous(Live) THEN "fail"
                                         ELSE IF S = {} THEN "resolve" ELSE "publish"])
    /\ ReadOnly /\ Outside

\* An aggregate reads which days are ready ...
ReadStatuses(b) ==
    /\ At(b, "statuses")
    /\ Step(b, [bld[b] EXCEPT !.days = {d \in Days : row[d].st = "ready"}, !.pc = "content"])
    /\ ReadOnly /\ Outside

\* ... then which days have content: a content day that was not ready defers it.
ReadContent(b) ==
    /\ At(b, "content")
    /\ LET content == {d \in Days : Sources(d) # {}}
       IN  Goto(b, IF Ambiguous(Live) THEN "fail"
                   ELSE IF ~ content \subseteq bld[b].days THEN "defer"
                   ELSE IF bld[b].days = {} THEN "resolve" ELSE "gather")
    /\ ReadOnly /\ Outside

\* ... then the nodes the ready days were built from ...
ReadConstituents(b) ==
    /\ At(b, "gather")
    /\ Step(b, [bld[b] EXCEPT !.have = UNION {row[d].built : d \in bld[b].days},
                              !.pc = "canonical"])
    /\ ReadOnly /\ Outside

\* ... and the current text of their canonical frontier.
ReadCanonical(b) ==
    /\ At(b, "canonical")
    /\ LET S == NodesOf(bld[b].have) \cap Live
       IN  Step(b, [bld[b] EXCEPT !.have = Texts(Canonical(S)),
                                  !.pc = IF Ambiguous(S) THEN "fail"
                                         ELSE IF S = {} THEN "defer" ELSE "publish"])
    /\ ReadOnly /\ Outside

\* The row of a completed build: refused while a mutation of the window is
\* pending or a source has gone, else ready with its new lineage.
Published(b) ==
    LET r == row[Target(b)]
    IN  IF Pending(Target(b)) \/ ~ NodesOf(bld[b].have) \subseteq Live
        THEN StaleBy(r, 1)
        ELSE [Released(b, "ready") EXCEPT !.built = bld[b].have]

\* Mutant of mark_ready: the UPDATE names the row, not the build token.
MarkReadyUnguarded(b) ==
    /\ At(b, "publish")
    /\ row' = [row EXCEPT ![Target(b)] = Published(b)] /\ UNCHANGED outbox
    /\ Step(b, Done(b)) /\ Outside

mark_ready(b) ==
    /\ At(b, "publish")
    /\ Guarded(b, Published(b))
    /\ IF Owns(b) /\ Published(b).st = "ready" /\ Target(b) # Agg
       THEN Goto(b, "restale") ELSE Step(b, Done(b))
    /\ Outside

\* A rebuilt day stales the aggregates over it, in a transaction of its own.
stale_aggregates_for_day(b) ==
    /\ At(b, "restale")
    /\ row' = [row EXCEPT ![Agg] = StaleBy(@, 1)]
    /\ UNCHANGED outbox /\ Step(b, Done(b)) /\ Outside

\* A level 3 cut is not stored: the row goes back to stale.
DeferLevel3(b) ==
    /\ ~ calm /\ At(b, "publish")
    /\ Guarded(b, Released(b, "stale")) /\ Step(b, Done(b)) /\ Outside

defer_incomplete(b) ==
    /\ At(b, "defer")
    /\ Guarded(b, Released(b, "stale")) /\ Step(b, Done(b)) /\ Outside

\* Mutant of resolve_no_source: deletes by period, without the build token.
ResolveUnguarded(b) ==
    /\ At(b, "resolve")
    /\ row' = [row EXCEPT ![Target(b)] = NoRow] /\ UNCHANGED outbox
    /\ Step(b, Done(b)) /\ Outside

\* Nothing to build from: the row and its sources are deleted.
resolve_no_source(b) ==
    /\ At(b, "resolve")
    /\ Guarded(b, NoRow) /\ Step(b, Done(b)) /\ Outside

mark_failed(b) ==
    /\ At(b, "fail")
    /\ Guarded(b, Released(b, "failed")) /\ Step(b, Done(b)) /\ Outside

\* A statement or the summarizer raises: before the claim, or when the failure
\* itself cannot be stored, the build is over; else it is marked failed.
BuildRaises(b) ==
    /\ ~ calm /\ bld[b].pc \notin {"idle", "reclaim"} /\ ~ Picks(b)
    /\ IF bld[b].pc \in {"next", "claim", "fail"} THEN Step(b, Done(b)) ELSE Goto(b, "fail")
    /\ ReadOnly /\ Outside

\* The process dies, or the pass itself raises; a claimed row stays 'building'.
Abandon(b) == ~ calm /\ bld[b].pc # "idle" /\ Step(b, Idle) /\ ReadOnly /\ Outside

\* From here on the database, the summary route and the processes are healthy.
FaultsCease ==
    /\ Ceases /\ ~ calm /\ calm' = TRUE
    /\ UNCHANGED <<text, born, outbox, row, bld, rd, mutations, rebuilds>>

-----------------------------------------------------------------------------
(* lcm_recent over the window of all the days.                             *)

RdStep(r, l) ==
    /\ rd' = [rd EXCEPT ![r] = l]
    /\ UNCHANGED <<text, born, outbox, row, bld, calm, mutations, rebuilds>>

\* Mutant of ReadPending: does not ask for pending events.
ReadPendingUnasked(r) ==
    /\ rd[r].pc = "idle"
    /\ RdStep(r, [NotReading EXCEPT !.pc = "count",
                                    !.seen = [d \in Days |-> {Texts(Sources(d))}]])

\* A pending event refuses the rollups of the scope.
ReadPending(r) ==
    /\ rd[r].pc = "idle" /\ outbox = <<>>
    /\ RdStep(r, [NotReading EXCEPT !.pc = "count",
                                    !.seen = [d \in Days |-> {Texts(Sources(d))}]])

\* Every day of the window must be ready, or the call falls back to leaves.
ReadCount(r) ==
    /\ rd[r].pc = "count"
    /\ RdStep(r, IF \A d \in Days : row[d].st = "ready"
                 THEN [rd[r] EXCEPT !.pc = "rows"] ELSE NotReading)

\* ready_rollups_for_window: what is ready now is served.
ReadRows(r) ==
    /\ rd[r].pc = "rows"
    /\ LET ready == {d \in Days : row[d].st = "ready"}
       IN  RdStep(r, IF ready = {} THEN NotReading
                     ELSE [rd[r] EXCEPT !.pc = "served", !.served = [d \in ready |-> row[d].built]])

ReadReturns(r) == rd[r].pc = "served" /\ RdStep(r, NotReading)

-----------------------------------------------------------------------------
Init ==
    /\ text = [n \in Nodes |-> 0] /\ born = {} /\ outbox = <<>>
    /\ row = [p \in Periods |-> NoRow]
    /\ bld = [b \in Builders |-> Idle]
    /\ rd = [r \in Readers |-> NotReading]
    /\ calm = FALSE /\ mutations = 0 /\ rebuilds = 0

\* The targets of the command: a day, the aggregate, or both.
RebuildTargets == {<<p>> : p \in Periods} \cup {<<d, Agg>> : d \in Days}

Build(b) ==
    \/ BeginBuild(b) \/ upsert_building(b)
    \/ ReadDay(b) \/ ReadStatuses(b) \/ ReadContent(b) \/ ReadConstituents(b) \/ ReadCanonical(b)
    \/ mark_ready(b) \/ stale_aggregates_for_day(b)
    \/ defer_incomplete(b) \/ resolve_no_source(b) \/ mark_failed(b)

Pass(b) == StartPass(b) \/ reclaim_stale_building(b) \/ PickRows(b)

Next ==
    \/ \E n \in Nodes : InsertNode(n) \/ DeleteNode(n) \/ UpdateNode(n)
    \/ EngineDrain \/ FaultsCease
    \/ \E p \in Periods : Elapse(p)
    \/ \E b \in Builders :
          \/ Pass(b) \/ Build(b) \/ StopPass(b)
          \/ DeferLevel3(b) \/ BuildRaises(b) \/ Abandon(b)
          \/ \E t \in RebuildTargets : Rebuild(b, t)
    \/ \E r \in Readers : ReadPending(r) \/ ReadCount(r) \/ ReadRows(r) \/ ReadReturns(r)

Spec == Init /\ [][Next]_vars

\* Maintenance is scheduled again and again (every session bind), time passes,
\* and some day failures stop.
Fairness ==
    /\ WF_vars(FaultsCease)
    /\ \A p \in Periods : WF_vars(Elapse(p))
    /\ \A b \in Builders : WF_vars(Pass(b) \/ Build(b))

FairSpec == Spec /\ Fairness

-----------------------------------------------------------------------------
TypeOK ==
    /\ text \in [Nodes -> Nat] /\ born \subseteq Nodes
    /\ \A k \in DOMAIN outbox :
          /\ outbox[k].first \in Days /\ outbox[k].last \in Days
          /\ outbox[k].next \in outbox[k].first..outbox[k].last
    /\ \A p \in Periods :
          /\ row[p].st \in {"none", "stale", "building", "ready", "failed"}
          /\ row[p].gen \in 0..(GenBound - 1)
          /\ row[p].nonce \in Builders \cup {NoNonce}
          /\ (row[p].nonce # NoNonce) = (row[p].st = "building")
    /\ \A b \in Builders : bld[b].gen \in 0..(GenBound - 1) /\ Len(bld[b].todo) <= PerPass

\* The day still has to be staled by a pending event.
Owed(p) ==
    \E k \in DOMAIN outbox :
        p = Agg \/ (outbox[k].next <= p /\ p <= outbox[k].last)

\* A ready rollup that no pending event will stale was built from exactly the
\* current text of the canonical frontier of its period, whatever other
\* builders, reclaims, rebuilds and mutations did while it was being built.
ReadyIsCurrent ==
    \A p \in Periods :
        row[p].st = "ready" /\ ~ Owed(p) => row[p].built = Texts(Content(p))

\* A period that has content has a row, or an event that will seed one: a
\* builder that found nothing never deletes the row of content that came later.
NothingForgotten ==
    \A p \in Periods : Content(p) # {} => row[p].st # "none" \/ Owed(p)

\* What lcm_recent serves for a day was the day's content at some moment of
\* the call, although the check for pending events and the read are apart.
ServedWasCurrent ==
    \A r \in Readers : \A d \in DOMAIN rd[r].served : rd[r].served[d] \in rd[r].seen[d]

\* Once mutations, rebuilds and failures cease, maintenance drains the outbox
\* and every period with content becomes and stays ready, whatever rows the
\* crashes, failures and level 3 answers before left building, failed or stale.
EventuallySettled ==
    <>[](outbox = <<>> /\ \A p \in Periods : row[p].st = IF Content(p) = {} THEN "none" ELSE "ready")

=============================================================================
