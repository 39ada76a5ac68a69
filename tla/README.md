# LCM-X verification project

LCM-X ("Lossless Context Memory") is a plugin of an agent host. It stores every
message of a conversation in SQLite, replaces old messages of the live context
by summaries kept in a DAG, and gives the agent tools to expand them again. This
directory holds TLA+ models of its core, the TLC runs that check them on small
instances, and TLAPS proofs.

Paths such as `engine.py` are relative to the repository root.

## Inventory

| Component | State | Operations | What makes it correct |
|---|---|---|---|
| Lifecycle row (`lifecycle_state.py`) | per conversation: bound session, compaction frontier, last finalized session and frontier, reset time | bind (compare-and-swap), rebind, finalize, reset, advance, stage a publication, prune | the frontier of a bound session never goes back and never passes a row no summary claims |
| Compaction (`compaction.py`, `store_complete.py`, parts of `engine.py`) | in-process frontier, commit proof, selected leaf | select a leaf, summarise, publish node and frontier in one transaction, fail open | no row skipped, none claimed twice, though selection, summary and publication see different states |
| Session lifecycle (`engine.py`, `reset_state.py`) | bound session, pending reset boundary, carried ranges | start, end, off-current end, reset, rollover, compression boundary, rotate | a boundary accounts for every row of the list it hands over |
| Leaf preparation (`leaf_prep.py`) | a queue of jobs, a cache of prepared leaves, a generation | enqueue after a turn, prepare in the background, chain, promote, reject, discard | a prepared leaf is published only if it is what a summary of the rows there now would be |
| Maintenance scheduler (`maintenance_scheduler.py`) | queued, deferred, active, follow-up, exclusive and retired keys | schedule, hand off, acquire exclusive, drain, retire, quiesce | one pass per key at a time; an accepted request runs |
| Summary circuit (`escalation.py`, holds of `compaction.py` and `engine.py`) | breaker state per route, spend window and backoff, the hold after a hang | call, count, open, close, back off, hold, release at turn end | an open route is left alone and comes back; no window holds more calls than the guard allows; when providers answer, a summary gets through |
| Rollups (`rollup_store.py`, `rollup_builder.py`, `recent.py`) | day, week and month summaries with a status, an outbox of invalidations | invalidate, drain, claim, build, mark ready, settle, reclaim, rebuild, read | a ready rollup is made of the content its period has now, or an invalidation is pending; what is served was current |
| Embedding backfill (`command.py`, `embedding_maintenance.py`, `vector_store.py`) | a lease, in-flight rows, vectors, the active profile | acquire, recover, discover, reserve, dispatch, publish, fail, clear | a text the provider may have billed is not sent again unasked; no document is forgotten |
| Message store and ingest (`store.py`, `reconcile.py`, `ingest_ledger.py`) | rows, ingest cursor, ledger of emissions | append, reconcile, adopt, refuse, retry pending tails | every host message is stored exactly once |
| Summary DAG (`dag.py`, `engine.py`, `level3_repair.py`) | nodes by depth, source ids | add, condense, delete, reassign, repair level 3 fragments in place | a condensed node was made from all its sources and follows them when they are rewritten |
| Context assembly (`engine.py`, `fresh_tail.py`, `tool_pairs.py`, `chunking.py`, `survival_fit.py`) | none | choose the tail, pair tool calls, cut groups, fit the window | groups are never split; results follow their calls |

Components that hold no protocol of their own (configuration, diagnostics, the
agent's tools and commands, retrieval, benchmarks) are listed in `PROJECT.json`
with the reason they are not modelled.

### How the parts interact

The host calls an engine: `on_session_start`, `on_session_end`,
`on_session_reset`, `compress`, and the compression boundary when it adopts a
compressed list. Several engines can be alive on one conversation: clones in one
process (a gateway, a background review) and engines of other processes. They
share three SQLite tables, the messages, the summary nodes and the lifecycle
rows, and no lock; each transaction is atomic, everything read before it may be
stale when it is used. Within one process all engines share two maintenance
schedulers (rollups and embeddings), each with one worker thread; a bind and a
publication queue work there, an operator's rebuild leases a key from it, and
the end of a session retires the engine's owner token. A third process-wide
worker prepares leaves ahead of time; an engine promotes them later, if they still
fit. Every summary call, of compaction, condensation, preparation or a rollup,
goes through the circuit of its route. Triggers on the node table write the
rollups' invalidation outbox in the transaction of the node change.

Hard behaviours, with the lines where they bite, are the `hazards` of
`PROJECT.json`: stale reads around the lifecycle row, a summary call of many
seconds between selection and publication, partly failed ends, resets in
batches, retirement racing the worker, saturation of the queues, starvation,
prepared work that is stale when it is used, crashed and stalled builders whose
leases are taken over, an outbox drained in parts, requests that were billed but
never confirmed, in-place repairs under a running condensation.

## Modules

| Module | Models | Checked by |
|---|---|---|
| `LifecycleRow` | the row of `lcm_lifecycle_state` and the functions that compute its next value (`_bind_plan`, `rebind_own_finalized`, `finalize_session`, `record_reset`, `advance_frontier`) | through `Compaction` |
| `Compaction` | engines, message rows, leaves, the lifecycle row; session lifecycle and leaf publication | `MCCompaction` with the `Compaction*.cfg` files |
| `Compaction_proofs` | theorems about `Compaction` | TLAPS |
| `MaintenanceScheduler` | one scheduler with its worker and the engine calls on it | `MCMaintenanceScheduler` with the `Scheduler*.cfg` files |
| `MaintenanceScheduler_proofs` | theorems about `MaintenanceScheduler` | TLAPS |
| `Collections` | the filter of a sequence, as a recursive function | through `MaintenanceScheduler` and `LeafPrep` |
| `Collections_proofs` | what that filter and the sums of the community modules compute, least and greatest members of sets | TLAPS |
| `LeafPublication` | what publishing a leaf promises, whoever prepared it: the abstract specification | as a property of `LeafPrep` |
| `LeafPrep` | background preparation and promotion of leaves; implements `LeafPublication` | `MCLeafPrep`, `LeafPrep.cfg` |
| `LeafPrep_proofs` | theorems about `LeafPrep`, the refinement included | TLAPS |
| `SummaryCircuit` | circuit breaker, spend guard, hold after a hang, the walk over routes and levels | `MCSummaryCircuit`, `Circuit.cfg` |
| `SummaryCircuit_proofs` | theorems about `SummaryCircuit` | TLAPS |
| `Rollups` | outbox, rows, builders, operator rebuilds and the reader of one scope | `MCRollups` with the `Rollups*.cfg` files |
| `Rollups_proofs` | theorems about `Rollups` | TLAPS |
| `EmbeddingBackfill` | lease, in-flight rows and runs of the embedding backfill | `MCEmbeddingBackfill` with the `Backfill*.cfg` files |
| `EmbeddingBackfill_proofs` | theorems about `EmbeddingBackfill` | TLAPS |
| `Condensation` | the DAG above depth 0: passes and level 3 repairs | `MCCondensation`, `CondenseRepair.cfg` |
| `Condensation_proofs` | theorems about `Condensation` | TLAPS |

`LeafPrep` composes the preparation queue and worker, the promotion of
`compaction.py` and the publication of `lifecycle_state.py`; `Compaction` composes
the lifecycle row with the session lifecycle and the leaves. The modules are
otherwise separate: what one component does to another appears there as an action
(`AddLeaf` of `Condensation`, `Mutate` of `Rollups` stand for the publications of
`Compaction`).

### `LifecycleRow` and `Compaction`

State. `rows` is the message table: the position is the store id, a row is its
session and whether an ignore pattern matches it. `nodes` are the leaves, a
session and the rows each summarises. `life` is the conversation's row; `clock`
orders finalizes and resets. `carry` is the part of the durable commit proof that
names rows of predecessor sessions. `eng[e]` is what an engine keeps between
calls (`_session_id`, `_last_compacted_store_id`, the pending reset, the list
`compress` handed back and whether an end has consumed it), `loc[e]` the call it
is in: a program counter, and what that call has read so far.

Actions. One per database transaction, since that is what other engines can
interleave with. An engine is in one call at a time. For the lifecycle calls
`_exclusive_lifecycle` sees to that; `compress` takes no lock, and that the host
calls it in the turn of the conversation, between lifecycle calls, is assumed (a
shutdown meanwhile only makes it stop, as `NoLeaf` and `PublicationFails` may).

| Code | Actions |
|---|---|
| `_on_session_start_unlocked`, `rollover_session` | `Start`, `StartAfterReset`, `FinalizePendingReset`, `CarryOver` |
| `bind_session` | `BindRead`, then `BindSwap` or `BindLost`, `BindDone`; after `CasAttempts` losses `BindInTransaction` |
| `_ingest_messages` | `Ingest` |
| `compress` | `Compress`, `SelectLeaf` or `NoLeaf`, `ReadExpected`, `ReadCarried`, `Publish` or `PublicationFails` |
| `_on_session_end_unlocked` | `End`, `EndLocked`; for a session the engine left `AppendSuffix`, `EndOffCurrent`, `FinalizeOffCurrent` |
| `_on_session_reset_unlocked`, `_delete_nodes_batched` | `Reset`, `DropProof`, `DeleteBatch` |
| `_continue_compression_boundary` | `Boundary`, `BoundaryFinalize`, `BoundaryMove`, `BoundaryAdvance` |
| `_continue_in_place_compression_boundary` | `InPlaceBoundary`, `InPlaceAdvance` |
| `rotate_active_session` | `Rotate` |
| `prune_empty_sessions` | `PruneEmpty` |

Abstractions. Text, tokens and thresholds are gone: `SelectLeaf` may end the leaf
at any readable row, `NoLeaf` may take none, which covers every budget. The
summariser is the gap between `SelectLeaf` and `ReadExpected`. A publication may
fail for any reason. Nodes above depth 0 are in `Condensation`. The host mints a new
session id for a boundary and for a rollover, and names conversations itself, so
that a session id is never a conversation id. `HostOps` says which of the optional
host calls an instance makes.

### `MaintenanceScheduler`

State. `jobs` and `deferred` are the ready queue and the overflow bank, `waiting`
the keys whose `_not_before` is in the future, `running`, `wpc` and `again` the
worker, `followUp` the single follow-up slot, `exclusive` the operator leases,
`owners` and `handoffs` the owner maps, `late` the keys a retired owner left
running, `closed` and `stop` the exit, `call[o]` how far an engine is in retiring
its owner. A job is a closure, so it is named by the owner that made it.

Actions. A method that holds the condition throughout is one action; the calls
that give it up are split there. `Request` is `enqueue()` through `schedule()`
with its six outcomes; `TryAcquireExclusive` and `ReleaseExclusive` the leases;
`Take`, `Refill`, `Check`, `PassEnds`, `PassContinues`, `FollowUp`, `Finish`,
`WorkerQuiesces` and `WorkerExits` the worker loop; `Retire`, `RetireOwner` and
`RetireReturns` the retirement; `Stop` and `Quiesce` the exit. `Kind` chooses
between the two process-wide instances, `Local` the owners whose engine uses
FastEmbed, the only ones whose passes continue and hand over.

Time is abstracted to "the delay has elapsed", which may happen at any moment.
`drain_owner` only waits and is not an action; `OwnedIsBusy` is what it relies on.

### `LeafPublication` and `LeafPrep`

`LeafPublication` is the promise: rows are stored, rewritten (a tool result becomes
a placeholder), sessions are bound, routes configured, and a leaf is published over
the rows that follow the frontier; if it was prepared, its text is that of the
committed rows and its route the configured one, at that moment.

`LeafPrep` adds what the process keeps: `gen` is the generation of the database,
`jobs` and `queue` the pending jobs, `cache` and `lru` the prepared leaves and the
order they are evicted in, `wrk` the worker, `eng[c]` the promotion of the engine
of conversation `c`.

| Code | Actions |
|---|---|
| `enqueue_after_turn`, `enqueue` | `Enqueue` |
| the worker (`leaf_prep.py`) | `Take`, `Start`, `Read`, `MatchChain`, `Ask`, `Answer`, `Check`, `StoreLeaf` |
| `discard` | `Discard`; a process that dies is `Restart` |
| `_match_prepared_leaf`, `_publish_selected_leaf`, `promoted` | `Match`, `PublishPrepared`, `Promoted` |
| other engines, the host, the operator | `Around` |

A row's text is a version number, a summary the versions of the rows it was made
from together with the route. How far a chunk reaches is a free choice.

### `SummaryCircuit`

`brk` is the breaker by route key (failures, rejections, seconds left open, class of
the last outcome), `guard` the spend guard by kind of caller, `walk[c]` where a
caller stands in the routes and levels, `hold` and `strike` the hold after a hung
call, `conv` the bound conversation. `setup` is the configuration of a behaviour:
who is at work, the chain of routes, what calls may come back with. `granted` and
`released` are history, and so is `calm`, which says that providers answer from
now on.

`BeginPass`, `NoCallPass` and `BeginBackground` start a caller; `CheckRoute`,
`OutOfTime`, `BudgetStop`, `Spend`, `Return` and `LevelThree` are the walk of
`summarize_with_escalation`; `TurnComplete` and `Rebind` are the engine's;
`Tick` is one unit of time. The walk checks a route, reserves spend and calls in
three steps because background callers share the breaker and the guard; the
results of calls that were in flight when a route opened arrive later.

### `Rollups`

`text` and `born` are the summary nodes, `outbox` the invalidation events in order,
`row[p]` the rollup of a day or of the aggregate (period 0; week and month rows go
through the same statements), `bld[b]` a builder, `rd[r]` a reader. `InsertNode`,
`UpdateNode` and `DeleteNode` change a node and write its event in one transaction;
`EngineDrain` is the drain after a publication. A maintenance pass is `StartPass`,
`reclaim_stale_building`, `PickRows` (once per SELECT); a build is `BeginBuild`, the
claim, the reads, and then marking ready, deferring a level 3 answer, resolving a row
that has no source, or `BuildRaises`. `Abandon` is a builder that dies anywhere; `Elapse` lets a
lease or a retry delay run out. `ReadPending`, `ReadCount` and `ReadRows` are the
separate statements of `recent.py`. The canonical frontier (`Canonical`, `Terminal`,
`Ambiguous`) is computed as the code does.

### `EmbeddingBackfill`

`lease` is the claim row, `row` the in-flight rows per profile and document, `vec` the
documents that have a vector, `run[w]` a run, `active` the profile. `open` counts
the requests for a document's present text that the provider may have accepted, and
`rebilled` records that such a text was sent again with no authorisation; both are
history. A run is `Begin`, `Acquire`, `Prepare` (recovery of what an earlier lease
left), `Discover`, then batches: `Batch` (reserve), `Mark` (dispatched, before the
request leaves), `Send`, `Answer`, `Publish` or `Fail`, `Clear`, `End`. `Crash`
stops a run anywhere, `Expire` lets a stalled run lose its lease and come back,
`Register` changes the profile, `Rewrite` is a repair that purges a document.

### `Condensation`

`node` maps the stored ids to nodes; a node keeps the version of its text and the
versions of its sources it was made from (`basis`). `Select`, `Register`,
`ReadFresh`, `Condense` and `Leave` are a pass; `Scan`, `ScanAncestors`, `ReadRows`,
`NextGroup`, `Summarise` and `Commit` a level 3 repair; `AddLeaf`, `Delete` and
`Reassign` what compaction and resets do meanwhile. The registry of groups in
flight, which keeps a repair off what a pass is building, is the `pass` of the
engine between `Register` and `Leave`.

### Where steps or conditions are coarser than the code

Each of these leaves the properties of its module as strong as they would be.

* `Compaction.ReadableRows`, `SelectLeaf`: the code excludes more kinds of rows than
  the ignored ones (`store_complete.py:12-18`, 117-165: stored system prompts, hidden
  replies, copies made by a re-ingest). They are accounted for in the same way, so an
  ignored row stands for each.
* `Compaction.Publishable` leaves out the checks of the copy proof
  (`lifecycle_state.py:1018-1022`, 1070-1081) and of the filter exclusions (1062-1069).
  They can only refuse a publication, and the model lets any publication fail.
* `Compaction.ReadCarried` reads the carried ranges and the ignored rows at once: stored
  rows never change. `AppendSuffix` appends one row; the host may end the session again.
* `Rollups.Orders`: failed days are picked in any order, since `failed_at` is not kept.
* `LeafPrep.Current` joins the read of the generation and that of the row. Only `Discard`
  changes the generation, and it touches no table: a discard between the two reads is as
  good as one right after them, which `StoreLeaf` refuses.
* `LeafPrep.MatchChain` joins `ready_chain` and the removal of the tail. A promotion or a
  discard in between takes leaves out of the same sets, and the removal takes out
  what is left; either order gives the same cache, and a promotion revalidates anyway.
* `LeafPrep.Enqueue` reads the binding as the job is queued; `Current` looks at it
  again before anything is done. The generation may be older, as in the code.
* `EmbeddingBackfill.Send` sends the text of that moment, the code the one it found in
  discovery (`command.py:3828`). A rewrite in between makes the code send a text that is
  no longer there; no property speaks of the text of a vector (see the hazards).
* `EmbeddingBackfill.Fail` goes by the run's latest request, the code by the latest of the
  batch. They differ only before a batch has sent anything: then there is no row to
  make uncertain, and a lost lease is found by `Clear`, the next step, instead.
* `Condensation` lets an engine have one pass at a time, on one session: passes belong
  to `compress`, see `Compaction`. The code counts its reservations, so as not to rely on
  that. For `MadeOfAllSources` a second pass is the pass of another engine; the theorem
  `AllSources` allows any number of those, also on one session.

## Runs

| Run | Question | Instance |
|---|---|---|
| `one_session` | two engines on one session, with ends, resumes, resets that delete leaves and in-place boundaries: is every row at or below the bound frontier ignored or claimed (`FrontierClaimed`), does the frontier never go back (`FrontierMonotone`), does no row get two leaves although selections fall between the batches of a deletion (`NoDoubleClaim`)? | 2 rows, 3 finalizes or resets, 2 compare-and-swap attempts |
| `shared` | two engines, two sessions, resumes, resets that keep leaves, off-current ends, pruning, rotates: does a publication skip a row (`PublicationSkipsNoRow`)? | 2 rows, 1 finalize or reset |
| `lineage` | one engine through three sessions by boundaries and resets: is every row of the handed-over list accounted for (`BoundaryKeepsRows`), and is the frontier honest for inherited rows too (`FrontierClaimed`)? | 4 rows, 4 finalizes or resets |
| `rollup_passes` | is a leased key never also queued, followed up or running (`LeaseIsAlone`); is every queued key and follow-up reached (`QueueDrains`)? | 3 keys, 2 engines, room for 2 |
| `embedding_owners` | retirement, rearming, hand-over and exit against the worker: `QueuedOnce`, `OwnedIsBusy`, `RetiredStaysOut`, `RetiredIsQuiet`, `AcceptedWorkKept`, `HandedOver` | 3 databases, 3 owners, one of them rebound from the second to the third database, room for 1 in each bank |
| `prep` | does a prepared leaf appear as if it were made when it is published (`PublishesCommitted`, the refinement), does nothing of an earlier generation survive a discard (`NothingSurvivesDiscard`), do the cache's bounds hold (`CacheBounded`)? | 2 conversations, 2 sessions, 2 routes, 2 rows each, 1 change |
| `circuit` | `SpendBounded`, `OneReleasePerStrike`, `RouteReturns`, `SummaryGetsThrough` | three setups: an engine on one route with nearly every outcome, an engine on two routes that hang, two rollups on one route; thresholds and times of 2 |
| `rollup_build` | two builders that die, are reclaimed and rebuilt over: is a ready rollup current (`ReadyIsCurrent`) and no content without a row or an event (`NothingForgotten`)? | 1 day and its aggregate, a leaf and the node condensed from it, 2 mutations, 1 rebuild |
| `rollup_settles` | does everything settle once failures cease (`EventuallySettled`), and was what a reader got current at some moment of its call (`ServedWasCurrent`)? | 2 days and their aggregate, 2 nodes, 2 mutations, 1 builder, 1 reader |
| `backfill_batches` | is a text the provider may have accepted never sent again unasked (`NoSilentRebill`)? | 2 runs on 2 documents, or on 1 document while the profile changes and changes back |
| `backfill_settles` | does every document get its vector or wait as uncertain once faults cease (`EveryDocSettles`)? | 2 runs, 1 document, 1 rewrite |
| `condense_repair` | is a condensed node made from all its sources (`MadeOfAllSources`) and does it follow them (`FollowsSources`)? | 1 engine, 2 sessions, 4 nodes, fan-in 2, 1 deletion or move |

Every property of a run has a mutant in `PROJECT.json`, a plausible slip in the code
it is about, that TLC finds under the same configuration.

### Bounds, and why they are enough

* `Compaction` (`MaxRows`, `MaxClock`): a frontier error needs a row below and a row
  above the frontier, and one engine whose read is stale while another acts: two
  rows and two engines give both, a third row lets a leaf lie between two others.
  One finalize or reset gives every order of that event with the steps of a
  publication; the run with one engine allows four, so that a session is finalized,
  reset, rotated and finalized again. Two compare-and-swap attempts make the loop
  turn once before it falls back. `HostOps` says which optional calls an instance
  makes.
* Scheduler (`MaxPending`): a queue with room for one is full as soon as two keys
  exist, so that overflow and moving up happen. With three keys and room for one in
  each bank, a key is refused while both banks are full of the others, the delayed
  continuation of the running key included (`Saturated`, `ContinuationRefused`).
  Two owners on one database make its key shared and unshared in turn; the third
  owner is rebound between two other databases.
* `LeafPrep` (`MaxRows`, `MaxVersion`, `MaxChanges`): one rewrite, bind, new route,
  discard or restart at any point of a preparation and a promotion. A cache of one
  leaf is full as soon as two conversations have prepared one. Chains of two leaves
  do not occur in this instance, so that here `CacheBounded` says nothing of forks;
  the theorems `PreparationImplementsPublication` and `CacheBoundedHolds` cover
  chains of any length.
* `SummaryCircuit`: each threshold is 2, so that one failure does not open a route;
  two concurrent callers make a late answer arrive after the route opened. Window
  and backoff are of equal length, where a call leaves the window just as the
  backoff of its trip ends. `SpendBounded` speaks of the shorter of the two, since
  the configuration relates them in no way (the defaults are 600 s and 1800 s);
  the theorem covers every pair.
* `Rollups` (`MaxMutations`, `MaxRebuilds`, `GenBound`, `PerPass`, `EventLimit`,
  `DayBudget`): a node over two days and a day budget of one stop a drain in the
  middle of an event. `GenBound = 1` makes all generations equal, so that a builder
  recognises its lease by the nonce alone: a check weaker than the code's, under
  which the invariants hold all the same. With `GenBound = 2` the instance of
  `rollup_build` also passes, in a little over five minutes.
* `EmbeddingBackfill` (`MaxTexts`, `MaxSwitches`, `MaxSends`, `RecoverLimit`,
  `Starts`): recovery of one row of each state per run leaves a second one for a
  later run; two switches change the profile and change it back. `Starts` lists how
  many documents are embedded already, which lets one run hold both the batches and
  the profile changes.
* `Condensation` (`MaxNodes`, `MaxDeletes`): two leaves, a node over them and a
  fourth that makes another group or a fragment to repair.

Symmetry: engines and sessions in `Compaction`, conversations, sessions and routes
in `LeafPrep`, builders in `rollup_build`, documents, runs and profiles in
`backfill_batches`. Each is used in `Init` and the actions without distinction. The
runs that check a temporal property use none. `prep` does use it with the
refinement, which is safe: `PubSpec` is an initial predicate and a step property.

Deadlock is not checked for `Compaction`, where the clock bound stops the host, nor
for `Condensation`, where nothing is left to do once its bounds are used up. It is
checked everywhere else.

In `lineage` the engine never resumes an older session, and in `shared` no boundary
is crossed: see the first observations below for what happens otherwise.

### Fairness

`Compaction`, `LeafPrep` and `Condensation` state none: they have only safety
properties, since neither the host nor the summariser owes the code anything.

* `MaintenanceScheduler`: the worker's steps (a thread nobody cancels, whose passes
  are bounded by budgets and provider timeouts), each delay elapsing (time passes),
  and `RetireOwner` (the call follows the flag in the same method). Requests,
  leases, retirement and exit have none; an operator may keep a lease for ever.
* `SummaryCircuit`: time passes, a walk goes on (every call has a timeout), and the
  host asks for an unforced compaction again and again. That providers heal
  (`Heal`) has no fairness: `SummaryGetsThrough` assumes it in its premise.
* `Rollups`: failures stop for good at some moment (`FaultsCease`, stated as an
  assumption of the property, not of the code), leases and retry delays run out,
  and the passes of a builder are run and go on.
* `EmbeddingBackfill`: runs are started again and again, a run that is started
  goes on, leases expire. Faults may cease (`CalmDown`, with no fairness);
  `EveryDocSettles` speaks of the time after that.

## Proofs

Eight modules hold theorems, each for any sets and any bounds. A hypothesis, where
a theorem has one, is named below with the reason it is needed.

`Compaction_proofs`:

* `TypeCorrect`: `Spec => []TypeOK`. `TypeOK` alone is not inductive: after a lost
  compare-and-swap the attempt counter grows, so the proof needs that an engine
  that reads or writes in the loop has attempts left, and that the session it is
  binding is not NULL. `Calls` states what each program counter implies about
  the locals, and `Typed == TypeOK /\ Calls` is inductive.
* `NoDoubleClaimHolds`: `Spec => []NoDoubleClaim`. A publication cannot break it,
  because `LineageUnclaimed` is checked in its transaction. The steps that can are
  those that move nodes between sessions (`CarryOver`, `BoundaryMove`): merging two
  sessions' leaves would merge their claims. They are safe because the target has
  no leaves yet. That is not visible in one state, so the invariant `IInv` adds
  `Started` (whoever holds a leaf was bound by some engine) and, for each engine,
  `Opening(e)` (a session being opened with nodes to come is known to no other
  engine and holds no leaf).
* `FrontierMonotoneHolds`: `Spec => FrontierMonotone`, an action property. Each
  statement on the row keeps or raises the frontier of a binding it keeps
  (`RowMonotone`), except a bind, which writes 0 or a finalized frontier. The
  invariant `Rebinds` says that a compare-and-swap in flight was not planned from a
  row that already held its session, so a swap that applies changes the binding.
* `PublicationSkipsNoRowHolds`: `Spec => PublicationSkipsNoRow`, assuming
  `RetainLeaves`: no reset deletes leaves (`new_session_retain_depth = -1`). A leaf
  accounts for rows it does not summarise, those an ignore pattern matches or another
  leaf claims; `Accounted` says that between the selection and the publication this
  stays true of them, which a deletion in between would break.
* `FrontierClaimedHolds`: `Spec => []FrontierClaimed`, assuming `OneSession`: any
  number of engines on one session, without the operator's rotate and prune.
  `HonestInv` says that every store id that is or may become somebody's frontier, in
  the row, in an engine or in a call that decided on it earlier (`Marks`), is honest:
  while no leaf was deleted, each row up to it is ignored or claimed. With a second
  session a resume alone breaks the property (second observation).

`MaintenanceScheduler_proofs`: one inductive invariant `Inv` gives six theorems
without hypotheses, for both process-wide instances. Its parts: the banks share no
key and a delay belongs to an entry (`Banks`); the worker holds an entry exactly from
`Take` to `Finish`, and the follow-up is that entry's (`Worker`); handoffs are the
FastEmbed owners and owners are not yet retired (`Registered`); what is queued or
running for a live FastEmbed engine is registered as its (`LiveJobs`, `RunsKnown`);
leases exist only in the rollup instance (`Leases`).

* `TypeCorrect`, `QueuedOnceHolds`, `LeaseIsAloneHolds`, `OwnedIsBusyHolds`,
  `RetiredIsQuietHolds`: `Inv` and what follows from it.
* `RetiredStaysOutHolds`, assuming `SameProvider`: engines that share a database have
  the same kind of provider. `LocalJobs` is the added invariant. Without it an owner
  that cannot hand over leaves its entry to one that cannot take it.
* `AcceptedWorkKeptHolds`, an action property, without a hypothesis: any number of
  keys and any room. An accepted request goes to the worker, with its last owner or
  at exit, with one exception that the property names (`ContinuationRefused`): the
  follow-up of a running key, when both banks are full as the key's delayed
  continuation arrives (third observation). `Asked` looks at the banks and the
  follow-up, so the proof follows an entry through every move between them.
* `HandedOverHolds`, an action property, under `SameProvider`. Its exception is the
  same saturation, met by a pass that is itself a follow-up.

`SummaryCircuit_proofs`:

* `TypeCorrect`: `Spec => []TypeOK`, inductive as it stands.
* `OneReleasePerStrikeHolds`: the invariant `Spent` says that after an early release
  the strike stays and the hold is not paced, so that a second release has to wait
  for a stored leaf or another conversation.
* `SpendBoundedHolds`: `Bounded` says that a guard that is not backing off has
  counted every call of the last `Span` units, and that one that is has granted none
  since it tripped. A trip forgets the calls it counted; they are `Span` old when
  the backoff ends, because `Span` is the shorter of window and backoff. No relation
  between the two is assumed. The calls of a stretch are a sum over ages; the lemmas
  about `Below` say how it moves when time passes and when a call is granted.

`LeafPrep_proofs`:

* `DiscardIsFinal`: `Spec => []NothingSurvivesDiscard`. The cache and the jobs are of
  the present generation, and so is a leaf the worker is about to store, unless the
  re-check under the lock refuses it.
* `PreparationImplementsPublication`: `Spec => PublishesCommitted`, the refinement.
  The invariant `IInv` says that each prepared leaf, in the cache, in the worker or
  in a promotion, has a text for exactly its rows and ends in one of them; then the
  revalidation and the fence inside the transaction give a step of
  `LeafPublication`, and every other step maps to one or to a stutter.
* `TypeCorrect` and `CacheBoundedHolds`: `Spec => []TypeOK`, `Spec => []CacheBounded`.
  Both rest on `BInv`. Between the match of a chain and the storing of a leaf the
  engines reject and promote leaves under the worker; `WorkFine` says that what is
  cached of the job's conversation then stays part of the chain the worker counted,
  and that the leaf it made starts where that chain ends. So the new leaf never
  forks the chain, and the count the worker compared with `_PER_CONVERSATION` still
  bounds the cache. For the bound of the process, `EvictionFits` follows the
  eviction loop: it may break at the job's own conversation, the newest key, only
  when no other has leaves, and then one conversation's share is all there is
  (`PerConversation <= PerProcess`). `QueueFine` says that the queue and the jobs
  name the same conversations once each; `QueueCounts` gets the length of the queue
  from that bijection. The conversations of a process are finite (`PrepAssumption`),
  or the sum of their leaves would mean nothing.

`EmbeddingBackfill_proofs`:

* `BilledOnce`: `Spec => []NoSilentRebill`. The invariant: an unsettled request is
  known to the database, as a dispatched or uncertain row or as a vector (`Known`);
  what the lease's owner has yet to reserve has no vector (`Fresh`); rows of a lease
  carry no request newer than the run's (`Sent`); a row of the run's latest request
  has no other unsettled request (`Only`).
* `TypeCorrect`: `Spec => []TypeOK`. Two parts are more than types. Exactly the
  dispatched rows name a request (`Shaped`). The count of requests that may have been
  accepted never falls below zero: a rejection lowers it, and several runs, all but
  one without the lease, may wait for answers to the same text. `Counts` says that
  the count is at least the number of runs that wait for an answer to the present
  text, and that no request is for a later text than the present one.

`Condensation_proofs`:

* `TypeCorrect`: `Spec => []TypeOK`, from the invariant of `AllSources` and the sizes
  of the DAG (`Sizes`).
* `AllSources`: `Spec => []MadeOfAllSources`, for any number of engines. `Graph` says
  that sources are below their node and never change, `PassInv` that a pass's copy
  covers its whole group, `RepairInv` that what a repair read of the graph still
  holds of the nodes that are left and that its new texts are made bottom-up.
* `OneEngineFollows`: with one engine, `[]FollowsSources`. `FInv` adds `Current`:
  what a pass or a repair has read of texts outside its own group is still so when
  it commits, which is what the in-flight registry and the checks of
  `_commit_group` are for.

`Rollups_proofs`:

* `TypeCorrect`: `Spec => []TypeOK`, without a hypothesis. `Typed` is inductive: a
  builder at work has a target, only the aggregate gets to the steps that read days,
  and a drain that stops in the middle of an event leaves its progress inside the
  interval.
* `ReadyIsCurrentHolds`, `NothingForgottenHolds`, `ServedWasCurrentHolds`: from one
  inductive invariant `Inv == Typed /\ Right`. `Right` speaks of what no pending
  event will stale: a ready row holds what is due for its period and a period
  without a row has nothing due (`RowIsRight`); what a builder read is still so as
  long as it holds its lease (`BuildIsRight`, one clause per place in the build:
  the days an aggregate found ready, the days it found empty, what it gathered); a
  reader has seen what is due and whatever is ready (`ReadIsRight`). Any change of a
  row by somebody else is a move (`Moves`) that keeps all of that.

  Two facts carry it. `DrainMoves`: a period that an event owed is owed by what is
  left of the outbox or has been staled, however the two limits cut the batch; a
  builder of it has then lost its lease. `MutationIsLocal`: a mutation of a node
  changes the content of the days of its interval only, so that the trigger's event
  is enough. Its proof computes the lineage (`Terminal`) of a node, for any depth,
  and shows that the canonical frontier is the set of the nodes that nothing there
  was condensed from (`RootsAreCanonical`).

  The hypothesis is `[]Forest`: no node is a source of two condensed nodes that are
  both there. Within one engine it holds because only uncondensed nodes are
  condensed (`dag.py:622`, used at `engine.py:10008`). It is needed: with two
  nodes over one source, the one that is canonical may change with a mutation of the
  other, and with it days outside the other's interval; TLC finds such a state with
  three nodes and two days. The instances of both runs are forests.

The assumptions are the named `ASSUME`s of the modules; TLC evaluates them in every
run. Each lemma covers one action or a few of the same shape; the last step of each
theorem is temporal (PTL).

`Collections_proofs` holds what recursive functions compute. The provers cannot use
the library's induction rules, which have an operator as a parameter; the lemmas
argue by a least counterexample instead, from the well-foundedness of the strict
subsets of a finite set (`LeastSubset`, `LeastNat`). `KeptFilters` says that `Kept`
is the subsequence of the elements kept, the `Sum` lemmas that `SumFunction` adds
each element once in whatever order it takes them; `KeptElements` and `KeptOnce`
give the elements of a filtered queue. `FiniteBound` and `LargestNat`
bound a finite set of naturals.

Only model-checked: `BoundaryKeepsRows` and, for more than one session,
`FrontierClaimed`, neither of which holds for every instance (see below).
Liveness (`QueueDrains`, `RouteReturns`, `SummaryGetsThrough`, `EventuallySettled`,
`EveryDocSettles`) stays with TLC: TLAPS does not prove it under fairness.

## Observations

Modelling met these disagreements between what the code does and what a comment or
a reader expects. Each entry says where it shows; no property claims otherwise.

* `lifecycle_state.py:243` justifies resuming a finalized frontier by "its DAG still
  claims every source row up to it". A reset deletes leaves and keeps the old
  frontier pending; the next start finalizes the session there, later than the
  reset, and a later resume starts above rows no leaf claims. With
  `new_session_retain_depth = -1` nothing is deleted.
* `engine.py:4377`: a compression boundary takes the row's last finalized frontier
  into account when either the current or the finalized session is its own; the
  larger of the two may be a sibling's. With two engines and three sessions this
  breaks `FrontierClaimed` and `BoundaryKeepsRows`. `FrontierClaimed` also fails with
  two engines and two sessions that are resumed in turn, without any boundary.
* `maintenance_scheduler.py:125`: a delayed continuation clears the follow-up of its
  key before it is refused for lack of room, so that an accepted rerun is lost when
  both banks are full of other keys; the comment at lines 47-49 says that rejections
  at saturation discard no accepted work. It takes more databases than both banks
  hold (twice `max_pending_jobs`). `embedding_owners` reaches it: `AcceptedWorkKept`
  fails there without its last disjunct. For the same reason a follow-up pass whose
  owner retired cannot hand its key over, the exception of `HandedOver`.
* `config.py:1289-1291` accepts a spend backoff shorter than the window. A trip
  forgets the calls it counted (`escalation.py:405`), so that with such a setting a
  window may hold more than `max_calls` of them: a window of 3 and a backoff of 2
  suffice. `SpendBounded` claims the bound for the shorter of the two.
* `recent.py:144`: the number of ready rows of a window and the rows themselves are
  read in two statements; a row may go stale in between, so that fewer days are
  served than were counted.
* `rollup_store.py:550`: an operator rebuild of a day leaves an aggregate that is
  being built in `building`; the builder's own guard decides.
* `rollup_builder.py:35`: a build that ends at level 3 is deferred and picked again
  before later rows, so that a route that only gives level 3 starves them.
* `escalation.py:313` counts failures of a route until a success, while
  `config.py:1278` speaks of consecutive failures: rejections in between do not
  reset the count.
* `level3_repair.py:183`: the in-flight registry is per engine; with two engines on
  one database a condensation of one may be built on a text that a repair of the
  other replaces, and `FollowsSources` fails. The theorem and the run are about one.
* Two maintenance builders may take over each other's builds for ever when each
  build outlives its lease; `EventuallySettled` is checked with one builder.

## Plan

Done: the lifecycle row and leaf publication, the maintenance scheduler, leaf
preparation with its refinement, the summary circuit, rollups, condensation, and the
embedding backfill.

Left, in this order:

1. The pure list algorithms of context assembly (fresh tail, tool pairs, chunking)
   against reference definitions, as far as they are independent of text.
2. Rollup purges and the cursor of the builder.

## Not modelled

See `components` in `PROJECT.json` for each part and its reason.

Ingest recognition, reconciliation and pending session tails (`engine.py`,
`reconcile.py`, the ledgers) decide which message of the host's list is which stored
row, by comparing text, roles, timestamps and recorded evidence. In a model whose
messages have unique identities that decision is the identity, and "every message is
stored exactly once" holds whatever the code does; a model without them would be a
transliteration of a text matcher. The `hazards` name both places.

Also left out: protection of payloads, retrieval and ranking, the agent's tools and
commands, configuration, diagnostics, migrations, access policy, the adapters for
other hosts, and the benchmarks. Most of the repository's lines are there; they
change no state that other actors share, or only through the components above.
