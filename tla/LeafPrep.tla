------------------------------ MODULE LeafPrep ------------------------------
(***************************************************************************)
(* Background leaf preparation: leaf_prep.py (the process-wide queue, the  *)
(* worker thread and the cache of prepared leaves), the promotion of a     *)
(* prepared leaf by compaction.py and the binding of lifecycle_state.py.   *)
(*                                                                         *)
(* The process has one engine per conversation, on one database file.  The *)
(* foreground leaves of these engines and of other processes are           *)
(* publications of the bound session.  One step of the worker is one read  *)
(* of the database, one critical section of the queue's lock or one answer *)
(* of the summariser.                                                      *)
(***************************************************************************)
EXTENDS LeafPublication, Collections, Functions

CONSTANTS
    FreshTail,        \* fresh_tail_count: newest rows no leaf takes
    PerConversation,  \* _PER_CONVERSATION
    PerProcess,       \* _PER_PROCESS
    MaxChanges        \* bound on rewrites, binds, new routes, discards and restarts

ASSUME PrepAssumption ==
    /\ FreshTail \in Nat /\ MaxChanges \in Nat
    /\ PerConversation \in Nat \ {0}
    /\ PerProcess \in Nat /\ PerProcess >= PerConversation
    /\ IsFiniteSet(Convs)

VARIABLES
    gen,     \* _generations of the database
    jobs,    \* _jobs: at most one job of a conversation
    queue,   \* the order of _jobs' keys, oldest first
    cache,   \* _cache: the prepared leaves of each conversation
    lru,     \* the order of _cache's keys, least recently used first
    wrk,     \* the worker
    eng,     \* the promotion each engine is at
    changes  \* counts what MaxChanges bounds

prepVars == <<gen, jobs, queue, cache, lru, wrk, eng>>
vars == <<rows, bound, frontier, route, last, gen, jobs, queue, cache, lru, wrk,
          eng, changes>>

Job == [conv: Convs, session: Sessions, frontier: 0..MaxRows,
        gen: 0..MaxChanges, route: Fingerprints]
IsLeaf(l) ==
    /\ l.session \in Sessions /\ l.start \in 0..MaxRows
    /\ l.route \in Fingerprints /\ l.gen \in 0..MaxChanges
    /\ l.end \in DOMAIN l.text /\ DOMAIN l.text \subseteq (l.start + 1)..l.end
    /\ l.text = [i \in DOMAIN l.text |-> l.text[i]]

Ids(l) == DOMAIN l.text
CoveredEnd(l) == l.end

Resting == [pc |-> "idle", job |-> << >>, rows |-> << >>, chain |-> {},
            leaf |-> << >>]
AtRest == [pc |-> "idle", leaf |-> << >>, expected |-> 0]

(* Every state component keeps its type; the queue names each conversation *)
(* that has a job once.                                                    *)
TypeOK ==
    /\ rows \in [Convs -> Seq(Row)] /\ bound \in [Convs -> Sessions]
    /\ frontier \in [Convs -> 0..MaxRows] /\ route \in Fingerprints
    /\ gen \in 0..MaxChanges
    /\ jobs \subseteq Job /\ queue \in Seq(Convs)
    /\ Len(queue) = Cardinality(jobs)
    /\ {queue[i] : i \in DOMAIN queue} = {j.conv : j \in jobs}
    /\ DOMAIN cache = Convs
    /\ \A c \in Convs : \A l \in cache[c] : IsLeaf(l)
    /\ lru \in Seq(Convs)
    /\ wrk.pc \in {"idle", "start", "read", "chain", "ask", "call", "check",
                   "store"}
    /\ \A c \in Convs : eng[c].pc \in {"idle", "publish", "promoted"}

Init ==
    /\ PubInit
    /\ gen = 0 /\ jobs = {} /\ queue = << >> /\ lru = << >> /\ changes = 0
    /\ cache = [c \in Convs |-> {}]
    /\ wrk = Resting
    /\ eng = [c \in Convs |-> AtRest]

-----------------------------------------------------------------------------
(* The cache.  No two leaves of a conversation have the same start: a job  *)
(* drops what it cannot reach before it adds to the end of the rest.       *)

Drop(seq, x) == Kept(seq, Convs \ {x})
Elements(seq) == {seq[i] : i \in DOMAIN seq}

(* _remove_locked; an empty entry leaves the dict. *)
Remove(c, gone) ==
    /\ cache' = [cache EXCEPT ![c] = @ \ gone]
    /\ lru' = IF cache[c] \subseteq gone THEN Drop(lru, c) ELSE lru

(* The leaves of the conversation that can be reached from row f. *)
ChainFrom(c, f) ==
    LET starts[n \in 0..MaxRows] ==
            IF n = 0 THEN {f}
            ELSE starts[n - 1] \cup {CoveredEnd(l) : l \in
                     {k \in cache[c] : k.start \in starts[n - 1]}}
    IN  {l \in cache[c] : l.start \in starts[MaxRows]}

(* ready_chain: what is not reached is dropped; the entry is now the most  *)
(* recently used.                                                          *)
ReadyChain(c, f, alsoGone) ==
    LET kept == ChainFrom(c, f) \ alsoGone
    IN  /\ cache' = [cache EXCEPT ![c] = kept]
        /\ lru' = Drop(lru, c) \o (IF kept = {} THEN << >> ELSE <<c>>)

-----------------------------------------------------------------------------
(* The turn thread.                                                        *)

\* Mutant of Queue: the older entry stays in the queue.
QueueTwice(j) ==
    /\ j.gen = gen
    /\ jobs' = {old \in jobs : old.conv # j.conv} \cup {j}
    /\ queue' = Append(queue, j.conv)

(* enqueue: a job of an earlier generation is refused; a newer job of a    *)
(* conversation replaces its older one, at the end of the queue.           *)
Queue(j) ==
    /\ j.gen = gen
    /\ jobs' = {old \in jobs : old.conv # j.conv} \cup {j}
    /\ queue' = Append(Drop(queue, j.conv), j.conv)

(* enqueue_after_turn: the job is a snapshot of the binding.  Its          *)
(* generation was read before enqueue() takes the lock, so that discards   *)
(* may have come between.                                                  *)
Enqueue(c) ==
    /\ \E seen \in 0..gen :
          Queue([conv |-> c, session |-> bound[c], gen |-> seen,
                 frontier |-> frontier[c], route |-> route])
    /\ UNCHANGED <<changes, pubVars, gen, cache, lru, wrk, eng>>

Change == changes < MaxChanges /\ changes' = changes + 1

(* discard: shutdown, or another database is opened. *)
Discard ==
    /\ Change /\ gen' = gen + 1
    /\ jobs' = {} /\ queue' = << >>
    /\ cache' = [c \in Convs |-> {}] /\ lru' = << >>
    /\ UNCHANGED <<pubVars, wrk, eng>>

(* The process dies and starts again with the database as it is. *)
Restart ==
    /\ Change
    /\ gen' = 0 /\ jobs' = {} /\ queue' = << >> /\ lru' = << >>
    /\ cache' = [c \in Convs |-> {}]
    /\ wrk' = Resting /\ eng' = [c \in Convs |-> AtRest]
    /\ UNCHANGED pubVars

-----------------------------------------------------------------------------
(* The worker.                                                             *)

Goto(pc) == wrk' = [wrk EXCEPT !.pc = pc]
Quit == wrk' = Resting

(* _current: the job's binding and frontier still hold. *)
Current(j) == gen = j.gen /\ bound[j.conv] = j.session /\ frontier[j.conv] = j.frontier

Take ==
    /\ wrk.pc = "idle" /\ queue # << >>
    /\ \E j \in jobs :
         /\ j.conv = Head(queue)
         /\ wrk' = [Resting EXCEPT !.pc = "start", !.job = j]
         /\ jobs' = jobs \ {j}
    /\ queue' = Tail(queue)
    /\ UNCHANGED <<changes, pubVars, gen, cache, lru, eng>>

Start ==
    /\ wrk.pc = "start"
    /\ IF Current(wrk.job) THEN Goto("read") ELSE Quit
    /\ UNCHANGED <<changes, pubVars, gen, jobs, queue, cache, lru, eng>>

(* _eligible_prefix: the session's rows above the frontier, without the    *)
(* fresh tail, up to the first row of another session.                     *)
Eligible(j) ==
    LET rs == rows[j.conv]
        foreign == {i \in (j.frontier + 1)..Len(rs) : rs[i].by # j.session}
        own == Span(rs, j.session, j.frontier, Len(rs))
        young == {i \in own : Cardinality({k \in own : k >= i}) <= FreshTail}
    IN  {i \in own \ young : \A f \in foreign : i < f}

(* The rows are read once; the summaries are made from what was read. *)
Read ==
    /\ wrk.pc = "read"
    /\ IF Eligible(wrk.job) = {} THEN Quit
       ELSE wrk' = [wrk EXCEPT !.pc = "chain",
                      !.rows = Text(rows[wrk.job.conv], Eligible(wrk.job))]
    /\ UNCHANGED <<changes, pubVars, gen, jobs, queue, cache, lru, eng>>

(* The rows read that come after row f. *)
Rest(f) == {i \in DOMAIN wrk.rows : i > f}

(* A leaf of the chain is kept while its rows are the next rows read, with *)
(* the text it was made from, and its route is the job's.                  *)
Valid(l) ==
    /\ l.route = wrk.job.route
    /\ Ids(l) = {i \in Rest(l.start) : i <= CoveredEnd(l)}
    /\ \A i \in Ids(l) : l.text[i] = wrk.rows[i]

Prefix(chain) ==
    {l \in chain : \A k \in chain : k.start <= l.start => Valid(k)}

MatchChain ==
    LET j == wrk.job
        chain == ChainFrom(j.conv, j.frontier)
        kept == Prefix(chain)
    IN
    /\ wrk.pc = "chain"
    /\ ReadyChain(j.conv, j.frontier, chain \ kept)
    /\ wrk' = [wrk EXCEPT !.pc = "ask", !.chain = kept]
    /\ UNCHANGED <<changes, pubVars, gen, jobs, queue, eng>>

ChainEnd == Max({wrk.job.frontier} \cup {CoveredEnd(l) : l \in wrk.chain})

(* One more chunk while the conversation needs it, its share of the cache  *)
(* has room, and the route, the guards and the one call slot are free.     *)
Ask ==
    /\ wrk.pc = "ask"
    /\ \/ Quit
       \/ /\ Cardinality(wrk.chain) < PerConversation /\ Rest(ChainEnd) # {}
          /\ gen = wrk.job.gen
          /\ Goto("call")
    /\ UNCHANGED <<changes, pubVars, gen, jobs, queue, cache, lru, eng>>

(* The summary of a chunk, or of the smaller chunk a rescue took, comes    *)
(* back; an error or a truncation ends the job.                            *)
Answer ==
    /\ wrk.pc = "call"
    /\ \/ Quit
       \/ \E end \in Rest(ChainEnd) :
            LET ids == {end} \cup {i \in Rest(ChainEnd) : i < end} IN
            wrk' = [wrk EXCEPT !.pc = "check", !.leaf =
                     [session |-> wrk.job.session, start |-> ChainEnd,
                      end |-> end, text |-> [i \in ids |-> wrk.rows[i]],
                      route |-> wrk.job.route, gen |-> wrk.job.gen]]
    /\ UNCHANGED <<changes, pubVars, gen, jobs, queue, cache, lru, eng>>

Check ==
    /\ wrk.pc = "check"
    /\ IF Current(wrk.job) THEN Goto("store") ELSE Quit
    /\ UNCHANGED <<changes, pubVars, gen, jobs, queue, cache, lru, eng>>

Cached(held) == SumFunction([c \in Convs |-> Cardinality(held[c])])
Without(held, gone) == [c \in Convs |-> IF c \in gone THEN {} ELSE held[c]]

\* Mutant of Evicted: the bound is looked at before the leaf is counted.
EvictedOneLate(held, order, own) ==
    LET gone(n) == Elements(SubSeq(order, 1, n))
        stops == {n \in 0..Len(order) :
                     \/ Cached(Without(held, gone(n))) <= PerProcess + 1
                     \/ n = Len(order)
                     \/ order[n + 1] = own}
    IN  gone(Min(stops))

(* The keys evicted, oldest first, to bring the cache back under its       *)
(* bound; the loop breaks at the job's own.                                *)
Evicted(held, order, own) ==
    LET gone(n) == Elements(SubSeq(order, 1, n))
        stops == {n \in 0..Len(order) :
                     \/ Cached(Without(held, gone(n))) <= PerProcess
                     \/ n = Len(order)
                     \/ order[n + 1] = own}
    IN  gone(Min(stops))

\* Mutant of CacheLeaf: no look at the generation.
CacheAnyLeaf ==
    LET c == wrk.job.conv
        held == [cache EXCEPT ![c] = @ \cup {wrk.leaf}]
        order == Append(Drop(lru, c), c)
        gone == Evicted(held, order, c)
    IN  /\ cache' = Without(held, gone)
        /\ lru' = Kept(order, Convs \ gone)
        /\ wrk' = [wrk EXCEPT !.pc = "ask", !.chain = @ \cup {wrk.leaf}]

(* _cache_leaf *)
CacheLeaf ==
    LET c == wrk.job.conv
        held == [cache EXCEPT ![c] = @ \cup {wrk.leaf}]
        order == Append(Drop(lru, c), c)
        gone == Evicted(held, order, c)
    IN  IF gen # wrk.job.gen THEN Quit /\ UNCHANGED <<cache, lru>>
        ELSE /\ cache' = Without(held, gone)
             /\ lru' = Kept(order, Convs \ gone)
             /\ wrk' = [wrk EXCEPT !.pc = "ask", !.chain = @ \cup {wrk.leaf}]

StoreLeaf ==
    /\ wrk.pc = "store"
    /\ CacheLeaf
    /\ UNCHANGED <<changes, pubVars, gen, jobs, queue, eng>>

-----------------------------------------------------------------------------
(* Promotion by the engine of a conversation.                              *)

Reject(c, l) == ReadyChain(c, l.start, ChainFrom(c, l.start))

(* _match_prepared_leaf: the leaf at the durable frontier is matched with  *)
(* a range of the host's list that consumes exactly its rows, or the chain *)
(* from it on is rejected, or the conversation needs no leaf.              *)
Match(c) ==
    LET f == frontier[c]
        hostRange(l) == Ids(l) = Span(rows[c], bound[c], f, CoveredEnd(l))
    IN
    /\ eng[c].pc = "idle" /\ cache[c] # {}
    /\ \/ \E l \in cache[c] :
             /\ l.start = f /\ l.session = bound[c] /\ l.route = route
             /\ hostRange(l)
             /\ ReadyChain(c, f, {})
             /\ eng' = [eng EXCEPT ![c] =
                          [pc |-> "publish", leaf |-> l, expected |-> f]]
       \/ ReadyChain(c, f, ChainFrom(c, f)) /\ UNCHANGED eng
       \/ ReadyChain(c, f, {}) /\ UNCHANGED eng
    /\ UNCHANGED <<changes, pubVars, gen, jobs, queue, wrk>>

\* Mutant of Revalidated: the rows are not compared with the digest.
RevalidatedRouteOnly(c, l) == route = l.route

(* _prepared_leaf_revalidation, inside the publication transaction. *)
Revalidated(c, l) ==
    /\ route = l.route
    /\ \A i \in Ids(l) : rows[c][i].v = l.text[i]

(* stage_compaction_publication: the binding, the frontier and the         *)
(* coverage of the leaf still hold.                                        *)
Fenced(c, l, expected) ==
    /\ bound[c] = l.session /\ frontier[c] = expected
    /\ Ids(l) = Span(rows[c], l.session, expected, CoveredEnd(l))

(* _publish_selected_leaf: one transaction. *)
PublishPrepared(c) ==
    LET l == eng[c].leaf IN
    /\ eng[c].pc = "publish"
    /\ IF Revalidated(c, l) /\ Fenced(c, l, eng[c].expected)
       THEN /\ last' = [last EXCEPT ![c] = [prepared |-> TRUE,
                                            text |-> l.text, route |-> l.route]]
            /\ frontier' = [frontier EXCEPT ![c] = CoveredEnd(l)]
            /\ eng' = [eng EXCEPT ![c].pc = "promoted"]
            /\ UNCHANGED <<cache, lru>>
       ELSE /\ Reject(c, l)
            /\ eng' = [eng EXCEPT ![c] = AtRest]
            /\ UNCHANGED <<last, frontier>>
    /\ UNCHANGED <<changes, rows, bound, route, gen, jobs, queue, wrk>>

(* promoted: after the commit the leaf leaves the cache. *)
Promoted(c) ==
    /\ eng[c].pc = "promoted"
    /\ Remove(c, {eng[c].leaf})
    /\ eng' = [eng EXCEPT ![c] = AtRest]
    /\ UNCHANGED <<changes, pubVars, gen, jobs, queue, wrk>>

(* The database and the configuration change around the worker. *)
Around ==
    /\ \/ /\ \E c \in Convs :
               Store(c) \/ \E k \in DOMAIN rows[c] : Publish(c, k, FALSE)
          /\ UNCHANGED changes
       \/ /\ \/ \E c \in Convs, i \in 1..MaxRows : Rewrite(c, i)
             \/ \E c \in Convs, s \in Sessions : Bind(c, s)
             \/ \E r \in Fingerprints : Configure(r)
          /\ Change
    /\ UNCHANGED prepVars

Next ==
    \/ \E c \in Convs :
          Enqueue(c) \/ Match(c) \/ PublishPrepared(c) \/ Promoted(c)
    \/ Take \/ Start \/ Read \/ MatchChain \/ Ask \/ Answer \/ Check \/ StoreLeaf
    \/ Discard \/ Restart \/ Around

Spec == Init /\ [][Next]_vars

-----------------------------------------------------------------------------
(* Properties.                                                             *)

Pub == INSTANCE LeafPublication WITH rows <- rows, bound <- bound,
           frontier <- frontier, route <- route, last <- last

(* A leaf prepared turns ago is published as if it had been made from the  *)
(* rows and with the route committed at that moment: rewritten rows, a new *)
(* route, a moved frontier, a rebound session, a restart and a shutdown in *)
(* between never show.                                                     *)
PublishesCommitted == Pub!PubSpec

(* No leaf and no job survives the shutdown or storage rebind it was made  *)
(* before, the job that was running at that time included.                 *)
NothingSurvivesDiscard ==
    /\ \A c \in Convs : \A l \in cache[c] : l.gen = gen
    /\ \A j \in jobs : j.gen = gen

(* The cache stays within its two bounds while the engines reject and      *)
(* promote under the worker, the order of its keys names exactly the       *)
(* conversations with leaves, and a chain never forks.                     *)
CacheBounded ==
    /\ Cached(cache) <= PerProcess
    /\ \A c \in Convs : Cardinality(cache[c]) <= PerConversation
    /\ Elements(lru) = {c \in Convs : cache[c] # {}}
    /\ \A c \in Convs : \A l, k \in cache[c] : l.start = k.start => l = k

=============================================================================
