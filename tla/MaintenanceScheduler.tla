------------------------ MODULE MaintenanceScheduler ------------------------
(***************************************************************************)
(* The process-wide maintenance scheduler (_RollupMaintenanceScheduler) and *)
(* the calls engines make on it.  One worker thread runs at most one pass   *)
(* at a time; a key (database, scope) is queued once; a request for the     *)
(* running key becomes its one follow-up.  The rollup instance also leases  *)
(* keys to operator rebuilds; the embedding instance also has an overflow   *)
(* bank, delayed continuations, owners that retire and a stop at exit.      *)
(*                                                                         *)
(* One condition guards the whole state, so a method is one step; a call    *)
(* that waits gives the condition up and is split there.                    *)
(*                                                                         *)
(* A job is the closure an owner queued, so it is named by that owner.      *)
(* Time is abstracted: a key is held back (waiting) until its delay elapses.*)
(* An owner is the token an engine retires by; a rearmed engine has a new   *)
(* one, so owners that were never used stand for engines yet to be armed.   *)
(***************************************************************************)
EXTENDS Collections

CONSTANTS Keys, Owners,
          KeysOf,       \* owner -> the keys its engine schedules
          Local,        \* owners of engines with the FastEmbed provider
          MaxPending,   \* max_pending_jobs
          Kind,         \* which of the two process-wide instances this is
          NULL

ASSUME SchedulerAssumption ==
  /\ KeysOf \in [Owners -> SUBSET Keys]
  /\ Local \subseteq Owners
  /\ MaxPending \in Nat \ {0}
  /\ Kind \in {"rollup", "embedding"}
  /\ Kind = "rollup" => Local = {}
  /\ NULL \notin Keys \cup Owners \cup [key : Keys, job : Owners]

VARIABLES
  jobs,       \* _jobs (and _queued_keys): entries in order
  deferred,   \* _deferred_jobs: entries in insertion order
  waiting,    \* keys whose _not_before is in the future
  running,    \* the entry the worker runs (its key is _active_keys), or NULL
  wpc,        \* the worker thread
  again,      \* _running_follow_up
  followUp,   \* _follow_up_key and _follow_up_job, or NULL
  exclusive,  \* _exclusive_keys
  owners,     \* _key_owners, and _owned_keys its inverse
  handoffs,   \* _handoff_jobs: key -> owners whose job can take over
  late,       \* _retired_active_keys
  closed,     \* _closed
  stop,       \* _STOP_EMBEDDING_MAINTENANCE
  call        \* owner -> how far the engine is in retiring it

queue == <<jobs, deferred, waiting, followUp, owners, handoffs>>
worker == <<running, wpc, again>>
vars == <<jobs, deferred, waiting, running, wpc, again, followUp, exclusive,
          owners, handoffs, late, closed, stop, call>>

Entry == [key : Keys, job : Owners]
Calls == [pc   : {"new", "live", "retire", "wait", "quiet", "left"},
          wait : BOOLEAN,          \* shutdown waits, a session end does not
          keys : SUBSET Keys]      \* keys retire_owner waits for

KeysIn(s) == {s[i].key : i \in DOMAIN s}
Pending(k) == k \in KeysIn(jobs) \cup KeysIn(deferred)
Active == IF running = NULL THEN {} ELSE {running.key}
FollowsUp(k) == followUp # NULL /\ followUp.key = k

TypeOK ==
  /\ jobs \in Seq(Entry) /\ Len(jobs) <= MaxPending
  /\ deferred \in Seq(Entry) /\ Len(deferred) <= MaxPending
  /\ waiting \subseteq Keys
  /\ running \in Entry \cup {NULL}
  /\ wpc \in {"off", "idle", "check", "pass", "finish", "gone"}
  /\ again \in BOOLEAN
  /\ followUp \in Entry \cup {NULL}
  /\ exclusive \subseteq Keys
  /\ owners \in [Keys -> SUBSET Owners]
  /\ handoffs \in [Keys -> SUBSET Owners]
  /\ late \in [Owners -> SUBSET Keys]
  /\ closed \in BOOLEAN /\ stop \in BOOLEAN
  /\ call \in [Owners -> Calls]

Init ==
  /\ jobs = <<>> /\ deferred = <<>> /\ waiting = {}
  /\ running = NULL /\ wpc = "off" /\ again = FALSE /\ followUp = NULL
  /\ exclusive = {}
  /\ owners = [k \in Keys |-> {}]
  /\ handoffs = [k \in Keys |-> {}]
  /\ late = [o \in Owners |-> {}]
  /\ closed = FALSE /\ stop = FALSE
  /\ call = [o \in Owners |-> [pc |-> "new", wait |-> FALSE, keys |-> {}]]

-----------------------------------------------------------------------------
(* schedule                                                                *)

\* _track_owner_locked; only FastEmbed engines pass handoff=True.
Track(k, o) ==
  /\ owners' = [owners EXCEPT ![k] = @ \cup {o}]
  /\ handoffs' = [handoffs EXCEPT ![k] = @ \cup ({o} \cap Local)]

\* Mutant of DelayReplacesFollowUp: whatever the delay and the key.
AnyRequestReplacesFollowUp(k, delayed) == followUp' = NULL

\* A delayed request replaces an immediate follow-up of its key, whether or
\* not there turns out to be room for it.
DelayReplacesFollowUp(k, delayed) ==
  followUp' = IF delayed /\ FollowsUp(k) THEN NULL ELSE followUp

Held(k, delayed) == waiting' = IF delayed THEN waiting \cup {k} ELSE waiting

\* Mutant of QueueHasRoom: off by one.
QueueHasRoomForOneMore == Len(jobs) <= MaxPending
QueueHasRoom == Len(jobs) < MaxPending
BankHasRoom == Kind = "embedding" /\ Len(deferred) < MaxPending

\* Mutant of ToFollowUp: a follow-up may ask for another.
FollowUpForEver(k, delayed) == k \in Active /\ ~delayed

\* The running key gets one follow-up; the request of a follow-up is queued.
ToFollowUp(k, delayed) == k \in Active /\ ~again /\ ~delayed

\* schedule(), but for the thread start.
Schedule(k, o, delayed) ==
  LET entry == [key |-> k, job |-> o]
      open == ~closed /\ k \notin exclusive
      toQueue == open /\ ~Pending(k) /\ ~ToFollowUp(k, delayed)
  IN
  \/ /\ ~open
     /\ UNCHANGED queue
  \/ /\ open /\ Pending(k)
     /\ Held(k, delayed) /\ Track(k, o)
     /\ UNCHANGED <<jobs, deferred, followUp>>
  \/ /\ open /\ ~Pending(k) /\ ToFollowUp(k, delayed)
     /\ followUp' = entry
     /\ Track(k, o)
     /\ UNCHANGED <<jobs, deferred, waiting>>
  \/ /\ toQueue /\ QueueHasRoom
     /\ jobs' = Append(jobs, entry)
     /\ Held(k, delayed) /\ DelayReplacesFollowUp(k, delayed) /\ Track(k, o)
     /\ UNCHANGED deferred
  \/ /\ toQueue /\ ~QueueHasRoom /\ BankHasRoom
     /\ deferred' = Append(deferred, entry)
     /\ Held(k, delayed) /\ DelayReplacesFollowUp(k, delayed) /\ Track(k, o)
     /\ UNCHANGED jobs
  \/ /\ toQueue /\ ~QueueHasRoom /\ ~BankHasRoom
     /\ waiting' = waiting \ {k}
     /\ DelayReplacesFollowUp(k, delayed)
     /\ UNCHANGED <<jobs, deferred, owners, handoffs>>

\* The worker thread is started with the first entry there is for it.
WorkerStarts == wpc' = IF wpc = "off" /\ jobs' # <<>> THEN "idle" ELSE wpc

\* Mutant of Handoff: the retired pass simply returns.
HandoffLost(k, retired, delayed) == UNCHANGED queue

\* handoff(): through another owner of the key, if there is one.
Handoff(k, retired, delayed) ==
  \/ \E o \in handoffs[k] \ {retired} : Schedule(k, o, delayed)
  \/ handoffs[k] \subseteq {retired} /\ UNCHANGED queue

\* Mutant of Enqueue: the retired flag is not read under the lock.
EnqueueUnfenced(o, k, delayed) == Schedule(k, o, delayed)

\* enqueue() of an owner's closure: a retired FastEmbed owner hands over, any
\* other retired owner's request is dropped.
Enqueue(o, k, delayed) ==
  \/ call[o].pc = "live" /\ Schedule(k, o, delayed)
  \/ call[o].pc # "live" /\ o \in Local /\ Handoff(k, o, delayed)
  \/ call[o].pc # "live" /\ o \notin Local /\ UNCHANGED queue

\* A bind, a leaf publication or a repair asks for a pass, or the model
\* preparation thread reports ready, perhaps after the owner was retired.
Request(o, k) ==
  /\ call[o].pc # "new" /\ k \in KeysOf[o]
  /\ Enqueue(o, k, FALSE)
  /\ WorkerStarts
  /\ UNCHANGED <<running, again, exclusive, late, closed, stop, call>>

\* __init__ or _rearm_embedding_maintenance: an owner token is minted.
Arm(o) ==
  /\ call[o].pc = "new"
  /\ call' = [call EXCEPT ![o].pc = "live"]
  /\ UNCHANGED <<queue, worker, exclusive, late, closed, stop>>

-----------------------------------------------------------------------------
(* Operator leases of the rollup scheduler                                 *)

\* Mutant of TryAcquireExclusive: looks at the queue only.
TryAcquireWhileActive(k) ==
  /\ Kind = "rollup"
  /\ ~Pending(k) /\ k \notin exclusive
  /\ Cardinality(exclusive) < MaxPending
  /\ exclusive' = exclusive \cup {k}
  /\ UNCHANGED <<queue, worker, late, closed, stop, call>>

TryAcquireExclusive(k) ==
  /\ Kind = "rollup"
  /\ ~Pending(k) /\ k \notin Active \cup exclusive /\ ~FollowsUp(k)
  /\ Cardinality(exclusive) < MaxPending
  /\ exclusive' = exclusive \cup {k}
  /\ UNCHANGED <<queue, worker, late, closed, stop, call>>

ReleaseExclusive(k) ==
  /\ k \in exclusive
  /\ exclusive' = exclusive \ {k}
  /\ UNCHANGED <<queue, worker, late, closed, stop, call>>

-----------------------------------------------------------------------------
(* The worker                                                              *)

Begin(entry) == IF entry.job \in Local THEN "check" ELSE "pass"

\* The ready queue as the worker finds it: an empty one is given the first
\* deferred entry.
Refilled == jobs = <<>> /\ deferred # <<>>
ReadyQueue == IF Refilled THEN <<Head(deferred)>> ELSE jobs
Backlog == IF Refilled THEN Tail(deferred) ELSE deferred

\* One deferred entry moves up whenever the worker takes one.
MovesUp == IF Backlog = <<>> THEN <<>> ELSE <<Head(Backlog)>>

\* The worker rotates the entries that are held back behind the first ready
\* one and takes that.
Take(i) ==
  LET entry == ReadyQueue[i]
      rest == SubSeq(ReadyQueue, i + 1, Len(ReadyQueue))
                \o SubSeq(ReadyQueue, 1, i - 1)
  IN
  /\ wpc = "idle"
  /\ entry.key \notin waiting
  /\ \A n \in 1..(i - 1) : ReadyQueue[n].key \in waiting
  /\ jobs' = rest \o MovesUp
  /\ deferred' = SubSeq(Backlog, Len(MovesUp) + 1, Len(Backlog))
  /\ running' = entry /\ wpc' = Begin(entry) /\ again' = FALSE
  /\ UNCHANGED <<waiting, followUp, owners, handoffs, exclusive, late, closed,
                 stop, call>>

\* The refilled entry is held back itself: the worker waits with it queued.
Refill ==
  /\ wpc = "idle" /\ Refilled /\ Head(deferred).key \in waiting
  /\ jobs' = ReadyQueue /\ deferred' = Backlog
  /\ UNCHANGED <<waiting, followUp, owners, handoffs, worker, exclusive, late,
                 closed, stop, call>>

DelayElapses(k) ==
  /\ k \in waiting
  /\ waiting' = waiting \ {k}
  /\ UNCHANGED <<jobs, deferred, followUp, owners, handoffs, worker, exclusive,
                 late, closed, stop, call>>

\* maintain() of a FastEmbed engine: retired, or rearmed under a new owner,
\* it hands the key over and runs nothing.
Check ==
  /\ wpc = "check"
  /\ \/ /\ call[running.job].pc = "live"
        /\ wpc' = "pass"
        /\ UNCHANGED queue
     \/ /\ call[running.job].pc # "live"
        /\ Handoff(running.key, running.job, FALSE)
        /\ wpc' = "finish"
  /\ UNCHANGED <<running, again, exclusive, late, closed, stop, call>>

\* The pass is over, or raised: the worker logs and goes on.
PassEnds ==
  /\ wpc = "pass"
  /\ wpc' = "finish"
  /\ UNCHANGED <<queue, running, again, exclusive, late, closed, stop, call>>

\* A FastEmbed slice with work left asks for its continuation after a delay.
PassContinues ==
  /\ wpc = "pass" /\ running.job \in Local
  /\ Enqueue(running.job, running.key, TRUE)
  /\ wpc' = "finish"
  /\ UNCHANGED <<running, again, exclusive, late, closed, stop, call>>

\* Mutant of Release: owners of idle keys are kept.
ReleaseNothing(keys, active) == UNCHANGED <<owners, handoffs>>

\* _release_key_owners_if_idle_locked for keys that are neither pending nor
\* followed up any more; active is the key still running.
Release(keys, active) ==
  LET idle == keys \ (active \cup exclusive) IN
  /\ owners' = [k \in Keys |-> IF k \in idle THEN {} ELSE owners[k]]
  /\ handoffs' = [k \in Keys |-> IF k \in idle THEN {} ELSE handoffs[k]]

FollowUp ==
  /\ wpc = "finish" /\ FollowsUp(running.key)
  /\ running' = followUp /\ wpc' = Begin(followUp) /\ again' = TRUE
  /\ followUp' = NULL
  /\ UNCHANGED <<jobs, deferred, waiting, owners, handoffs, exclusive, late,
                 closed, stop, call>>

Finish ==
  /\ wpc = "finish" /\ ~FollowsUp(running.key)
  /\ running' = NULL /\ wpc' = "idle" /\ again' = FALSE
  /\ late' = [o \in Owners |-> late[o] \ {running.key}]
  /\ Release(IF Pending(running.key) THEN {} ELSE {running.key}, {})
  /\ UNCHANGED <<jobs, deferred, waiting, followUp, exclusive, closed, stop, call>>

-----------------------------------------------------------------------------
(* Retirement of an embedding owner                                        *)

\* _retire_embedding_maintenance: the flag is set under the engine's lock,
\* the scheduler is called after it.  A session end (wait = FALSE) may be
\* followed by the shutdown (wait = TRUE), which is the last call.
Retire(o, wait) ==
  /\ Kind = "embedding"
  /\ \/ call[o].pc = "live"
     \/ call[o].pc \in {"quiet", "left"} /\ ~call[o].wait
  /\ call' = [call EXCEPT ![o] = [pc |-> "retire", wait |-> wait, keys |-> {}]]
  /\ UNCHANGED <<queue, worker, exclusive, late, closed, stop>>

\* Pending entries of shared keys get the job of a surviving owner that can
\* take over (heir), those of unshared keys go.
Inherited(s, heir, dropped) ==
  LET kept == Kept(s, {x \in Entry : x.key \notin dropped}) IN
  [i \in DOMAIN kept |->
     IF heir[kept[i].key] = NULL THEN kept[i]
     ELSE [kept[i] EXCEPT !.job = heir[kept[i].key]]]

\* Keys of the owner that no other owner shares.
Unshared(o) == {k \in Keys : owners[k] = {o}}

\* Mutant of StillActive: forgets the keys of an earlier retirement.
OwnedAndActive(o) == {k \in Keys : o \in owners[k]} \cap Active

\* Keys still running for the owner, from an earlier retirement included.
StillActive(o) == ({k \in Keys : o \in owners[k]} \cup late[o]) \cap Active

\* retire_owner() up to where it returns or first waits.
RetireOwner(o) ==
  LET keys == {k \in Keys : o \in owners[k]}
      dropped == Unshared(o)
      active == StillActive(o)
      Survivors(k) == IF k \in keys \ dropped THEN handoffs[k] \ {o} ELSE {}
  IN
  /\ call[o].pc = "retire"
  /\ \E heir \in [Keys -> Owners \cup {NULL}] :
       /\ \A k \in Keys : IF Survivors(k) = {} THEN heir[k] = NULL
                                               ELSE heir[k] \in Survivors(k)
       /\ jobs' = Inherited(jobs, heir, dropped)
       /\ deferred' = Inherited(deferred, heir, dropped)
       /\ followUp' = IF followUp = NULL THEN NULL
                      ELSE LET s == Inherited(<<followUp>>, heir, dropped)
                           IN IF s = <<>> THEN NULL ELSE s[1]
  /\ waiting' = waiting \ dropped
  /\ owners' = [k \in Keys |-> owners[k] \ {o}]
  /\ handoffs' = [k \in Keys |-> handoffs[k] \ {o}]
  /\ late' = [late EXCEPT ![o] = IF call[o].wait THEN {} ELSE active]
  /\ call' = [call EXCEPT ![o].pc = IF active = {} THEN "quiet"
                                    ELSE IF call[o].wait THEN "wait"
                                    ELSE "left",
                          ![o].keys = keys \cup (late[o] \cap Active)]
  /\ UNCHANGED <<worker, exclusive, closed, stop>>

\* The waiting retire_owner() sees none of its keys active, or times out.
RetireReturns(o) ==
  /\ call[o].pc = "wait"
  /\ call' = [call EXCEPT ![o].pc = IF call[o].keys \cap Active = {}
                                    THEN "quiet" ELSE "left"]
  /\ UNCHANGED <<queue, worker, exclusive, late, closed, stop>>

-----------------------------------------------------------------------------
(* Process exit                                                            *)

\* quiesce() sets the stop event before it takes the condition; the exit hook
\* is registered with the first worker.
Stop ==
  /\ Kind = "embedding" /\ ~stop /\ wpc # "off"
  /\ stop' = TRUE
  /\ UNCHANGED <<queue, worker, exclusive, late, closed, call>>

\* Mutant of Quiesced: _not_before is not cleared.
QuiescedKeepsDelays ==
  /\ closed' = TRUE
  /\ jobs' = <<>> /\ deferred' = <<>> /\ waiting' = waiting /\ followUp' = NULL
  /\ Release({k \in Keys : Pending(k) \/ FollowsUp(k)}, Active)

Quiesced ==
  /\ closed' = TRUE
  /\ jobs' = <<>> /\ deferred' = <<>> /\ waiting' = {} /\ followUp' = NULL
  /\ Release({k \in Keys : Pending(k) \/ FollowsUp(k)}, Active)

Quiesce ==
  /\ stop /\ ~closed
  /\ Quiesced
  /\ UNCHANGED <<worker, exclusive, late, stop, call>>

\* A worker that only has entries held back notices the stop itself.
WorkerQuiesces ==
  /\ wpc = "idle" /\ stop
  /\ jobs # <<>> /\ KeysIn(jobs) \subseteq waiting
  /\ Quiesced
  /\ wpc' = "gone"
  /\ UNCHANGED <<running, again, exclusive, late, stop, call>>

WorkerExits ==
  /\ wpc = "idle" /\ closed /\ jobs = <<>> /\ deferred = <<>>
  /\ wpc' = "gone"
  /\ UNCHANGED <<queue, running, again, exclusive, late, closed, stop, call>>

-----------------------------------------------------------------------------
(* Specification                                                           *)

WorkerStep ==
  \/ \E i \in DOMAIN ReadyQueue : Take(i)
  \/ Refill
  \/ Check
  \/ PassEnds
  \/ PassContinues
  \/ FollowUp
  \/ Finish
  \/ WorkerQuiesces
  \/ WorkerExits

Next ==
  \/ WorkerStep
  \/ \E k \in Keys : DelayElapses(k) \/ TryAcquireExclusive(k) \/ ReleaseExclusive(k)
  \/ \E o \in Owners : \/ Arm(o)
                       \/ \E k \in Keys : Request(o, k)
                       \/ \E wait \in BOOLEAN : Retire(o, wait)
                       \/ RetireOwner(o)
                       \/ RetireReturns(o)
  \/ Stop
  \/ Quiesce

Spec == Init /\ [][Next]_vars

\* The worker is a thread that is never cancelled, and a pass is bounded by
\* its budget and its provider's timeouts; delays elapse; an engine that set
\* the retired flag calls the scheduler next.
Fairness ==
  /\ WF_vars(WorkerStep)
  /\ \A k \in Keys : WF_vars(DelayElapses(k))
  /\ \A o \in Owners : WF_vars(RetireOwner(o))

FairSpec == Spec /\ Fairness

-----------------------------------------------------------------------------
(* Properties                                                              *)

Asked(k) == Pending(k) \/ FollowsUp(k)
Took(k) == k \in Active' /\ (running' # running \/ again' # again)

\* A key is in one place of the two banks only, and a delay belongs to an
\* entry that is still there: a request made with no delay is never held back
\* by one that an earlier, finished or dropped request left in _not_before.
QueuedOnce ==
  /\ \A i, j \in DOMAIN (jobs \o deferred) :
        (jobs \o deferred)[i].key = (jobs \o deferred)[j].key => i = j
  /\ \A k \in waiting : Pending(k)

\* An operator rebuild never has its key queued, followed up or running in the
\* background, however it, the binds and the worker interleave (the promise of
\* try_acquire_exclusive).
LeaseIsAlone ==
  \A k \in exclusive : k \notin Active /\ ~Asked(k)

\* An owner's key is always one the worker has or will come to: otherwise
\* drain_owner() waits for ever for a key nobody runs.
OwnedIsBusy ==
  \A k \in Keys : owners[k] # {} => Asked(k) \/ k \in Active

\* Once retire_owner() has returned for an owner, nothing brings it back: not
\* an enqueue that read the owner before, not the preparation thread, not a
\* handoff by the worker.  Its key is no longer its, and no queued pass is.
RetiredStaysOut ==
  \A o \in Local : call[o].pc \in {"wait", "quiet", "left"} =>
    /\ \A k \in Keys : o \notin owners[k] \cup handoffs[k]
    /\ \A i \in DOMAIN (jobs \o deferred) : (jobs \o deferred)[i].job # o
    /\ followUp # NULL => followUp.job # o

\* When retire_owner() returned True no FastEmbed pass of the owner runs, and
\* none starts later: shutdown() closes the stores after it.
RetiredIsQuiet ==
  wpc = "pass" /\ running.job \in Local => call[running.job].pc # "quiet"

\* Both banks are full: a key that is not in them is refused.
Saturated == ~QueueHasRoom /\ ~BankHasRoom

\* A FastEmbed slice of the key ends while the banks are full of other keys, so
\* that its delayed continuation is refused.
ContinuationRefused(k) ==
  Saturated /\ wpc = "pass" /\ wpc' = "finish"
    /\ running.key = k /\ running.job \in Local

\* A request that was accepted leaves the scheduler only with the worker that
\* runs it, with the retirement of the last owner that asked for it, or at
\* exit, and in one more way, which the comment on the follow-up slot denies:
\* with both banks full the delayed continuation of the running key clears the
\* key's follow-up before schedule() refuses it.  Nothing else, saturation
\* included, discards accepted work.
AcceptedWorkKept ==
  [][\A k \in Keys : Asked(k) /\ ~Asked(k)'
        => \/ Took(k) \/ closed' \/ owners'[k] = {}
           \/ FollowsUp(k) /\ ContinuationRefused(k)]_vars

\* A FastEmbed pass that finds its owner retired gives way only to another
\* pass for the key while a live engine asked for one, unless it is itself a
\* follow-up, whose request is queued, and the banks are full.
HandedOver ==
  [][wpc = "check" /\ wpc' = "finish" /\ ~closed
       /\ (\E o \in owners[running.key] : call[o].pc = "live")
     => Asked(running.key)' \/ (again /\ Saturated)]_vars

\* Nothing queued waits for ever: a key whose passes keep asking for more
\* gets one follow-up and then queues behind the others, an entry held back
\* is passed by, the overflow bank drains.
QueueDrains ==
  \A k \in Keys : /\ Pending(k) ~> ~Pending(k)
                  /\ FollowsUp(k) ~> ~FollowsUp(k)

=============================================================================
