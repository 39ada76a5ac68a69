------------------------- MODULE EmbeddingBackfill -------------------------
(***************************************************************************)
(* The embedding backfill: command.py (the lease, the durable in-flight    *)
(* rows and the run) and vector_store.py (publication under the lease,     *)
(* purge and profiles).  A run asks a provider that bills every request    *)
(* for the vectors of documents; the worker may crash or stall at any      *)
(* point, another run then takes its lease.                                *)
(*                                                                         *)
(* One step is one write transaction, one read of the database or one      *)
(* answer of the provider.  A run compares the uuid and the generation of  *)
(* its lease with what the database holds; the latest lease of a worker is *)
(* written as the worker, all its earlier ones as Earlier.                 *)
(***************************************************************************)
EXTENDS Integers, FiniteSets

CONSTANTS
    Docs,         \* documents: leaf summaries, or chunks
    Workers,      \* backfill runs: maintenance passes and operator commands
    Profiles,     \* embedding identities
    None,         \* no lease
    Earlier,      \* a lease of a run that is over
    RecoverLimit, \* rows of each state one run recovers (maintenance_limit)
    MaxTexts,     \* bound on the rewrites of a document
    MaxSwitches,  \* bound on the changes of the active profile
    Starts,       \* documents embedded, and switches used up, at the start
    MaxSends,     \* bound on the unsettled requests counted for a document
    FaultsCease   \* whether faults may cease

ASSUME BackfillAssumption ==
    /\ RecoverLimit \in Nat \ {0}
    /\ MaxTexts \in Nat /\ MaxSwitches \in Nat /\ MaxSends \in Nat
    /\ FaultsCease \in BOOLEAN
    /\ None \notin Workers /\ Earlier \notin Workers /\ None # Earlier

ASSUME StartsAssumption ==
    \A s \in Starts : s.embedded \subseteq Docs /\ s.switches \in 0..MaxSwitches

VARIABLES
    active,    \* the profile registered last
    switches,  \* how often it changed
    text,      \* the version of each document's text
    lease,     \* the claim row of the metadata table
    row,       \* lcm_embedding_backfill_inflight
    vec,       \* the documents that have a vector, for each profile
    run,       \* the run of each worker
    open,      \* requests for the present text not known to be rejected
    rebilled,  \* a document was sent again without authorization
    calm       \* faults have ceased

vars == <<active, switches, text, lease, row, vec, run, open, rebilled, calm>>

NoLease == [owner |-> None, expired |-> FALSE]
NoRow == [state |-> "none", lease |-> None, req |-> 0]
(* The lease and the request an uncertain row still carries are not        *)
(* compared with anything before a new reservation replaces them.          *)
Uncertain == [state |-> "uncertain", lease |-> None, req |-> 0]
NoTexts == [d \in {} |-> 0]
Idle == [pc |-> "idle", ident |-> None, auth |-> FALSE, docs |-> {},
         unsent |-> {}, asked |-> {}, req |-> 0, rejected |-> FALSE,
         stop |-> FALSE, sentText |-> NoTexts]

States == {"none", "claimed", "dispatched", "uncertain"}

(* Every state component keeps its type. *)
TypeOK ==
    /\ active \in Profiles /\ switches \in 0..MaxSwitches
    /\ text \in [Docs -> 0..MaxTexts]
    /\ lease.owner \in Workers \cup {None} /\ lease.expired \in BOOLEAN
    /\ \A i \in Profiles, d \in Docs :
         /\ row[i][d].state \in States
         /\ row[i][d].state \in {"claimed", "dispatched"} => row[i][d].lease # None
         /\ row[i][d].state = "dispatched" <=> row[i][d].req # 0
    /\ vec \in [Profiles -> SUBSET Docs]
    /\ \A w \in Workers :
         /\ run[w].pc \in {"idle", "acquire", "prepare", "discover", "batch",
              "mark", "send", "call", "publish", "fail", "clear", "end"}
         /\ run[w].docs \subseteq Docs /\ run[w].unsent \subseteq Docs
         /\ run[w].asked \subseteq Docs
    /\ open \in [Profiles -> [Docs -> Nat]]
    /\ rebilled \in BOOLEAN /\ calm \in BOOLEAN

Init ==
    /\ active \in Profiles
    /\ \E s \in Starts : /\ switches = s.switches
                         /\ vec = [i \in Profiles |-> s.embedded]
    /\ text = [d \in Docs |-> 0]
    /\ lease = NoLease
    /\ row = [i \in Profiles |-> [d \in Docs |-> NoRow]]
    /\ run = [w \in Workers |-> Idle]
    /\ open = [i \in Profiles |-> [d \in Docs |-> 0]]
    /\ rebilled = FALSE /\ calm = FALSE

-----------------------------------------------------------------------------
dbVars == <<lease, row, vec>>
ghosts == <<open, rebilled>>
world == <<active, switches, text, calm>>

(* The owner check of every transaction of a run. *)
Owns(w) == lease.owner = w

Goto(w, pc) == run' = [run EXCEPT ![w].pc = pc]
(* The run ends without a release: the lease is another's, or gone. *)
Lost(w) == run' = [run EXCEPT ![w] = Idle] /\ UNCHANGED <<dbVars, ghosts>>

(* Rows of profile i are replaced by those of new. *)
Put(i, new) ==
    row' = [row EXCEPT ![i] =
              [d \in Docs |-> IF d \in DOMAIN new THEN new[d] ELSE @[d]]]

(* Rows with this state, lease and request. *)
Of(i, state, l, req) ==
    {d \in Docs : row[i][d] = [state |-> state, lease |-> l, req |-> req]}

-----------------------------------------------------------------------------
(* The run reads the current profile. *)
Begin(w, retryUncertain) ==
    /\ run[w].pc = "idle"
    /\ calm => ~retryUncertain
    /\ run' = [run EXCEPT ![w] = [Idle EXCEPT !.pc = "acquire", !.ident = active,
                                              !.auth = retryUncertain]]
    /\ UNCHANGED <<dbVars, ghosts, world>>

(* _acquire_embedding_backfill_lease: only an expired lease is taken over. *)
Acquire(w) ==
    /\ run[w].pc = "acquire"
    /\ IF lease.owner # None /\ ~lease.expired
       THEN run' = [run EXCEPT ![w] = Idle] /\ UNCHANGED <<lease, row>>
       ELSE /\ lease' = [owner |-> w, expired |-> FALSE]
            /\ run' = [run EXCEPT ![w].pc = "prepare"]
            /\ row' = [i \in Profiles |-> [d \in Docs |->
                         IF row[i][d].lease = w
                         THEN [row[i][d] EXCEPT !.lease = Earlier] ELSE row[i][d]]]
    /\ UNCHANGED <<vec, ghosts, world>>

\* Mutant of Prepare: what an earlier run dispatched is offered again.
PrepareClearsAll(w) ==
    LET i == run[w].ident
        others(s) == {d \in Docs : row[i][d].state = s /\ row[i][d].lease # w}
    IN
    /\ run[w].pc = "prepare"
    /\ \/ ~Owns(w) /\ Lost(w)
       \/ /\ Owns(w)
          /\ Put(i, [d \in others("claimed") \cup others("dispatched") |-> NoRow])
          /\ Goto(w, "discover") /\ UNCHANGED <<lease, vec, ghosts>>
    /\ UNCHANGED world

\* Mutant of Prepare: what earlier runs left is not looked at.
PrepareNothing(w) ==
    /\ run[w].pc = "prepare"
    /\ \/ ~Owns(w) /\ Lost(w)
       \/ Owns(w) /\ Goto(w, "discover") /\ UNCHANGED <<dbVars, ghosts>>
    /\ UNCHANGED world

(* Up to RecoverLimit rows in a state that other leases than w left. *)
Left(w, state) ==
    LET i == run[w].ident
        left == {d \in Docs : row[i][d].state = state /\ row[i][d].lease # w}
    IN  {ds \in SUBSET left :
           \/ ds = left /\ Cardinality(ds) <= RecoverLimit
           \/ Cardinality(ds) = RecoverLimit}

(* _prepare_inflight_for_lease: a claim of an earlier lease was never sent *)
(* and is dropped, a dispatch may have been accepted and is now uncertain. *)
Prepare(w) ==
    /\ run[w].pc = "prepare"
    /\ \/ ~Owns(w) /\ Lost(w)
       \/ \E claims \in Left(w, "claimed"), sent \in Left(w, "dispatched") :
            /\ Owns(w)
            /\ Put(run[w].ident, [d \in claims \cup sent |->
                                   IF d \in claims THEN NoRow ELSE Uncertain])
            /\ Goto(w, "discover") /\ UNCHANGED <<lease, vec, ghosts>>
    /\ UNCHANGED world

(* _embedding_pending_rows and _embedding_authorized_uncertain_rows. *)
Found(i, auth) ==
    {d \in Docs \ vec[i] : row[i][d].state = IF auth THEN "uncertain" ELSE "none"}

(* The active profile is captured and some of the rows found are taken. *)
Discover(w) ==
    LET found == Found(run[w].ident, run[w].auth) IN
    /\ run[w].pc = "discover"
    /\ IF active # run[w].ident \/ found = {} THEN Goto(w, "end")
       ELSE \E ds \in SUBSET found \ {{}} :
              run' = [run EXCEPT ![w].pc = "batch", ![w].docs = ds]
    /\ UNCHANGED <<dbVars, ghosts, world>>

(* Before each batch: the end, a stop for the budget or at process exit,   *)
(* or a heartbeat when one is due.                                         *)
Batch(w) ==
    /\ run[w].pc = "batch"
    /\ \/ /\ run[w].docs = {} \/ ~calm
          /\ Goto(w, "end") /\ UNCHANGED lease
       \/ /\ run[w].docs # {}
          /\ \/ Goto(w, "mark") /\ UNCHANGED lease
             \/ /\ Owns(w) /\ lease' = [lease EXCEPT !.expired = FALSE]
                /\ Goto(w, "mark")
             \/ /\ ~Owns(w)
                /\ run' = [run EXCEPT ![w] = Idle] /\ UNCHANGED lease
    /\ UNCHANGED <<row, vec, ghosts, world>>

\* Mutant of Mark: the row gets the id of the run's previous request.
MarkOldRequest(w) ==
    LET r == run[w] IN
    /\ r.pc = "mark" /\ Owns(w)
    /\ \E batch \in SUBSET r.docs \ {{}} :
         /\ Put(r.ident, [d \in batch |-> [state |-> "claimed", lease |-> w, req |-> r.req]])
         /\ run' = [run EXCEPT ![w].pc = "send", ![w].unsent = batch,
                               ![w].docs = @ \ batch]
    /\ UNCHANGED <<lease, vec, ghosts, world>>

(* _mark_inflight: the batch is reserved as a whole. *)
Mark(w) ==
    LET r == run[w]
        was == IF r.auth THEN "uncertain" ELSE "none"
    IN
    /\ r.pc = "mark"
    /\ \/ ~Owns(w) /\ Lost(w)
       \/ \E batch \in SUBSET r.docs \ {{}} :
            /\ Owns(w)
            /\ IF \A d \in batch : row[r.ident][d].state = was
               THEN /\ Put(r.ident, [d \in batch |->
                           [state |-> IF r.auth THEN "uncertain" ELSE "claimed",
                            lease |-> w, req |-> 0]])
                    /\ run' = [run EXCEPT ![w].pc = "send", ![w].unsent = batch,
                                          ![w].docs = @ \ batch]
               ELSE Goto(w, "end") /\ UNCHANGED row
            /\ UNCHANGED <<lease, vec, ghosts>>
    /\ UNCHANGED world

(* _mark_dispatched, just before one sub-request is sent; when a row has   *)
(* changed nothing is sent and the batch fails.  With no more to send the  *)
(* rest, which the provider skipped, is cleared.                           *)
Send(w) ==
    LET r == run[w]
        was == IF r.auth THEN "uncertain" ELSE "claimed"
    IN
    /\ r.pc = "send"
    /\ \/ /\ r.unsent = {} \/ ~calm
          /\ Goto(w, "clear") /\ UNCHANGED <<row, ghosts>>
       \/ \E ask \in SUBSET r.unsent \ {{}} :
            IF Owns(w) /\ ask \subseteq Of(r.ident, was, w, 0)
            THEN /\ \A d \in ask : calm \/ open[r.ident][d] < MaxSends
                 /\ Put(r.ident, [d \in ask |->
                           [state |-> "dispatched", lease |-> w, req |-> r.req + 1]])
                 /\ run' = [run EXCEPT ![w].pc = "call", ![w].req = @ + 1,
                                       ![w].unsent = @ \ ask, ![w].asked = ask,
                                       ![w].sentText = [d \in ask |-> text[d]]]
                 /\ rebilled' = (rebilled \/ (~r.auth /\ \E d \in ask : open[r.ident][d] > 0))
                 /\ open' = [open EXCEPT ![r.ident] =
                               [d \in Docs |-> IF d \in ask THEN @[d] + 1 ELSE @[d]]]
            ELSE Goto(w, "fail") /\ UNCHANGED <<row, ghosts>>
    /\ UNCHANGED <<lease, vec, world>>

(* The provider accepts the request, rejects it for certain, or nothing is *)
(* known of it.                                                            *)
Answer(w) ==
    LET r == run[w]
        same == {d \in r.asked : text[d] = r.sentText[d]}
        Answered(pc, rejected, stop) ==
            run' = [run EXCEPT ![w].pc = pc, ![w].rejected = rejected,
                               ![w].stop = stop, ![w].sentText = NoTexts]
    IN
    /\ r.pc = "call"
    /\ \/ Answered("publish", FALSE, FALSE) /\ UNCHANGED open
       \/ ~calm /\ Answered("fail", FALSE, FALSE) /\ UNCHANGED open
       \/ /\ ~calm
          /\ \E stop \in BOOLEAN : Answered("fail", TRUE, stop)
          /\ open' = [open EXCEPT ![r.ident] =
                        [d \in Docs |-> IF d \in same THEN @[d] - 1 ELSE @[d]]]
    /\ UNCHANGED <<dbVars, rebilled, world>>

(* publish_embedding_batch_under_lease: row by row in one transaction, up  *)
(* to the first row that is refused or fails; a profile that is no longer  *)
(* active makes the request uncertain and gives the lease back.            *)
Publish(w) ==
    LET r == run[w]
        i == r.ident
        mine == Of(i, "dispatched", w, r.req)
        good == IF Owns(w) THEN mine \cap r.asked ELSE {}
        Store(ds) == /\ vec' = [vec EXCEPT ![i] = @ \cup ds]
                     /\ Put(i, [d \in ds |-> NoRow])
    IN
    /\ r.pc = "publish"
    /\ \/ /\ good = r.asked /\ active = i
          /\ Store(good)
          /\ run' = [run EXCEPT ![w].pc = "send", ![w].asked = {}]
          /\ UNCHANGED lease
       \/ /\ good # r.asked /\ active = i
          /\ \E ds \in SUBSET good : Store(ds)
          /\ run' = [run EXCEPT ![w] = Idle]
          /\ UNCHANGED lease
       \/ /\ ~calm /\ active = i
          /\ \E ds \in SUBSET good : ds # r.asked /\ Store(ds)
          /\ Goto(w, "fail")
          /\ UNCHANGED lease
       \/ /\ active # i /\ good # {}
          /\ Put(i, [d \in mine |-> Uncertain])
          /\ lease' = NoLease
          /\ run' = [run EXCEPT ![w] = Idle]
          /\ UNCHANGED vec
       \/ /\ active # i /\ good # r.asked
          /\ Lost(w)
    /\ UNCHANGED <<ghosts, world>>

(* _owned_inflight_transition of the latest request: rejected rows are     *)
(* free again unless their retry was authorized, all others are uncertain. *)
Fail(w) ==
    LET r == run[w]
        mine == Of(r.ident, "dispatched", w, r.req)
        free == r.rejected /\ ~r.auth
    IN
    /\ r.pc = "fail"
    /\ \/ r.req # 0 /\ ~Owns(w) /\ Lost(w)
       \/ /\ r.req = 0 \/ Owns(w)
          /\ Put(r.ident, [d \in mine |-> IF free THEN NoRow ELSE Uncertain])
          /\ run' = [run EXCEPT ![w].pc = "clear", ![w].asked = {}, ![w].rejected = FALSE]
          /\ UNCHANGED <<lease, vec, ghosts>>
    /\ UNCHANGED world

(* Rows that were not sent are released one by one. *)
Clear(w) ==
    LET r == run[w] IN
    /\ r.pc = "clear"
    /\ \/ /\ r.unsent = {}
          /\ run' = [run EXCEPT ![w].pc = IF r.stop THEN "end" ELSE "batch"]
          /\ UNCHANGED <<dbVars, ghosts>>
       \/ r.unsent # {} /\ ~Owns(w) /\ Lost(w)
       \/ \E d \in r.unsent :
            /\ Owns(w)
            /\ Put(r.ident, [e \in {d} \cap Of(r.ident, "claimed", w, 0) |-> NoRow])
            /\ run' = [run EXCEPT ![w].unsent = @ \ {d}]
            /\ UNCHANGED <<lease, vec, ghosts>>
    /\ UNCHANGED world

(* The run ends and deletes the claim row if it is its own. *)
End(w) ==
    /\ run[w].pc = "end"
    /\ lease' = IF Owns(w) THEN NoLease ELSE lease
    /\ run' = [run EXCEPT ![w] = Idle]
    /\ UNCHANGED <<row, vec, ghosts, world>>

Step(w) ==
    \/ Acquire(w) \/ Prepare(w) \/ Discover(w) \/ Batch(w) \/ Mark(w) \/ Send(w)
    \/ Answer(w) \/ Publish(w) \/ Fail(w) \/ Clear(w) \/ End(w)

-----------------------------------------------------------------------------
(* The heartbeat of the claim row is older than the TTL: its owner died,   *)
(* or is stuck in a call.                                                  *)
Expire ==
    /\ lease.owner # None /\ ~lease.expired
    /\ calm => run[lease.owner].pc \in {"idle", "acquire"}
    /\ lease' = [lease EXCEPT !.expired = TRUE]
    /\ UNCHANGED <<row, vec, run, ghosts, world>>

(* The process of a run dies. *)
Crash(w) ==
    /\ ~calm /\ run[w].pc # "idle"
    /\ run' = [run EXCEPT ![w] = Idle]
    /\ UNCHANGED <<dbVars, ghosts, world>>

(* register_profile: another profile, or an earlier one again. *)
Register(i) ==
    /\ ~calm /\ i # active /\ switches < MaxSwitches
    /\ active' = i /\ switches' = switches + 1
    /\ UNCHANGED <<dbVars, text, run, ghosts, calm>>

(* A repair rewrites a document and purges its vectors and in-flight rows  *)
(* in the same transaction (purge_embedding_batch_on_connection).          *)
Rewrite(d) ==
    /\ ~calm /\ text[d] < MaxTexts
    /\ text' = [text EXCEPT ![d] = @ + 1]
    /\ row' = [i \in Profiles |-> [row[i] EXCEPT ![d] = NoRow]]
    /\ vec' = [i \in Profiles |-> vec[i] \ {d}]
    /\ open' = [i \in Profiles |-> [open[i] EXCEPT ![d] = 0]]
    /\ UNCHANGED <<active, switches, lease, run, rebilled, calm>>

(* From some point on no more faults, changes and operator commands. *)
CalmDown ==
    /\ FaultsCease /\ ~calm /\ calm' = TRUE
    /\ UNCHANGED <<active, switches, text, dbVars, run, ghosts>>

Next ==
    \/ \E w \in Workers :
          Step(w) \/ Crash(w) \/ \E auth \in BOOLEAN : Begin(w, auth)
    \/ \E i \in Profiles : Register(i)
    \/ \E d \in Docs : Rewrite(d)
    \/ Expire \/ CalmDown

Spec == Init /\ [][Next]_vars

(* Passes are started again and again and a run that is started goes on;   *)
(* time passes.                                                            *)
FairSpec ==
    /\ Spec
    /\ \A w \in Workers : WF_vars(Step(w)) /\ WF_vars(Begin(w, FALSE))
    /\ WF_vars(Expire)

-----------------------------------------------------------------------------
(* Properties.                                                             *)

(* A text that may have been accepted by the provider is never sent to it  *)
(* a second time unless the operator authorized exactly that, through      *)
(* crashes, expired leases, stalled runs that come back, changes of the    *)
(* profile, rejections and failed publications.                            *)
NoSilentRebill == ~rebilled

(* Nothing is left behind by a crashed or stalled run: once faults cease,  *)
(* every document gets its vector or waits for the operator as uncertain.  *)
Settled(d) == d \in vec[active] \/ row[active][d].state = "uncertain"
EveryDocSettles == \A d \in Docs : calm ~> []Settled(d)

=============================================================================
