---------------------- MODULE EmbeddingBackfill_proofs ----------------------
(***************************************************************************)
(* NoSilentRebill and TypeOK of EmbeddingBackfill, for every number of     *)
(* documents, runs and profiles.                                           *)
(***************************************************************************)
EXTENDS EmbeddingBackfill, FiniteSetTheorems, TLAPS

Row == [state : States, lease : Workers \cup {None, Earlier}, req : Nat]
Texts == UNION {[S -> Nat] : S \in SUBSET Docs}
Pcs == {"idle", "acquire", "prepare", "discover", "batch", "mark", "send",
        "call", "publish", "fail", "clear", "end"}
Run == [pc : Pcs, ident : Profiles \cup {None}, auth : BOOLEAN,
        docs : SUBSET Docs, unsent : SUBSET Docs, asked : SUBSET Docs,
        req : Nat, rejected : BOOLEAN, stop : BOOLEAN, sentText : Texts]

(* What the proof needs of the types; open is any integer here. *)
Typed ==
    /\ active \in Profiles
    /\ text \in [Docs -> Nat]
    /\ lease \in [owner : Workers \cup {None}, expired : BOOLEAN]
    /\ row \in [Profiles -> [Docs -> Row]]
    /\ vec \in [Profiles -> SUBSET Docs]
    /\ run \in [Workers -> Run]
    /\ open \in [Profiles -> [Docs -> Int]]
    /\ \A w \in Workers : run[w].pc # "idle" => run[w].ident \in Profiles

(* An unsettled request is known to the database: its row is dispatched or *)
(* uncertain, or the vector is there.                                      *)
Known(i, d) ==
    open[i][d] > 0 => \/ row[i][d].state \in {"dispatched", "uncertain"}
                      \/ row[i][d].state = "none" /\ d \in vec[i]

(* What the owner of the lease has yet to reserve has no vector.           *)
Fresh(w) ==
    /\ run[w].docs \cap (run[w].unsent \cup run[w].asked) = {}
    /\ run[w].pc \in {"idle", "acquire", "prepare", "discover"} =>
         run[w].unsent = {} /\ run[w].asked = {} /\ run[w].docs = {}
    /\ Owns(w) /\ ~run[w].auth => \A d \in run[w].docs : d \notin vec[run[w].ident]

(* The requests that rows of w's lease name were sent by this run.         *)
Sent(w) ==
    run[w].pc \notin {"idle", "acquire"} =>
      \A i \in Profiles, d \in Docs : row[i][d].lease = w => row[i][d].req <= run[w].req

(* A row of the latest request of an ordinary run has no other unsettled   *)
(* request, and none at all once that request is rejected.                 *)
Only(w) ==
    /\ run[w].rejected => run[w].pc = "fail"
    /\ run[w].pc \in {"call", "fail"} /\ ~run[w].auth =>
         \A d \in Docs :
           row[run[w].ident][d] = [state |-> "dispatched", lease |-> w, req |-> run[w].req] =>
             /\ run[w].pc = "call" => /\ d \in run[w].asked
                                      /\ text[d] = run[w].sentText[d]
                                      /\ open[run[w].ident][d] <= 1
             /\ run[w].rejected => open[run[w].ident][d] <= 0

IInv ==
    /\ Typed
    /\ \A i \in Profiles, d \in Docs : Known(i, d)
    /\ \A w \in Workers : Fresh(w) /\ Sent(w) /\ Only(w)
    /\ ~rebilled

-----------------------------------------------------------------------------
LEMMA NoTextsTyped == NoTexts \in Texts
  BY DEF NoTexts, Texts

LEMMA IdleTyped == Idle \in Run
  BY NoTextsTyped DEF Idle, Run, Pcs

LEMMA RowsTyped == NoRow \in Row /\ Uncertain \in Row
  BY DEF NoRow, Uncertain, Row, States

(* Put changes the rows of one profile, and only those of new. *)
LEMMA PutRow ==
    ASSUME Typed, NEW i \in Profiles, NEW new, DOMAIN new \subseteq Docs,
           \A d \in DOMAIN new : new[d] \in Row, Put(i, new)
    PROVE  /\ row' \in [Profiles -> [Docs -> Row]]
           /\ \A j \in Profiles, d \in Docs :
                row'[j][d] = IF j = i /\ d \in DOMAIN new THEN new[d] ELSE row[j][d]
  BY DEF Put, Typed

LEMMA InitIInv == Init => IInv
  <1> SUFFICES ASSUME Init PROVE IInv
    OBVIOUS
  <1>1. Typed
    <2>1. vec \in [Profiles -> SUBSET Docs]
      BY StartsAssumption DEF Init
    <2>2. QED
      BY <2>1, IdleTyped, RowsTyped, BackfillAssumption DEF Init, Typed, NoLease, Idle
  <1>2. QED
    BY <1>1, BackfillAssumption DEF Init, IInv, Known, Fresh, Sent, Only, Owns, Idle, NoRow, NoLease

(* A step of w leaves the others alone when it touches none of the rows of *)
(* their leases and stores no vector under the lease of one of them.       *)
Apart(w) ==
    /\ \A v \in Workers \ {w} : run'[v] = run[v]
    /\ text' = text
    /\ \A v \in Workers \ {w} :
         lease'.owner = v => /\ lease.owner = v
                             /\ \A i \in Profiles : vec'[i] \subseteq vec[i]
    /\ \A v \in Workers \ {w}, i \in Profiles, d \in Docs :
         row'[i][d].lease = v => row'[i][d] = row[i][d] /\ open'[i][d] <= open[i][d]

LEMMA Others ==
    ASSUME IInv, Typed', NEW w \in Workers, Apart(w), NEW v \in Workers, v # w
    PROVE  Fresh(v)' /\ Sent(v)' /\ Only(v)'
  <1>1. run'[v] = run[v] /\ text' = text
    BY DEF Apart
  <1>2. run[v].ident \in Profiles \/ run[v].pc = "idle"
    BY DEF IInv, Typed
  <1>3. Fresh(v)'
    BY <1>1, <1>2 DEF IInv, Fresh, Apart, Owns
  <1>4. Sent(v)'
    BY <1>1 DEF IInv, Sent, Apart
  <1>5. Only(v)'
    <2>1. run[v].rejected => run[v].pc = "fail"
      BY DEF IInv, Only
    <2>2. SUFFICES ASSUME run[v].pc \in {"call", "fail"}, ~run[v].auth, NEW d \in Docs,
                          row'[run[v].ident][d] =
                            [state |-> "dispatched", lease |-> v, req |-> run[v].req]
                   PROVE  /\ run[v].pc = "call" => /\ d \in run[v].asked
                                                  /\ text[d] = run[v].sentText[d]
                                                  /\ open'[run[v].ident][d] <= 1
                          /\ run[v].rejected => open'[run[v].ident][d] <= 0
      BY <1>1, <2>1 DEF Only
    <2>3. run[v].ident \in Profiles
      BY <1>2, <2>2
    <2>4. /\ row[run[v].ident][d] = row'[run[v].ident][d]
          /\ open'[run[v].ident][d] <= open[run[v].ident][d]
      BY <2>2, <2>3 DEF Apart
    <2>5. /\ run[v].pc = "call" => /\ d \in run[v].asked
                                  /\ text[d] = run[v].sentText[d]
                                  /\ open[run[v].ident][d] <= 1
          /\ run[v].rejected => open[run[v].ident][d] <= 0
      BY <2>2, <2>4 DEF IInv, Only
    <2>6. /\ open[run[v].ident][d] \in Int
          /\ open'[run[v].ident][d] \in Int
      BY <2>3 DEF IInv, Typed
    <2> QED
      BY <2>4, <2>5, <2>6
  <1> QED
    BY <1>3, <1>4, <1>5

LEMMA Assemble ==
    ASSUME IInv, Typed', NEW w \in Workers, Apart(w),
           \A i \in Profiles, d \in Docs : Known(i, d)',
           Fresh(w)', Sent(w)', Only(w)', ~rebilled'
    PROVE  IInv'
  BY Others DEF IInv

(* A step that changes no row, vector or text and settles requests at most *)
(* keeps what is known of them.                                            *)
LEMMA KnownKept ==
    ASSUME IInv, Typed', UNCHANGED <<row, vec>>,
           \A i \in Profiles, d \in Docs : open'[i][d] <= open[i][d]
    PROVE  \A i \in Profiles, d \in Docs : Known(i, d)'
  BY DEF IInv, Typed, Known

(* A run that ends. *)
LEMMA Ended ==
    ASSUME IInv, NEW w \in Workers, run' = [run EXCEPT ![w] = Idle]
    PROVE  /\ run' \in [Workers -> Run]
           /\ \A v \in Workers \ {w} : run'[v] = run[v]
           /\ \A v \in Workers : run'[v].pc # "idle" => run'[v].ident \in Profiles
           /\ Fresh(w)' /\ Sent(w)' /\ Only(w)'
  <1>1. run' \in [Workers -> Run] /\ run'[w] = Idle /\ \A v \in Workers \ {w} : run'[v] = run[v]
    BY IdleTyped DEF IInv, Typed
  <1>2. \A v \in Workers : run'[v].pc # "idle" => run'[v].ident \in Profiles
    BY <1>1 DEF IInv, Typed, Idle
  <1> QED
    BY <1>1, <1>2 DEF Idle, Fresh, Sent, Only

(* The same for a run that ends with the lease gone or another's. *)
LEMMA EndedIInv ==
    ASSUME IInv, NEW w \in Workers, run' = [run EXCEPT ![w] = Idle],
           UNCHANGED <<row, vec, open, rebilled, text, active>>,
           lease' \in {lease, NoLease}
    PROVE  IInv'
  <1>0. /\ run' \in [Workers -> Run]
        /\ \A v \in Workers \ {w} : run'[v] = run[v]
        /\ \A v \in Workers : run'[v].pc # "idle" => run'[v].ident \in Profiles
        /\ Fresh(w)' /\ Sent(w)' /\ Only(w)'
    BY Ended
  <1>a. lease' \in [owner : Workers \cup {None}, expired : BOOLEAN]
    <2>1. NoLease \in [owner : Workers \cup {None}, expired : BOOLEAN]
      BY DEF NoLease
    <2> QED
      BY <2>1 DEF IInv, Typed
  <1>1. Typed'
    BY <1>0, <1>a DEF IInv, Typed
  <1>2. Apart(w)
    BY <1>0, <1>1, BackfillAssumption DEF Apart, IInv, Typed, NoLease
  <1>3. \A i \in Profiles, d \in Docs : Known(i, d)'
    BY <1>1, KnownKept DEF IInv, Typed
  <1> QED
    BY <1>0, <1>1, <1>2, <1>3, Assemble DEF IInv

(* A run that goes on. *)
LEMMA GotoRun ==
    ASSUME IInv, NEW w \in Workers, NEW pc \in Pcs, run' = [run EXCEPT ![w].pc = pc]
    PROVE  /\ run' \in [Workers -> Run]
           /\ run'[w] = [run[w] EXCEPT !.pc = pc]
           /\ \A v \in Workers \ {w} : run'[v] = run[v]
           /\ run'[w].pc = pc /\ run'[w].ident = run[w].ident
           /\ run'[w].docs = run[w].docs /\ run'[w].unsent = run[w].unsent
           /\ run'[w].asked = run[w].asked /\ run'[w].req = run[w].req
           /\ run'[w].auth = run[w].auth /\ run'[w].rejected = run[w].rejected
  <1>1. run \in [Workers -> Run] /\ run[w] \in Run
    BY DEF IInv, Typed
  <1>2. [run[w] EXCEPT !.pc = pc] \in Run
    BY <1>1 DEF Run
  <1>3. /\ run' \in [Workers -> Run]
        /\ run'[w] = [run[w] EXCEPT !.pc = pc]
        /\ \A v \in Workers \ {w} : run'[v] = run[v]
    BY <1>1, <1>2
  <1> QED
    BY <1>1, <1>3 DEF Run

(* A run that goes on with nothing else changed but the heartbeat. *)
LEMMA WentIInv ==
    ASSUME IInv, NEW w \in Workers, NEW pc \in Pcs, run' = [run EXCEPT ![w].pc = pc],
           run[w].pc \notin {"idle", "acquire", "fail"},
           pc \notin {"idle", "acquire", "prepare", "discover", "call"},
           UNCHANGED <<row, vec, open, rebilled, text, active>>,
           lease' \in [owner : Workers \cup {None}, expired : BOOLEAN],
           lease'.owner = lease.owner
    PROVE  IInv'
  <1>1. /\ run' \in [Workers -> Run]
        /\ \A v \in Workers \ {w} : run'[v] = run[v]
    BY GotoRun
  <1>3. /\ run'[w].pc = pc /\ run'[w].ident = run[w].ident
        /\ run'[w].docs = run[w].docs /\ run'[w].unsent = run[w].unsent
        /\ run'[w].asked = run[w].asked /\ run'[w].req = run[w].req
        /\ run'[w].auth = run[w].auth /\ run'[w].rejected = run[w].rejected
    BY GotoRun
  <1>4. Typed'
    BY <1>1, <1>3 DEF IInv, Typed
  <1>5. Apart(w)
    BY <1>1, <1>4 DEF Apart, IInv, Typed
  <1>6. \A i \in Profiles, d \in Docs : Known(i, d)'
    BY <1>4, KnownKept DEF IInv, Typed
  <1>7. ~run[w].rejected
    BY DEF IInv, Only
  <1>8. Fresh(w)' /\ Sent(w)' /\ Only(w)'
    BY <1>3, <1>7 DEF IInv, Fresh, Sent, Only, Owns
  <1> QED
    BY <1>4, <1>5, <1>6, <1>8, Assemble DEF IInv

LEMMA BeginStep ==
    ASSUME IInv, NEW w \in Workers, NEW auth \in BOOLEAN, Begin(w, auth)
    PROVE  IInv'
  <1> DEFINE r == [Idle EXCEPT !.pc = "acquire", !.ident = active, !.auth = auth]
  <1>1. r \in Run /\ r.pc = "acquire" /\ r.ident = active /\ ~r.rejected
        /\ r.docs = {} /\ r.unsent = {} /\ r.asked = {}
    BY IdleTyped DEF IInv, Typed, Run, Pcs, Idle
  <1>2. run' = [run EXCEPT ![w] = r] /\ UNCHANGED <<active, text, lease, row, vec, open, rebilled>>
    BY DEF Begin, dbVars, ghosts, world
  <1> HIDE DEF r
  <1>3. run' \in [Workers -> Run] /\ run'[w] = r /\ \A v \in Workers \ {w} : run'[v] = run[v]
    BY <1>1, <1>2 DEF IInv, Typed
  <1>4. Typed'
    BY <1>1, <1>2, <1>3 DEF IInv, Typed
  <1>5. Apart(w)
    BY <1>2, <1>3, <1>4 DEF Apart, IInv, Typed
  <1>6. \A i \in Profiles, d \in Docs : Known(i, d)'
    BY <1>2, <1>4, KnownKept DEF IInv, Typed
  <1>7. Fresh(w)' /\ Sent(w)' /\ Only(w)'
    BY <1>1, <1>3 DEF Fresh, Sent, Only
  <1> QED
    BY <1>2, <1>4, <1>5, <1>6, <1>7, Assemble DEF IInv

LEMMA AcquireStep ==
    ASSUME IInv, NEW w \in Workers, Acquire(w)
    PROVE  IInv'
  <1> USE DEF ghosts, world
  <1>1. CASE lease.owner # None /\ ~lease.expired
    BY <1>1, EndedIInv DEF Acquire
  <1>2. CASE ~(lease.owner # None /\ ~lease.expired)
    <2>1. /\ run[w].pc = "acquire" /\ lease' = [owner |-> w, expired |-> FALSE]
          /\ run' = [run EXCEPT ![w].pc = "prepare"]
          /\ row' = [i \in Profiles |-> [d \in Docs |->
                       IF row[i][d].lease = w
                       THEN [row[i][d] EXCEPT !.lease = Earlier] ELSE row[i][d]]]
          /\ UNCHANGED <<active, text, vec, open, rebilled>>
      BY <1>2 DEF Acquire
    <2>2. /\ run' \in [Workers -> Run]
          /\ \A v \in Workers \ {w} : run'[v] = run[v]
      BY <2>1, GotoRun DEF Pcs
    <2>3. /\ run'[w].pc = "prepare" /\ run'[w].ident = run[w].ident
          /\ run'[w].docs = run[w].docs /\ run'[w].unsent = run[w].unsent
          /\ run'[w].asked = run[w].asked /\ run'[w].rejected = run[w].rejected
      BY <2>1, GotoRun DEF Pcs
    <2>4. \A i \in Profiles, d \in Docs :
            /\ row'[i][d] \in Row /\ row'[i][d].state = row[i][d].state
            /\ row'[i][d].lease # w
            /\ row'[i][d].lease # Earlier => row'[i][d] = row[i][d]
      <3> TAKE i \in Profiles, d \in Docs
      <3>1. row[i][d] \in Row
        BY DEF IInv, Typed
      <3>2. row'[i][d] = IF row[i][d].lease = w
                         THEN [row[i][d] EXCEPT !.lease = Earlier] ELSE row[i][d]
        BY <2>1
      <3> QED
        BY <3>1, <3>2, BackfillAssumption DEF Row
    <2>5. row' \in [Profiles -> [Docs -> Row]]
      BY <2>1, <2>4
    <2>6. Typed'
      BY <2>1, <2>2, <2>3, <2>5 DEF IInv, Typed
    <2>7. Apart(w)
      BY <2>1, <2>2, <2>4, <2>6, BackfillAssumption DEF Apart, IInv, Typed
    <2>8. \A i \in Profiles, d \in Docs : Known(i, d)'
      BY <2>1, <2>4 DEF IInv, Known
    <2>9. Fresh(w)' /\ Sent(w)' /\ Only(w)'
      BY <2>1, <2>3, <2>4 DEF IInv, Fresh, Sent, Only
    <2> QED
      BY <2>1, <2>6, <2>7, <2>8, <2>9, Assemble DEF IInv
  <1> QED
    BY <1>1, <1>2

LEMMA PrepareStep ==
    ASSUME IInv, NEW w \in Workers, Prepare(w)
    PROVE  IInv'
  <1> USE DEF ghosts, world, dbVars
  <1>1. CASE ~Owns(w) /\ Lost(w)
    BY <1>1, EndedIInv DEF Prepare, Lost
  <1>2. CASE Owns(w) /\ ~Lost(w)
    <2>1. PICK claims \in Left(w, "claimed"), sent \in Left(w, "dispatched") :
            /\ Put(run[w].ident, [d \in claims \cup sent |->
                                   IF d \in claims THEN NoRow ELSE Uncertain])
            /\ Goto(w, "discover") /\ UNCHANGED <<lease, vec, ghosts>>
      BY <1>2 DEF Prepare
    <2>2. run[w].pc = "prepare" /\ run[w].ident \in Profiles
          /\ UNCHANGED <<active, text, lease, vec, open, rebilled>>
      BY <2>1 DEF Prepare, IInv, Typed
    <2> DEFINE i == run[w].ident
               new == [d \in claims \cup sent |-> IF d \in claims THEN NoRow ELSE Uncertain]
    <2>3. /\ claims \subseteq Docs /\ \A d \in claims : row[i][d].state = "claimed"
          /\ sent \subseteq Docs
      BY DEF Left
    <2>4. /\ row' \in [Profiles -> [Docs -> Row]]
          /\ \A j \in Profiles, d \in Docs :
               row'[j][d] = IF j = i /\ d \in claims \cup sent
                            THEN IF d \in claims THEN NoRow ELSE Uncertain ELSE row[j][d]
      BY <2>1, <2>2, <2>3, PutRow, RowsTyped DEF IInv
    <2>5. /\ run' \in [Workers -> Run]
          /\ \A v \in Workers \ {w} : run'[v] = run[v]
          /\ run'[w].pc = "discover" /\ run'[w].ident = run[w].ident
          /\ run'[w].docs = run[w].docs /\ run'[w].unsent = run[w].unsent
          /\ run'[w].asked = run[w].asked /\ run'[w].rejected = run[w].rejected
          /\ run'[w].req = run[w].req
      BY <2>1, GotoRun DEF Goto, Pcs
    <2>6. Typed'
      BY <2>2, <2>4, <2>5 DEF IInv, Typed
    <2>7. Apart(w)
      BY <1>2, <2>2, <2>4, <2>5, <2>6, BackfillAssumption
      DEF Apart, IInv, Typed, NoRow, Uncertain, Owns
    <2>8. \A j \in Profiles, d \in Docs : Known(j, d)'
      BY <2>2, <2>3, <2>4 DEF IInv, Known, NoRow, Uncertain
    <2>9. Fresh(w)' /\ Sent(w)' /\ Only(w)'
      <3>1. Fresh(w)'
        BY <2>2, <2>5 DEF IInv, Fresh
      <3>2. Sent(w)'
        BY <2>2, <2>4, <2>5, BackfillAssumption DEF IInv, Sent, NoRow, Uncertain
      <3>3. Only(w)'
        BY <2>2, <2>5 DEF IInv, Only
      <3> QED
        BY <3>1, <3>2, <3>3
    <2> QED
      BY <2>2, <2>6, <2>7, <2>8, <2>9, Assemble DEF IInv
  <1>3. CASE Lost(w)
    BY <1>3, EndedIInv DEF Prepare, Lost
  <1> QED
    BY <1>1, <1>2, <1>3 DEF Prepare

LEMMA DiscoverStep ==
    ASSUME IInv, NEW w \in Workers, Discover(w)
    PROVE  IInv'
  <1> DEFINE found == Found(run[w].ident, run[w].auth)
  <1>0. run[w].pc = "discover" /\ run[w].ident \in Profiles
        /\ UNCHANGED <<active, text, lease, row, vec, open, rebilled>>
    BY DEF Discover, IInv, Typed, dbVars, ghosts, world
  <1>1. CASE Goto(w, "end")
    BY <1>0, <1>1, WentIInv DEF Goto, Pcs, IInv, Typed
  <1>2. CASE ~Goto(w, "end")
    <2>1. PICK ds \in SUBSET found : run' = [run EXCEPT ![w].pc = "batch", ![w].docs = ds]
      BY <1>2 DEF Discover
    <2>2. ds \subseteq Docs /\ \A d \in ds : d \notin vec[run[w].ident]
      BY DEF Found
    <2>3. /\ run' \in [Workers -> Run]
          /\ \A v \in Workers \ {w} : run'[v] = run[v]
          /\ run'[w].pc = "batch" /\ run'[w].docs = ds
          /\ run'[w].ident = run[w].ident /\ run'[w].unsent = run[w].unsent
          /\ run'[w].asked = run[w].asked /\ run'[w].rejected = run[w].rejected
          /\ run'[w].req = run[w].req /\ run'[w].auth = run[w].auth
      <3>1. run \in [Workers -> Run] /\ run[w] \in Run
        BY DEF IInv, Typed
      <3>2. run' = [run EXCEPT ![w] = [run[w] EXCEPT !.pc = "batch", !.docs = ds]]
        BY <2>1, <3>1 DEF Run
      <3>3. [run[w] EXCEPT !.pc = "batch", !.docs = ds] \in Run
        BY <2>2, <3>1 DEF Run, Pcs
      <3>4. /\ run' \in [Workers -> Run]
            /\ run'[w] = [run[w] EXCEPT !.pc = "batch", !.docs = ds]
            /\ \A v \in Workers \ {w} : run'[v] = run[v]
        BY <3>1, <3>2, <3>3
      <3> QED
        BY <3>1, <3>4 DEF Run
    <2>4. Typed'
      BY <1>0, <2>3 DEF IInv, Typed
    <2>5. Apart(w)
      BY <1>0, <2>3, <2>4 DEF Apart, IInv, Typed
    <2>6. \A i \in Profiles, d \in Docs : Known(i, d)'
      BY <1>0, <2>4, KnownKept DEF IInv, Typed
    <2>7. Fresh(w)'
      BY <1>0, <2>2, <2>3 DEF IInv, Fresh
    <2>8. Sent(w)' /\ Only(w)'
      BY <1>0, <2>3 DEF IInv, Sent, Only
    <2> QED
      BY <1>0, <2>4, <2>5, <2>6, <2>7, <2>8, Assemble DEF IInv
  <1> QED
    BY <1>1, <1>2

LEMMA BatchStep ==
    ASSUME IInv, NEW w \in Workers, Batch(w)
    PROVE  IInv'
  <1>0. /\ run[w].pc = "batch" /\ UNCHANGED <<active, text, row, vec, open, rebilled>>
        /\ lease \in [owner : Workers \cup {None}, expired : BOOLEAN]
    BY DEF Batch, IInv, Typed, ghosts, world
  <1>1. CASE Goto(w, "end") /\ UNCHANGED lease
    BY <1>0, <1>1, WentIInv DEF Goto, Pcs
  <1>2. CASE Goto(w, "mark") /\ UNCHANGED lease
    BY <1>0, <1>2, WentIInv DEF Goto, Pcs
  <1>3. CASE Goto(w, "mark") /\ lease' = [lease EXCEPT !.expired = FALSE]
    <2>1. /\ lease' \in [owner : Workers \cup {None}, expired : BOOLEAN]
          /\ lease'.owner = lease.owner
      BY <1>0, <1>3
    <2> QED
      BY <1>0, <1>3, <2>1, WentIInv DEF Goto, Pcs
  <1>4. CASE run' = [run EXCEPT ![w] = Idle] /\ UNCHANGED lease
    BY <1>0, <1>4, EndedIInv
  <1> QED
    BY <1>1, <1>2, <1>3, <1>4 DEF Batch

LEMMA MarkStep ==
    ASSUME IInv, NEW w \in Workers, Mark(w)
    PROVE  IInv'
  <1> DEFINE r == run[w]
             claim == [state |-> IF r.auth THEN "uncertain" ELSE "claimed",
                       lease |-> w, req |-> 0]
  <1>0. /\ r.pc = "mark" /\ r.ident \in Profiles /\ UNCHANGED <<active, text>>
        /\ r \in Run /\ run \in [Workers -> Run]
    BY DEF Mark, IInv, Typed, world
  <1>1. CASE Lost(w)
    BY <1>0, <1>1, EndedIInv DEF Lost, dbVars, ghosts
  <1>2. CASE ~Lost(w)
    <2>1. PICK batch \in SUBSET r.docs :
            /\ Owns(w)
            /\ IF \A d \in batch : row[r.ident][d].state = IF r.auth THEN "uncertain" ELSE "none"
               THEN /\ Put(r.ident, [d \in batch |-> claim])
                    /\ run' = [run EXCEPT ![w].pc = "send", ![w].unsent = batch,
                                          ![w].docs = @ \ batch]
               ELSE Goto(w, "end") /\ UNCHANGED row
            /\ UNCHANGED <<lease, vec, open, rebilled>>
      BY <1>2 DEF Mark, ghosts
    <2>2. CASE Goto(w, "end") /\ UNCHANGED row
      BY <1>0, <2>1, <2>2, WentIInv DEF Goto, Pcs, IInv, Typed
    <2>3. CASE ~(Goto(w, "end") /\ UNCHANGED row)
      <3>1. /\ \A d \in batch : row[r.ident][d].state = IF r.auth THEN "uncertain" ELSE "none"
            /\ Put(r.ident, [d \in batch |-> claim])
            /\ run' = [run EXCEPT ![w].pc = "send", ![w].unsent = batch, ![w].docs = @ \ batch]
        BY <2>1, <2>3
      <3>2. batch \subseteq Docs /\ claim \in Row
        BY <1>0 DEF Run, Row, States
      <3>3. /\ row' \in [Profiles -> [Docs -> Row]]
            /\ \A j \in Profiles, d \in Docs :
                 row'[j][d] = IF j = r.ident /\ d \in batch THEN claim ELSE row[j][d]
        BY <1>0, <3>1, <3>2, PutRow DEF IInv
      <3>4. /\ run' \in [Workers -> Run]
            /\ \A v \in Workers \ {w} : run'[v] = run[v]
            /\ run'[w].pc = "send" /\ run'[w].docs = r.docs \ batch
            /\ run'[w].unsent = batch /\ run'[w].ident = r.ident
            /\ run'[w].asked = r.asked /\ run'[w].rejected = r.rejected
            /\ run'[w].req = r.req /\ run'[w].auth = r.auth
        <4>1. run' = [run EXCEPT ![w] = [run[w] EXCEPT !.pc = "send", !.unsent = batch,
                                                       !.docs = run[w].docs \ batch]]
          BY <1>0, <3>1 DEF Run
        <4>2. [run[w] EXCEPT !.pc = "send", !.unsent = batch,
                             !.docs = run[w].docs \ batch] \in Run
          BY <1>0, <3>2 DEF Run, Pcs
        <4>3. /\ run' \in [Workers -> Run]
              /\ run'[w] = [run[w] EXCEPT !.pc = "send", !.unsent = batch,
                                          !.docs = run[w].docs \ batch]
              /\ \A v \in Workers \ {w} : run'[v] = run[v]
          BY <1>0, <4>1, <4>2
        <4> QED
          BY <1>0, <4>3 DEF Run
      <3>5. claim.lease = w /\ claim.req = 0
            /\ claim.state = IF r.auth THEN "uncertain" ELSE "claimed"
        OBVIOUS
      <3> HIDE DEF claim
      <3>6. Typed'
        BY <1>0, <2>1, <3>3, <3>4 DEF IInv, Typed
      <3>7. Apart(w)
        BY <1>0, <2>1, <3>3, <3>4, <3>5, <3>6 DEF Apart, IInv, Typed, Owns
      <3>8. \A j \in Profiles, d \in Docs : Known(j, d)'
        <4>1. r.auth \/ \A d \in batch : d \notin vec[r.ident]
          BY <2>1 DEF IInv, Fresh
        <4> QED
          BY <1>0, <2>1, <3>1, <3>2, <3>3, <3>5, <4>1 DEF IInv, Known
      <3>9. Fresh(w)'
        BY <1>0, <2>1, <3>4 DEF IInv, Fresh, Owns
      <3>10. Sent(w)'
        BY <1>0, <3>3, <3>4, <3>5 DEF IInv, Sent, Run
      <3>11. Only(w)'
        BY <1>0, <3>4 DEF IInv, Only
      <3> QED
        BY <2>1, <3>6, <3>7, <3>8, <3>9, <3>10, <3>11, Assemble DEF IInv
    <2> QED
      BY <2>2, <2>3
  <1> QED
    BY <1>1, <1>2

LEMMA SendStep ==
    ASSUME IInv, NEW w \in Workers, Send(w)
    PROVE  IInv'
  <1> DEFINE r == run[w]
             was == IF r.auth THEN "uncertain" ELSE "claimed"
  <1>0. /\ r.pc = "send" /\ r.ident \in Profiles /\ UNCHANGED <<active, text, lease, vec>>
        /\ r \in Run /\ run \in [Workers -> Run]
    BY DEF Send, IInv, Typed, world
  <1>1. CASE Goto(w, "clear") /\ UNCHANGED <<row, ghosts>>
    BY <1>0, <1>1, WentIInv DEF Goto, Pcs, ghosts, IInv, Typed
  <1>2. CASE Goto(w, "fail") /\ UNCHANGED <<row, ghosts>>
    BY <1>0, <1>2, WentIInv DEF Goto, Pcs, ghosts, IInv, Typed
  <1>3. ASSUME NEW ask \in SUBSET r.unsent,
               Owns(w), ask \subseteq Of(r.ident, was, w, 0),
               Put(r.ident, [d \in ask |->
                     [state |-> "dispatched", lease |-> w, req |-> r.req + 1]]),
               run' = [run EXCEPT ![w].pc = "call", ![w].req = @ + 1,
                                  ![w].unsent = @ \ ask, ![w].asked = ask,
                                  ![w].sentText = [d \in ask |-> text[d]]],
               rebilled' = (rebilled \/ (~r.auth /\ \E d \in ask : open[r.ident][d] > 0)),
               open' = [open EXCEPT ![r.ident] =
                          [d \in Docs |-> IF d \in ask THEN @[d] + 1 ELSE @[d]]]
        PROVE  IInv'
    <2> DEFINE sent == [state |-> "dispatched", lease |-> w, req |-> r.req + 1]
               texts == [d \in ask |-> text[d]]
               r2 == [run[w] EXCEPT !.pc = "call", !.req = run[w].req + 1,
                                    !.unsent = run[w].unsent \ ask, !.asked = ask,
                                    !.sentText = texts]
    <2>1. /\ ask \subseteq Docs /\ r.req \in Nat /\ r.auth \in BOOLEAN
          /\ \A d \in ask : row[r.ident][d] = [state |-> was, lease |-> w, req |-> 0]
      BY <1>0, <1>3 DEF Run, Of
    <2>2. sent \in Row
      BY <2>1 DEF Row, States
    <2>3. /\ row' \in [Profiles -> [Docs -> Row]]
          /\ \A j \in Profiles, d \in Docs :
               row'[j][d] = IF j = r.ident /\ d \in ask THEN sent ELSE row[j][d]
      BY <1>0, <1>3, <2>1, <2>2, PutRow DEF IInv
    <2>4. texts \in Texts /\ \A d \in ask : texts[d] = text[d]
      <3>1. texts \in [ask -> Nat]
        BY <2>1 DEF IInv, Typed
      <3> QED
        BY <2>1, <3>1 DEF Texts
    <2> HIDE DEF texts
    <2>5. /\ run' \in [Workers -> Run]
          /\ \A v \in Workers \ {w} : run'[v] = run[v]
          /\ run'[w].pc = "call" /\ run'[w].docs = r.docs
          /\ run'[w].unsent = r.unsent \ ask /\ run'[w].ident = r.ident
          /\ run'[w].asked = ask /\ run'[w].rejected = r.rejected
          /\ run'[w].req = r.req + 1 /\ run'[w].auth = r.auth
          /\ run'[w].sentText = texts
      <3>1. run' = [run EXCEPT ![w] = r2]
        <4>1. DOMAIN run = Workers /\ run[w] = r
          BY <1>0
        <4> QED
          BY <1>3, <4>1 DEF texts
      <3>2. r2 \in Run
        <4>1. /\ "call" \in Pcs /\ run[w].req + 1 \in Nat
              /\ run[w].unsent \ ask \in SUBSET Docs /\ ask \in SUBSET Docs
          BY <1>0, <2>1 DEF Run, Pcs
        <4> QED
          BY <1>0, <2>4, <4>1 DEF Run
      <3>3. /\ run' \in [Workers -> Run] /\ run'[w] = r2
            /\ \A v \in Workers \ {w} : run'[v] = run[v]
        BY <1>0, <3>1, <3>2
      <3> QED
        BY <1>0, <3>3 DEF Run
    <2>6. /\ open' \in [Profiles -> [Docs -> Int]]
          /\ \A j \in Profiles, d \in Docs :
               /\ open[j][d] \in Int
               /\ open'[j][d] = IF j = r.ident /\ d \in ask THEN open[j][d] + 1 ELSE open[j][d]
      BY <1>0, <1>3, <2>1 DEF IInv, Typed
    <2>7. ~r.auth => \A d \in ask : ~(open[r.ident][d] > 0)
      BY <1>0, <2>1 DEF IInv, Known
    <2>8. ~rebilled'
      BY <1>3, <2>1, <2>7 DEF IInv
    <2>9. sent.state = "dispatched" /\ sent.lease = w /\ sent.req = r.req + 1
      OBVIOUS
    <2>10. Typed'
      BY <1>0, <2>3, <2>5, <2>6 DEF IInv, Typed
    <2>11. Apart(w)
      BY <1>0, <1>3, <2>3, <2>5, <2>6, <2>9 DEF Apart, IInv, Typed, Owns
    <2>12. \A j \in Profiles, d \in Docs : Known(j, d)'
      BY <1>0, <2>3, <2>6, <2>9 DEF IInv, Known
    <2>13. Fresh(w)'
      BY <1>0, <2>5 DEF IInv, Fresh, Owns
    <2>14. Sent(w)'
      <3>1. \A j \in Profiles, d \in Docs : row[j][d] \in Row
        BY DEF IInv, Typed
      <3> QED
        <4>1. \A j \in Profiles, d \in Docs : row[j][d].lease = w => row[j][d].req <= r.req
          BY <1>0 DEF IInv, Sent
        <4>2. \A j \in Profiles, d \in Docs : row[j][d].req \in Nat
          BY <3>1 DEF Row
        <4>3. \A j \in Profiles, d \in Docs : row'[j][d].lease = w => row'[j][d].req <= r.req + 1
          BY <2>1, <2>3, <2>9, <4>1, <4>2
        <4> QED
          BY <2>5, <4>3 DEF Sent
    <2>15. Only(w)'
      <3>1. ~r.rejected
        BY <1>0 DEF IInv, Only
      <3>2. ASSUME NEW d \in Docs,
                   row'[r.ident][d] = [state |-> "dispatched", lease |-> w, req |-> r.req + 1]
            PROVE  d \in ask
        <4>1. row[r.ident][d].lease = w => row[r.ident][d].req <= r.req
          BY <1>0 DEF IInv, Sent
        <4> QED
          BY <1>0, <2>1, <2>3, <3>2, <4>1
      <3>3. ~r.auth => \A d \in ask : open'[r.ident][d] <= 1
        BY <1>0, <2>1, <2>6, <2>7
      <3> QED
        <4>1. ~run'[w].rejected /\ run'[w].pc = "call" /\ text' = text
          BY <1>0, <2>5, <3>1
        <4>2. SUFFICES ASSUME ~r.auth, NEW d \in Docs,
                              row'[r.ident][d] = [state |-> "dispatched", lease |-> w, req |-> r.req + 1]
                       PROVE  /\ d \in ask /\ text[d] = texts[d]
                              /\ open'[r.ident][d] <= 1
          BY <2>5, <4>1 DEF Only
        <4> QED
          BY <2>4, <3>2, <3>3, <4>2
    <2> QED
      BY <2>8, <2>10, <2>11, <2>12, <2>13, <2>14, <2>15, Assemble
  <1> QED
    BY <1>1, <1>2, <1>3 DEF Send, ghosts

LEMMA AnswerStep ==
    ASSUME IInv, NEW w \in Workers, Answer(w)
    PROVE  IInv'
  <1> DEFINE r == run[w]
             same == {d \in r.asked : text[d] = r.sentText[d]}
             less == [open EXCEPT ![r.ident] =
                        [d \in Docs |-> IF d \in same THEN @[d] - 1 ELSE @[d]]]
  <1>0. /\ r.pc = "call" /\ r.ident \in Profiles
        /\ UNCHANGED <<active, text, lease, row, vec, rebilled>>
        /\ r \in Run /\ run \in [Workers -> Run]
    BY DEF Answer, IInv, Typed, world, dbVars
  <1>1. PICK pc \in {"publish", "fail"}, rejected \in BOOLEAN, stop \in BOOLEAN :
          /\ run' = [run EXCEPT ![w].pc = pc, ![w].rejected = rejected,
                                ![w].stop = stop, ![w].sentText = NoTexts]
          /\ open' = IF rejected THEN less ELSE open
          /\ rejected => pc = "fail"
    BY DEF Answer
  <1>2. /\ run' \in [Workers -> Run]
        /\ \A v \in Workers \ {w} : run'[v] = run[v]
        /\ run'[w].pc = pc /\ run'[w].docs = r.docs
        /\ run'[w].unsent = r.unsent /\ run'[w].ident = r.ident
        /\ run'[w].asked = r.asked /\ run'[w].rejected = rejected
        /\ run'[w].req = r.req /\ run'[w].auth = r.auth
    <2> DEFINE r2 == [run[w] EXCEPT !.pc = pc, !.rejected = rejected, !.stop = stop,
                                    !.sentText = NoTexts]
    <2>1. run' = [run EXCEPT ![w] = r2]
      BY <1>0, <1>1
    <2>2. r2 \in Run
      BY <1>0, NoTextsTyped DEF Run, Pcs
    <2>3. /\ run' \in [Workers -> Run] /\ run'[w] = r2
          /\ \A v \in Workers \ {w} : run'[v] = run[v]
      BY <1>0, <2>1, <2>2
    <2> QED
      BY <1>0, <2>3 DEF Run
  <1>3. /\ open' \in [Profiles -> [Docs -> Int]]
        /\ \A j \in Profiles, d \in Docs :
             /\ open[j][d] \in Int /\ open'[j][d] <= open[j][d]
             /\ rejected /\ j = r.ident /\ d \in same => open'[j][d] = open[j][d] - 1
    <2>1. open \in [Profiles -> [Docs -> Int]]
      BY DEF IInv, Typed
    <2>2. CASE ~rejected
      BY <1>1, <2>1, <2>2
    <2>3. CASE rejected
      <3>1. open' = less
        BY <1>1, <2>3
      <3> HIDE DEF same
      <3> QED
        BY <1>0, <2>1, <3>1
    <2> QED
      BY <2>2, <2>3
  <1>4. Typed'
    BY <1>0, <1>2, <1>3 DEF IInv, Typed
  <1>5. Apart(w)
    BY <1>0, <1>2, <1>3, <1>4 DEF Apart, IInv, Typed
  <1>6. \A j \in Profiles, d \in Docs : Known(j, d)'
    BY <1>0, <1>3, <1>4, KnownKept
  <1>7. Fresh(w)'
    BY <1>0, <1>2 DEF IInv, Fresh, Owns
  <1>8. Sent(w)'
    BY <1>0, <1>2 DEF IInv, Sent
  <1>9. Only(w)'
    <2>1. SUFFICES ASSUME rejected, ~r.auth, NEW d \in Docs,
                          row[r.ident][d] = [state |-> "dispatched", lease |-> w, req |-> r.req]
                   PROVE  open'[r.ident][d] <= 0
      BY <1>0, <1>1, <1>2 DEF Only
    <2>2. d \in same /\ open[r.ident][d] <= 1
      BY <1>0, <2>1 DEF IInv, Only
    <2> QED
      BY <1>0, <1>3, <2>1, <2>2
  <1> QED
    BY <1>0, <1>4, <1>5, <1>6, <1>7, <1>8, <1>9, Assemble DEF IInv

(* Rows that are replaced by NoRow or Uncertain. *)
LEMMA PutMine ==
    ASSUME IInv, NEW w \in Workers, NEW ds, NEW new \in {NoRow, Uncertain},
           run[w].ident \in Profiles,
           ds \subseteq Docs, Put(run[w].ident, [d \in ds |-> new])
    PROVE  /\ row' \in [Profiles -> [Docs -> Row]]
           /\ \A j \in Profiles, d \in Docs :
                row'[j][d] = IF j = run[w].ident /\ d \in ds THEN new ELSE row[j][d]
           /\ \A v \in Workers, j \in Profiles, d \in Docs :
                row'[j][d].lease = v => row'[j][d] = row[j][d]
  <1>1. new \in Row /\ \A v \in Workers : new.lease # v
    BY RowsTyped, BackfillAssumption DEF NoRow, Uncertain
  <1>2. /\ row' \in [Profiles -> [Docs -> Row]]
        /\ \A j \in Profiles, d \in Docs :
             row'[j][d] = IF j = run[w].ident /\ d \in ds THEN new ELSE row[j][d]
    BY <1>1, PutRow DEF IInv
  <1>3. \A v \in Workers, j \in Profiles, d \in Docs :
          row'[j][d].lease = v => row'[j][d] = row[j][d]
    BY <1>1, <1>2
  <1> QED
    BY <1>2, <1>3

(* The owner stores the vectors of rows of its latest request. *)
LEMMA StoreRows ==
    ASSUME IInv, NEW w \in Workers, run[w].ident \in Profiles, NEW ds \in SUBSET Docs,
           ds # {} => Owns(w), ds \subseteq run[w].asked,
           vec' = [vec EXCEPT ![run[w].ident] = @ \cup ds],
           Put(run[w].ident, [d \in ds |-> NoRow]), UNCHANGED <<text, lease, open>>,
           run' \in [Workers -> Run], \A v \in Workers \ {w} : run'[v] = run[v]
    PROVE  /\ row' \in [Profiles -> [Docs -> Row]]
           /\ \A v \in Workers, j \in Profiles, d \in Docs :
                row'[j][d].lease = v => row'[j][d] = row[j][d]
           /\ vec' \in [Profiles -> SUBSET Docs]
           /\ \A d \in run[w].docs : d \notin vec[run[w].ident] => d \notin vec'[run[w].ident]
           /\ Apart(w)
           /\ \A j \in Profiles, d \in Docs : Known(j, d)'
  <1> DEFINE i == run[w].ident
  <1>1. /\ row' \in [Profiles -> [Docs -> Row]]
        /\ \A j \in Profiles, d \in Docs :
             row'[j][d] = IF j = i /\ d \in ds THEN NoRow ELSE row[j][d]
        /\ \A v \in Workers, j \in Profiles, d \in Docs :
             row'[j][d].lease = v => row'[j][d] = row[j][d]
    BY PutMine
  <1>2. /\ vec \in [Profiles -> SUBSET Docs] /\ vec' \in [Profiles -> SUBSET Docs]
        /\ \A j \in Profiles : vec'[j] = IF j = i THEN vec[j] \cup ds ELSE vec[j]
    BY DEF IInv, Typed
  <1>3. \A d \in run[w].docs : d \notin vec[i] => d \notin vec'[i]
    BY <1>2 DEF IInv, Fresh
  <1>4. Apart(w)
    <2>1. \A v \in Workers \ {w} : lease'.owner = v => /\ lease.owner = v
                             /\ \A j \in Profiles : vec'[j] \subseteq vec[j]
      BY <1>2 DEF Owns
    <2>2. \A j \in Profiles, d \in Docs : open[j][d] \in Int
      BY DEF IInv, Typed
    <2> QED
      BY <1>1, <2>1, <2>2 DEF Apart
  <1>5. \A j \in Profiles, d \in Docs : Known(j, d)'
    BY <1>1, <1>2 DEF IInv, Known, NoRow
  <1> QED
    BY <1>1, <1>2, <1>3, <1>4, <1>5

LEMMA PublishStep ==
    ASSUME IInv, NEW w \in Workers, Publish(w)
    PROVE  IInv'
  <1> DEFINE r == run[w]
             i == r.ident
             mine == Of(i, "dispatched", w, r.req)
             good == IF Owns(w) THEN mine \cap r.asked ELSE {}
  <1>0. /\ r.pc = "publish" /\ i \in Profiles /\ UNCHANGED <<active, text, open, rebilled>>
        /\ r \in Run /\ run \in [Workers -> Run] /\ mine \subseteq Docs
    BY DEF Publish, IInv, Typed, world, ghosts, Of
  <1>1. ASSUME NEW ds \in SUBSET good, UNCHANGED lease,
               vec' = [vec EXCEPT ![i] = @ \cup ds], Put(i, [d \in ds |-> NoRow]),
               \/ run' = [run EXCEPT ![w] = Idle]
               \/ run' = [run EXCEPT ![w].pc = "send", ![w].asked = {}]
               \/ run' = [run EXCEPT ![w].pc = "fail"]
        PROVE  IInv'
    <2>1. ds \subseteq Docs /\ (ds # {} => Owns(w)) /\ ds \subseteq r.asked
      BY <1>0
    <2>2. CASE run' = [run EXCEPT ![w] = Idle]
      <3>1. /\ run' \in [Workers -> Run]
            /\ \A v \in Workers \ {w} : run'[v] = run[v]
            /\ \A v \in Workers : run'[v].pc # "idle" => run'[v].ident \in Profiles
            /\ Fresh(w)' /\ Sent(w)' /\ Only(w)'
        BY <2>2, Ended
      <3>2. /\ row' \in [Profiles -> [Docs -> Row]]
            /\ vec' \in [Profiles -> SUBSET Docs] /\ Apart(w)
            /\ \A j \in Profiles, d \in Docs : Known(j, d)'
        BY <1>0, <1>1, <2>1, <3>1, StoreRows
      <3>3. Typed'
        BY <1>0, <1>1, <3>1, <3>2 DEF IInv, Typed
      <3> QED
        BY <1>0, <3>1, <3>2, <3>3, Assemble DEF IInv
    <2>3. CASE \/ run' = [run EXCEPT ![w].pc = "send", ![w].asked = {}]
               \/ run' = [run EXCEPT ![w].pc = "fail"]
      <3>1. /\ run' \in [Workers -> Run]
            /\ \A v \in Workers \ {w} : run'[v] = run[v]
            /\ run'[w].pc \in {"send", "fail"} /\ run'[w].docs = r.docs
            /\ run'[w].unsent = r.unsent /\ run'[w].ident = r.ident
            /\ run'[w].asked \subseteq r.asked /\ run'[w].rejected = r.rejected
            /\ run'[w].req = r.req /\ run'[w].auth = r.auth
        <4>1. CASE run' = [run EXCEPT ![w].pc = "fail"]
          BY <4>1, GotoRun DEF Pcs
        <4>2. CASE run' = [run EXCEPT ![w].pc = "send", ![w].asked = {}]
          <5>1. run' = [run EXCEPT ![w] = [run[w] EXCEPT !.pc = "send", !.asked = {}]]
            BY <1>0, <4>2
          <5>2. [run[w] EXCEPT !.pc = "send", !.asked = {}] \in Run
            BY <1>0 DEF Run, Pcs
          <5>3. /\ run' \in [Workers -> Run]
                /\ run'[w] = [run[w] EXCEPT !.pc = "send", !.asked = {}]
                /\ \A v \in Workers \ {w} : run'[v] = run[v]
            BY <1>0, <5>1, <5>2
          <5> QED
            BY <1>0, <5>3 DEF Run
        <4> QED
          BY <2>3, <4>1, <4>2
      <3>2. /\ row' \in [Profiles -> [Docs -> Row]]
            /\ \A v \in Workers, j \in Profiles, d \in Docs :
                 row'[j][d].lease = v => row'[j][d] = row[j][d]
            /\ vec' \in [Profiles -> SUBSET Docs] /\ Apart(w)
            /\ \A d \in r.docs : d \notin vec[i] => d \notin vec'[i]
            /\ \A j \in Profiles, d \in Docs : Known(j, d)'
        BY <1>0, <1>1, <2>1, <3>1, StoreRows
      <3>3. Typed'
        BY <1>0, <1>1, <3>1, <3>2 DEF IInv, Typed
      <3>4. Fresh(w)'
        BY <1>0, <1>1, <3>1, <3>2 DEF IInv, Fresh, Owns
      <3>5. Sent(w)'
        BY <1>0, <3>1, <3>2 DEF IInv, Sent
      <3>6. Only(w)'
        BY <1>0, <3>1 DEF IInv, Only
      <3> QED
        BY <1>0, <3>2, <3>3, <3>4, <3>5, <3>6, Assemble DEF IInv
    <2> QED
      BY <1>1, <2>2, <2>3
  <1>2. CASE /\ Owns(w) /\ Put(i, [d \in mine |-> Uncertain]) /\ lease' = NoLease
             /\ run' = [run EXCEPT ![w] = Idle] /\ UNCHANGED vec
    <2>1. /\ run' \in [Workers -> Run]
          /\ \A v \in Workers \ {w} : run'[v] = run[v]
          /\ \A v \in Workers : run'[v].pc # "idle" => run'[v].ident \in Profiles
          /\ Fresh(w)' /\ Sent(w)' /\ Only(w)'
      BY <1>2, Ended
    <2>2. /\ row' \in [Profiles -> [Docs -> Row]]
          /\ \A j \in Profiles, d \in Docs :
               row'[j][d] = IF j = i /\ d \in mine THEN Uncertain ELSE row[j][d]
          /\ \A v \in Workers, j \in Profiles, d \in Docs :
               row'[j][d].lease = v => row'[j][d] = row[j][d]
      BY <1>0, <1>2, PutMine
    <2>3. Typed'
      <3>1. NoLease \in [owner : Workers \cup {None}, expired : BOOLEAN]
        BY DEF NoLease
      <3> QED
        BY <1>0, <1>2, <2>1, <2>2, <3>1 DEF IInv, Typed
    <2>4. Apart(w)
      BY <1>0, <1>2, <2>1, <2>2, <2>3, BackfillAssumption DEF Apart, IInv, Typed, NoLease
    <2>5. \A j \in Profiles, d \in Docs : Known(j, d)'
      BY <1>0, <1>2, <2>2 DEF IInv, Known, Uncertain
    <2> QED
      BY <1>0, <2>1, <2>3, <2>4, <2>5, Assemble DEF IInv
  <1>3. CASE Lost(w)
    BY <1>0, <1>3, EndedIInv DEF Lost, dbVars
  <1>4. Owns(w) \/ good = {}
    OBVIOUS
  <1> QED
    BY <1>1, <1>2, <1>3, <1>4 DEF Publish, Goto

LEMMA FailStep ==
    ASSUME IInv, NEW w \in Workers, Fail(w)
    PROVE  IInv'
  <1> DEFINE r == run[w]
             mine == Of(r.ident, "dispatched", w, r.req)
             free == r.rejected /\ ~r.auth
             new == IF free THEN NoRow ELSE Uncertain
  <1>0. /\ r.pc = "fail" /\ r.ident \in Profiles /\ UNCHANGED <<active, text>>
        /\ r \in Run /\ run \in [Workers -> Run] /\ mine \subseteq Docs
    BY DEF Fail, IInv, Typed, world, Of
  <1>1. CASE Lost(w)
    BY <1>0, <1>1, EndedIInv DEF Lost, dbVars, ghosts
  <1>2. CASE ~Lost(w)
    <2>1. /\ Put(r.ident, [d \in mine |-> new])
          /\ run' = [run EXCEPT ![w].pc = "clear", ![w].asked = {}, ![w].rejected = FALSE]
          /\ UNCHANGED <<lease, vec, open, rebilled>>
      BY <1>2 DEF Fail, ghosts
    <2>2. new \in {NoRow, Uncertain} /\ new.state \in {"none", "uncertain"}
          /\ (new.state = "none" => free)
      BY DEF NoRow, Uncertain
    <2> HIDE DEF new
    <2>3. /\ row' \in [Profiles -> [Docs -> Row]]
          /\ \A j \in Profiles, d \in Docs :
               row'[j][d] = IF j = r.ident /\ d \in mine THEN new ELSE row[j][d]
          /\ \A v \in Workers, j \in Profiles, d \in Docs :
               row'[j][d].lease = v => row'[j][d] = row[j][d]
      BY <1>0, <2>1, <2>2, PutMine
    <2>4. /\ run' \in [Workers -> Run]
          /\ \A v \in Workers \ {w} : run'[v] = run[v]
          /\ run'[w].pc = "clear" /\ run'[w].docs = r.docs
          /\ run'[w].unsent = r.unsent /\ run'[w].ident = r.ident
          /\ run'[w].asked = {} /\ run'[w].rejected = FALSE
          /\ run'[w].req = r.req /\ run'[w].auth = r.auth
      <3> DEFINE r2 == [run[w] EXCEPT !.pc = "clear", !.asked = {}, !.rejected = FALSE]
      <3>1. run' = [run EXCEPT ![w] = r2]
        BY <1>0, <2>1
      <3>2. r2 \in Run
        BY <1>0 DEF Run, Pcs
      <3>3. /\ run' \in [Workers -> Run] /\ run'[w] = r2
            /\ \A v \in Workers \ {w} : run'[v] = run[v]
        BY <1>0, <3>1, <3>2
      <3> QED
        BY <1>0, <3>3 DEF Run
    <2>5. Typed'
      BY <1>0, <2>1, <2>3, <2>4 DEF IInv, Typed
    <2>6. Apart(w)
      BY <1>0, <2>1, <2>3, <2>4, <2>5 DEF Apart, IInv, Typed
    <2>7. \A j \in Profiles, d \in Docs : Known(j, d)'
      <3>1. free => \A d \in mine : ~(open[r.ident][d] > 0)
        <4>1. \A d \in Docs : open[r.ident][d] \in Int
          BY <1>0 DEF IInv, Typed
        <4>2. free => \A d \in mine : open[r.ident][d] <= 0
          BY <1>0 DEF IInv, Only, Of
        <4> QED
          BY <1>0, <4>1, <4>2
      <3> QED
        BY <1>0, <2>1, <2>2, <2>3, <3>1 DEF IInv, Known
    <2>8. Fresh(w)'
      BY <1>0, <2>1, <2>4 DEF IInv, Fresh, Owns
    <2>9. Sent(w)'
      BY <1>0, <2>3, <2>4 DEF IInv, Sent
    <2>10. Only(w)'
      BY <2>4 DEF Only
    <2> QED
      BY <2>1, <2>5, <2>6, <2>7, <2>8, <2>9, <2>10, Assemble DEF IInv
  <1> QED
    BY <1>1, <1>2

LEMMA ClearStep ==
    ASSUME IInv, NEW w \in Workers, Clear(w)
    PROVE  IInv'
  <1> DEFINE r == run[w]
  <1>0. /\ r.pc = "clear" /\ r.ident \in Profiles /\ UNCHANGED <<active, text>>
        /\ r \in Run /\ run \in [Workers -> Run]
    BY DEF Clear, IInv, Typed, world
  <1>1. CASE Lost(w)
    BY <1>0, <1>1, EndedIInv DEF Lost, dbVars, ghosts
  <1>2. CASE /\ run' = [run EXCEPT ![w].pc = IF r.stop THEN "end" ELSE "batch"]
             /\ UNCHANGED <<dbVars, ghosts>>
    <2>1. (IF r.stop THEN "end" ELSE "batch") \in Pcs \ {"idle", "acquire", "prepare", "discover", "call"}
      BY DEF Pcs
    <2>2. UNCHANGED <<row, vec, open, rebilled, lease>>
      BY <1>2 DEF dbVars, ghosts
    <2>3. lease \in [owner : Workers \cup {None}, expired : BOOLEAN]
      BY DEF IInv, Typed
    <2> QED
      BY <1>0, <1>2, <2>1, <2>2, <2>3, WentIInv
  <1>3. ASSUME NEW d \in r.unsent,
               Put(r.ident, [e \in {d} \cap Of(r.ident, "claimed", w, 0) |-> NoRow]),
               run' = [run EXCEPT ![w].unsent = @ \ {d}],
               UNCHANGED <<lease, vec, ghosts>>
        PROVE  IInv'
    <2> DEFINE ds == {d} \cap Of(r.ident, "claimed", w, 0)
               r2 == [run[w] EXCEPT !.unsent = run[w].unsent \ {d}]
    <2>1. ds \subseteq Docs /\ \A e \in ds : row[r.ident][e].state = "claimed"
      BY DEF Of
    <2>2. UNCHANGED <<lease, vec, open, rebilled>>
      BY <1>3 DEF ghosts
    <2> HIDE DEF ds
    <2>3. /\ row' \in [Profiles -> [Docs -> Row]]
          /\ \A j \in Profiles, e \in Docs :
               row'[j][e] = IF j = r.ident /\ e \in ds THEN NoRow ELSE row[j][e]
          /\ \A v \in Workers, j \in Profiles, e \in Docs :
               row'[j][e].lease = v => row'[j][e] = row[j][e]
      <3>1. Put(r.ident, [e \in ds |-> NoRow])
        BY <1>3 DEF ds
      <3> QED
        BY <1>0, <2>1, <3>1, PutMine
    <2>4. /\ run' \in [Workers -> Run]
          /\ \A v \in Workers \ {w} : run'[v] = run[v]
          /\ run'[w].pc = "clear" /\ run'[w].docs = r.docs
          /\ run'[w].unsent \subseteq r.unsent /\ run'[w].ident = r.ident
          /\ run'[w].asked = r.asked /\ run'[w].rejected = r.rejected
          /\ run'[w].req = r.req /\ run'[w].auth = r.auth
      <3>1. run' = [run EXCEPT ![w] = r2]
        BY <1>0, <1>3
      <3>2. r2 \in Run
        BY <1>0 DEF Run
      <3>3. /\ run' \in [Workers -> Run] /\ run'[w] = r2
            /\ \A v \in Workers \ {w} : run'[v] = run[v]
        BY <1>0, <3>1, <3>2
      <3> QED
        BY <1>0, <3>3 DEF Run
    <2>5. Typed'
      BY <1>0, <2>2, <2>3, <2>4 DEF IInv, Typed
    <2>6. Apart(w)
      BY <1>0, <2>2, <2>3, <2>4, <2>5 DEF Apart, IInv, Typed
    <2>7. \A j \in Profiles, e \in Docs : Known(j, e)'
      BY <1>0, <2>1, <2>2, <2>3 DEF IInv, Known, NoRow
    <2>8. Fresh(w)'
      BY <1>0, <2>2, <2>4 DEF IInv, Fresh, Owns
    <2>9. Sent(w)'
      BY <1>0, <2>3, <2>4 DEF IInv, Sent
    <2>10. Only(w)'
      BY <1>0, <2>4 DEF IInv, Only
    <2> QED
      BY <2>2, <2>5, <2>6, <2>7, <2>8, <2>9, <2>10, Assemble DEF IInv
  <1> QED
    BY <1>1, <1>2, <1>3 DEF Clear

(* The steps of the world: only Rewrite touches rows, and it starts the    *)
(* document afresh.                                                        *)
LEMMA RewriteStep ==
    ASSUME IInv, NEW d \in Docs, Rewrite(d)
    PROVE  IInv'
  <1>0. /\ UNCHANGED <<active, lease, run, rebilled>>
        /\ text' = [text EXCEPT ![d] = @ + 1]
        /\ row' = [i \in Profiles |-> [row[i] EXCEPT ![d] = NoRow]]
        /\ vec' = [i \in Profiles |-> vec[i] \ {d}]
        /\ open' = [i \in Profiles |-> [open[i] EXCEPT ![d] = 0]]
    BY DEF Rewrite
  <1>1. /\ row' \in [Profiles -> [Docs -> Row]]
        /\ \A j \in Profiles, e \in Docs : row'[j][e] = IF e = d THEN NoRow ELSE row[j][e]
    BY <1>0, RowsTyped DEF IInv, Typed
  <1>2. /\ open' \in [Profiles -> [Docs -> Int]]
        /\ \A j \in Profiles, e \in Docs : open'[j][e] = IF e = d THEN 0 ELSE open[j][e]
    BY <1>0 DEF IInv, Typed
  <1>3. /\ text' \in [Docs -> Nat] /\ \A e \in Docs : e # d => text'[e] = text[e]
    BY <1>0 DEF IInv, Typed
  <1>4. vec' \in [Profiles -> SUBSET Docs] /\ \A j \in Profiles : vec'[j] = vec[j] \ {d}
    BY <1>0 DEF IInv, Typed
  <1>5. Typed'
    BY <1>0, <1>1, <1>2, <1>3, <1>4 DEF IInv, Typed
  <1>6. \A j \in Profiles, e \in Docs : Known(j, e)'
    BY <1>1, <1>2, <1>4 DEF IInv, Known
  <1>7. ASSUME NEW v \in Workers PROVE Fresh(v)' /\ Sent(v)' /\ Only(v)'
    <2>0. run'[v] = run[v] /\ (run[v].pc = "idle" \/ run[v].ident \in Profiles) /\ NoRow.lease # v
          /\ NoRow.state = "none"
      BY <1>0, BackfillAssumption DEF IInv, Typed, NoRow
    <2>1. Fresh(v)'
      <3>1. run[v].pc = "idle" => run[v].docs = {}
        BY DEF IInv, Fresh
      <3> QED
        BY <1>0, <1>4, <2>0, <3>1 DEF IInv, Fresh, Owns
    <2>2. Sent(v)'
      BY <1>1, <2>0 DEF IInv, Sent
    <2>3. Only(v)'
      <3>1. run[v].rejected => run[v].pc = "fail"
        BY DEF IInv, Only
      <3>2. SUFFICES ASSUME run[v].pc \in {"call", "fail"}, ~run[v].auth, NEW e \in Docs,
                            row'[run[v].ident][e] =
                              [state |-> "dispatched", lease |-> v, req |-> run[v].req]
                     PROVE  /\ run[v].pc = "call" => /\ e \in run[v].asked
                                                    /\ text'[e] = run[v].sentText[e]
                                                    /\ open'[run[v].ident][e] <= 1
                            /\ run[v].rejected => open'[run[v].ident][e] <= 0
        BY <2>0, <3>1 DEF Only
      <3>3. run[v].ident \in Profiles /\ e # d
        BY <1>1, <2>0, <3>2
      <3>4. /\ row[run[v].ident][e] = row'[run[v].ident][e]
            /\ open'[run[v].ident][e] = open[run[v].ident][e] /\ text'[e] = text[e]
        BY <1>1, <1>2, <1>3, <3>3
      <3> QED
        BY <3>2, <3>4 DEF IInv, Only
    <2> QED
      BY <2>1, <2>2, <2>3
  <1> QED
    BY <1>0, <1>5, <1>6, <1>7 DEF IInv

(* Changes of the profile, of the heartbeat's age and of calm alone. *)
LEMMA WorldStep ==
    ASSUME IInv, active' \in Profiles, UNCHANGED <<text, row, vec, run, open, rebilled>>,
           lease' \in [owner : Workers \cup {None}, expired : BOOLEAN],
           lease'.owner = lease.owner
    PROVE  IInv'
  BY DEF IInv, Typed, Known, Fresh, Sent, Only, Owns

LEMMA NextIInv == IInv /\ [Next]_vars => IInv'
  <1> SUFFICES ASSUME IInv, [Next]_vars PROVE IInv'
    OBVIOUS
  <1>0. lease \in [owner : Workers \cup {None}, expired : BOOLEAN] /\ active \in Profiles
    BY DEF IInv, Typed
  <1>1. ASSUME NEW w \in Workers, Step(w) PROVE IInv'
    <2>1. CASE End(w)
      BY <2>1, EndedIInv DEF End, ghosts, world
    <2> QED
      BY <1>1, <2>1, AcquireStep, PrepareStep, DiscoverStep, BatchStep, MarkStep,
         SendStep, AnswerStep, PublishStep, FailStep, ClearStep DEF Step
  <1>2. ASSUME NEW w \in Workers, Crash(w) PROVE IInv'
    BY <1>2, EndedIInv DEF Crash, dbVars, ghosts, world
  <1>3. ASSUME NEW w \in Workers, NEW auth \in BOOLEAN, Begin(w, auth) PROVE IInv'
    BY <1>3, BeginStep
  <1>4. ASSUME NEW i \in Profiles, Register(i) PROVE IInv'
    BY <1>0, <1>4, WorldStep DEF Register, dbVars, ghosts
  <1>5. ASSUME NEW d \in Docs, Rewrite(d) PROVE IInv'
    BY <1>5, RewriteStep
  <1>6. CASE Expire
    <2>1. /\ lease' \in [owner : Workers \cup {None}, expired : BOOLEAN]
          /\ lease'.owner = lease.owner
      BY <1>0, <1>6 DEF Expire
    <2> QED
      BY <1>0, <1>6, <2>1, WorldStep DEF Expire, ghosts, world
  <1>7. CASE CalmDown
    BY <1>0, <1>7, WorldStep DEF CalmDown, dbVars, ghosts
  <1>8. CASE UNCHANGED vars
    BY <1>0, <1>8, WorldStep DEF vars
  <1> QED
    BY <1>1, <1>2, <1>3, <1>4, <1>5, <1>6, <1>7, <1>8 DEF Next

(* For any number of documents, runs and profiles: the backfill never      *)
(* sends a text again that the provider may have accepted, unless the      *)
(* operator authorized it (command.py, _mark_inflight and                  *)
(* _prepare_inflight_for_lease).                                           *)
THEOREM BilledOnce == Spec => []NoSilentRebill
  <1>1. IInv => NoSilentRebill
    BY DEF IInv, NoSilentRebill
  <1> QED
    BY InitIInv, NextIInv, <1>1, PTL DEF Spec

-----------------------------------------------------------------------------
(* The type invariant.  That open never falls below zero is the part with  *)
(* content: a rejection takes one request off the count of a document, and *)
(* runs that lost their lease may still be waiting for an answer to the    *)
(* same text.                                                              *)

(* The runs that wait for the answer to a request for d's present text. *)
Waiting(i, d) ==
    {w \in Workers : /\ run[w].pc = "call" /\ run[w].ident = i
                     /\ d \in run[w].asked /\ text[d] = run[w].sentText[d]}

(* All of them are counted. *)
Counted(i, d) ==
    IsFiniteSet(Waiting(i, d)) /\ Cardinality(Waiting(i, d)) <= open[i][d]

(* No request is of a later text than the present one. *)
Dated(w) ==
    run[w].pc = "call" => \A d \in run[w].asked : /\ run[w].sentText[d] \in Nat
                                                  /\ run[w].sentText[d] <= text[d]

Counts ==
    /\ \A i \in Profiles, d \in Docs : Counted(i, d)
    /\ \A w \in Workers : Dated(w)

Shape(r) ==
    /\ r.state \in {"claimed", "dispatched"} => r.lease # None
    /\ r.state = "dispatched" <=> r.req # 0

Shaped == \A i \in Profiles, d \in Docs : Shape(row[i][d])

Bounded ==
    /\ switches \in 0..MaxSwitches /\ calm \in BOOLEAN /\ rebilled \in BOOLEAN
    /\ \A d \in Docs : text[d] <= MaxTexts

LEMMA Numbers == MaxSwitches \in Nat /\ MaxTexts \in Nat
  BY BackfillAssumption

LEMMA InitRest == Init => Counts /\ Shaped /\ Bounded
  <1> SUFFICES ASSUME Init PROVE Counts /\ Shaped /\ Bounded
    OBVIOUS
  <1>1. Counts
    <2>1. \A w \in Workers : run[w].pc = "idle"
      BY DEF Init, Idle
    <2>2. \A i \in Profiles, d \in Docs : Waiting(i, d) = {} /\ open[i][d] = 0
      BY <2>1 DEF Waiting, Init
    <2>3. \A i \in Profiles, d \in Docs : Counted(i, d)
      BY <2>2, FS_EmptySet DEF Counted
    <2> QED
      BY <2>1, <2>3 DEF Counts, Dated
  <1>2. Shaped
    BY DEF Init, Shaped, Shape, NoRow
  <1>3. Bounded
    <2>1. switches \in 0..MaxSwitches
      BY StartsAssumption DEF Init
    <2>2. \A d \in Docs : text[d] <= MaxTexts
      <3>1. \A d \in Docs : text[d] = 0
        BY DEF Init
      <3> QED
        BY <3>1, Numbers
    <2>3. rebilled = FALSE /\ calm = FALSE
      BY DEF Init
    <2> QED
      BY <2>1, <2>2, <2>3 DEF Bounded
  <1> QED
    BY <1>1, <1>2, <1>3

(* A step that starts no request, counts none and changes no text. *)
LEMMA CountsKept ==
    ASSUME Typed, Counts, text' = text, open' = open,
           \A w \in Workers : run'[w].pc = "call" => run'[w] = run[w]
    PROVE  Counts'
  <1>1. ASSUME NEW i \in Profiles, NEW d \in Docs PROVE Counted(i, d)'
    <2>1. Waiting(i, d)' \in SUBSET Waiting(i, d)
      BY DEF Waiting
    <2>2. /\ IsFiniteSet(Waiting(i, d)) /\ Cardinality(Waiting(i, d)) <= open[i][d]
          /\ open[i][d] \in Int
      BY DEF Counts, Counted, Typed
    <2>3. /\ IsFiniteSet(Waiting(i, d)')
          /\ Cardinality(Waiting(i, d)') <= Cardinality(Waiting(i, d))
          /\ Cardinality(Waiting(i, d)') \in Nat /\ Cardinality(Waiting(i, d)) \in Nat
      BY <2>1, <2>2, FS_Subset, FS_CardinalityType
    <2> QED
      BY <2>2, <2>3 DEF Counted
  <1>2. \A w \in Workers : Dated(w)'
    BY DEF Counts, Dated
  <1> QED
    BY <1>1, <1>2 DEF Counts

(* A run that moves on, and not to a request. *)
LEMMA MovedCounts ==
    ASSUME Typed, Counts, text' = text, open' = open, NEW w \in Workers, NEW r,
           run' = [run EXCEPT ![w] = r], r.pc # "call"
    PROVE  Counts'
  <1>1. \A v \in Workers : run'[v] = IF v = w THEN r ELSE run[v]
    BY DEF Typed
  <1> QED
    BY <1>1, CountsKept

(* The same for a step that sets the pc alone. *)
LEMMA WentCounts ==
    ASSUME Typed, Counts, text' = text, open' = open, NEW w \in Workers, NEW pc,
           run' = [run EXCEPT ![w].pc = pc], pc # "call"
    PROVE  Counts'
  <1>1. run[w] \in Run
    BY DEF Typed
  <1>2. [run[w] EXCEPT !.pc = pc].pc = pc
    BY <1>1 DEF Run
  <1> QED
    BY <1>2, MovedCounts

(* A request that is sent is counted. *)
LEMMA SendCounts ==
    ASSUME IInv, Counts, NEW w \in Workers, Send(w)
    PROVE  Counts'
  <1> DEFINE r == run[w]
             was == IF r.auth THEN "uncertain" ELSE "claimed"
  <1>0. /\ r.pc = "send" /\ r.ident \in Profiles /\ text' = text
        /\ r \in Run /\ run \in [Workers -> Run] /\ Typed
    BY DEF Send, IInv, Typed, world
  <1>1. CASE (Goto(w, "clear") \/ Goto(w, "fail")) /\ UNCHANGED <<row, ghosts>>
    BY <1>0, <1>1, WentCounts DEF Goto, ghosts
  <1>2. ASSUME NEW ask \in SUBSET r.unsent,
               run' = [run EXCEPT ![w].pc = "call", ![w].req = @ + 1,
                                  ![w].unsent = @ \ ask, ![w].asked = ask,
                                  ![w].sentText = [d \in ask |-> text[d]]],
               open' = [open EXCEPT ![r.ident] =
                          [d \in Docs |-> IF d \in ask THEN @[d] + 1 ELSE @[d]]]
        PROVE  Counts'
    <2> DEFINE texts == [d \in ask |-> text[d]]
    <2>1. ask \subseteq Docs
      BY <1>0 DEF Run
    <2>2. \A d \in ask : texts[d] = text[d] /\ text[d] \in Nat
      BY <1>0, <2>1 DEF Typed
    <2> HIDE DEF texts
    <2>3. /\ \A v \in Workers \ {w} : run'[v] = run[v]
          /\ run'[w].pc = "call" /\ run'[w].ident = r.ident
          /\ run'[w].asked = ask /\ run'[w].sentText = texts
      BY <1>0, <1>2 DEF Run, texts
    <2>4. \A j \in Profiles, d \in Docs :
             /\ open[j][d] \in Int
             /\ open'[j][d] = IF j = r.ident /\ d \in ask THEN open[j][d] + 1 ELSE open[j][d]
      BY <1>0, <1>2, <2>1 DEF Typed
    <2>5. ASSUME NEW i \in Profiles, NEW d \in Docs PROVE Counted(i, d)'
      <3>1. IsFiniteSet(Waiting(i, d)) /\ Cardinality(Waiting(i, d)) <= open[i][d]
        BY DEF Counts, Counted
      <3>2. Cardinality(Waiting(i, d)) \in Nat
        BY <3>1, FS_CardinalityType
      <3>3. CASE i = r.ident /\ d \in ask
        <4>1. Waiting(i, d)' = Waiting(i, d) \cup {w} /\ w \notin Waiting(i, d)
          BY <1>0, <2>2, <2>3, <3>3 DEF Waiting
        <4>2. /\ IsFiniteSet(Waiting(i, d)')
              /\ Cardinality(Waiting(i, d)') = Cardinality(Waiting(i, d)) + 1
          BY <3>1, <4>1, FS_AddElement
        <4> QED
          BY <2>4, <3>1, <3>2, <3>3, <4>2 DEF Counted
      <3>4. CASE ~(i = r.ident /\ d \in ask)
        <4>1. Waiting(i, d)' = Waiting(i, d)
          BY <1>0, <2>3, <3>4 DEF Waiting
        <4> QED
          BY <2>4, <3>1, <3>4, <4>1 DEF Counted
      <3> QED
        BY <3>3, <3>4
    <2>6. \A v \in Workers : Dated(v)'
      BY <1>0, <2>2, <2>3 DEF Counts, Dated
    <2> QED
      BY <2>5, <2>6 DEF Counts
  <1> QED
    BY <1>1, <1>2 DEF Send

(* A request that is rejected was counted. *)
LEMMA AnswerCounts ==
    ASSUME IInv, Counts, NEW w \in Workers, Answer(w)
    PROVE  Counts'
  <1> DEFINE r == run[w]
             same == {d \in r.asked : text[d] = r.sentText[d]}
  <1>0. /\ r.pc = "call" /\ r.ident \in Profiles /\ text' = text
        /\ r \in Run /\ run \in [Workers -> Run] /\ Typed
    BY DEF Answer, IInv, Typed, world
  <1>1. /\ run'[w].pc \in {"publish", "fail"}
        /\ \A v \in Workers \ {w} : run'[v] = run[v]
    <2>1. PICK pc \in {"publish", "fail"}, rejected \in BOOLEAN, stop \in BOOLEAN :
            run' = [run EXCEPT ![w].pc = pc, ![w].rejected = rejected,
                               ![w].stop = stop, ![w].sentText = NoTexts]
      BY DEF Answer
    <2> QED
      BY <1>0, <2>1 DEF Run
  <1>2. CASE open' = open
    BY <1>0, <1>1, <1>2, CountsKept
  <1>3. CASE open' = [open EXCEPT ![r.ident] =
                        [d \in Docs |-> IF d \in same THEN @[d] - 1 ELSE @[d]]]
    <2>1. \A d \in Docs : d \in same => w \in Waiting(r.ident, d)
      BY <1>0 DEF Waiting
    <2>2. same \subseteq Docs
      BY <1>0 DEF Run
    <2> HIDE DEF same
    <2>3. \A j \in Profiles, d \in Docs :
             /\ open[j][d] \in Int
             /\ open'[j][d] = IF j = r.ident /\ d \in same THEN open[j][d] - 1 ELSE open[j][d]
      BY <1>0, <1>3, <2>2 DEF Typed
    <2>4. ASSUME NEW i \in Profiles, NEW d \in Docs PROVE Counted(i, d)'
      <3>1. IsFiniteSet(Waiting(i, d)) /\ Cardinality(Waiting(i, d)) <= open[i][d]
        BY DEF Counts, Counted
      <3>2. Waiting(i, d)' = Waiting(i, d) \ {w}
        BY <1>0, <1>1 DEF Waiting
      <3>3. /\ IsFiniteSet(Waiting(i, d)')
            /\ Cardinality(Waiting(i, d)) \in Nat
            /\ Cardinality(Waiting(i, d)') =
                 IF w \in Waiting(i, d) THEN Cardinality(Waiting(i, d)) - 1
                 ELSE Cardinality(Waiting(i, d))
        BY <3>1, <3>2, FS_RemoveElement, FS_CardinalityType
      <3> QED
        BY <2>1, <2>3, <3>1, <3>3 DEF Counted
    <2>5. \A v \in Workers : Dated(v)'
      BY <1>0, <1>1 DEF Counts, Dated
    <2> QED
      BY <2>4, <2>5 DEF Counts
  <1> QED
    BY <1>2, <1>3 DEF Answer

(* A text that is rewritten has no request yet. *)
LEMMA RewriteCounts ==
    ASSUME IInv, Counts, NEW d \in Docs, Rewrite(d)
    PROVE  Counts'
  <1>0. /\ run' = run /\ Typed
        /\ text' = [text EXCEPT ![d] = @ + 1]
        /\ open' = [i \in Profiles |-> [open[i] EXCEPT ![d] = 0]]
    BY DEF Rewrite, IInv
  <1>1. /\ \A e \in Docs : text'[e] = IF e = d THEN text[e] + 1 ELSE text[e]
        /\ \A e \in Docs : text[e] \in Nat
    BY <1>0 DEF Typed
  <1>2. \A j \in Profiles, e \in Docs : open'[j][e] = IF e = d THEN 0 ELSE open[j][e]
    BY <1>0 DEF Typed
  <1>3. ASSUME NEW i \in Profiles, NEW e \in Docs PROVE Counted(i, e)'
    <2>1. CASE e = d
      <3>1. \A w \in Workers : w \notin Waiting(i, e)'
        BY <1>0, <1>1, <2>1 DEF Waiting, Counts, Dated
      <3>2. Waiting(i, e)' = {}
        BY <3>1 DEF Waiting
      <3> QED
        BY <1>2, <2>1, <3>2, FS_EmptySet DEF Counted
    <2>2. CASE e # d
      <3>1. Waiting(i, e)' = Waiting(i, e)
        BY <1>0, <1>1, <2>2 DEF Waiting
      <3> QED
        BY <1>2, <2>2, <3>1 DEF Counted, Counts
    <2> QED
      BY <2>1, <2>2
  <1>4. \A w \in Workers : Dated(w)'
    <2>1. \A w \in Workers : run[w].asked \subseteq Docs
      BY <1>0 DEF Typed, Run
    <2> QED
      BY <1>0, <1>1, <2>1 DEF Counts, Dated
  <1> QED
    BY <1>3, <1>4 DEF Counts

LEMMA StepCounts ==
    ASSUME IInv, Counts, NEW w \in Workers, Step(w)
    PROVE  Counts'
  <1>0. run \in [Workers -> Run] /\ run[w] \in Run /\ Typed
    BY DEF IInv, Typed
  <1> USE DEF dbVars, ghosts, world, Goto, Lost
  <1>a. ASSUME run' = [run EXCEPT ![w] = Idle], UNCHANGED <<text, open>> PROVE Counts'
    <2>1. Idle.pc # "call"
      BY DEF Idle
    <2> QED
      BY <1>0, <1>a, <2>1, MovedCounts
  <1>1. CASE Acquire(w)
    BY <1>0, <1>1, <1>a, WentCounts DEF Acquire
  <1>2. CASE Prepare(w)
    BY <1>0, <1>2, <1>a, WentCounts DEF Prepare
  <1>3. CASE Discover(w)
    <2>1. text' = text /\ open' = open
      BY <1>3 DEF Discover
    <2>2. CASE run' = [run EXCEPT ![w].pc = "end"]
      BY <1>0, <2>1, <2>2, WentCounts
    <2>3. ASSUME NEW ds, run' = [run EXCEPT ![w].pc = "batch", ![w].docs = ds] PROVE Counts'
      <3>1. run' = [run EXCEPT ![w] = [run[w] EXCEPT !.pc = "batch", !.docs = ds]]
        BY <1>0, <2>3
      <3>2. [run[w] EXCEPT !.pc = "batch", !.docs = ds].pc # "call"
        BY <1>0 DEF Run
      <3> QED
        BY <1>0, <2>1, <3>1, <3>2, MovedCounts
    <2> QED
      BY <1>3, <2>2, <2>3 DEF Discover
  <1>4. CASE Batch(w)
    BY <1>0, <1>4, <1>a, WentCounts DEF Batch
  <1>5. CASE Mark(w)
    <2>1. text' = text /\ open' = open
      BY <1>5 DEF Mark
    <2>2. ASSUME NEW batch,
                 run' = [run EXCEPT ![w].pc = "send", ![w].unsent = batch, ![w].docs = @ \ batch]
          PROVE  Counts'
      <3>1. run' = [run EXCEPT ![w] = [run[w] EXCEPT !.pc = "send", !.unsent = batch,
                                                     !.docs = run[w].docs \ batch]]
        BY <1>0, <2>2 DEF Run
      <3>2. [run[w] EXCEPT !.pc = "send", !.unsent = batch,
                           !.docs = run[w].docs \ batch].pc # "call"
        BY <1>0 DEF Run
      <3> QED
        BY <1>0, <2>1, <3>1, <3>2, MovedCounts
    <2> QED
      BY <1>0, <1>5, <1>a, <2>1, <2>2, WentCounts DEF Mark
  <1>6. CASE Publish(w)
    <2>1. text' = text /\ open' = open
      BY <1>6 DEF Publish
    <2>2. \/ run' = [run EXCEPT ![w] = Idle]
          \/ run' = [run EXCEPT ![w].pc = "send", ![w].asked = {}]
          \/ run' = [run EXCEPT ![w].pc = "fail"]
      BY <1>6 DEF Publish
    <2> QED
      BY <1>0, <1>a, <2>1, <2>2, CountsKept DEF Run
  <1>7. CASE Fail(w)
    <2>1. text' = text /\ open' = open
      BY <1>7 DEF Fail
    <2>2. \/ run' = [run EXCEPT ![w] = Idle]
          \/ run' = [run EXCEPT ![w].pc = "clear", ![w].asked = {}, ![w].rejected = FALSE]
      BY <1>7 DEF Fail
    <2> QED
      BY <1>0, <1>a, <2>1, <2>2, CountsKept DEF Run
  <1>8. CASE Clear(w)
    <2>1. text' = text /\ open' = open /\ run[w].pc = "clear"
      BY <1>8 DEF Clear
    <2>2. \/ run' = [run EXCEPT ![w] = Idle]
          \/ run' = [run EXCEPT ![w].pc = IF run[w].stop THEN "end" ELSE "batch"]
          \/ \E d \in run[w].unsent : run' = [run EXCEPT ![w].unsent = @ \ {d}]
      BY <1>8 DEF Clear
    <2> QED
      BY <1>0, <1>a, <2>1, <2>2, CountsKept DEF Run
  <1>9. CASE End(w)
    BY <1>9, <1>a DEF End
  <1> QED
    BY <1>1, <1>2, <1>3, <1>4, <1>5, <1>6, <1>7, <1>8, <1>9, SendCounts, AnswerCounts DEF Step

(* Put keeps the shape of the rows. *)
LEMMA PutShaped ==
    ASSUME Typed, Shaped, NEW i \in Profiles, NEW new, DOMAIN new \subseteq Docs,
           \A d \in DOMAIN new : Shape(new[d]), Put(i, new)
    PROVE  Shaped'
  BY DEF Put, Typed, Shaped

LEMMA RowsShaped == Shape(NoRow) /\ Shape(Uncertain)
  BY DEF Shape, NoRow, Uncertain

LEMMA StepShaped ==
    ASSUME IInv, Shaped, NEW w \in Workers, Step(w)
    PROVE  Shaped'
  <1>0. /\ run[w] \in Run /\ Typed
        /\ run[w].pc # "idle" => run[w].ident \in Profiles
    BY DEF IInv, Typed
  <1> DEFINE r == run[w]
  <1>a. /\ r.req \in Nat /\ r.docs \subseteq Docs /\ r.unsent \subseteq Docs
        /\ w # None
    BY <1>0, BackfillAssumption DEF Run
  <1> USE DEF dbVars
  <1>b. ASSUME row' = row PROVE Shaped'
    BY <1>b DEF Shaped
  <1>1. CASE Acquire(w)
    <2>1. CASE row' = row
      BY <2>1, <1>b
    <2>2. CASE row' # row
      <3>1. \A i \in Profiles, d \in Docs :
              row'[i][d] = IF row[i][d].lease = w
                           THEN [row[i][d] EXCEPT !.lease = Earlier] ELSE row[i][d]
        BY <1>1, <2>2 DEF Acquire
      <3>2. \A i \in Profiles, d \in Docs :
              /\ row[i][d] \in Row /\ Shape(row[i][d])
        BY <1>0 DEF Typed, Shaped
      <3>3. ASSUME NEW i \in Profiles, NEW d \in Docs PROVE Shape(row'[i][d])
        <4>1. CASE row[i][d].lease = w
          <5>1. /\ row'[i][d].state = row[i][d].state /\ row'[i][d].req = row[i][d].req
                /\ row'[i][d].lease = Earlier
            BY <3>1, <3>2, <4>1 DEF Row
          <5> QED
            BY <3>2, <5>1, BackfillAssumption DEF Shape
        <4>2. CASE row[i][d].lease # w
          BY <3>1, <3>2, <4>2
        <4> QED
          BY <4>1, <4>2
      <3> QED
        BY <3>3 DEF Shaped
    <2> QED
      BY <2>1, <2>2
  <1>2. CASE Prepare(w)
    <2>1. CASE Lost(w)
      BY <2>1, <1>b DEF Lost
    <2>2. CASE ~Lost(w)
      <3>1. PICK claims \in Left(w, "claimed"), sent \in Left(w, "dispatched") :
              Put(run[w].ident, [d \in claims \cup sent |->
                                   IF d \in claims THEN NoRow ELSE Uncertain])
        BY <1>2, <2>2 DEF Prepare
      <3>2. claims \cup sent \subseteq Docs /\ run[w].ident \in Profiles
        BY <1>0, <1>2 DEF Left, Prepare
      <3> QED
        BY <1>0, <3>1, <3>2, PutShaped, RowsShaped
    <2> QED
      BY <2>1, <2>2
  <1>3. CASE Discover(w)
    BY <1>3, <1>b DEF Discover
  <1>4. CASE Batch(w)
    BY <1>4, <1>b DEF Batch
  <1>5. CASE Mark(w)
    <2> DEFINE claim == [state |-> IF r.auth THEN "uncertain" ELSE "claimed",
                         lease |-> w, req |-> 0]
    <2>1. CASE row' = row
      BY <2>1, <1>b
    <2>2. CASE row' # row
      <3>1. PICK batch \in SUBSET r.docs : Put(r.ident, [d \in batch |-> claim])
        BY <1>5, <2>2 DEF Mark, Lost
      <3>2. r.ident \in Profiles /\ batch \subseteq Docs
        BY <1>0, <1>a, <1>5 DEF Mark
      <3>3. Shape(claim)
        BY <1>a DEF Shape
      <3> QED
        BY <1>0, <3>1, <3>2, <3>3, PutShaped
    <2> QED
      BY <2>1, <2>2
  <1>6. CASE Send(w)
    <2> DEFINE sent == [state |-> "dispatched", lease |-> w, req |-> r.req + 1]
    <2>1. CASE row' = row
      BY <2>1, <1>b
    <2>2. CASE row' # row
      <3>1. PICK ask \in SUBSET r.unsent : Put(r.ident, [d \in ask |-> sent])
        BY <1>6, <2>2 DEF Send
      <3>2. r.ident \in Profiles /\ ask \subseteq Docs
        BY <1>0, <1>a, <1>6 DEF Send
      <3>3. Shape(sent)
        BY <1>a DEF Shape
      <3> QED
        BY <1>0, <3>1, <3>2, <3>3, PutShaped
    <2> QED
      BY <2>1, <2>2
  <1>7. CASE Answer(w)
    BY <1>7, <1>b DEF Answer
  <1>8. ASSUME NEW ds \in SUBSET Docs, NEW new \in {NoRow, Uncertain},
               Put(r.ident, [d \in ds |-> new]), r.ident \in Profiles
        PROVE  Shaped'
    BY <1>0, <1>8, PutShaped, RowsShaped
  <1>9. CASE Publish(w)
    <2>1. CASE row' = row
      BY <2>1, <1>b
    <2>2. CASE row' # row
      <3>1. \E ds \in SUBSET Docs, new \in {NoRow, Uncertain} : Put(r.ident, [d \in ds |-> new])
        BY <1>9, <2>2 DEF Publish, Lost, Of
      <3> QED
        BY <1>0, <1>9, <3>1, <1>8 DEF Publish
    <2> QED
      BY <2>1, <2>2
  <1>10. CASE Fail(w)
    <2>1. CASE row' = row
      BY <2>1, <1>b
    <2>2. CASE row' # row
      <3>1. \E ds \in SUBSET Docs, new \in {NoRow, Uncertain} : Put(r.ident, [d \in ds |-> new])
        BY <1>10, <2>2 DEF Fail, Lost, Of
      <3> QED
        BY <1>0, <1>10, <3>1, <1>8 DEF Fail
    <2> QED
      BY <2>1, <2>2
  <1>11. CASE Clear(w)
    <2>1. CASE row' = row
      BY <2>1, <1>b
    <2>2. CASE row' # row
      <3>1. \E ds \in SUBSET Docs, new \in {NoRow, Uncertain} : Put(r.ident, [d \in ds |-> new])
        BY <1>11, <2>2 DEF Clear, Lost, Of
      <3> QED
        BY <1>0, <1>11, <3>1, <1>8 DEF Clear
    <2> QED
      BY <2>1, <2>2
  <1>12. CASE End(w)
    BY <1>12, <1>b DEF End
  <1> QED
    BY <1>1, <1>2, <1>3, <1>4, <1>5, <1>6, <1>7, <1>9, <1>10, <1>11, <1>12 DEF Step

LEMMA NextRest ==
    ASSUME IInv, Counts, Shaped, Bounded, [Next]_vars
    PROVE  Counts' /\ Shaped' /\ Bounded'
  <1>0. Typed
    BY DEF IInv
  <1> USE DEF dbVars, ghosts, world
  <1>1. ASSUME NEW w \in Workers, Step(w) PROVE Counts' /\ Shaped' /\ Bounded'
    <2>1. UNCHANGED world
      BY <1>1 DEF Step, Acquire, Prepare, Discover, Batch, Mark, Send, Answer,
                  Publish, Fail, Clear, End
    <2>2. rebilled' \in BOOLEAN
      <3>1. UNCHANGED rebilled \/ Send(w)
        BY <1>1 DEF Step, Acquire, Prepare, Discover, Batch, Mark, Answer,
                    Publish, Fail, Clear, End, Lost
      <3>2. \/ UNCHANGED rebilled
            \/ \E ask \in SUBSET run[w].unsent :
                 rebilled' = (rebilled \/ (~run[w].auth /\ \E d \in ask : open[run[w].ident][d] > 0))
        BY <3>1 DEF Send
      <3>3. CASE UNCHANGED rebilled
        BY <3>3 DEF Bounded
      <3>4. ASSUME NEW ask \in SUBSET run[w].unsent,
                   rebilled' = (rebilled \/ (~run[w].auth /\ \E d \in ask : open[run[w].ident][d] > 0))
            PROVE  rebilled' \in BOOLEAN
        BY <3>4
      <3> QED
        BY <3>2, <3>3, <3>4
    <2> QED
      BY <1>1, <2>1, <2>2, StepCounts, StepShaped DEF Bounded
  <1>2. ASSUME NEW w \in Workers, NEW auth \in BOOLEAN, Crash(w) \/ Begin(w, auth)
        PROVE  Counts' /\ Shaped' /\ Bounded'
    <2>1. UNCHANGED <<row, open, rebilled, active, switches, text, calm>>
      BY <1>2 DEF Crash, Begin
    <2>2. PICK r : run' = [run EXCEPT ![w] = r] /\ r.pc # "call"
      <3> DEFINE r == [Idle EXCEPT !.pc = "acquire", !.ident = active, !.auth = auth]
      <3>1. r.pc # "call" /\ Idle.pc # "call"
        BY DEF Idle
      <3>2. run' = [run EXCEPT ![w] = Idle] \/ run' = [run EXCEPT ![w] = r]
        BY <1>2 DEF Crash, Begin
      <3> HIDE DEF r
      <3> QED
        BY <3>1, <3>2
    <2>3. Counts'
      BY <1>0, <2>1, <2>2, MovedCounts
    <2> QED
      BY <2>1, <2>3 DEF Shaped, Bounded
  <1>3. ASSUME NEW i \in Profiles, Register(i) PROVE Counts' /\ Shaped' /\ Bounded'
    <2>1. Bounded'
      BY <1>3, Numbers DEF Register, Bounded
    <2> QED
      BY <1>0, <1>3, <2>1, CountsKept DEF Register, Shaped
  <1>4. ASSUME NEW d \in Docs, Rewrite(d) PROVE Counts' /\ Shaped' /\ Bounded'
    <2>1. Counts'
      BY <1>4, RewriteCounts
    <2>2. Shaped'
      BY <1>0, <1>4, RowsShaped DEF Rewrite, Shaped, Typed
    <2>3. Bounded'
      BY <1>0, <1>4, Numbers DEF Rewrite, Bounded, Typed
    <2> QED
      BY <2>1, <2>2, <2>3
  <1>5. CASE Expire \/ CalmDown \/ UNCHANGED vars
    <2>1. /\ UNCHANGED <<row, open, rebilled, run, text, switches>>
          /\ calm' \in BOOLEAN
      BY <1>5 DEF Expire, CalmDown, vars, Bounded
    <2> QED
      BY <1>0, <2>1, CountsKept DEF Shaped, Bounded
  <1> QED
    BY <1>1, <1>2, <1>3, <1>4, <1>5 DEF Next

(* For any number of documents, runs and profiles every component of the   *)
(* backfill keeps its type: a claimed or dispatched row names its lease,   *)
(* exactly the dispatched rows name a request, and the requests that may   *)
(* have been accepted are never counted below zero (command.py,            *)
(* _mark_dispatched and _owned_inflight_transition).                       *)
THEOREM TypeCorrect == Spec => []TypeOK
  <1>1. IInv /\ Counts /\ Shaped /\ Bounded => TypeOK
    <2> SUFFICES ASSUME IInv, Counts, Shaped, Bounded PROVE TypeOK
      OBVIOUS
    <2>1. Typed /\ ~rebilled
      BY DEF IInv
    <2>2. text \in [Docs -> 0..MaxTexts]
      BY <2>1, Numbers DEF Typed, Bounded
    <2>3. \A i \in Profiles, d \in Docs : row[i][d].state \in States /\ Shape(row[i][d])
      BY <2>1 DEF Typed, Row, Shaped
    <2>4. \A w \in Workers :
            /\ run[w].pc \in Pcs /\ run[w].docs \subseteq Docs
            /\ run[w].unsent \subseteq Docs /\ run[w].asked \subseteq Docs
      BY <2>1 DEF Typed, Run
    <2>5. open \in [Profiles -> [Docs -> Nat]]
      <3>1. ASSUME NEW i \in Profiles, NEW d \in Docs PROVE open[i][d] \in Nat
        <4>1. Cardinality(Waiting(i, d)) \in Nat /\ Cardinality(Waiting(i, d)) <= open[i][d]
          BY FS_CardinalityType DEF Counts, Counted
        <4> QED
          BY <2>1, <4>1 DEF Typed
      <3> QED
        BY <2>1, <3>1 DEF Typed
    <2> QED
      BY <2>1, <2>2, <2>3, <2>4, <2>5 DEF TypeOK, Typed, Shape, Pcs, Bounded
  <1> QED
    BY InitIInv, NextIInv, InitRest, NextRest, <1>1, PTL DEF Spec

=============================================================================
