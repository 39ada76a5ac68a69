--------------------------- MODULE SummaryCircuit ---------------------------
(***************************************************************************)
(* The route circuit breaker, the spend guard and the hung-summary hold of *)
(* one engine: escalation.py (SummaryCircuitBreaker, SummarySpendGuard,    *)
(* the walk over the route chain of summarize_with_escalation),            *)
(* summary_outcome.py, and the holds of compaction.py and engine.py.       *)
(*                                                                         *)
(* A caller is a compaction of the engine (it runs under a foreground      *)
(* budget, on the live route keys and the live guard) or a background      *)
(* summariser (rollups: prefixed keys, a guard of its own, no budget).     *)
(* The two kinds share no counter: a behaviour has callers of one kind, a  *)
(* chain and a set of outcomes, its setup, which never changes.  Clocks    *)
(* are seconds left and ages: Tick is one unit of time.                    *)
(***************************************************************************)
EXTENDS Integers, Sequences, FiniteSets, FiniteSetsExt

CONSTANTS
    Foreground,     \* the engine's compaction, a set of at most one caller
    Background,     \* background summarisers
    Routes,         \* provider routes
    Conversations,  \* conversations the engine may be bound to
    Setups,         \* who is at work, over which chain, with which outcomes
    FailureThreshold, RejectionThreshold, Cooldown,
    MaxCalls,       \* 0 switches the spend guard off
    Window, Backoff,
    HoldSeconds,    \* _SWEEP_BUDGET_HOLD_SECONDS
    Attempts,       \* max_attempts of the leaf rescue
    NoStrike

Callers == Foreground \cup Background
Kinds == {"live", "rollup"}
Kind(c) == IF c \in Foreground THEN "live" ELSE "rollup"
Keys == Kinds \X Routes
AllOutcomes == {"accepted", "verbatim", "rejection", "failure", "config",
                "filter", "size", "cut", "hang"}

(* The values of the configuration, which relates none of the times.       *)
ASSUME CircuitAssumption ==
    /\ Foreground \cap Background = {} /\ Cardinality(Foreground) <= 1
    /\ \A s \in Setups : /\ s.crew \subseteq Callers
                         /\ s.chain \in Seq(Routes) /\ s.chain # << >>
                         /\ s.outcomes \subseteq AllOutcomes
    /\ {FailureThreshold, RejectionThreshold, HoldSeconds, Attempts}
            \subseteq Nat \ {0}
    /\ MaxCalls \in Nat
    /\ Cooldown \in Nat /\ Window \in Nat /\ Backoff \in Nat

VARIABLES
    setup,    \* the callers at work, summary_model and its fallbacks
    brk,      \* _failures, _rejections, _open_until, _route_state by key
    guard,    \* _calls by age and _backoff_until, by kind
    walk,     \* where each caller stands in its chain
    conv,     \* the conversation the engine is bound to
    hold,     \* _sweep_budget_hold_until, .._conversation, .._turn_paced
    strike,   \* _hung_summary_strike
    calm,     \* history: every provider answers from now on
    granted,  \* history: reserved calls by age, by kind
    released  \* history: turn-end releases since the last leaf or reset

vars == <<setup, brk, guard, walk, conv, hold, strike, calm, granted, released>>
engineState == <<conv, hold, strike, released>>
world == <<setup, calm>>

Chain == setup.chain
Key(c, i) == <<Kind(c), Chain[i]>>
Configured == {Chain[i] : i \in DOMAIN Chain}
Ages == 0..Window

Idle == [pc |-> "idle", level |-> 1, at |-> 1, slot |-> FALSE,
         forced |-> FALSE, seen |-> {}, tries |-> 1, stored |-> FALSE]

(* Every state component keeps its type. *)
TypeOK ==
    /\ setup \in Setups
    /\ brk \in [Keys -> [fail: 0..FailureThreshold, rej: 0..RejectionThreshold,
                         open: 0..Cooldown,
                         class: {"", "hung", "config_error",
                                 "provider_failure", "rejected"}]]
    /\ guard \in [Kinds -> [ages: [Ages -> 0..MaxCalls], left: 0..Backoff]]
    /\ walk \in [Callers -> [pc: {"idle", "check", "spend", "call", "level3"},
                             level: 1..2, at: DOMAIN Chain, slot: BOOLEAN,
                             forced: BOOLEAN, seen: SUBSET {"filter", "size"},
                             tries: 1..Attempts, stored: BOOLEAN]]
    /\ conv \in Conversations
    /\ hold \in [left: 0..HoldSeconds, conv: Conversations, paced: BOOLEAN]
    /\ strike \in {NoStrike} \cup (Conversations \X Keys)
    /\ calm \in BOOLEAN /\ released \in 0..2
    /\ granted \in [Kinds -> [Ages -> Nat]]

Init ==
    /\ setup \in Setups
    /\ brk = [k \in Keys |-> [fail |-> 0, rej |-> 0, open |-> 0, class |-> ""]]
    /\ guard = [k \in Kinds |-> [ages |-> [a \in Ages |-> 0], left |-> 0]]
    /\ walk = [c \in Callers |-> Idle]
    /\ conv \in Conversations
    /\ hold = [left |-> 0, conv |-> conv, paced |-> FALSE]
    /\ strike = NoStrike /\ calm = FALSE /\ released = 0
    /\ granted = [k \in Kinds |-> [a \in Ages |-> 0]]

-----------------------------------------------------------------------------
(* The breaker.  Counters are capped at their threshold: a count above it  *)
(* acts like one at it.                                                    *)

Allows(k) == brk[k].open = 0
RouteAvailable(kind) == \E r \in Configured : Allows(<<kind, r>>)
SecondsUntilAllowed == Min({brk[<<"live", r>>].open : r \in Configured})

Capped(n, cap) == IF n < cap THEN n + 1 ELSE cap

RecordSuccess(b) == [b EXCEPT !.fail = 0, !.rej = 0, !.open = 0, !.class = ""]

RecordFailure(b) ==
    LET n == Capped(b.fail, FailureThreshold)
    IN  [b EXCEPT !.class = "provider_failure", !.fail = n,
                  !.open = IF n >= FailureThreshold THEN Cooldown ELSE @]

RecordRejection(b) ==
    LET n == Capped(b.rej, RejectionThreshold)
    IN  [b EXCEPT !.class = "rejected", !.rej = n,
                  !.open = IF n >= RejectionThreshold THEN Cooldown ELSE @]

RecordConfigError(b) == [b EXCEPT !.class = "config_error", !.open = Cooldown]
RecordHang(b) == [b EXCEPT !.class = "hung", !.open = Cooldown]
ReleaseHang(b) == IF b.class = "hung" THEN [b EXCEPT !.open = 0] ELSE b

(* classify_summary_outcome and the breaker event of each kind.  A result  *)
(* stored whole, a content filter, a context-length refusal that a smaller *)
(* chunk can rescue and a call cut by the budget are no circuit events.    *)
Recorded(b, o) ==
    CASE o = "accepted"  -> RecordSuccess(b)
      [] o = "rejection" -> RecordRejection(b)
      [] o = "failure"   -> RecordFailure(b)
      [] o = "config"    -> RecordConfigError(b)
      [] o = "hang"      -> RecordHang(b)
      [] OTHER           -> b

-----------------------------------------------------------------------------
(* The spend guard: try_record_call.                                       *)

\* Mutant of Reservable: the backoff of a trip is not looked at.
ReservableInBackoff(g) == SumFunction(g.ages) < MaxCalls
Reservable(g) == g.left = 0 /\ SumFunction(g.ages) < MaxCalls

Reserve(g) ==
    LET calls == [g.ages EXCEPT ![0] = @ + 1]
    IN  IF SumFunction(calls) >= MaxCalls
        THEN [ages |-> [a \in Ages |-> 0], left |-> Backoff]
        ELSE [g EXCEPT !.ages = calls]

\* A refused call is not counted and does not renew the backoff.
Refuse(g) == g

-----------------------------------------------------------------------------
(* The holds of the engine.                                                *)

\* Mutant of HoldActive: a hold whose time is up still holds.
HoldActiveAtZero == hold.left >= 0 /\ hold.conv = conv
HoldActive == hold.left > 0 /\ hold.conv = conv

StartHold(seconds, paced) ==
    hold' = [left |-> seconds, conv |-> conv, paced |-> paced]

(* A stored leaf ends the hold and forgets the hang. *)
LeafStored ==
    /\ hold' = [hold EXCEPT !.left = 0, !.paced = FALSE]
    /\ strike' = NoStrike /\ released' = 0

(* The first hang since the last leaf of this conversation. *)
FirstHang == strike = NoStrike \/ strike[1] # conv

(* _settle_leaf_stop for a pass whose call k hung, b the breaker after the *)
(* hang was recorded.                                                      *)
SettleHang(k, b, forced) ==
    LET fallback == b[k].open > 0 /\ \E r \in Configured :
                        <<"live", r>> # k /\ b[<<"live", r>>].open = 0
    IN  /\ strike' = IF FirstHang /\ ~forced THEN <<conv, k>> ELSE strike
        /\ IF forced \/ fallback
           THEN hold' = [hold EXCEPT !.paced = @ /\ FirstHang]
           ELSE StartHold(HoldSeconds, FirstHang)
        /\ UNCHANGED released

(* _settle_leaf_stop for a pass that met every route refused.  The hold is *)
(* at least a second long.                                                 *)
SettleRefused ==
    /\ StartHold(Min({HoldSeconds, Max({1, SecondsUntilAllowed})}),
                 /\ hold.paced /\ HoldActive
                 /\ strike # NoStrike /\ strike[1] = conv)
    /\ UNCHANGED <<strike, released>>

-----------------------------------------------------------------------------
(* The walk of a caller.                                                   *)

Put(c, w) == walk' = [walk EXCEPT ![c] = w]

(* The walk after a route that gave nothing, and after a spend refusal,    *)
(* which skips the rest of the chain.                                      *)
NextLevel(w) == IF w.level = 1
                THEN [w EXCEPT !.pc = "check", !.level = 2, !.at = 1]
                ELSE [w EXCEPT !.pc = "level3"]
NextRoute(w) == IF w.at < Len(Chain)
                THEN [w EXCEPT !.pc = "check", !.at = @ + 1]
                ELSE NextLevel(w)
(* The walk after a stored leaf: the pass goes on to its next chunk, under *)
(* the same budget and slot, or ends.                                      *)
AfterLeaf(w) == {Idle, [Idle EXCEPT !.pc = "check", !.slot = w.slot,
                                    !.forced = w.forced, !.stored = TRUE]}

(* compress() of the bound engine: an automatic pass is held off by the    *)
(* hold, a forced overflow pass is not.                                    *)
BeginPass(c, forced) ==
    /\ c \in Foreground \cap setup.crew /\ walk[c].pc = "idle"
    /\ forced \/ (~HoldActive /\ RouteAvailable("live"))
    /\ Put(c, [Idle EXCEPT !.pc = "check", !.forced = forced])
    /\ UNCHANGED <<brk, guard, engineState, world, granted>>

(* A pass that makes no call: its leaf is small enough to be stored whole, *)
(* or every route is refused and it stops and holds.                       *)
NoCallPass(c) ==
    /\ c \in Foreground \cap setup.crew /\ walk[c].pc = "idle" /\ ~HoldActive
    /\ LeafStored \/ (~RouteAvailable("live") /\ SettleRefused)
    /\ UNCHANGED <<brk, guard, walk, conv, world, granted>>

(* A rollup starts while the live chain and its own have a closed route. *)
BeginBackground(c) ==
    /\ c \in Background \cap setup.crew /\ walk[c].pc = "idle"
    /\ RouteAvailable("live") /\ RouteAvailable("rollup")
    /\ Put(c, [Idle EXCEPT !.pc = "check"])
    /\ UNCHANGED <<brk, guard, engineState, world, granted>>

CheckRoute(c) ==
    /\ walk[c].pc = "check"
    /\ Put(c, IF Allows(Key(c, walk[c].at))
              THEN [walk[c] EXCEPT !.pc = "spend"] ELSE NextRoute(walk[c]))
    /\ UNCHANGED <<brk, guard, engineState, world, granted>>

(* A pass out of time stops, and holds unless it stored a leaf or was      *)
(* forced.                                                                 *)
OutOfTime(c) ==
    /\ Put(c, Idle)
    /\ IF walk[c].forced \/ walk[c].stored
       THEN UNCHANGED hold ELSE StartHold(HoldSeconds, FALSE)
    /\ UNCHANGED <<strike, released>>

(* The budget admits no further call, and no truncation. *)
BudgetStop(c) ==
    /\ c \in Foreground /\ ~calm /\ walk[c].pc \in {"check", "level3"}
    /\ OutOfTime(c)
    /\ UNCHANGED <<brk, guard, conv, world, granted>>

(* One slot for a foreground pass, at its first admitted call; one for     *)
(* every background call.                                                  *)
Spend(c) ==
    LET kind == Kind(c) IN
    /\ walk[c].pc = "spend"
    /\ IF MaxCalls = 0 \/ (c \in Foreground /\ walk[c].slot)
       THEN Put(c, [walk[c] EXCEPT !.pc = "call"])
            /\ UNCHANGED <<guard, granted>>
       ELSE IF Reservable(guard[kind])
       THEN /\ guard' = [guard EXCEPT ![kind] = Reserve(@)]
            /\ granted' = [granted EXCEPT ![kind][0] = @ + 1]
            /\ Put(c, [walk[c] EXCEPT !.pc = "call",
                                      !.slot = c \in Foreground])
       ELSE /\ guard' = [guard EXCEPT ![kind] = Refuse(@)]
            /\ Put(c, NextLevel(walk[c]))
            /\ UNCHANGED granted
    /\ UNCHANGED <<brk, engineState, world>>

(* What a caller does with an outcome.  The text of a call that was        *)
(* accepted, or whose small source is stored whole, makes a leaf unless    *)
(* the call was a condensation or the publication is refused.              *)
Answered(c) ==
    IF c \in Background THEN Put(c, Idle) /\ UNCHANGED <<hold, strike, released>>
    ELSE \/ LeafStored /\ \E w \in AfterLeaf(walk[c]) : Put(c, w)
         \/ ~calm /\ Put(c, Idle) /\ UNCHANGED <<hold, strike, released>>

Useless(c, o) ==
    /\ Put(c, [NextRoute(walk[c]) EXCEPT
                  !.seen = @ \cup ({o} \cap {"filter", "size"})])
    /\ UNCHANGED <<hold, strike, released>>

(* The outcomes possible for a caller: only a foreground call has a budget *)
(* to be cut by, a small source to store whole and a chunk to shrink.      *)
Possible(c) ==
    setup.outcomes \ ((IF c \in Foreground THEN {}
                 ELSE {"verbatim", "size", "cut", "hang"})
                \cup (IF calm THEN AllOutcomes \ {"accepted"} ELSE {})
                \cup (IF walk[c].tries < Attempts THEN {} ELSE {"size"}))

(* A call comes back and its outcome is recorded. *)
Return(c, o) ==
    LET k == Key(c, walk[c].at)
        b == [brk EXCEPT ![k] = Recorded(@, o)]
    IN
    /\ walk[c].pc = "call" /\ o \in Possible(c)
    /\ brk' = b
    /\ CASE o \in {"accepted", "verbatim"} -> Answered(c)
         [] o = "hang" /\ b[k].open > 0 ->
                Put(c, Idle) /\ SettleHang(k, b, walk[c].forced)
         [] o \in {"cut", "hang"} /\ b[k].open = 0 -> OutOfTime(c)
         [] OTHER -> Useless(c, o)
    /\ UNCHANGED <<guard, conv, world, granted>>

(* A truncation is stored by a forced pass, or when the content was        *)
(* filtered.                                                               *)
StoresCut(w) == w.forced \/ "filter" \in w.seen

(* No route gave a summary.  The leaf rescue retries a smaller chunk, else *)
(* the truncation is stored or the rows stay where they are.               *)
LevelThree(c) ==
    LET w == walk[c] IN
    /\ w.pc = "level3"
    /\ CASE c \in Background ->
                Put(c, Idle) /\ UNCHANGED <<hold, strike, released>>
         [] c \in Foreground /\ "size" \in w.seen /\ w.tries < Attempts ->
                /\ Put(c, [w EXCEPT !.pc = "check", !.level = 1, !.at = 1,
                                    !.seen = {}, !.tries = @ + 1])
                /\ UNCHANGED <<hold, strike, released>>
         [] OTHER ->
                IF StoresCut(w)
                THEN LeafStored /\ \E v \in AfterLeaf(w) : Put(c, v)
                ELSE Put(c, Idle) /\ UNCHANGED <<hold, strike, released>>
    /\ UNCHANGED <<brk, guard, conv, world, granted>>

-----------------------------------------------------------------------------
(* The host.                                                               *)

\* Mutant of Release: the release also forgets the hang.
ReleaseForgets ==
    /\ hold' = [hold EXCEPT !.left = 0, !.paced = FALSE]
    /\ brk' = [brk EXCEPT ![strike[2]] = ReleaseHang(@)]
    /\ strike' = NoStrike

Release ==
    /\ hold' = [hold EXCEPT !.left = 0, !.paced = FALSE]
    /\ brk' = [brk EXCEPT ![strike[2]] = ReleaseHang(@)]
    /\ UNCHANGED strike

(* note_turn_complete: the turn's compaction is over. *)
TurnComplete ==
    /\ \A c \in Foreground : walk[c].pc = "idle"
    /\ hold.paced /\ strike # NoStrike /\ strike[1] = conv /\ HoldActive
    /\ Release
    /\ released' = Min({2, released + 1})
    /\ UNCHANGED <<guard, walk, conv, world, granted>>

(* The session restarts, or another is bound: everything is reset.  A      *)
(* session that changes its conversation resets the counters only.         *)
Rebind(v) ==
    /\ \A c \in Foreground : walk[c].pc = "idle"
    /\ conv' = v /\ strike' = NoStrike /\ released' = 0
    /\ \/ hold' = [left |-> 0, conv |-> v, paced |-> FALSE]
       \/ v # conv /\ UNCHANGED hold
    /\ UNCHANGED <<brk, guard, walk, world, granted>>

\* Mutants of Elapsed: time left runs below zero, or never out.
ElapsedBelowZero(n) == n - 1
ElapsedStopsAtOne(n) == IF n > 1 THEN n - 1 ELSE n
Elapsed(n) == IF n > 0 THEN n - 1 ELSE 0
Older(ages) == [a \in Ages |-> IF a = 0 THEN 0 ELSE ages[a - 1]]

Tick ==
    /\ brk' = [k \in Keys |-> [brk[k] EXCEPT !.open = Elapsed(@)]]
    /\ guard' = [k \in Kinds |-> [ages |-> Older(guard[k].ages),
                                  left |-> Elapsed(guard[k].left)]]
    /\ granted' = [k \in Kinds |-> Older(granted[k])]
    /\ hold' = [hold EXCEPT !.left = Elapsed(@)]
    /\ UNCHANGED <<walk, conv, strike, world, released>>

(* The providers recover for good. *)
Heal == ~calm /\ calm' = TRUE
        /\ UNCHANGED <<setup, brk, guard, walk, engineState, granted>>

Walk(c) ==
    CheckRoute(c) \/ Spend(c) \/ (\E o \in setup.outcomes : Return(c, o)) \/ LevelThree(c)

Next ==
    \/ \E c \in Callers :
          \/ \E forced \in BOOLEAN : BeginPass(c, forced)
          \/ NoCallPass(c) \/ BeginBackground(c)
          \/ CheckRoute(c) \/ BudgetStop(c) \/ Spend(c)
          \/ \E o \in setup.outcomes : Return(c, o)
          \/ LevelThree(c)
    \/ TurnComplete
    \/ \E v \in Conversations : Rebind(v)
    \/ Tick \/ Heal

Spec == Init /\ [][Next]_vars

(* Time passes, a call returns (it has a timeout), a walk goes on, and the *)
(* host asks for a compaction while the context is over its threshold.     *)
FairSpec ==
    /\ Spec /\ WF_vars(Tick)
    /\ \A c \in Callers : WF_vars(Walk(c))
    /\ \A c \in Foreground : WF_vars(BeginPass(c, FALSE))

-----------------------------------------------------------------------------
(* Properties.                                                             *)

(* The window, or a shorter backoff: the configuration admits one, and a    *)
(* trip then forgets calls that the window still holds when it ends.       *)
Span == IF Window <= Backoff THEN Window ELSE Backoff

(* No stretch of that length holds more reserved calls than max_calls,     *)
(* across the backoff of a trip, which clears the calls counted so far,    *)
(* and with callers on the same guard (SummarySpendGuard).  With the       *)
(* default times, 600 s and 1800 s, the stretch is the window.             *)
SpendBounded ==
    \A k \in Kinds :
        SumFunction([a \in 0..(Span - 1) |-> granted[k][a]]) <= MaxCalls

(* A hang is released early, at turn end, once: until a leaf is stored or  *)
(* the conversation is reset, a second hang takes the whole hold, whatever *)
(* forced passes, refused passes and budget stops happen in between.       *)
OneReleasePerStrike == released <= 1

(* An open route closes again: calls that were in flight when it opened    *)
(* may open it anew, but none starts while it is open.                     *)
RouteReturns == \A k \in Keys : []<>(brk[k].open = 0)

(* Once the providers answer for good, a compaction of the engine gets its *)
(* summary again and again, whatever the circuits, the guard and the hold  *)
(* were left in.                                                           *)
Accept(c) == Return(c, "accepted")
SummaryGetsThrough ==
    \A c \in Foreground : <>[](calm /\ c \in setup.crew) => []<><<Accept(c)>>_vars

=============================================================================
