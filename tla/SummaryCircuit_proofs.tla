----------------------- MODULE SummaryCircuit_proofs -----------------------
(***************************************************************************)
(* What TLAPS proves of SummaryCircuit, for any callers, routes, chains,   *)
(* outcomes, thresholds and times.                                         *)
(***************************************************************************)
EXTENDS SummaryCircuit, Collections_proofs

-----------------------------------------------------------------------------
(* The inductive invariants                                                *)

\* A release leaves its strike and a hold that is not paced: what a second one
\* needs comes back only with a stored leaf or another conversation.
Spent ==
    /\ released \in {0, 1}
    /\ released = 1 => strike # NoStrike /\ strike[1] = conv /\ ~hold.paced

\* A guard that is not backing off counted every call of the last Span ticks;
\* one that is backing off granted none since it tripped.
Counted(k) ==
    /\ guard[k].left = 0 => \A a \in 0..(Span - 1) : granted[k][a] = guard[k].ages[a]
    /\ guard[k].left > 0 => /\ \A a \in Ages : guard[k].ages[a] = 0
                            /\ \A a \in Ages : a < Backoff - guard[k].left => granted[k][a] = 0

Bounded == \A k \in Kinds : Counted(k) /\ Below(granted[k], Span) <= MaxCalls

Walks == [pc: {"idle", "check", "spend", "call", "level3"},
          level: 1..2, at: DOMAIN Chain, slot: BOOLEAN,
          forced: BOOLEAN, seen: SUBSET {"filter", "size"},
          tries: 1..Attempts, stored: BOOLEAN]

Route == [fail: 0..FailureThreshold, rej: 0..RejectionThreshold, open: 0..Cooldown,
          class: {"", "hung", "config_error", "provider_failure", "rejected"}]

BrkType == brk \in [Keys -> Route]
GuardType ==
    /\ guard \in [Kinds -> [ages: [Ages -> 0..MaxCalls], left: 0..Backoff]]
    /\ granted \in [Kinds -> [Ages -> Nat]]
WalkType == walk \in [Callers -> Walks]
EngineType ==
    /\ conv \in Conversations
    /\ hold \in [left: 0..HoldSeconds, conv: Conversations, paced: BOOLEAN]
    /\ strike \in {NoStrike} \cup (Conversations \X Keys)
    /\ calm \in BOOLEAN /\ released \in 0..2

-----------------------------------------------------------------------------
(* Types                                                                   *)

LEMMA TypeParts == TypeOK <=> setup \in Setups /\ BrkType /\ GuardType /\ WalkType /\ EngineType
  BY DEF TypeOK, BrkType, GuardType, WalkType, EngineType, Walks, Route

LEMMA TypePartsNext ==
    TypeOK' <=> setup' \in Setups /\ BrkType' /\ GuardType' /\ WalkType' /\ EngineType'
  BY DEF TypeOK, BrkType, GuardType, WalkType, EngineType, Walks, Route

(* The numbers of the configuration. *)
LEMMA Numbers ==
    /\ FailureThreshold \in Nat \ {0} /\ RejectionThreshold \in Nat \ {0}
    /\ HoldSeconds \in Nat \ {0} /\ Attempts \in Nat \ {0}
    /\ MaxCalls \in Nat /\ Cooldown \in Nat /\ Window \in Nat /\ Backoff \in Nat
    /\ Span \in Nat /\ Span <= Window /\ Span <= Backoff
  BY CircuitAssumption DEF Span

LEMMA CappedType == ASSUME NEW cap \in Nat, NEW n \in 0..cap PROVE Capped(n, cap) \in 0..cap
  BY DEF Capped

LEMMA ElapsedType == ASSUME NEW cap \in Nat, NEW n \in 0..cap PROVE Elapsed(n) \in 0..cap
  BY DEF Elapsed

(* The lesser and the greater of two numbers. *)
LEMMA MinOfTwo ==
    ASSUME NEW m \in Nat, NEW n \in Nat
    PROVE  /\ Min({m, n}) \in {m, n} /\ Min({m, n}) <= m /\ Min({m, n}) <= n
           /\ Max({m, n}) \in {m, n} /\ Max({m, n}) >= m /\ Max({m, n}) >= n
<1>1. \E x \in {m, n} : \A y \in {m, n} : x =< y
  OBVIOUS
<1>2. \E x \in {m, n} : \A y \in {m, n} : x >= y
  OBVIOUS
<1>3. Min({m, n}) \in {m, n} /\ \A y \in {m, n} : Min({m, n}) =< y
  BY <1>1 DEF Min
<1>4. Max({m, n}) \in {m, n} /\ \A y \in {m, n} : Max({m, n}) >= y
  BY <1>2 DEF Max
<1> QED BY <1>3, <1>4

(* The setup never changes. *)
LEMMA SetupStays == ASSUME [Next]_vars PROVE setup' = setup
<1>1. ASSUME NEW c \in Callers,
             \/ \E forced \in BOOLEAN : BeginPass(c, forced)
             \/ NoCallPass(c) \/ BeginBackground(c) \/ CheckRoute(c) \/ BudgetStop(c) \/ Spend(c)
             \/ LevelThree(c)
      PROVE  setup' = setup
  BY <1>1 DEF BeginPass, NoCallPass, BeginBackground, CheckRoute, BudgetStop, Spend, LevelThree, world
<1>2. ASSUME NEW c \in Callers, NEW o \in setup.outcomes, Return(c, o) PROVE setup' = setup
  BY <1>2 DEF Return, world
<1>3. CASE TurnComplete \/ Tick \/ Heal \/ UNCHANGED vars
  BY <1>3 DEF TurnComplete, Tick, Heal, world, vars
<1>4. ASSUME NEW v \in Conversations, Rebind(v) PROVE setup' = setup
  BY <1>4 DEF Rebind, world
<1> QED BY <1>1, <1>2, <1>3, <1>4 DEF Next

(* The chain has a route, and its keys are keys of the breaker. *)
LEMMA Chains ==
    ASSUME setup \in Setups
    PROVE  /\ Len(Chain) \in Nat /\ DOMAIN Chain = 1..Len(Chain) /\ 1 \in DOMAIN Chain
           /\ Configured \subseteq Routes /\ Configured # {}
           /\ \A c \in Callers, i \in DOMAIN Chain : Key(c, i) \in Keys
<1>1. Chain \in Seq(Routes) /\ Chain # << >>
  BY CircuitAssumption DEF Chain
<1>2. Len(Chain) \in Nat /\ DOMAIN Chain = 1..Len(Chain) /\ 1 \in DOMAIN Chain
  BY <1>1
<1>3. \A i \in DOMAIN Chain : Chain[i] \in Routes
  BY <1>1
<1>4. Configured \subseteq Routes /\ Chain[1] \in Configured
  BY <1>2, <1>3 DEF Configured
<1>5. \A c \in Callers, i \in DOMAIN Chain : Key(c, i) \in Keys
  BY <1>3 DEF Key, Keys, Kind, Kinds
<1> QED BY <1>2, <1>4, <1>5

(* An outcome is recorded. *)
LEMMA RecordedType == ASSUME NEW b \in Route, NEW o PROVE Recorded(b, o) \in Route
<1>0. /\ FailureThreshold \in Nat \ {0} /\ RejectionThreshold \in Nat \ {0} /\ Cooldown \in Nat
      /\ 0 \in 0..Cooldown /\ Cooldown \in 0..Cooldown
      /\ 0 \in 0..FailureThreshold /\ 0 \in 0..RejectionThreshold
  BY Numbers
<1>00. b.fail \in 0..FailureThreshold /\ b.rej \in 0..RejectionThreshold
  BY DEF Route
<1>1. Capped(b.fail, FailureThreshold) \in 0..FailureThreshold
  BY <1>0, <1>00, CappedType
<1>2. Capped(b.rej, RejectionThreshold) \in 0..RejectionThreshold
  BY <1>0, <1>00, CappedType
<1>3. RecordSuccess(b) \in Route
  BY <1>0 DEF RecordSuccess, Route
<1>4. RecordFailure(b) \in Route
  BY <1>0, <1>1 DEF RecordFailure, Route
<1>5. RecordRejection(b) \in Route
  BY <1>0, <1>2 DEF RecordRejection, Route
<1>6. RecordConfigError(b) \in Route /\ RecordHang(b) \in Route
  BY <1>0 DEF RecordConfigError, RecordHang, Route
<1> QED BY <1>3, <1>4, <1>5, <1>6 DEF Recorded

(* The breaker. *)
LEMMA BrkStep == ASSUME TypeOK, [Next]_vars PROVE BrkType'
<1>0. BrkType /\ WalkType /\ EngineType /\ setup \in Setups
  BY TypeParts
<1>1. CASE brk' = brk
  BY <1>0, <1>1 DEF BrkType, Keys, Kinds, Route
<1>2. ASSUME NEW c \in Callers,
             \/ \E forced \in BOOLEAN : BeginPass(c, forced)
             \/ NoCallPass(c) \/ BeginBackground(c) \/ CheckRoute(c) \/ BudgetStop(c) \/ Spend(c)
             \/ LevelThree(c)
      PROVE  BrkType'
  BY <1>1, <1>2 DEF BeginPass, NoCallPass, BeginBackground, CheckRoute, BudgetStop, Spend, LevelThree
<1>3. ASSUME NEW c \in Callers, NEW o \in setup.outcomes, Return(c, o) PROVE BrkType'
  <2> DEFINE k == Key(c, walk[c].at)
  <2>1. walk[c] \in Walks
    BY <1>0 DEF WalkType
  <2>2. walk[c].at \in DOMAIN Chain
    BY <2>1 DEF Walks
  <2>3. k \in Keys
    BY <1>0, <2>2, Chains
  <2>4. brk' = [brk EXCEPT ![k] = Recorded(brk[k], o)]
    BY <1>3 DEF Return
  <2> HIDE DEF k
  <2>5. Recorded(brk[k], o) \in Route
    BY <1>0, <2>3, RecordedType DEF BrkType
  <2>6. brk' \in [Keys -> Route]
    BY <1>0, <2>4, <2>5 DEF BrkType
  <2> QED BY <2>6 DEF BrkType, Keys, Kinds, Route
<1>4. CASE TurnComplete
  <2> DEFINE k == strike[2]
  <2>1. k \in Keys
    BY <1>0, <1>4 DEF TurnComplete, EngineType
  <2>2. brk' = [brk EXCEPT ![k] = ReleaseHang(brk[k])]
    BY <1>4 DEF TurnComplete, Release
  <2> HIDE DEF k
  <2>3. brk[k] \in Route
    BY <1>0, <2>1 DEF BrkType
  <2>4. ReleaseHang(brk[k]) \in Route
    <3>1. 0 \in 0..Cooldown
      BY Numbers
    <3> QED BY <2>3, <3>1 DEF ReleaseHang, Route
  <2>5. brk' \in [Keys -> Route]
    BY <1>0, <2>2, <2>4 DEF BrkType
  <2> QED BY <2>5 DEF BrkType, Keys, Kinds, Route
<1>5. CASE Tick
  <2>1. ASSUME NEW k \in Keys PROVE [brk[k] EXCEPT !.open = Elapsed(@)] \in Route
    <3>1. brk[k] \in Route
      BY <1>0 DEF BrkType
    <3>2. brk[k].open \in 0..Cooldown
      BY <3>1 DEF Route
    <3>3. Elapsed(brk[k].open) \in 0..Cooldown
      BY <3>2, ElapsedType, Numbers
    <3> QED BY <3>1, <3>3 DEF Route
  <2>2. brk' \in [Keys -> Route]
    BY <1>5, <2>1 DEF Tick
  <2> QED BY <2>2 DEF BrkType, Keys, Kinds, Route
<1>6. ASSUME NEW v \in Conversations, Rebind(v) PROVE BrkType'
  BY <1>1, <1>6 DEF Rebind
<1>7. CASE Heal \/ UNCHANGED vars
  BY <1>1, <1>7 DEF Heal, vars
<1> QED BY <1>2, <1>3, <1>4, <1>5, <1>6, <1>7 DEF Next

(* The walks. *)
LEMMA IdleType == ASSUME setup \in Setups PROVE Idle \in Walks
  BY Chains, Numbers DEF Idle, Walks

LEMMA NextRouteType ==
    ASSUME setup \in Setups, NEW w \in Walks
    PROVE  NextLevel(w) \in Walks /\ NextRoute(w) \in Walks
<1>1. 1 \in DOMAIN Chain /\ DOMAIN Chain = 1..Len(Chain) /\ Len(Chain) \in Nat
  BY Chains
<1>2. w.at \in DOMAIN Chain
  BY DEF Walks
<1>3. NextLevel(w) \in Walks
  <2>0. 1 \in DOMAIN Chain /\ 2 \in 1..2
    BY <1>1
  <2>1. [w EXCEPT !.pc = "check", !.level = 2, !.at = 1] \in Walks
    BY <2>0 DEF Walks
  <2>2. [w EXCEPT !.pc = "level3"] \in Walks
    BY DEF Walks
  <2> QED BY <2>1, <2>2 DEF NextLevel
<1>4. ASSUME w.at < Len(Chain) PROVE [w EXCEPT !.pc = "check", !.at = @ + 1] \in Walks
  <2> DEFINE n == w.at + 1
  <2>1. n \in DOMAIN Chain
    BY <1>1, <1>2, <1>4
  <2> HIDE DEF n
  <2>2. [w EXCEPT !.pc = "check", !.at = n] \in Walks
    BY <2>1 DEF Walks
  <2> QED BY <2>2 DEF n
<1> QED BY <1>3, <1>4 DEF NextRoute

LEMMA AfterLeafType ==
    ASSUME setup \in Setups, NEW w \in Walks
    PROVE  AfterLeaf(w) \subseteq Walks
<1>1. Idle \in Walks
  BY IdleType
<1>2. [Idle EXCEPT !.pc = "check", !.slot = w.slot, !.forced = w.forced, !.stored = TRUE] \in Walks
  BY <1>1 DEF Walks
<1> QED BY <1>1, <1>2 DEF AfterLeaf

LEMMA PutType ==
    ASSUME WalkType, setup' = setup, NEW c, NEW w \in Walks, Put(c, w)
    PROVE  WalkType'
<1>1. walk' \in [Callers -> Walks]
  BY DEF Put, WalkType
<1>2. Walks' = Walks
  BY DEF Walks, Chain
<1> QED BY <1>1, <1>2 DEF WalkType, Callers

LEMMA WalkStays == ASSUME WalkType, setup' = setup, walk' = walk PROVE WalkType'
  BY DEF WalkType, Walks, Chain, Callers

LEMMA WalkStep == ASSUME TypeOK, [Next]_vars PROVE WalkType'
<1>0. WalkType /\ setup \in Setups /\ setup' = setup
  BY TypeParts, SetupStays
<1>00. Idle \in Walks
  BY <1>0, IdleType
<1>1. ASSUME NEW c \in Callers PROVE walk[c] \in Walks
  BY <1>0 DEF WalkType
<1>2. ASSUME NEW c \in Callers, NEW forced \in BOOLEAN, BeginPass(c, forced) PROVE WalkType'
  <2>1. [Idle EXCEPT !.pc = "check", !.forced = forced] \in Walks
    BY <1>00 DEF Walks
  <2> QED BY <1>0, <1>2, <2>1, PutType DEF BeginPass
<1>3. ASSUME NEW c \in Callers, BeginBackground(c) PROVE WalkType'
  <2>1. [Idle EXCEPT !.pc = "check"] \in Walks
    BY <1>00 DEF Walks
  <2> QED BY <1>0, <1>3, <2>1, PutType DEF BeginBackground
<1>4. ASSUME NEW c \in Callers, CheckRoute(c) PROVE WalkType'
  <2>1. [walk[c] EXCEPT !.pc = "spend"] \in Walks
    BY <1>1 DEF Walks
  <2>2. NextRoute(walk[c]) \in Walks
    BY <1>0, <1>1, NextRouteType
  <2> QED BY <1>0, <1>4, <2>1, <2>2, PutType DEF CheckRoute
<1>5. ASSUME NEW c \in Callers, BudgetStop(c) PROVE WalkType'
  BY <1>0, <1>00, <1>5, PutType DEF BudgetStop, OutOfTime
<1>6. ASSUME NEW c \in Callers, Spend(c) PROVE WalkType'
  <2>1. [walk[c] EXCEPT !.pc = "call"] \in Walks
    BY <1>1 DEF Walks
  <2>2. [walk[c] EXCEPT !.pc = "call", !.slot = c \in Foreground] \in Walks
    <3>1. [walk[c] EXCEPT !.pc = "call", !.slot = TRUE] \in Walks
      BY <1>1 DEF Walks
    <3>2. [walk[c] EXCEPT !.pc = "call", !.slot = FALSE] \in Walks
      BY <1>1 DEF Walks
    <3>3. CASE c \in Foreground
      <4>1. (c \in Foreground) = TRUE
        BY <3>3
      <4> QED BY <3>1, <4>1, Zenon
    <3>4. CASE c \notin Foreground
      <4>1. (c \in Foreground) = FALSE
        BY <3>4
      <4> QED BY <3>2, <4>1, Zenon
    <3> QED BY <3>3, <3>4
  <2>3. NextLevel(walk[c]) \in Walks
    BY <1>0, <1>1, NextRouteType
  <2>4. \E w \in Walks : Put(c, w)
    BY <1>6, <2>1, <2>2, <2>3 DEF Spend
  <2> QED BY <1>0, <2>4, PutType
<1>7. ASSUME NEW c \in Callers, NEW o \in setup.outcomes, Return(c, o) PROVE WalkType'
  <2> DEFINE k == Key(c, walk[c].at)
             b == [brk EXCEPT ![k] = Recorded(@, o)]
  <2>1. Answered(c) \/ Put(c, Idle) \/ Useless(c, o)
    <3> HIDE DEF k, b
    <3>1. Answered(c) \/ Put(c, Idle) \/ OutOfTime(c) \/ Useless(c, o)
      BY <1>7 DEF Return
    <3> QED BY <3>1 DEF OutOfTime
  <2>2. CASE Answered(c)
    <3>1. Put(c, Idle) \/ \E w \in AfterLeaf(walk[c]) : Put(c, w)
      BY <2>2 DEF Answered
    <3>2. \E w \in Walks : Put(c, w)
      BY <1>0, <1>00, <1>1, <3>1, AfterLeafType
    <3> QED BY <1>0, <3>2, PutType
  <2>3. CASE Useless(c, o)
    <3> DEFINE w == NextRoute(walk[c])
    <3>1. w \in Walks
      BY <1>0, <1>1, NextRouteType
    <3>2. Put(c, [w EXCEPT !.seen = w.seen \cup ({o} \cap {"filter", "size"})])
      BY <2>3 DEF Useless
    <3> HIDE DEF w
    <3>3. [w EXCEPT !.seen = w.seen \cup ({o} \cap {"filter", "size"})] \in Walks
      BY <3>1 DEF Walks
    <3> QED BY <1>0, <3>2, <3>3, PutType
  <2> QED BY <1>0, <1>00, <2>1, <2>2, <2>3, PutType
<1>8. ASSUME NEW c \in Callers, LevelThree(c) PROVE WalkType'
  <2> DEFINE w == walk[c]
             again == [w EXCEPT !.pc = "check", !.level = 1, !.at = 1, !.seen = {}, !.tries = @ + 1]
  <2>1. \/ Put(c, Idle) \/ \E v \in AfterLeaf(w) : Put(c, v)
        \/ w.tries < Attempts /\ Put(c, again)
    BY <1>8 DEF LevelThree
  <2>2. ASSUME w.tries < Attempts PROVE again \in Walks
    <3> DEFINE n == w.tries + 1
    <3>1. n \in 1..Attempts /\ 1 \in DOMAIN Chain
      <4>1. w.tries \in 1..Attempts
        BY <1>1 DEF Walks
      <4> QED BY <1>0, <2>2, <4>1, Chains, Numbers
    <3> HIDE DEF n
    <3>2. 1 \in 1..2 /\ w \in Walks
      BY <1>1
    <3> HIDE DEF w
    <3>3. [w EXCEPT !.pc = "check", !.level = 1, !.at = 1, !.seen = {}, !.tries = n] \in Walks
      BY <3>1, <3>2 DEF Walks
    <3> QED BY <3>3 DEF n
  <2>3. w \in Walks
    BY <1>1
  <2> HIDE DEF w, again
  <2>4. \E v \in Walks : Put(c, v)
    BY <1>0, <1>00, <2>1, <2>2, <2>3, AfterLeafType
  <2> QED BY <1>0, <2>4, PutType
<1>9. ASSUME walk' = walk PROVE WalkType'
  BY <1>0, <1>9, WalkStays
<1>10. ASSUME NEW c \in Callers, NoCallPass(c) PROVE WalkType'
  BY <1>9, <1>10 DEF NoCallPass
<1>11. ASSUME NEW v \in Conversations, Rebind(v) PROVE WalkType'
  BY <1>9, <1>11 DEF Rebind
<1>12. CASE TurnComplete \/ Tick \/ Heal \/ UNCHANGED vars
  BY <1>9, <1>12 DEF TurnComplete, Tick, Heal, vars
<1> QED BY <1>2, <1>3, <1>4, <1>5, <1>6, <1>7, <1>8, <1>10, <1>11, <1>12 DEF Next

(* The hold, the strike and the releases. *)
LEMMA StartHoldType ==
    ASSUME EngineType, NEW s \in 0..HoldSeconds, NEW p \in BOOLEAN, StartHold(s, p)
    PROVE  hold' \in [left: 0..HoldSeconds, conv: Conversations, paced: BOOLEAN]
  BY DEF StartHold, EngineType

LEMMA ReleasedHold ==
    ASSUME EngineType, hold' = [hold EXCEPT !.left = 0, !.paced = FALSE]
    PROVE  hold' \in [left: 0..HoldSeconds, conv: Conversations, paced: BOOLEAN]
<1>1. 0 \in 0..HoldSeconds
  BY Numbers
<1> QED BY <1>1 DEF EngineType

LEMMA OutOfTimeType ==
    ASSUME EngineType, NEW c, OutOfTime(c), conv' = conv, calm' = calm
    PROVE  EngineType'
<1>1. HoldSeconds \in 0..HoldSeconds
  BY Numbers
<1>2. CASE UNCHANGED hold
  BY <1>2 DEF OutOfTime, EngineType, Keys, Kinds
<1>3. CASE StartHold(HoldSeconds, FALSE)
  <2>1. hold' \in [left: 0..HoldSeconds, conv: Conversations, paced: BOOLEAN]
    BY <1>1, <1>3, StartHoldType
  <2> QED BY <2>1 DEF OutOfTime, EngineType, Keys, Kinds
<1> QED BY <1>2, <1>3 DEF OutOfTime

LEMMA LeafStoredType ==
    ASSUME EngineType, LeafStored, conv' = conv, calm' = calm
    PROVE  EngineType'
<1>1. hold' \in [left: 0..HoldSeconds, conv: Conversations, paced: BOOLEAN]
  BY ReleasedHold DEF LeafStored
<1> QED BY <1>1 DEF LeafStored, EngineType, Keys, Kinds

LEMMA SettleHangType ==
    ASSUME EngineType, NEW k \in Keys, NEW b, NEW forced \in BOOLEAN, SettleHang(k, b, forced),
           conv' = conv, calm' = calm
    PROVE  EngineType'
<1>1. strike' \in {NoStrike} \cup (Conversations \X Keys)
  BY DEF SettleHang, EngineType
<1>2. HoldSeconds \in 0..HoldSeconds /\ FirstHang \in BOOLEAN
  BY Numbers DEF FirstHang
<1>3. hold' \in [left: 0..HoldSeconds, conv: Conversations, paced: BOOLEAN]
  <2>1. CASE hold' = [hold EXCEPT !.paced = hold.paced /\ FirstHang]
    BY <2>1 DEF EngineType
  <2>2. CASE StartHold(HoldSeconds, FirstHang)
    BY <1>2, <2>2, StartHoldType
  <2> QED BY <2>1, <2>2 DEF SettleHang
<1>4. released' = released
  BY DEF SettleHang
<1> QED BY <1>1, <1>3, <1>4 DEF EngineType, Keys, Kinds

(* A refused pass holds for a number of seconds. *)
LEMMA SecondsType ==
    ASSUME BrkType, setup \in Setups
    PROVE  SecondsUntilAllowed \in Nat
<1> DEFINE S == {brk[<<"live", r>>].open : r \in Configured}
<1>1. Configured # {} /\ Configured \subseteq Routes
  BY Chains
<1>2. ASSUME NEW r \in Configured PROVE brk[<<"live", r>>].open \in Nat
  <2>1. <<"live", r>> \in Keys
    BY <1>1 DEF Keys, Kinds
  <2>2. brk[<<"live", r>>] \in Route
    BY <2>1 DEF BrkType
  <2>3. brk[<<"live", r>>].open \in 0..Cooldown
    BY <2>2 DEF Route
  <2> QED BY <2>3, Numbers
<1>3. S \in SUBSET Nat /\ S # {}
  BY <1>1, <1>2
<1> HIDE DEF S
<1>4. \E n \in S : \A m \in S : n <= m
  BY <1>3, LeastNat
<1>5. Min(S) \in S
  BY <1>4 DEF Min
<1> QED BY <1>3, <1>5 DEF SecondsUntilAllowed, S

LEMMA SettleRefusedType ==
    ASSUME TypeOK, SettleRefused, conv' = conv, calm' = calm
    PROVE  EngineType'
<1> DEFINE n == SecondsUntilAllowed
           m == Max({1, n})
           s == Min({HoldSeconds, m})
<1>0. EngineType /\ BrkType /\ setup \in Setups
  BY TypeParts
<1>1. n \in Nat
  BY <1>0, SecondsType
<1>2. m \in Nat
  BY <1>1, MinOfTwo
<1>3. s \in 0..HoldSeconds
  <2> HIDE DEF m
  <2>1. s \in {HoldSeconds, m} /\ s <= HoldSeconds
    BY <1>2, MinOfTwo, Numbers
  <2> HIDE DEF s
  <2> QED BY <1>2, <2>1, Numbers
<1> DEFINE p == /\ hold.paced /\ HoldActive
                /\ strike # NoStrike /\ strike[1] = conv
<1>4. p \in BOOLEAN
  OBVIOUS
<1>5. StartHold(s, p) /\ strike' = strike /\ released' = released
  BY DEF SettleRefused
<1> HIDE DEF s, p
<1>6. hold' \in [left: 0..HoldSeconds, conv: Conversations, paced: BOOLEAN]
  BY <1>0, <1>3, <1>4, <1>5, StartHoldType
<1> QED BY <1>0, <1>5, <1>6 DEF EngineType, Keys, Kinds

LEMMA EngineStep == ASSUME TypeOK, [Next]_vars PROVE EngineType'
<1>0. EngineType /\ WalkType /\ setup \in Setups
  BY TypeParts
<1>1. CASE UNCHANGED <<engineState, calm>>
  BY <1>0, <1>1 DEF engineState, EngineType, Keys, Kinds
<1>2. ASSUME NEW c \in Callers,
             \/ \E forced \in BOOLEAN : BeginPass(c, forced)
             \/ BeginBackground(c) \/ CheckRoute(c) \/ Spend(c)
      PROVE  EngineType'
  BY <1>1, <1>2 DEF BeginPass, BeginBackground, CheckRoute, Spend, world
<1>3. ASSUME NEW c \in Callers, NoCallPass(c) PROVE EngineType'
  <2>1. conv' = conv /\ calm' = calm /\ (LeafStored \/ SettleRefused)
    BY <1>3 DEF NoCallPass, world
  <2> QED BY <1>0, <2>1, LeafStoredType, SettleRefusedType
<1>4. ASSUME NEW c \in Callers, BudgetStop(c) PROVE EngineType'
  BY <1>0, <1>4, OutOfTimeType DEF BudgetStop, world
<1>5. ASSUME NEW c \in Callers, NEW o \in setup.outcomes, Return(c, o) PROVE EngineType'
  <2> DEFINE k == Key(c, walk[c].at)
             b == [brk EXCEPT ![k] = Recorded(@, o)]
  <2>0. walk[c] \in Walks
    BY <1>0 DEF WalkType
  <2>1. walk[c].at \in DOMAIN Chain /\ walk[c].forced \in BOOLEAN
    BY <2>0 DEF Walks
  <2>2. k \in Keys
    BY <1>0, <2>1, Chains
  <2>3. Answered(c) \/ SettleHang(k, b, walk[c].forced) \/ OutOfTime(c) \/ Useless(c, o)
    BY <1>5 DEF Return
  <2>4. conv' = conv /\ calm' = calm
    BY <1>5 DEF Return, world
  <2> HIDE DEF k, b
  <2>5. CASE UNCHANGED <<hold, strike, released>>
    BY <1>1, <2>4, <2>5 DEF engineState
  <2>6. CASE Answered(c)
    BY <1>0, <2>4, <2>5, <2>6, LeafStoredType DEF Answered
  <2>7. CASE SettleHang(k, b, walk[c].forced)
    BY <1>0, <2>1, <2>2, <2>4, <2>7, SettleHangType
  <2>8. CASE OutOfTime(c)
    BY <1>0, <2>4, <2>8, OutOfTimeType
  <2>9. CASE Useless(c, o)
    BY <2>5, <2>9 DEF Useless
  <2> QED BY <2>3, <2>6, <2>7, <2>8, <2>9
<1>6. ASSUME NEW c \in Callers, LevelThree(c) PROVE EngineType'
  <2>1. /\ conv' = conv /\ calm' = calm
        /\ LeafStored \/ (hold' = hold /\ strike' = strike /\ released' = released)
    BY <1>6 DEF LevelThree, world
  <2> QED BY <1>0, <1>1, <2>1, LeafStoredType DEF engineState
<1>7. CASE TurnComplete
  <2>1. hold' \in [left: 0..HoldSeconds, conv: Conversations, paced: BOOLEAN]
    BY <1>0, <1>7, ReleasedHold DEF TurnComplete, Release
  <2>2. released' \in 0..2
    <3> DEFINE n == released + 1
    <3>1. n \in Nat
      BY <1>0 DEF EngineType
    <3>2. released' = Min({2, n})
      BY <1>7 DEF TurnComplete
    <3> HIDE DEF n
    <3>3. released' \in {2, n} /\ released' <= 2
      BY <3>1, <3>2, MinOfTwo
    <3> QED BY <3>1, <3>3
  <2>3. conv' = conv /\ calm' = calm /\ strike' = strike
    BY <1>7 DEF TurnComplete, Release, world
  <2> QED BY <1>0, <2>1, <2>2, <2>3 DEF EngineType, Keys, Kinds
<1>8. ASSUME NEW v \in Conversations, Rebind(v) PROVE EngineType'
  <2>1. 0 \in 0..HoldSeconds
    BY Numbers
  <2>2. hold' \in [left: 0..HoldSeconds, conv: Conversations, paced: BOOLEAN]
    <3>1. CASE hold' = [left |-> 0, conv |-> v, paced |-> FALSE]
      BY <2>1, <3>1
    <3>2. CASE hold' = hold
      BY <1>0, <3>2 DEF EngineType
    <3> QED BY <1>8, <3>1, <3>2 DEF Rebind
  <2>3. conv' = v /\ strike' = NoStrike /\ released' = 0 /\ calm' = calm
    BY <1>8 DEF Rebind, world
  <2> QED BY <1>0, <2>2, <2>3 DEF EngineType
<1>9. CASE Tick
  <2>1. Elapsed(hold.left) \in 0..HoldSeconds
    BY <1>0, ElapsedType, Numbers DEF EngineType
  <2>2. hold' = [hold EXCEPT !.left = Elapsed(hold.left)]
    BY <1>9 DEF Tick
  <2>3. hold' \in [left: 0..HoldSeconds, conv: Conversations, paced: BOOLEAN]
    BY <1>0, <2>1, <2>2 DEF EngineType
  <2>4. conv' = conv /\ calm' = calm /\ strike' = strike /\ released' = released
    BY <1>9 DEF Tick, world
  <2> QED BY <1>0, <2>3, <2>4 DEF EngineType, Keys, Kinds
<1>10. CASE Heal
  BY <1>0, <1>10 DEF Heal, engineState, EngineType, Keys, Kinds
<1>11. CASE UNCHANGED vars
  BY <1>1, <1>11 DEF vars, engineState
<1> QED BY <1>2, <1>3, <1>4, <1>5, <1>6, <1>7, <1>8, <1>9, <1>10, <1>11 DEF Next

(* The spend guard. *)
Guards == [ages: [Ages -> 0..MaxCalls], left: 0..Backoff]

LEMMA AgesFinite == IsFiniteSet(Ages) /\ 0 \in Ages
  BY Numbers, FS_Interval DEF Ages

LEMMA GuardFields ==
    ASSUME NEW g \in Guards
    PROVE  g.ages \in [Ages -> 0..MaxCalls] /\ g.ages \in [Ages -> Nat] /\ g.left \in 0..Backoff
<1>1. g.ages \in [Ages -> 0..MaxCalls] /\ g.left \in 0..Backoff
  BY DEF Guards
<1>2. 0..MaxCalls \subseteq Nat
  BY Numbers
<1> QED BY <1>1, <1>2

LEMMA ReserveType == ASSUME NEW g \in Guards PROVE Reserve(g) \in Guards
<1> DEFINE n == g.ages[0] + 1
           calls == [g.ages EXCEPT ![0] = n]
           none == [a \in Ages |-> 0]
<1>0. 0 \in Ages /\ IsFiniteSet(Ages) /\ MaxCalls \in Nat /\ Backoff \in Nat
  BY AgesFinite, Numbers
<1>1. g.ages \in [Ages -> Nat] /\ n \in Nat
  BY <1>0, GuardFields
<1> HIDE DEF n
<1>2. calls \in [Ages -> Nat]
  BY <1>0, <1>1
<1>3. none \in [Ages -> 0..MaxCalls] /\ Backoff \in 0..Backoff
  BY <1>0
<1>4. [ages |-> none, left |-> Backoff] \in Guards
  <2> HIDE DEF none
  <2> QED BY <1>3 DEF Guards
<1> HIDE DEF calls
<1>5. ASSUME ~(SumFunction(calls) >= MaxCalls) PROVE [g EXCEPT !.ages = calls] \in Guards
  <2>1. SumFunction(calls) \in Nat
    BY <1>0, <1>2, SumType
  <2>2. ASSUME NEW a \in Ages PROVE calls[a] \in 0..MaxCalls
    <3>1. calls[a] <= SumFunction(calls) /\ calls[a] \in Nat
      BY <1>0, <1>2, SumBoundsEach
    <3> HIDE DEF calls
    <3> QED BY <1>0, <1>5, <2>1, <3>1
  <2>3. calls \in [Ages -> 0..MaxCalls]
    BY <1>2, <2>2
  <2> QED BY <2>3 DEF Guards
<1> QED BY <1>4, <1>5 DEF Reserve, calls, n

LEMMA OlderType ==
    ASSUME NEW S, NEW f \in [Ages -> S], 0 \in S
    PROVE  /\ Older(f) \in [Ages -> S] /\ Older(f)[0] = 0
           /\ \A a \in Ages : a # 0 => a - 1 \in Ages /\ Older(f)[a] = f[a - 1]
<1>0. 0 \in Ages
  BY AgesFinite
<1>1. \A a \in Ages : a # 0 => a - 1 \in Ages
  BY Numbers DEF Ages
<1>2. \A a \in Ages : (IF a = 0 THEN 0 ELSE f[a - 1]) \in S
  BY <1>1
<1>3. Older(f) \in [Ages -> S]
  BY <1>2 DEF Older
<1>4. Older(f)[0] = 0 /\ \A a \in Ages : a # 0 => Older(f)[a] = f[a - 1]
  BY <1>0 DEF Older
<1> QED BY <1>1, <1>3, <1>4

(* The guard in the steps that change it. *)
LEMMA GuardStep == ASSUME TypeOK, [Next]_vars PROVE GuardType'
<1>0. guard \in [Kinds -> Guards] /\ granted \in [Kinds -> [Ages -> Nat]]
  BY TypeParts DEF GuardType, Guards
<1>00. GuardType' <=> guard' \in [Kinds -> Guards] /\ granted' \in [Kinds -> [Ages -> Nat]]
  BY DEF GuardType, Guards, Kinds, Ages
<1>1. CASE UNCHANGED <<guard, granted>>
  BY <1>0, <1>00, <1>1
<1>2. ASSUME NEW c \in Callers,
             \/ \E forced \in BOOLEAN : BeginPass(c, forced)
             \/ NoCallPass(c) \/ BeginBackground(c) \/ CheckRoute(c) \/ BudgetStop(c)
             \/ LevelThree(c)
      PROVE  GuardType'
  BY <1>1, <1>2 DEF BeginPass, NoCallPass, BeginBackground, CheckRoute, BudgetStop, LevelThree
<1>3. ASSUME NEW c \in Callers, NEW o \in setup.outcomes, Return(c, o) PROVE GuardType'
  BY <1>1, <1>3 DEF Return
<1>4. ASSUME NEW c \in Callers, Spend(c) PROVE GuardType'
  <2> DEFINE kind == Kind(c)
  <2>1. kind \in Kinds
    BY DEF Kind, Kinds
  <2>2. guard[kind] \in Guards
    BY <1>0, <2>1
  <2>3. Reserve(guard[kind]) \in Guards
    BY <2>2, ReserveType
  <2>4. \/ UNCHANGED <<guard, granted>>
        \/ /\ guard' = [guard EXCEPT ![kind] = Reserve(guard[kind])]
           /\ granted' = [granted EXCEPT ![kind][0] = granted[kind][0] + 1]
        \/ /\ guard' = [guard EXCEPT ![kind] = guard[kind]]
           /\ granted' = granted
    BY <1>4 DEF Spend, Refuse
  <2> HIDE DEF kind
  <2>5. guard' \in [Kinds -> Guards]
    BY <1>0, <2>2, <2>3, <2>4
  <2>6. granted' \in [Kinds -> [Ages -> Nat]]
    <3>1. [granted EXCEPT ![kind][0] = granted[kind][0] + 1] \in [Kinds -> [Ages -> Nat]]
      BY <1>0, <2>1, AgesFinite
    <3> QED BY <1>0, <2>4, <3>1
  <2> QED BY <1>00, <2>5, <2>6
<1>5. CASE Tick
  <2>1. ASSUME NEW k \in Kinds
        PROVE  [ages |-> Older(guard[k].ages), left |-> Elapsed(guard[k].left)] \in Guards
    <3>1. guard[k] \in Guards
      BY <1>0
    <3>2. guard[k].ages \in [Ages -> 0..MaxCalls] /\ guard[k].left \in 0..Backoff /\ 0 \in 0..MaxCalls
      BY <3>1, GuardFields, Numbers
    <3>3. Older(guard[k].ages) \in [Ages -> 0..MaxCalls]
      BY <3>2, OlderType
    <3>4. Elapsed(guard[k].left) \in 0..Backoff
      BY <3>2, ElapsedType, Numbers
    <3> QED BY <3>3, <3>4 DEF Guards
  <2>2. guard' \in [Kinds -> Guards]
    BY <1>5, <2>1 DEF Tick
  <2>3. ASSUME NEW k \in Kinds PROVE Older(granted[k]) \in [Ages -> Nat]
    BY <1>0, OlderType
  <2>4. granted' \in [Kinds -> [Ages -> Nat]]
    BY <1>5, <2>3 DEF Tick
  <2> QED BY <1>00, <2>2, <2>4
<1>6. ASSUME NEW v \in Conversations, Rebind(v) PROVE GuardType'
  BY <1>1, <1>6 DEF Rebind
<1>7. CASE TurnComplete \/ Heal \/ UNCHANGED vars
  BY <1>1, <1>7 DEF TurnComplete, Heal, vars
<1> QED BY <1>2, <1>3, <1>4, <1>5, <1>6, <1>7 DEF Next

(* Every component of the state keeps its type: the counters stay below     *)
(* their thresholds, the calls of the guard below max_calls and every time  *)
(* left between zero and its setting.                                      *)
THEOREM TypeCorrect == Spec => []TypeOK
<1>1. Init => TypeOK
  <2> SUFFICES ASSUME Init PROVE TypeOK
    OBVIOUS
  <2>0. /\ 0 \in 0..FailureThreshold /\ 0 \in 0..RejectionThreshold /\ 0 \in 0..Cooldown
        /\ 0 \in 0..MaxCalls /\ 0 \in 0..Backoff /\ 0 \in 0..HoldSeconds /\ 0 \in 0..2 /\ 0 \in Nat
    BY Numbers
  <2>1. setup \in Setups
    BY DEF Init
  <2>2. BrkType
    BY <2>0 DEF Init, BrkType, Route
  <2>3. GuardType
    BY <2>0 DEF Init, GuardType
  <2>4. WalkType
    BY <2>1, IdleType DEF Init, WalkType
  <2>5. EngineType
    BY <2>0 DEF Init, EngineType
  <2> QED BY <2>1, <2>2, <2>3, <2>4, <2>5, TypeParts
<1>2. TypeOK /\ [Next]_vars => TypeOK'
  <2> SUFFICES ASSUME TypeOK, [Next]_vars PROVE TypeOK'
    OBVIOUS
  <2>1. setup' \in Setups
    BY TypeParts, SetupStays
  <2> QED BY <2>1, BrkStep, GuardStep, WalkStep, EngineStep, TypePartsNext
<1> QED BY <1>1, <1>2, PTL DEF Spec

-----------------------------------------------------------------------------
(* One release per strike                                                  *)

LEMMA SpentAfterLeaf == LeafStored => Spent'
  BY DEF LeafStored, Spent

LEMMA SpentAfterHang ==
    ASSUME TypeOK, Spent, NEW k, NEW b, NEW forced, SettleHang(k, b, forced), conv' = conv
    PROVE  Spent'
<1>1. CASE FirstHang
  BY <1>1 DEF FirstHang, SettleHang, Spent
<1>2. CASE ~FirstHang
  <2>1. strike' = strike /\ released' = released
    BY <1>2 DEF SettleHang
  <2>2. CASE hold' = [hold EXCEPT !.paced = hold.paced /\ FirstHang]
    BY <1>2, <2>1, <2>2 DEF TypeOK, Spent
  <2>3. CASE StartHold(HoldSeconds, FirstHang)
    BY <1>2, <2>1, <2>3 DEF StartHold, Spent
  <2> QED BY <2>2, <2>3 DEF SettleHang
<1> QED BY <1>1, <1>2

LEMMA SpentOutOfTime ==
    ASSUME Spent, NEW c, OutOfTime(c), conv' = conv
    PROVE  Spent'
  BY DEF OutOfTime, StartHold, Spent

LEMMA SpentStep == ASSUME TypeOK, Spent, [Next]_vars PROVE Spent'
<1>1. CASE UNCHANGED engineState
  BY <1>1 DEF engineState, Spent
<1>2. ASSUME NEW c \in Callers,
             \/ \E forced \in BOOLEAN : BeginPass(c, forced)
             \/ BeginBackground(c) \/ CheckRoute(c) \/ Spend(c)
      PROVE  Spent'
  BY <1>1, <1>2 DEF BeginPass, BeginBackground, CheckRoute, Spend
<1>3. ASSUME NEW c \in Callers, NoCallPass(c) PROVE Spent'
  <2>1. CASE SettleRefused
    BY <1>3, <2>1 DEF NoCallPass, SettleRefused, StartHold, Spent
  <2> QED BY <1>3, <2>1, SpentAfterLeaf DEF NoCallPass
<1>4. ASSUME NEW c \in Callers, BudgetStop(c) PROVE Spent'
  BY <1>4, SpentOutOfTime DEF BudgetStop
<1>5. ASSUME NEW c \in Callers, NEW o \in setup.outcomes, Return(c, o) PROVE Spent'
  <2> DEFINE k == Key(c, walk[c].at)
             b == [brk EXCEPT ![k] = Recorded(@, o)]
  <2>0. conv' = conv
    BY <1>5 DEF Return
  <2> HIDE DEF k, b
  <2>1. CASE UNCHANGED <<hold, strike, released>>
    BY <2>0, <2>1 DEF Spent
  <2>2. CASE Answered(c)
    BY <2>1, <2>2, SpentAfterLeaf DEF Answered
  <2>3. CASE SettleHang(k, b, walk[c].forced)
    BY <2>0, <2>3, SpentAfterHang
  <2>4. CASE OutOfTime(c)
    BY <2>0, <2>4, SpentOutOfTime
  <2>5. CASE Useless(c, o)
    BY <2>1, <2>5 DEF Useless
  <2>6. Answered(c) \/ SettleHang(k, b, walk[c].forced) \/ OutOfTime(c) \/ Useless(c, o)
    BY <1>5 DEF Return, k, b
  <2> QED BY <2>2, <2>3, <2>4, <2>5, <2>6
<1>6. ASSUME NEW c \in Callers, LevelThree(c) PROVE Spent'
  <2>1. LeafStored \/ (UNCHANGED <<hold, strike, released, conv>>)
    BY <1>6 DEF LevelThree
  <2>2. CASE UNCHANGED <<hold, strike, released, conv>>
    BY <2>2 DEF Spent
  <2> QED BY <2>1, <2>2, SpentAfterLeaf
<1>7. CASE TurnComplete
  <2>1. released = 0
    BY <1>7 DEF TurnComplete, Spent
  <2>2. released' = 1
    BY <1>7, <2>1, MinOfTwo DEF TurnComplete
  <2>3. strike' # NoStrike /\ strike'[1] = conv' /\ ~hold'.paced
    BY <1>7 DEF TurnComplete, Release, TypeOK
  <2> QED BY <2>2, <2>3 DEF Spent
<1>8. ASSUME NEW v \in Conversations, Rebind(v) PROVE Spent'
  BY <1>8 DEF Rebind, Spent
<1>9. CASE Tick
  BY <1>9 DEF Tick, Spent
<1>10. CASE Heal
  BY <1>1, <1>10 DEF Heal
<1>11. CASE UNCHANGED vars
  BY <1>1, <1>11 DEF vars, engineState
<1> QED BY <1>2, <1>3, <1>4, <1>5, <1>6, <1>7, <1>8, <1>9, <1>10, <1>11 DEF Next

(* note_turn_complete releases a hang early once, until a leaf is stored or *)
(* the conversation is reset.                                              *)
THEOREM OneReleasePerStrikeHolds == Spec => []OneReleasePerStrike
<1>1. Init => Spent
  <2>1. Init => released = 0
    BY DEF Init
  <2> QED BY <2>1 DEF Spent
<1>2. TypeOK /\ Spent /\ [Next]_vars => Spent'
  BY SpentStep
<1>3. Spent => OneReleasePerStrike
  BY DEF Spent, OneReleasePerStrike
<1> QED BY <1>1, <1>2, <1>3, TypeCorrect, PTL DEF Spec

-----------------------------------------------------------------------------
(* The calls of a stretch                                                  *)

LEMMA SpanSum ==
    ASSUME NEW f \in [Ages -> Nat]
    PROVE  /\ Below(f, Span) \in Nat
           /\ Below(f, Span) <= SumFunction(f)
<1>0. /\ Window \in Nat /\ f \in [0..Window -> Nat]
      /\ Span \in 0..(Window + 1) /\ Window + 1 \in Span..(Window + 1)
  BY Numbers DEF Ages
<1>1. Below(f, Span) \in Nat
  BY <1>0, BelowType
<1>2. Below(f, Span) <= Below(f, Window + 1)
  BY <1>0, BelowMonotone
<1>3. (Window + 1) - 1 = Window
  BY <1>0
<1>4. Below(f, Window + 1) = SumFunction([x \in 0..Window |-> f[x]])
  BY <1>3 DEF Below
<1>5. [x \in 0..Window |-> f[x]] = f
  BY <1>0
<1> QED BY <1>1, <1>2, <1>4, <1>5

(* Functions that agree below Span have the same sum there. *)
LEMMA SameSpan ==
    ASSUME NEW f, NEW g, \A a \in 0..(Span - 1) : f[a] = g[a]
    PROVE  Below(f, Span) = Below(g, Span)
<1>1. [x \in 0..(Span - 1) |-> f[x]] = [x \in 0..(Span - 1) |-> g[x]]
  OBVIOUS
<1> QED BY <1>1 DEF Below

(* A unit of time passes: no call of the stretch is new. *)
LEMMA OlderSpan ==
    ASSUME NEW f \in [Ages -> Nat]
    PROVE  Below(Older(f), Span) <= Below(f, Span)
<1> DEFINE g == Older(f)
           m == Span - 1
<1>0. Window \in Nat /\ f \in [0..Window -> Nat]
  BY Numbers DEF Ages
<1>1. /\ g \in [0..Window -> Nat] /\ g[0] = 0
      /\ \A a \in 1..Window : g[a] = f[a - 1]
  <2>1. /\ g \in [Ages -> Nat] /\ g[0] = 0
        /\ \A a \in Ages : a # 0 => g[a] = f[a - 1]
    <3>1. 0 \in Nat
      OBVIOUS
    <3> QED BY <3>1, OlderType
  <2> HIDE DEF g
  <2> QED BY <1>0, <2>1 DEF Ages
<1> HIDE DEF g
<1>2. CASE Span = 0
  <2>1. Below(g, 0) = 0 /\ Below(f, 0) = 0
    BY BelowZero
  <2> QED BY <1>2, <2>1 DEF g
<1>3. CASE Span # 0
  <2>1. m \in 0..Window /\ m + 1 = Span
    BY <1>3, Numbers
  <2> HIDE DEF m
  <2>2. Below(g, m + 1) = Below(f, m)
    BY <1>0, <1>1, <2>1, BelowShift
  <2>3. Below(f, m) <= Below(f, m + 1)
    BY <1>0, <2>1, BelowGrows
  <2> QED BY <2>1, <2>2, <2>3 DEF g
<1> QED BY <1>2, <1>3

(* A call is added to the stretch. *)
LEMMA OneMoreCall ==
    ASSUME NEW f \in [Ages -> Nat]
    PROVE  LET g == [f EXCEPT ![0] = @ + 1] IN
           /\ g \in [Ages -> Nat] /\ g[0] = f[0] + 1 /\ \A a \in Ages : a # 0 => g[a] = f[a]
           /\ Below(g, Span) <= Below(f, Span) + 1
<1> DEFINE n == f[0] + 1
           g == [f EXCEPT ![0] = n]
           D == 0..(Span - 1)
           p == [x \in D |-> f[x]]
           q == [x \in D |-> g[x]]
<1>0. Window \in Nat /\ f \in [0..Window -> Nat] /\ 0 \in Ages /\ f[0] \in Nat
  BY Numbers, AgesFinite DEF Ages
<1>1. n \in Nat /\ n = f[0] + 1
  BY <1>0
<1> HIDE DEF n
<1>2. g \in [Ages -> Nat] /\ g[0] = n /\ \A a \in Ages : a # 0 => g[a] = f[a]
  BY <1>0, <1>1
<1> HIDE DEF g
<1>3. Below(g, Span) <= Below(f, Span) + 1
  <2>1. CASE Span = 0
    <3>1. Below(g, 0) = 0 /\ Below(f, 0) = 0
      BY BelowZero
    <3> QED BY <2>1, <3>1
  <2>2. CASE Span # 0
    <3>1. 0 \in D /\ D \subseteq Ages /\ IsFiniteSet(D)
      <4>1. IsFiniteSet(D)
        BY Numbers, FiniteBelow
      <4>2. 0 \in D /\ D \subseteq Ages
        BY <2>2, Numbers DEF Ages
      <4> QED BY <4>1, <4>2
    <3>2. p \in [D -> Nat] /\ p[0] = f[0]
      BY <3>1
    <3>3. q = [p EXCEPT ![0] = n]
      <4> HIDE DEF D
      <4> QED BY <1>2, <3>1
    <3> HIDE DEF p, q, D
    <3>4. SumFunction(q) = SumFunction(p) - p[0] + n
      BY <1>1, <3>1, <3>2, <3>3, SumUpdate
    <3>5. SumFunction(p) \in Nat
      BY <3>1, <3>2, SumType
    <3>6. Below(g, Span) = SumFunction(q) /\ Below(f, Span) = SumFunction(p)
      BY DEF Below, p, q, D
    <3> QED BY <1>0, <1>1, <3>2, <3>4, <3>5, <3>6
  <2> QED BY <2>1, <2>2
<1> QED BY <1>1, <1>2, <1>3 DEF g, n

(* A reserved call is counted, or starts the backoff. *)
LEMMA BoundedSpend ==
    ASSUME NEW h \in Guards, NEW f \in [Ages -> Nat], Reservable(h),
           \A a \in 0..(Span - 1) : f[a] = h.ages[a]
    PROVE  LET r == Reserve(h)
               g == [f EXCEPT ![0] = @ + 1]
           IN /\ Below(g, Span) <= MaxCalls
              /\ r.left = 0 => \A a \in 0..(Span - 1) : g[a] = r.ages[a]
              /\ r.left > 0 => /\ \A a \in Ages : r.ages[a] = 0
                               /\ \A a \in Ages : a < Backoff - r.left => g[a] = 0
<1> DEFINE r == Reserve(h)
           g == [f EXCEPT ![0] = @ + 1]
           calls == [h.ages EXCEPT ![0] = @ + 1]
<1>0. h.ages \in [Ages -> Nat] /\ h.left = 0 /\ SumFunction(h.ages) < MaxCalls
  BY GuardFields DEF Reservable
<1>1. /\ g \in [Ages -> Nat] /\ g[0] = f[0] + 1 /\ \A a \in Ages : a # 0 => g[a] = f[a]
      /\ Below(g, Span) <= Below(f, Span) + 1
  BY OneMoreCall
<1>2. /\ calls \in [Ages -> Nat] /\ calls[0] = h.ages[0] + 1
      /\ \A a \in Ages : a # 0 => calls[a] = h.ages[a]
  BY <1>0, OneMoreCall
<1>3. Below(g, Span) <= MaxCalls
  <2>1. Below(f, Span) = Below(h.ages, Span)
    BY SameSpan
  <2>2. Below(h.ages, Span) \in Nat /\ Below(h.ages, Span) <= SumFunction(h.ages)
    BY <1>0, SpanSum
  <2>3. SumFunction(h.ages) \in Nat /\ MaxCalls \in Nat
    BY <1>0, AgesFinite, SumType, Numbers
  <2>4. Below(g, Span) \in Nat
    BY <1>1, SpanSum
  <2> HIDE DEF g
  <2> QED BY <1>0, <1>1, <2>1, <2>2, <2>3, <2>4
<1>4. \A a \in 0..(Span - 1) : a \in Ages /\ 0 \in Ages
  BY Numbers DEF Ages
<1>5. \A a \in 0..(Span - 1) : g[a] = calls[a]
  <2> HIDE DEF g, calls
  <2> QED BY <1>1, <1>2, <1>4
<1> HIDE DEF g, calls
<1>6. CASE SumFunction(calls) >= MaxCalls
  <2>1. r = [ages |-> [a \in Ages |-> 0], left |-> Backoff]
    BY <1>6 DEF Reserve, calls
  <2> HIDE DEF r
  <2>2. r.left = Backoff /\ \A a \in Ages : r.ages[a] = 0
    BY <2>1
  <2>3. \A a \in Ages : ~(a < Backoff - r.left)
    BY <2>2, Numbers DEF Ages
  <2>4. r.left = 0 => \A a \in 0..(Span - 1) : FALSE
    BY <2>2, Numbers
  <2> QED BY <1>3, <2>2, <2>3, <2>4 DEF r, g
<1>7. CASE ~(SumFunction(calls) >= MaxCalls)
  <2>1. r = [h EXCEPT !.ages = calls]
    BY <1>7 DEF Reserve, calls
  <2> HIDE DEF r
  <2>2. r.left = 0 /\ r.ages = calls
    BY <1>0, <2>1 DEF Guards
  <2> QED BY <1>3, <1>5, <2>2 DEF r, g
<1> QED BY <1>6, <1>7

(* A unit of time passes. *)
LEMMA BoundedTick ==
    ASSUME TypeOK, NEW k \in Kinds, Counted(k), Below(granted[k], Span) <= MaxCalls, Tick
    PROVE  Counted(k)' /\ Below(granted[k], Span)' <= MaxCalls
<1> DEFINE h == guard[k]
           f == granted[k]
           b == Elapsed(h.left)
<1>0. h \in Guards /\ f \in [Ages -> Nat]
  BY TypeParts DEF GuardType, Guards
<1>1. h.ages \in [Ages -> Nat] /\ h.left \in 0..Backoff
  BY <1>0, GuardFields
<1>2. guard'[k] = [ages |-> Older(h.ages), left |-> b] /\ granted'[k] = Older(f)
  BY DEF Tick
<1>3. guard'[k].ages = Older(h.ages) /\ guard'[k].left = b
  BY <1>2
<1>4. Below(granted'[k], Span) <= MaxCalls
  <2>1. Below(Older(f), Span) <= Below(f, Span)
    BY <1>0, OlderSpan
  <2>2. Older(f) \in [Ages -> Nat]
    BY <1>0, OlderType
  <2>3. Below(f, Span) \in Nat /\ Below(Older(f), Span) \in Nat
    BY <1>0, <2>2, SpanSum
  <2> QED BY <1>2, <2>1, <2>3, Numbers
<1>5. /\ Older(f)[0] = 0 /\ \A a \in Ages : a # 0 => a - 1 \in Ages /\ Older(f)[a] = f[a - 1]
  <2>1. 0 \in Nat
    OBVIOUS
  <2> HIDE DEF f
  <2> QED BY <1>0, <2>1, OlderType
<1>6. /\ Older(h.ages)[0] = 0
      /\ \A a \in Ages : a # 0 => a - 1 \in Ages /\ Older(h.ages)[a] = h.ages[a - 1]
  <2> DEFINE g == h.ages
  <2>1. 0 \in Nat /\ g \in [Ages -> Nat]
    BY <1>1
  <2> HIDE DEF g
  <2>2. /\ Older(g)[0] = 0
        /\ \A a \in Ages : a # 0 => a - 1 \in Ages /\ Older(g)[a] = g[a - 1]
    BY <2>1, OlderType
  <2> QED BY <2>2 DEF g
<1>7. /\ h.left = 0 => \A a \in 0..(Span - 1) : f[a] = h.ages[a]
      /\ h.left > 0 => /\ \A a \in Ages : h.ages[a] = 0
                       /\ \A a \in Ages : a < Backoff - h.left => f[a] = 0
  BY DEF Counted
<1> HIDE DEF h, f
<1>8. CASE h.left = 0
  <2>1. b = 0
    BY <1>8 DEF Elapsed
  <2>2. ASSUME NEW a \in 0..(Span - 1) PROVE Older(f)[a] = Older(h.ages)[a]
    <3>1. a \in Ages /\ (a # 0 => a - 1 \in 0..(Span - 1))
      BY Numbers DEF Ages
    <3> QED BY <1>5, <1>6, <1>7, <1>8, <3>1
  <2> HIDE DEF b
  <2>3. guard'[k].left = 0
    BY <1>3, <2>1
  <2> QED BY <1>2, <1>3, <1>4, <2>2, <2>3 DEF Counted
<1>9. CASE h.left > 0
  <2>1. b = h.left - 1 /\ b \in Nat /\ b + 1 \in 0..Backoff
    BY <1>1, <1>9, Numbers DEF Elapsed
  <2> HIDE DEF b
  <2>2. ASSUME NEW a \in Ages PROVE Older(h.ages)[a] = 0
    BY <1>6, <1>7, <1>9
  <2>3. ASSUME NEW a \in Ages, a < Backoff - b PROVE Older(f)[a] = 0
    <3>1. a # 0 => a - 1 < Backoff - h.left
      BY <1>1, <2>1, <2>3, Numbers DEF Ages
    <3> QED BY <1>5, <1>7, <1>9, <3>1
  <2>4. ASSUME b = 0, NEW a \in 0..(Span - 1) PROVE Older(f)[a] = Older(h.ages)[a]
    <3>1. a \in Ages /\ a < Backoff - b
      BY <2>4, Numbers DEF Ages
    <3> QED BY <2>2, <2>3, <3>1
  <2> QED BY <1>2, <1>3, <1>4, <2>2, <2>3, <2>4 DEF Counted
<1> QED BY <1>1, <1>8, <1>9

LEMMA BoundedStep == ASSUME TypeOK, Bounded, [Next]_vars PROVE Bounded'
<1>1. CASE UNCHANGED <<guard, granted>>
  BY <1>1 DEF Bounded, Counted, Kinds, Ages
<1>2. ASSUME NEW c \in Callers,
             \/ \E forced \in BOOLEAN : BeginPass(c, forced)
             \/ NoCallPass(c) \/ BeginBackground(c) \/ CheckRoute(c) \/ BudgetStop(c)
             \/ LevelThree(c)
      PROVE  Bounded'
  BY <1>1, <1>2 DEF BeginPass, NoCallPass, BeginBackground, CheckRoute, BudgetStop, LevelThree
<1>3. ASSUME NEW c \in Callers, NEW o \in setup.outcomes, Return(c, o) PROVE Bounded'
  BY <1>1, <1>3 DEF Return
<1>4. ASSUME NEW c \in Callers, Spend(c) PROVE Bounded'
  <2> DEFINE kind == Kind(c)
             h == guard[kind]
             f == granted[kind]
             r == Reserve(h)
             g == [f EXCEPT ![0] = @ + 1]
  <2>0. guard \in [Kinds -> Guards] /\ granted \in [Kinds -> [Ages -> Nat]]
    BY TypeParts DEF GuardType, Guards
  <2>1. kind \in Kinds
    BY DEF Kind, Kinds
  <2>2. \/ UNCHANGED <<guard, granted>>
        \/ /\ Reservable(h)
           /\ guard' = [guard EXCEPT ![kind] = r]
           /\ granted' = [granted EXCEPT ![kind] = g]
        \/ guard' = [guard EXCEPT ![kind] = h] /\ granted' = granted
    BY <1>4 DEF Spend, Refuse
  <2>3. CASE /\ Reservable(h)
             /\ guard' = [guard EXCEPT ![kind] = r]
             /\ granted' = [granted EXCEPT ![kind] = g]
    <3>1. h \in Guards /\ f \in [Ages -> Nat]
      BY <2>0, <2>1
    <3>2. \A a \in 0..(Span - 1) : f[a] = h.ages[a]
      BY <2>1, <2>3 DEF Bounded, Counted, Reservable
    <3>3. /\ Below(g, Span) <= MaxCalls
          /\ r.left = 0 => \A a \in 0..(Span - 1) : g[a] = r.ages[a]
          /\ r.left > 0 => /\ \A a \in Ages : r.ages[a] = 0
                           /\ \A a \in Ages : a < Backoff - r.left => g[a] = 0
      <4> HIDE DEF h, f
      <4> QED BY <2>3, <3>1, <3>2, BoundedSpend
    <3>4. guard'[kind] = r /\ granted'[kind] = g
      <4> HIDE DEF r, g, kind
      <4> QED BY <2>0, <2>1, <2>3
    <3>5. \A k \in Kinds : k # kind => guard'[k] = guard[k] /\ granted'[k] = granted[k]
      <4> HIDE DEF r, g, kind
      <4> QED BY <2>0, <2>3
    <3> HIDE DEF r, g
    <3>6. ASSUME NEW k \in Kinds, k = kind
          PROVE  Counted(k)' /\ Below(granted[k], Span)' <= MaxCalls
      <4>1. guard'[k] = r /\ granted'[k] = g
        BY <3>4, <3>6
      <4> QED BY <3>3, <4>1 DEF Counted, Ages
    <3>7. ASSUME NEW k \in Kinds, k # kind
          PROVE  Counted(k)' /\ Below(granted[k], Span)' <= MaxCalls
      <4>1. guard'[k] = guard[k] /\ granted'[k] = granted[k]
        BY <3>5, <3>7
      <4>2. Counted(k) /\ Below(granted[k], Span) <= MaxCalls
        BY DEF Bounded
      <4> QED BY <4>1, <4>2 DEF Counted, Ages
    <3> QED BY <3>6, <3>7 DEF Bounded, Kinds
  <2>4. CASE guard' = [guard EXCEPT ![kind] = h] /\ granted' = granted
    <3>1. guard' = guard
      BY <2>0, <2>4
    <3> QED BY <1>1, <2>4, <3>1
  <2> QED BY <1>1, <2>2, <2>3, <2>4
<1>5. CASE Tick
  <2>1. ASSUME NEW k \in Kinds
        PROVE  Counted(k)' /\ Below(granted[k], Span)' <= MaxCalls
    BY <1>5, BoundedTick DEF Bounded
  <2> QED BY <2>1 DEF Bounded, Kinds
<1>6. ASSUME NEW v \in Conversations, Rebind(v) PROVE Bounded'
  BY <1>1, <1>6 DEF Rebind
<1>7. CASE TurnComplete \/ Heal \/ UNCHANGED vars
  BY <1>1, <1>7 DEF TurnComplete, Heal, vars
<1> QED BY <1>2, <1>3, <1>4, <1>5, <1>6, <1>7 DEF Next

(* SummarySpendGuard.try_record_call: no stretch as long as the window, or  *)
(* as the backoff if that is shorter, holds more reserved calls than        *)
(* max_calls, although a trip forgets the calls it counted.                *)
THEOREM SpendBoundedHolds == Spec => []SpendBounded
<1>1. Init => Bounded
  <2> SUFFICES ASSUME Init, NEW k \in Kinds
               PROVE  Counted(k) /\ Below(granted[k], Span) <= MaxCalls
    BY DEF Bounded
  <2>1. granted[k] = [a \in Ages |-> 0] /\ guard[k].left = 0 /\ guard[k].ages = [a \in Ages |-> 0]
    BY DEF Init
  <2>2. /\ granted[k] \in [0..Window -> Nat] /\ \A a \in 0..Window : granted[k][a] = 0
    BY <2>1 DEF Ages
  <2>3. Window \in Nat /\ Span \in 0..(Window + 1)
    BY Numbers
  <2>4. Below(granted[k], Span) = 0
    BY <2>2, <2>3, BelowOfZeros
  <2> QED BY <2>1, <2>4, Numbers DEF Counted
<1>2. TypeOK /\ Bounded /\ [Next]_vars => Bounded'
  BY BoundedStep
<1>3. Bounded => SpendBounded
  BY DEF Bounded, SpendBounded, Below
<1> QED BY <1>1, <1>2, <1>3, TypeCorrect, PTL DEF Spec

=============================================================================
