---------------------------- MODULE LifecycleRow ----------------------------
(***************************************************************************)
(* One row of lcm_lifecycle_state (lifecycle_state.py) and the statements  *)
(* that write it.  Every operator is one SQL statement or one transaction  *)
(* of LifecycleStateStore, as a function from the row before to the row    *)
(* after.  Debt and maintenance columns are left out: no statement         *)
(* modelled here reads them.                                               *)
(*                                                                         *)
(* A timestamp is a natural number; 0 is SQL NULL.  Store ids are          *)
(* positive, so a frontier of 0 is "nothing compacted yet".                *)
(***************************************************************************)
EXTENDS Integers

CONSTANTS Sessions,     \* session ids the host may use
          NULL          \* no session

ASSUME NullAssumption == NULL \notin Sessions

SessionOrNull == Sessions \cup {NULL}

LifeRow == [present     : BOOLEAN,         \* the conversation has a row
            cur         : SessionOrNull,   \* current_session_id
            frontier    : Nat,             \* current_frontier_store_id
            fin         : SessionOrNull,   \* last_finalized_session_id
            finFrontier : Nat,             \* last_finalized_frontier_store_id
            finAt       : Nat,             \* last_finalized_at
            resetAt     : Nat]             \* last_reset_at

NoRow == [present |-> FALSE, cur |-> NULL, frontier |-> 0, fin |-> NULL,
          finFrontier |-> 0, finAt |-> 0, resetAt |-> 0]

Larger(a, b) == IF a >= b THEN a ELSE b

\* last_reset_at IS NULL OR COALESCE(last_finalized_at, 0) >= last_reset_at
NotResetSince(r) == r.finAt >= r.resetAt

\* _bind_plan: a session that rebinds after its own finalize resumes the
\* frontier it was finalized at; every other bind starts at 0.
BindFrontier(r, s) ==
  IF r.cur = NULL /\ r.fin = s /\ NotResetSince(r) THEN r.finFrontier ELSE 0

\* The WHERE clause of the conditional UPDATE, or ON CONFLICT DO NOTHING when
\* the plan was an INSERT: does the write planned from `read` still apply?
BindApplies(r, read) ==
  /\ r.present = read.present
  /\ r.cur = read.cur
  /\ r.fin = read.fin
  /\ r.finFrontier = read.finFrontier
  /\ r.finAt = read.finAt
  /\ r.resetAt = read.resetAt

\* The write _bind_plan builds from the row `read`, applied to the row r.
BindWrite(r, read, s) ==
  IF read.present
  THEN [r EXCEPT !.cur = s, !.frontier = BindFrontier(read, s)]
  ELSE [NoRow EXCEPT !.present = TRUE, !.cur = s]

\* rebind_own_finalized: checked and written by one conditional UPDATE.
OwnFinalized(r, s) ==
  r.present /\ r.cur = NULL /\ r.fin = s /\ NotResetSince(r)

RebindOwn(r, s) ==
  IF OwnFinalized(r, s)
  THEN [r EXCEPT !.cur = s, !.frontier = r.finFrontier]
  ELSE r

\* finalize_session: unbinds only the session it names; MAX only over an
\* earlier finalize of the same session that no reset followed.
Finalize(r, s, f, now) ==
  IF ~r.present THEN r
  ELSE [r EXCEPT
         !.cur         = IF r.cur = s THEN NULL ELSE @,
         !.frontier    = IF r.cur = s THEN 0 ELSE @,
         !.finFrontier = IF r.fin = s /\ NotResetSince(r) THEN Larger(f, @) ELSE f,
         !.fin         = s,
         !.finAt       = now]

\* record_reset
RecordReset(r, now) == IF r.present THEN [r EXCEPT !.resetAt = now] ELSE r

\* Mutant of Advance: a plain assignment in place of MAX.
AdvanceWithoutMax(r, s, f) ==
  IF r.present /\ r.cur = s THEN [r EXCEPT !.frontier = f] ELSE r

\* advance_frontier and stage_frontier_advance: conditional on the binding,
\* monotonic by MAX.
Advance(r, s, f) ==
  IF r.present /\ r.cur = s THEN [r EXCEPT !.frontier = Larger(@, f)] ELSE r
=============================================================================
