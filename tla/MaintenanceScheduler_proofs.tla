--------------------- MODULE MaintenanceScheduler_proofs ---------------------
(***************************************************************************)
(* What TLAPS proves of MaintenanceScheduler, for any keys, owners, room   *)
(* and both instances.                                                     *)
(***************************************************************************)
EXTENDS MaintenanceScheduler, Collections_proofs

\* Engines that share a key have the same kind of provider.
SameProvider ==
  \A o, p \in Owners : KeysOf[o] \cap KeysOf[p] # {} => (o \in Local) = (p \in Local)

-----------------------------------------------------------------------------
(* The inductive invariant                                                 *)

Items(s) == {s[i] : i \in DOMAIN s}
Queued == Items(jobs) \cup Items(deferred)
            \cup (IF followUp = NULL THEN {} ELSE {followUp})

\* A key has one place in a bank.
Unique(s) == \A i, j \in DOMAIN s : s[i].key = s[j].key => i = j

\* The two banks share no key, and a delay belongs to an entry.
Banks ==
  /\ Unique(jobs) /\ Unique(deferred)
  /\ KeysIn(jobs) \cap KeysIn(deferred) = {}
  /\ waiting \subseteq KeysIn(jobs) \cup KeysIn(deferred)

\* The worker runs an entry from Take to Finish, and a follow-up is the one of
\* its key.
Worker ==
  /\ running = NULL <=> wpc \in {"off", "idle", "gone"}
  /\ wpc = "check" => running.job \in Local
  /\ followUp # NULL => running # NULL /\ followUp.key = running.key /\ ~again

\* The handoffs are the FastEmbed owners, an owner schedules keys of its own,
\* and has not been retired; a job was queued by an engine that was armed.
Registered ==
  /\ \A k \in Keys : handoffs[k] = owners[k] \cap Local
  /\ \A k \in Keys : \A o \in owners[k] : k \in KeysOf[o]
  /\ \A k \in Keys : \A o \in owners[k] \cap Local : call[o].pc \in {"live", "retire"}
  /\ \A e \in Queued : e.key \in KeysOf[e.job] /\ (e.job \in Local => call[e.job].pc # "new")
  /\ running # NULL => /\ running.key \in KeysOf[running.job]
                       /\ running.job \in Local => call[running.job].pc # "new"

\* What is queued for a live FastEmbed engine is registered as its.
LiveJobs ==
  \A e \in Queued : e.job \in Local /\ call[e.job].pc = "live"
                      => e.job \in owners[e.key]

\* What runs for a FastEmbed engine is known to the retirement of it: it is
\* among the keys the owner has, the keys its earlier retirement left running
\* or the keys its retirement waits for.
Known(o) ==
  /\ call[o].pc # "quiet"
  /\ call[o].pc = "live" => o \in owners[running.key]
  /\ call[o].pc = "retire" => o \in owners[running.key] \/ running.key \in late[o]
  /\ call[o].pc = "wait" => running.key \in call[o].keys /\ call[o].wait
  /\ call[o].pc = "left" => running.key \in late[o] \/ call[o].wait

RunsKnown ==
  /\ wpc \in {"check", "pass"} /\ running.job \in Local /\ call[running.job].pc = "live"
       => running.job \in owners[running.key]
  /\ wpc = "pass" /\ running.job \in Local => Known(running.job)

Leases == exclusive # {} => Kind = "rollup"

Inv == TypeOK /\ Banks /\ Worker /\ Registered /\ LiveJobs /\ RunsKnown
         /\ Leases /\ LeaseIsAlone /\ OwnedIsBusy

\* What is queued for a FastEmbed engine is registered as its, retired or not.
LocalJobs == \A e \in Queued : e.job \in Local => e.job \in owners[e.key]

-----------------------------------------------------------------------------
(* Banks as sequences                                                      *)

(* The entries of a bank. *)
LEMMA Elements ==
  ASSUME NEW s \in Seq(Entry)
  PROVE  /\ Len(s) \in Nat /\ DOMAIN s = 1..Len(s)
         /\ \A i \in 1..Len(s) : s[i] \in Entry /\ s[i].key \in Keys /\ s[i].job \in Owners
         /\ Items(s) \subseteq Entry
         /\ KeysIn(s) = {x.key : x \in Items(s)} /\ KeysIn(s) \subseteq Keys
<1>1. Len(s) \in Nat /\ DOMAIN s = 1..Len(s)
  OBVIOUS
<1>2. \A i \in 1..Len(s) : s[i] \in Entry
  OBVIOUS
<1>3. \A i \in 1..Len(s) : s[i].key \in Keys /\ s[i].job \in Owners
  BY <1>2 DEF Entry
<1>4. Items(s) \subseteq Entry
  BY <1>1, <1>2 DEF Items
<1>5. KeysIn(s) = {x.key : x \in Items(s)}
  BY DEF KeysIn, Items
<1>6. KeysIn(s) \subseteq Keys
  BY <1>1, <1>3 DEF KeysIn
<1> QED BY <1>1, <1>2, <1>3, <1>4, <1>5, <1>6

(* An entry is added to a bank that has none of its key. *)
LEMMA AppendBank ==
  ASSUME NEW s \in Seq(Entry), NEW e \in Entry, Unique(s), e.key \notin KeysIn(s)
  PROVE  /\ Append(s, e) \in Seq(Entry) /\ Len(Append(s, e)) = Len(s) + 1
         /\ Unique(Append(s, e))
         /\ Items(Append(s, e)) = Items(s) \cup {e}
         /\ KeysIn(Append(s, e)) = KeysIn(s) \cup {e.key}
<1> DEFINE t == Append(s, e)
<1>1. t \in Seq(Entry) /\ Len(t) = Len(s) + 1 /\ DOMAIN t = 1..(Len(s) + 1) /\ DOMAIN s = 1..Len(s)
  OBVIOUS
<1>2. Len(s) \in Nat /\ t[Len(s) + 1] = e /\ \A i \in 1..Len(s) : t[i] = s[i]
  OBVIOUS
<1> HIDE DEF t
<1>3. Items(t) = Items(s) \cup {e}
  BY <1>1, <1>2 DEF Items
<1>4. KeysIn(t) = KeysIn(s) \cup {e.key}
  BY <1>1, <1>2 DEF KeysIn
<1>5. Unique(t)
  <2> SUFFICES ASSUME NEW i \in 1..(Len(s) + 1), NEW j \in 1..(Len(s) + 1), t[i].key = t[j].key
               PROVE  i = j
    BY <1>1 DEF Unique
  <2>1. CASE i \in 1..Len(s) /\ j \in 1..Len(s)
    BY <1>1, <1>2, <2>1 DEF Unique
  <2>2. CASE i = Len(s) + 1 /\ j \in 1..Len(s)
    BY <1>1, <1>2, <2>2 DEF KeysIn
  <2>3. CASE j = Len(s) + 1 /\ i \in 1..Len(s)
    BY <1>1, <1>2, <2>3 DEF KeysIn
  <2> QED BY <1>2, <2>1, <2>2, <2>3
<1> QED BY <1>1, <1>3, <1>4, <1>5 DEF t

(* The first entry is taken from a bank. *)
LEMMA TailBank ==
  ASSUME NEW s \in Seq(Entry), s # <<>>, Unique(s)
  PROVE  /\ Tail(s) \in Seq(Entry) /\ Len(Tail(s)) = Len(s) - 1
         /\ Unique(Tail(s)) /\ Head(s) \in Entry
         /\ Items(s) = Items(Tail(s)) \cup {Head(s)}
         /\ KeysIn(Tail(s)) = KeysIn(s) \ {Head(s).key} /\ Head(s).key \in KeysIn(s)
<1> DEFINE t == Tail(s)
<1>1. t \in Seq(Entry) /\ Len(s) \in Nat /\ Len(s) >= 1 /\ DOMAIN s = 1..Len(s)
  OBVIOUS
<1>2. Len(t) = Len(s) - 1 /\ DOMAIN t = 1..(Len(s) - 1) /\ Head(s) = s[1] /\ Head(s) \in Entry
  BY <1>1
<1>3. \A i \in 1..(Len(s) - 1) : t[i] = s[i + 1]
  BY <1>1
<1> HIDE DEF t
<1>4. \A j \in 1..Len(s) : j = 1 \/ (j - 1 \in 1..(Len(s) - 1) /\ t[j - 1] = s[j])
  BY <1>1, <1>3
<1>5. \A i \in 1..(Len(s) - 1) : i + 1 \in 1..Len(s) /\ i + 1 # 1
  BY <1>1
<1>6. Items(s) = Items(t) \cup {Head(s)}
  <2>1. ASSUME NEW x \in Items(s) PROVE x \in Items(t) \cup {Head(s)}
    BY <1>1, <1>2, <1>4 DEF Items
  <2>2. ASSUME NEW x \in Items(t) PROVE x \in Items(s)
    BY <1>1, <1>2, <1>3, <1>5 DEF Items
  <2>3. Head(s) \in Items(s)
    BY <1>1, <1>2 DEF Items
  <2> QED BY <2>1, <2>2, <2>3
<1>7. Unique(t)
  <2> SUFFICES ASSUME NEW i \in 1..(Len(s) - 1), NEW j \in 1..(Len(s) - 1), t[i].key = t[j].key
               PROVE  i = j
    BY <1>2 DEF Unique
  <2>1. i + 1 = j + 1
    BY <1>1, <1>3, <1>5 DEF Unique
  <2> QED BY <2>1
<1>8. KeysIn(t) = KeysIn(s) \ {Head(s).key} /\ Head(s).key \in KeysIn(s)
  <2>1. ASSUME NEW k \in KeysIn(t) PROVE k \in KeysIn(s) /\ k # Head(s).key
    <3>1. PICK i \in 1..(Len(s) - 1) : k = s[i + 1].key
      BY <1>2, <1>3 DEF KeysIn
    <3> QED BY <1>1, <1>2, <1>5, <3>1 DEF KeysIn, Unique
  <2>2. ASSUME NEW k \in KeysIn(s), k # Head(s).key PROVE k \in KeysIn(t)
    <3>1. PICK j \in 1..Len(s) : k = s[j].key
      BY <1>1 DEF KeysIn
    <3> QED BY <1>2, <1>4, <2>2, <3>1 DEF KeysIn
  <2>3. Head(s).key \in KeysIn(s)
    BY <1>1, <1>2 DEF KeysIn
  <2> QED BY <2>1, <2>2, <2>3
<1> QED BY <1>1, <1>2, <1>6, <1>7, <1>8 DEF t

(* Two banks without a common key, one after the other. *)
LEMMA JoinBanks ==
  ASSUME NEW s \in Seq(Entry), NEW t \in Seq(Entry), Unique(s), Unique(t),
         KeysIn(s) \cap KeysIn(t) = {}
  PROVE  /\ s \o t \in Seq(Entry) /\ Len(s \o t) = Len(s) + Len(t)
         /\ Unique(s \o t)
         /\ Items(s \o t) = Items(s) \cup Items(t)
         /\ KeysIn(s \o t) = KeysIn(s) \cup KeysIn(t)
<1> DEFINE u == s \o t
           m == Len(s)
           n == Len(t)
<1>1. u \in Seq(Entry) /\ m \in Nat /\ n \in Nat /\ DOMAIN s = 1..m /\ DOMAIN t = 1..n
  OBVIOUS
<1>2. Len(u) = m + n /\ DOMAIN u = 1..(m + n)
  OBVIOUS
<1>3. \A i \in 1..m : u[i] = s[i]
  OBVIOUS
<1>4. \A i \in 1..n : u[m + i] = t[i]
  OBVIOUS
<1> HIDE DEF u, m, n
<1>5. \A i \in 1..(m + n) : i \in 1..m \/ (i - m \in 1..n /\ m + (i - m) = i)
  BY <1>1
<1>6. \A i \in 1..m : i \in 1..(m + n)
  BY <1>1
<1>7. \A i \in 1..n : m + i \in 1..(m + n)
  BY <1>1
<1>8. \A i \in 1..(m + n) : i \notin 1..m => u[i] = t[i - m] /\ i - m \in 1..n
  <2> TAKE i \in 1..(m + n)
  <2> HAVE i \notin 1..m
  <2>1. i - m \in 1..n /\ m + (i - m) = i
    BY <1>5
  <2>2. u[m + (i - m)] = t[i - m]
    BY <1>4, <2>1
  <2> QED BY <2>1, <2>2
<1>9. Items(u) = Items(s) \cup Items(t)
  BY <1>1, <1>2, <1>3, <1>4, <1>6, <1>7, <1>8 DEF Items
<1>10. KeysIn(u) = KeysIn(s) \cup KeysIn(t)
  <2>1. /\ KeysIn(u) = {x.key : x \in Items(u)} /\ KeysIn(s) = {x.key : x \in Items(s)}
        /\ KeysIn(t) = {x.key : x \in Items(t)}
    BY <1>1, Elements
  <2> QED BY <1>9, <2>1
<1>11. Unique(u)
  <2>0. /\ \A i \in 1..m : s[i].key \in KeysIn(s) /\ u[i] = s[i]
        /\ \A i \in 1..n : t[i].key \in KeysIn(t)
    BY <1>1, <1>3 DEF KeysIn
  <2> SUFFICES ASSUME NEW i \in 1..(m + n), NEW j \in 1..(m + n), u[i].key = u[j].key
               PROVE  i = j
    BY <1>2 DEF Unique
  <2>1. CASE i \in 1..m /\ j \in 1..m
    BY <1>1, <1>3, <2>1 DEF Unique
  <2>2. CASE i \in 1..m /\ j \notin 1..m
    <3>1. u[j] = t[j - m] /\ j - m \in 1..n
      BY <1>8, <2>2
    <3> QED BY <2>0, <2>2, <3>1
  <2>3. CASE i \notin 1..m /\ j \in 1..m
    <3>1. u[i] = t[i - m] /\ i - m \in 1..n
      BY <1>8, <2>3
    <3> QED BY <2>0, <2>3, <3>1
  <2>4. CASE i \notin 1..m /\ j \notin 1..m
    <3> DEFINE x == i - m
               y == j - m
    <3>1. u[i] = t[x] /\ u[j] = t[y] /\ x \in 1..n /\ y \in 1..n
      BY <1>8, <2>4
    <3>2. m + x = i /\ m + y = j
      BY <1>1
    <3> HIDE DEF x, y
    <3>3. x = y
      BY <1>1, <3>1 DEF Unique
    <3> QED BY <3>2, <3>3
  <2> QED BY <2>1, <2>2, <2>3, <2>4
<1> QED BY <1>1, <1>2, <1>9, <1>10, <1>11 DEF u, m, n

(* Part of a bank. *)
LEMMA PartOfBank ==
  ASSUME NEW s \in Seq(Entry), Unique(s), NEW a \in 1..(Len(s) + 1), NEW b \in 0..Len(s), a <= b + 1
  PROVE  /\ SubSeq(s, a, b) \in Seq(Entry) /\ Len(SubSeq(s, a, b)) = b + 1 - a
         /\ Unique(SubSeq(s, a, b))
         /\ Items(SubSeq(s, a, b)) = {s[i] : i \in a..b}
         /\ KeysIn(SubSeq(s, a, b)) = {s[i].key : i \in a..b}
<1> DEFINE t == SubSeq(s, a, b)
           n == b + 1 - a
<1>1. Len(s) \in Nat /\ DOMAIN s = 1..Len(s) /\ n \in Nat /\ a \in Nat /\ b \in Nat
  OBVIOUS
<1>2. t \in Seq(Entry) /\ Len(t) = n /\ DOMAIN t = 1..n
  OBVIOUS
<1>3. \A i \in 1..n : t[i] = s[(a - 1) + i]
  OBVIOUS
<1>4. \A i \in 1..n : (a - 1) + i \in a..b /\ (a - 1) + i \in 1..Len(s)
  OBVIOUS
<1> HIDE DEF t
<1>5. \A i \in a..b : i - (a - 1) \in 1..n /\ (a - 1) + (i - (a - 1)) = i
  OBVIOUS
<1> HIDE DEF n
<1>6. \A i \in a..b : t[i - (a - 1)] = s[i]
  BY <1>3, <1>5
<1>7. Items(t) = {s[i] : i \in a..b}
  <2>1. ASSUME NEW x \in Items(t) PROVE x \in {s[i] : i \in a..b}
    <3>1. PICK i \in 1..n : x = t[i]
      BY <1>2 DEF Items
    <3> DEFINE j == (a - 1) + i
    <3>2. x = s[j] /\ j \in a..b
      BY <1>3, <1>4, <3>1
    <3> HIDE DEF j
    <3> QED BY <3>2
  <2>2. ASSUME NEW x \in {s[i] : i \in a..b} PROVE x \in Items(t)
    <3>1. PICK i \in a..b : x = s[i]
      OBVIOUS
    <3> DEFINE j == i - (a - 1)
    <3>2. x = t[j] /\ j \in 1..n
      BY <1>5, <1>6, <3>1
    <3> HIDE DEF j
    <3> QED BY <1>2, <3>2 DEF Items
  <2> QED BY <2>1, <2>2
<1>8. KeysIn(t) = {s[i].key : i \in a..b}
  <2>1. KeysIn(t) = {x.key : x \in Items(t)}
    BY <1>2, Elements
  <2> QED BY <1>7, <2>1
<1>9. Unique(t)
  <2> SUFFICES ASSUME NEW i \in 1..n, NEW j \in 1..n, t[i].key = t[j].key
               PROVE  i = j
    BY <1>2 DEF Unique
  <2> DEFINE x == (a - 1) + i
             y == (a - 1) + j
  <2>1. t[i] = s[x] /\ t[j] = s[y] /\ x \in 1..Len(s) /\ y \in 1..Len(s)
    BY <1>3, <1>4
  <2>2. x = y => i = j
    BY <1>1
  <2> HIDE DEF x, y
  <2> QED BY <1>1, <2>1, <2>2 DEF Unique
<1> QED BY <1>2, <1>7, <1>8, <1>9 DEF t, n

(* The entry at i is taken, the ones before it go to the end. *)
LEMMA Rotation ==
  ASSUME NEW s \in Seq(Entry), Unique(s), NEW i \in 1..Len(s)
  PROVE  LET r == SubSeq(s, i + 1, Len(s)) \o SubSeq(s, 1, i - 1) IN
         /\ r \in Seq(Entry) /\ Len(r) = Len(s) - 1 /\ Unique(r)
         /\ Items(r) \subseteq Items(s)
         /\ KeysIn(r) = KeysIn(s) \ {s[i].key}
<1> DEFINE a == i + 1
           b == i - 1
           n == Len(s)
           x == SubSeq(s, a, n)
           y == SubSeq(s, 1, b)
           r == x \o y
<1>1. n \in Nat /\ DOMAIN s = 1..n /\ n \in 0..n /\ a \in 1..(n + 1) /\ a <= n + 1 /\ i \in 1..n
  OBVIOUS
<1>2. 1 \in 1..(n + 1) /\ b \in 0..n /\ 1 <= b + 1
  OBVIOUS
<1>3. n + 1 - a = n - i /\ b + 1 - 1 = i - 1
  OBVIOUS
<1>4. \A j \in 1..n : j = i \/ j \in a..n \/ j \in 1..b
  OBVIOUS
<1>5. \A j \in a..n : j \in 1..n /\ j # i /\ j \notin 1..b
  OBVIOUS
<1>6. \A j \in 1..b : j \in 1..n /\ j # i
  OBVIOUS
<1> HIDE DEF a, b
<1>7. /\ x \in Seq(Entry) /\ Len(x) = n - i /\ Unique(x)
      /\ Items(x) = {s[j] : j \in a..n} /\ KeysIn(x) = {s[j].key : j \in a..n}
  BY <1>1, <1>3, PartOfBank
<1>8. /\ y \in Seq(Entry) /\ Len(y) = i - 1 /\ Unique(y)
      /\ Items(y) = {s[j] : j \in 1..b} /\ KeysIn(y) = {s[j].key : j \in 1..b}
  BY <1>2, <1>3, PartOfBank
<1> HIDE DEF x, y, n, r
<1>9. KeysIn(x) \cap KeysIn(y) = {}
  <2> SUFFICES ASSUME NEW j \in a..n, NEW l \in 1..b, s[j].key = s[l].key PROVE FALSE
    BY <1>7, <1>8
  <2>1. j = l
    BY <1>1, <1>5, <1>6 DEF Unique
  <2> QED BY <1>5, <2>1
<1>10. /\ r \in Seq(Entry) /\ Len(r) = Len(x) + Len(y) /\ Unique(r)
       /\ Items(r) = Items(x) \cup Items(y) /\ KeysIn(r) = KeysIn(x) \cup KeysIn(y)
  <2>1. /\ x \o y \in Seq(Entry) /\ Len(x \o y) = Len(x) + Len(y) /\ Unique(x \o y)
        /\ Items(x \o y) = Items(x) \cup Items(y) /\ KeysIn(x \o y) = KeysIn(x) \cup KeysIn(y)
    BY <1>7, <1>8, <1>9, JoinBanks
  <2> QED BY <2>1 DEF r
<1>11. Len(r) = n - 1
  <2>1. Len(r) = (n - i) + (i - 1) /\ n \in Nat /\ i \in Nat
    BY <1>1, <1>7, <1>8, <1>10
  <2> QED BY <2>1
<1>12. Items(r) \subseteq Items(s)
  BY <1>1, <1>5, <1>6, <1>7, <1>8, <1>10 DEF Items
<1>13. KeysIn(r) = KeysIn(s) \ {s[i].key}
  <2>1. ASSUME NEW k \in KeysIn(r) PROVE k \in KeysIn(s) /\ k # s[i].key
    <3>1. PICK j \in 1..n : k = s[j].key /\ j # i
      BY <1>5, <1>6, <1>7, <1>8, <1>10
    <3> QED BY <1>1, <3>1 DEF KeysIn, Unique
  <2>2. ASSUME NEW k \in KeysIn(s), k # s[i].key PROVE k \in KeysIn(r)
    <3>1. PICK j \in 1..n : k = s[j].key
      BY <1>1 DEF KeysIn
    <3> QED BY <1>4, <1>7, <1>8, <1>10, <2>2, <3>1
  <2> QED BY <2>1, <2>2
<1> QED BY <1>10, <1>11, <1>12, <1>13 DEF n, r, x, y, a, b

(* What a retirement leaves of a bank: the entries of the keys that are not *)
(* dropped, in their order, with the heir's job where there is one.         *)
Heired(x, y, heir) == x.key = y.key /\ x.job = IF heir[y.key] = NULL THEN y.job ELSE heir[y.key]

LEMMA InheritedBank ==
  ASSUME NEW s \in Seq(Entry), Unique(s), NEW heir \in [Keys -> Owners \cup {NULL}], NEW dropped
  PROVE  LET t == Inherited(s, heir, dropped) IN
         /\ t \in Seq(Entry) /\ Len(t) <= Len(s) /\ Unique(t)
         /\ KeysIn(t) = KeysIn(s) \ dropped
         /\ \A x \in Items(t) : \E y \in Items(s) : Heired(x, y, heir)
<1> DEFINE keep == {x \in Entry : x.key \notin dropped}
           kept == Kept(s, keep)
           New(x) == IF heir[x.key] = NULL THEN x ELSE [x EXCEPT !.job = heir[x.key]]
           t == [i \in DOMAIN kept |-> New(kept[i])]
<1>1. Inherited(s, heir, dropped) = t
  BY DEF Inherited
<1>2. kept \in Seq(Entry) /\ IsFilter(s, keep, Len(s), kept)
  <2> HIDE DEF keep
  <2> QED BY KeptFilters
<1>3. PICK g \in [1..Len(kept) -> 1..Len(s)] : Places(s, keep, Len(s), kept, g) /\ Len(kept) <= Len(s)
  BY <1>2 DEF IsFilter
<1> DEFINE n == Len(kept)
<1>4. n \in Nat /\ DOMAIN kept = 1..n /\ DOMAIN s = 1..Len(s) /\ Len(s) \in Nat
  BY <1>2
<1>5. ASSUME NEW x \in Entry PROVE New(x) \in Entry /\ Heired(New(x), x, heir)
  BY DEF Entry, Heired
<1>6. \A i \in 1..n : g[i] \in 1..Len(s) /\ kept[i] = s[g[i]] /\ kept[i] \in Entry /\ kept[i].key \notin dropped
  BY <1>3, <1>4 DEF Places
<1> HIDE DEF kept, New
<1>7. t \in [1..n -> Entry]
  BY <1>4, <1>5, <1>6
<1>8. \A i \in 1..n : Heired(t[i], s[g[i]], heir) /\ t[i].key = s[g[i]].key /\ t[i].key \notin dropped
  BY <1>4, <1>5, <1>6 DEF Heired
<1> HIDE DEF t
<1>9. t \in Seq(Entry) /\ Len(t) = n /\ DOMAIN t = 1..n
  BY <1>4, <1>7
<1>10. Unique(t)
  <2> SUFFICES ASSUME NEW i \in 1..n, NEW j \in 1..n, t[i].key = t[j].key
               PROVE  i = j
    BY <1>9 DEF Unique
  <2>1. g[i] = g[j]
    BY <1>4, <1>6, <1>8 DEF Unique
  <2>2. (i < j => g[i] < g[j]) /\ (j < i => g[j] < g[i])
    BY <1>3 DEF Places
  <2>3. g[i] \in Nat /\ g[j] \in Nat
    BY <1>6
  <2> QED BY <1>4, <2>1, <2>2, <2>3
<1>11. \A x \in Items(t) : \E y \in Items(s) : Heired(x, y, heir)
  BY <1>4, <1>6, <1>8, <1>9 DEF Items
<1>12. KeysIn(t) = KeysIn(s) \ dropped
  <2>1. ASSUME NEW k \in KeysIn(t) PROVE k \in KeysIn(s) /\ k \notin dropped
    <3>1. PICK i \in 1..n : k = t[i].key
      BY <1>9 DEF KeysIn
    <3>2. k = s[g[i]].key /\ g[i] \in 1..Len(s) /\ k \notin dropped
      BY <1>6, <1>8, <3>1
    <3> QED BY <1>4, <3>2 DEF KeysIn
  <2>2. ASSUME NEW k \in KeysIn(s), k \notin dropped PROVE k \in KeysIn(t)
    <3>1. PICK j \in 1..Len(s) : k = s[j].key
      BY <1>4 DEF KeysIn
    <3>2. s[j] \in keep
      BY <2>2, <3>1
    <3>3. PICK i \in 1..n : g[i] = j
      BY <1>3, <3>2 DEF Places
    <3>4. k = t[i].key
      BY <1>8, <3>1, <3>3
    <3> QED BY <1>9, <3>4 DEF KeysIn
  <2> QED BY <2>1, <2>2
<1> QED BY <1>1, <1>3, <1>9, <1>10, <1>11, <1>12

(* A follow-up is inherited like an entry of a bank. *)
LEMMA InheritedOne ==
  ASSUME NEW e \in Entry, NEW heir \in [Keys -> Owners \cup {NULL}], NEW dropped
  PROVE  LET t == Inherited(<<e>>, heir, dropped) IN
         /\ e.key \in dropped => t = <<>>
         /\ e.key \notin dropped => t # <<>> /\ t[1] \in Entry /\ Heired(t[1], e, heir)
<1> DEFINE s == <<e>>
           t == Inherited(s, heir, dropped)
<1>1. s \in Seq(Entry) /\ Len(s) = 1 /\ DOMAIN s = 1..1 /\ s[1] = e
  OBVIOUS
<1>2. Unique(s) /\ KeysIn(s) = {e.key} /\ Items(s) = {e}
  BY <1>1 DEF Unique, KeysIn, Items
<1> HIDE DEF s
<1>3. /\ t \in Seq(Entry) /\ Len(t) <= 1 /\ KeysIn(t) = {e.key} \ dropped
      /\ \A x \in Items(t) : Heired(x, e, heir)
  <2>1. /\ t \in Seq(Entry) /\ Len(t) <= Len(s) /\ Unique(t)
        /\ KeysIn(t) = KeysIn(s) \ dropped
        /\ \A x \in Items(t) : \E y \in Items(s) : Heired(x, y, heir)
    BY <1>1, <1>2, InheritedBank
  <2> HIDE DEF t
  <2> QED BY <1>1, <1>2, <2>1
<1> HIDE DEF t
<1>4. DOMAIN t = 1..Len(t) /\ Len(t) \in Nat
  BY <1>3
<1>5. CASE e.key \in dropped
  <2>1. KeysIn(t) = {}
    BY <1>3, <1>5
  <2>2. 1 \notin DOMAIN t
    BY <2>1 DEF KeysIn
  <2>3. Len(t) = 0
    BY <1>4, <2>2
  <2>4. t = <<>>
    BY <1>3, <2>3
  <2> QED BY <1>5, <2>4 DEF t, s
<1>6. CASE e.key \notin dropped
  <2>1. KeysIn(t) = {e.key}
    BY <1>3, <1>6
  <2>2. DOMAIN t # {}
    BY <2>1 DEF KeysIn
  <2>3. Len(t) = 1 /\ 1 \in DOMAIN t
    BY <1>3, <1>4, <2>2
  <2>4. t[1] \in Items(t) /\ t[1] \in Entry
    <3>1. t[1] \in Items(t)
      BY <2>3 DEF Items
    <3>2. Items(t) \subseteq Entry
      BY <1>3, Elements
    <3> QED BY <3>1, <3>2
  <2>5. t # <<>>
    <3>1. Len(<<>>) = 0
      OBVIOUS
    <3> QED BY <2>3, <3>1
  <2> QED BY <1>3, <1>6, <2>4, <2>5 DEF t, s
<1> QED BY <1>5, <1>6

-----------------------------------------------------------------------------
(* schedule                                                                *)

QueueType ==
  /\ jobs \in Seq(Entry) /\ Len(jobs) <= MaxPending
  /\ deferred \in Seq(Entry) /\ Len(deferred) <= MaxPending
  /\ waiting \subseteq Keys
  /\ followUp \in Entry \cup {NULL}
  /\ owners \in [Keys -> SUBSET Owners]
  /\ handoffs \in [Keys -> SUBSET Owners]

(* A key is asked for when an entry of it is queued. *)
LEMMA AskedQueued == ASSUME NEW k PROVE Asked(k) <=> \E e \in Queued : e.key = k
<1>1. k \in KeysIn(jobs) <=> \E e \in Items(jobs) : e.key = k
  BY DEF KeysIn, Items
<1>2. k \in KeysIn(deferred) <=> \E e \in Items(deferred) : e.key = k
  BY DEF KeysIn, Items
<1>3. FollowsUp(k) <=> \E e \in (IF followUp = NULL THEN {} ELSE {followUp}) : e.key = k
  BY DEF FollowsUp
<1> QED BY <1>1, <1>2, <1>3 DEF Asked, Pending, Queued

\* What one request for a key may do to the queue.
Effect(k, o) ==
  /\ QueueType' /\ Banks'
  /\ \A e \in Queued' : e \in Queued \/ (e = [key |-> k, job |-> o] /\ o \in owners'[k] /\ k \notin exclusive)
  /\ followUp' = NULL \/ followUp' = followUp \/ (followUp' = [key |-> k, job |-> o] /\ k \in Active /\ ~again)
  /\ (owners' = owners /\ handoffs' = handoffs) \/ (Track(k, o) /\ (\E e \in Queued' : e.key = k))
  /\ \A e \in Queued : (\E x \in Queued' : x.key = e.key) \/ e.key \in Active

LEMMA NothingScheduled ==
  ASSUME QueueType, Banks, UNCHANGED queue, NEW k, NEW o
  PROVE  Effect(k, o)
<1>0. /\ jobs' = jobs /\ deferred' = deferred /\ waiting' = waiting /\ followUp' = followUp
      /\ owners' = owners /\ handoffs' = handoffs
  BY DEF queue
<1>1. QueueType' /\ Banks'
  <2>1. QueueType'
    BY <1>0 DEF QueueType
  <2>2. KeysIn(jobs)' = KeysIn(jobs) /\ KeysIn(deferred)' = KeysIn(deferred)
    BY <1>0 DEF KeysIn
  <2>3. Unique(jobs)' /\ Unique(deferred)'
    BY <1>0 DEF Banks, Unique
  <2> QED BY <1>0, <2>1, <2>2, <2>3 DEF Banks
<1>2. Queued' = Queued /\ followUp' = followUp /\ owners' = owners /\ handoffs' = handoffs
  BY DEF queue, Queued, Items
<1> QED BY <1>1, <1>2 DEF Effect

LEMMA Tracked ==
  ASSUME QueueType, NEW k \in Keys, NEW o \in Owners, Track(k, o)
  PROVE  /\ owners' \in [Keys -> SUBSET Owners] /\ handoffs' \in [Keys -> SUBSET Owners]
         /\ o \in owners'[k]
  BY DEF Track, QueueType

LEMMA ScheduleEffect ==
  ASSUME QueueType, Banks, NEW k \in Keys, NEW o \in Owners, NEW delayed \in BOOLEAN,
         Schedule(k, o, delayed), Worker
  PROVE  Effect(k, o)
<1> DEFINE entry == [key |-> k, job |-> o]
           open == ~closed /\ k \notin exclusive
           toQueue == open /\ ~Pending(k) /\ ~ToFollowUp(k, delayed)
<1>0. entry \in Entry /\ entry.key = k
  BY DEF Entry
<1>1. CASE UNCHANGED queue
  BY <1>1, NothingScheduled
<1>2. CASE /\ open /\ Pending(k)
           /\ Held(k, delayed) /\ Track(k, o)
           /\ UNCHANGED <<jobs, deferred, followUp>>
  <2>1. QueueType' /\ o \in owners'[k]
    BY <1>2, Tracked DEF QueueType, Held
  <2>2. Banks'
    BY <1>2 DEF Banks, Held, Pending, KeysIn, Unique
  <2>3. Queued' = Queued /\ \E e \in Queued : e.key = k
    BY <1>2, AskedQueued DEF Queued, Items, Asked
  <2> QED BY <1>2, <2>1, <2>2, <2>3 DEF Effect
<1>3. CASE /\ open /\ ~Pending(k) /\ ToFollowUp(k, delayed)
           /\ followUp' = entry
           /\ Track(k, o)
           /\ UNCHANGED <<jobs, deferred, waiting>>
  <2>1. QueueType' /\ o \in owners'[k]
    BY <1>0, <1>3, Tracked DEF QueueType, Entry
  <2>2. Banks'
    BY <1>3 DEF Banks, KeysIn, Unique
  <2>3. k \in Active /\ ~again
    BY <1>3 DEF ToFollowUp
  <2>4. ASSUME NEW e \in Queued' PROVE e \in Queued \/ e = entry
    BY <1>3 DEF Queued, Items
  <2>5. entry \in Queued'
    <3>1. followUp' # NULL
      BY <1>0, <1>3, SchedulerAssumption DEF Entry
    <3> QED BY <1>3, <3>1 DEF Queued
  <2>6. ASSUME NEW e \in Queued PROVE e \in Queued' \/ e.key \in Active
    BY <1>3 DEF Queued, Items, Worker, Active
  <2>7. followUp' = entry /\ Track(k, o) /\ k \notin exclusive
    BY <1>3
  <2> QED BY <1>0, <2>1, <2>2, <2>3, <2>4, <2>5, <2>6, <2>7 DEF Effect
<1>4. CASE /\ toQueue /\ QueueHasRoom
           /\ jobs' = Append(jobs, entry)
           /\ Held(k, delayed) /\ DelayReplacesFollowUp(k, delayed) /\ Track(k, o)
           /\ UNCHANGED deferred
  <2>0. ~Pending(k) /\ k \notin exclusive /\ deferred' = deferred
    BY <1>4
  <2>1. /\ jobs' \in Seq(Entry) /\ Len(jobs') = Len(jobs) + 1 /\ Unique(jobs')
        /\ Items(jobs') = Items(jobs) \cup {entry} /\ KeysIn(jobs') = KeysIn(jobs) \cup {k}
    BY <1>0, <1>4, AppendBank DEF QueueType, Banks, Pending
  <2>2. waiting' \subseteq waiting \cup {k} /\ followUp' \in {NULL, followUp}
    BY <1>4 DEF Held, DelayReplacesFollowUp
  <2>3. QueueType' /\ o \in owners'[k]
    <3>1. Len(jobs') <= MaxPending
      BY <1>4, <2>1, SchedulerAssumption DEF QueueHasRoom, QueueType
    <3> QED BY <1>4, <2>0, <2>1, <2>2, <3>1, Tracked DEF QueueType
  <2>4. Banks'
    <3>1. Unique(deferred)' /\ KeysIn(deferred)' = KeysIn(deferred) /\ k \notin KeysIn(deferred)
      BY <2>0 DEF Banks, Unique, KeysIn, Pending
    <3>2. Unique(jobs)' /\ KeysIn(jobs)' = KeysIn(jobs) \cup {k}
      BY <2>1 DEF Unique, KeysIn
    <3> QED BY <2>2, <3>1, <3>2 DEF Banks
  <2>5. Queued' = Items(jobs') \cup Items(deferred) \cup (IF followUp' = NULL THEN {} ELSE {followUp'})
    BY <2>0 DEF Queued, Items
  <2>6. ASSUME NEW e \in Queued' PROVE e \in Queued \/ e = entry
    BY <2>1, <2>2, <2>5 DEF Queued
  <2>7. entry \in Queued'
    BY <2>1, <2>5
  <2>8. ASSUME NEW e \in Queued PROVE e \in Queued' \/ e.key \in Active
    BY <2>1, <2>2, <2>5 DEF Queued, Worker, Active
  <2> QED BY <1>0, <1>4, <2>0, <2>2, <2>3, <2>4, <2>6, <2>7, <2>8 DEF Effect
<1>5. CASE /\ toQueue /\ ~QueueHasRoom /\ BankHasRoom
           /\ deferred' = Append(deferred, entry)
           /\ Held(k, delayed) /\ DelayReplacesFollowUp(k, delayed) /\ Track(k, o)
           /\ UNCHANGED jobs
  <2>0. ~Pending(k) /\ k \notin exclusive /\ jobs' = jobs
    BY <1>5
  <2>1. /\ deferred' \in Seq(Entry) /\ Len(deferred') = Len(deferred) + 1 /\ Unique(deferred')
        /\ Items(deferred') = Items(deferred) \cup {entry} /\ KeysIn(deferred') = KeysIn(deferred) \cup {k}
    BY <1>0, <1>5, AppendBank DEF QueueType, Banks, Pending
  <2>2. waiting' \subseteq waiting \cup {k} /\ followUp' \in {NULL, followUp}
    BY <1>5 DEF Held, DelayReplacesFollowUp
  <2>3. QueueType' /\ o \in owners'[k]
    <3>1. Len(deferred') <= MaxPending
      BY <1>5, <2>1, SchedulerAssumption DEF BankHasRoom, QueueType
    <3> QED BY <1>5, <2>0, <2>1, <2>2, <3>1, Tracked DEF QueueType
  <2>4. Banks'
    <3>1. Unique(jobs)' /\ KeysIn(jobs)' = KeysIn(jobs) /\ k \notin KeysIn(jobs)
      BY <2>0 DEF Banks, Unique, KeysIn, Pending
    <3>2. Unique(deferred)' /\ KeysIn(deferred)' = KeysIn(deferred) \cup {k}
      BY <2>1 DEF Unique, KeysIn
    <3> QED BY <2>2, <3>1, <3>2 DEF Banks
  <2>5. Queued' = Items(jobs) \cup Items(deferred') \cup (IF followUp' = NULL THEN {} ELSE {followUp'})
    BY <2>0 DEF Queued, Items
  <2>6. ASSUME NEW e \in Queued' PROVE e \in Queued \/ e = entry
    BY <2>1, <2>2, <2>5 DEF Queued
  <2>7. entry \in Queued'
    BY <2>1, <2>5
  <2>8. ASSUME NEW e \in Queued PROVE e \in Queued' \/ e.key \in Active
    BY <2>1, <2>2, <2>5 DEF Queued, Worker, Active
  <2> QED BY <1>0, <1>5, <2>0, <2>2, <2>3, <2>4, <2>6, <2>7, <2>8 DEF Effect
<1>6. CASE /\ toQueue /\ ~QueueHasRoom /\ ~BankHasRoom
           /\ waiting' = waiting \ {k}
           /\ DelayReplacesFollowUp(k, delayed)
           /\ UNCHANGED <<jobs, deferred, owners, handoffs>>
  <2>0. /\ ~Pending(k) /\ jobs' = jobs /\ deferred' = deferred /\ owners' = owners
        /\ handoffs' = handoffs /\ waiting' \subseteq waiting /\ followUp' \in {NULL, followUp}
    BY <1>6 DEF DelayReplacesFollowUp
  <2>1. QueueType'
    BY <2>0 DEF QueueType
  <2>2. Banks'
    BY <2>0 DEF Banks, Unique, KeysIn
  <2>3. Queued' = Items(jobs) \cup Items(deferred) \cup (IF followUp' = NULL THEN {} ELSE {followUp'})
    BY <2>0 DEF Queued, Items
  <2>4. ASSUME NEW e \in Queued' PROVE e \in Queued
    BY <2>0, <2>3 DEF Queued
  <2>5. ASSUME NEW e \in Queued PROVE e \in Queued' \/ e.key \in Active
    BY <2>0, <2>3 DEF Queued, Worker, Active
  <2> QED BY <2>0, <2>1, <2>2, <2>4, <2>5 DEF Effect
<1> QED BY <1>1, <1>2, <1>3, <1>4, <1>5, <1>6 DEF Schedule

LEMMA AskedQueuedNext == ASSUME NEW k PROVE Asked(k)' <=> \E e \in Queued' : e.key = k
<1>1. KeysIn(jobs)' = {e.key : e \in Items(jobs')} /\ KeysIn(deferred)' = {e.key : e \in Items(deferred')}
  BY DEF KeysIn, Items
<1>2. FollowsUp(k)' <=> \E e \in (IF followUp' = NULL THEN {} ELSE {followUp'}) : e.key = k
  BY DEF FollowsUp
<1>3. Queued' = Items(jobs') \cup Items(deferred') \cup (IF followUp' = NULL THEN {} ELSE {followUp'})
  BY DEF Queued, Items
<1>4. Asked(k)' <=> k \in KeysIn(jobs)' \cup KeysIn(deferred)' \/ FollowsUp(k)'
  BY DEF Asked, Pending
<1> QED BY <1>1, <1>2, <1>3, <1>4

\* Whose job a request may queue: the engine's own while it is live, or that of
\* an owner registered for a handoff.
Eligible(p, k) == p \in handoffs[k] \/ (call[p].pc = "live" /\ k \in KeysOf[p])

AsksFor(k) ==
  \/ UNCHANGED queue
  \/ \E p \in Owners : \E delayed \in BOOLEAN : Eligible(p, k) /\ Schedule(k, p, delayed)

LEMMA HandoffAsks ==
  ASSUME TypeOK, NEW k \in Keys, NEW o, NEW delayed \in BOOLEAN, Handoff(k, o, delayed)
  PROVE  AsksFor(k)
<1>1. handoffs[k] \subseteq Owners
  BY DEF TypeOK
<1>2. CASE \E p \in handoffs[k] \ {o} : Schedule(k, p, delayed)
  BY <1>1, <1>2 DEF AsksFor, Eligible
<1>3. CASE UNCHANGED queue
  BY <1>3 DEF AsksFor
<1> QED BY <1>2, <1>3 DEF Handoff

LEMMA EnqueueAsks ==
  ASSUME TypeOK, NEW o \in Owners, NEW k \in Keys, k \in KeysOf[o],
         NEW delayed \in BOOLEAN, Enqueue(o, k, delayed)
  PROVE  AsksFor(k)
<1>1. CASE call[o].pc = "live" /\ Schedule(k, o, delayed)
  BY <1>1 DEF AsksFor, Eligible
<1>2. CASE Handoff(k, o, delayed)
  BY <1>2, HandoffAsks
<1>3. CASE UNCHANGED queue
  BY <1>3 DEF AsksFor
<1> QED BY <1>1, <1>2, <1>3 DEF Enqueue

\* The part of the invariant that says nothing of the worker's position.
FollowPart == followUp # NULL => running # NULL /\ followUp.key = running.key /\ ~again
Rest == QueueType /\ Banks /\ FollowPart /\ Registered /\ LiveJobs /\ Leases /\ LeaseIsAlone /\ OwnedIsBusy

(* The queue and what it is related to stay as they are. *)
LEMMA QuietKeeps ==
  ASSUME Inv, UNCHANGED queue, running' = running, again' = again, exclusive' = exclusive, call' = call
  PROVE  Rest' /\ owners' = owners
<1>0. /\ jobs' = jobs /\ deferred' = deferred /\ waiting' = waiting /\ followUp' = followUp
      /\ owners' = owners /\ handoffs' = handoffs
  BY DEF queue
<1>1. QueueType /\ Banks /\ Queued' = Queued /\ Active' = Active
  BY <1>0 DEF Inv, TypeOK, QueueType, Queued, Items, Active
<1>2. QueueType' /\ Banks'
  BY <1>1, NothingScheduled DEF Effect
<1>3. FollowPart'
  BY <1>0 DEF Inv, Worker, FollowPart
<1>4. Registered' /\ LiveJobs'
  BY <1>0, <1>1 DEF Inv, Registered, LiveJobs
<1>5. \A x \in Keys : Asked(x)' <=> Asked(x)
  BY <1>1, AskedQueued, AskedQueuedNext
<1>6. exclusive \subseteq Keys
  BY DEF Inv, TypeOK
<1>7. Leases' /\ LeaseIsAlone'
  BY <1>1, <1>5, <1>6 DEF Inv, Leases, LeaseIsAlone
<1>8. OwnedIsBusy'
  BY <1>0, <1>1, <1>5 DEF Inv, OwnedIsBusy
<1> QED BY <1>0, <1>2, <1>3, <1>4, <1>7, <1>8 DEF Rest

(* A request of an eligible owner keeps the invariant. *)
LEMMA EffectKeeps ==
  ASSUME Inv, NEW k \in Keys, NEW o \in Owners, Effect(k, o), Eligible(o, k),
         running' = running, again' = again, exclusive' = exclusive, call' = call
  PROVE  Rest' /\ \A x \in Keys : owners[x] \subseteq owners'[x]
<1> DEFINE entry == [key |-> k, job |-> o]
<1>0. /\ QueueType /\ Banks /\ Worker /\ Registered /\ LiveJobs /\ Leases /\ LeaseIsAlone /\ OwnedIsBusy
      /\ Active' = Active /\ TypeOK
  BY DEF Inv, TypeOK, QueueType, Active
<1>1. QueueType' /\ Banks'
  BY DEF Effect
<1>2. \A e \in Queued' : e \in Queued \/ (e = entry /\ o \in owners'[k] /\ k \notin exclusive)
  BY DEF Effect
<1>3. k \in KeysOf[o] /\ (o \in Local => call[o].pc \in {"live", "retire"})
  BY <1>0 DEF Registered, Eligible
<1>4. \A x \in Keys : /\ owners[x] \subseteq owners'[x] /\ owners'[x] \subseteq owners[x] \cup {o}
                      /\ (o \in owners'[x] => o \in owners[x] \/ x = k)
                      /\ handoffs'[x] = owners'[x] \cap Local
  <2>1. CASE owners' = owners /\ handoffs' = handoffs
    BY <1>0, <2>1 DEF Registered
  <2>2. CASE Track(k, o)
    BY <1>0, <2>2 DEF Registered, Track, QueueType
  <2> QED BY <2>1, <2>2 DEF Effect
<1>5. FollowPart'
  <2>1. CASE followUp' = NULL \/ followUp' = followUp
    BY <1>0, <2>1 DEF Worker, FollowPart
  <2>2. CASE followUp' = entry /\ k \in Active /\ ~again
    BY <2>2 DEF FollowPart, Active
  <2> QED BY <2>1, <2>2 DEF Effect
<1>6. Registered'
  <2>1. \A x \in Keys : \A p \in owners'[x] : x \in KeysOf[p]
    BY <1>0, <1>3, <1>4 DEF Registered
  <2>2. \A x \in Keys : \A p \in owners'[x] \cap Local : call'[p].pc \in {"live", "retire"}
    BY <1>0, <1>3, <1>4 DEF Registered
  <2>3. \A e \in Queued' : e.key \in KeysOf[e.job] /\ (e.job \in Local => call'[e.job].pc # "new")
    BY <1>0, <1>2, <1>3 DEF Registered
  <2>4. running' # NULL => /\ running'.key \in KeysOf[running'.job]
                           /\ running'.job \in Local => call'[running'.job].pc # "new"
    BY <1>0 DEF Registered
  <2>5. \A x \in Keys : handoffs'[x] = owners'[x] \cap Local
    BY <1>4
  <2> QED BY <2>1, <2>2, <2>3, <2>4, <2>5 DEF Registered
<1>7. LiveJobs'
  <2> SUFFICES ASSUME NEW e \in Queued', e.job \in Local, call'[e.job].pc = "live"
               PROVE  e.job \in owners'[e.key]
    BY DEF LiveJobs
  <2>1. CASE e = entry /\ o \in owners'[k]
    BY <2>1
  <2>2. CASE e \in Queued
    <3>1. e \in Entry
      BY <1>0, <2>2, Elements DEF QueueType, Queued
    <3>2. e.key \in Keys
      BY <3>1 DEF Entry
    <3> QED BY <1>0, <1>4, <2>2, <3>2 DEF LiveJobs
  <2> QED BY <1>2, <2>1, <2>2
<1>8. Leases' /\ LeaseIsAlone'
  <2>1. ASSUME NEW x \in exclusive, Asked(x)' PROVE FALSE
    <3>1. PICK e \in Queued' : e.key = x
      BY <2>1, AskedQueuedNext
    <3>2. e \in Queued
      BY <1>2, <3>1
    <3>3. Asked(x)
      BY <3>1, <3>2, AskedQueued
    <3> QED BY <1>0, <3>3 DEF LeaseIsAlone
  <2> QED BY <1>0, <2>1 DEF LeaseIsAlone, Leases
<1>9. OwnedIsBusy'
  <2> SUFFICES ASSUME NEW x \in Keys, owners'[x] # {}, x \notin Active PROVE Asked(x)'
    BY <1>0 DEF OwnedIsBusy
  <2>1. CASE owners[x] # {}
    <3>1. PICK e \in Queued : e.key = x
      BY <1>0, <2>1, AskedQueued DEF OwnedIsBusy
    <3>2. \E y \in Queued' : y.key = x
      BY <3>1 DEF Effect
    <3> QED BY <3>2, AskedQueuedNext
  <2>2. CASE owners[x] = {}
    <3>1. x = k /\ owners' # owners
      BY <1>4, <2>2
    <3>2. \E e \in Queued' : e.key = k
      BY <3>1 DEF Effect
    <3> QED BY <3>1, <3>2, AskedQueuedNext
  <2> QED BY <2>1, <2>2
<1> QED BY <1>1, <1>4, <1>5, <1>6, <1>7, <1>8, <1>9 DEF Rest

LEMMA AsksKeeps ==
  ASSUME Inv, NEW k \in Keys, AsksFor(k), running' = running, again' = again,
         exclusive' = exclusive, call' = call
  PROVE  Rest' /\ \A x \in Keys : owners[x] \subseteq owners'[x]
<1>0. QueueType /\ Banks /\ Worker
  BY DEF Inv, TypeOK, QueueType
<1>1. CASE \E p \in Owners : \E delayed \in BOOLEAN : Eligible(p, k) /\ Schedule(k, p, delayed)
  BY <1>0, <1>1, ScheduleEffect, EffectKeeps
<1>2. CASE UNCHANGED queue
  BY <1>2, QuietKeeps
<1> QED BY <1>1, <1>2 DEF AsksFor

-----------------------------------------------------------------------------
(* Every step keeps the invariant                                          *)

OtherType ==
  /\ running \in Entry \cup {NULL}
  /\ wpc \in {"off", "idle", "check", "pass", "finish", "gone"}
  /\ again \in BOOLEAN
  /\ exclusive \subseteq Keys
  /\ late \in [Owners -> SUBSET Keys]
  /\ closed \in BOOLEAN /\ stop \in BOOLEAN
  /\ call \in [Owners -> Calls]

PcPart ==
  /\ running = NULL <=> wpc \in {"off", "idle", "gone"}
  /\ wpc = "check" => running.job \in Local

LEMMA Parts == Inv => Rest /\ OtherType /\ PcPart /\ RunsKnown
  BY DEF Inv, Rest, TypeOK, QueueType, OtherType, Worker, PcPart, FollowPart

LEMMA Assembled == Rest' /\ OtherType' /\ PcPart' /\ RunsKnown' => Inv'
  BY DEF Inv, Rest, TypeOK, QueueType, OtherType, Worker, PcPart, FollowPart

(* The entry the worker has. *)
LEMMA RunningEntry ==
  ASSUME Inv, running # NULL
  PROVE  running \in Entry /\ running.key \in Keys /\ running.job \in Owners
  BY DEF Inv, TypeOK, Entry

(* The worker goes on with its entry. *)
LEMMA RunsOn ==
  ASSUME Inv, running' = running, call' = call, late' = late,
         \A x \in Keys : owners[x] \subseteq owners'[x],
         wpc' \in {"check", "pass"} =>
           \/ wpc' = wpc
           \/ wpc = "check" /\ wpc' = "pass" /\ call[running.job].pc = "live"
  PROVE  RunsKnown'
<1>1. CASE wpc' \notin {"check", "pass"}
  BY <1>1 DEF RunsKnown
<1>2. CASE wpc' \in {"check", "pass"}
  <2>1. wpc \in {"check", "pass"} /\ running # NULL
    BY <1>2 DEF Inv, Worker
  <2>2. running.key \in Keys
    BY <2>1, RunningEntry
  <2>3. RunsKnown
    BY DEF Inv
  <2> QED BY <1>2, <2>1, <2>2, <2>3 DEF RunsKnown, Known
<1> QED BY <1>1, <1>2

LEMMA RequestKeeps ==
  ASSUME Inv, NEW o \in Owners, NEW k \in Keys, Request(o, k)
  PROVE  Inv'
<1>1. k \in KeysOf[o] /\ Enqueue(o, k, FALSE) /\ WorkerStarts
  BY DEF Request
<1>2. /\ running' = running /\ again' = again /\ exclusive' = exclusive /\ late' = late
      /\ closed' = closed /\ stop' = stop /\ call' = call
  BY DEF Request
<1>3. AsksFor(k)
  <2>1. FALSE \in BOOLEAN /\ TypeOK
    BY DEF Inv
  <2> QED BY <1>1, <2>1, EnqueueAsks
<1>4. Rest' /\ \A x \in Keys : owners[x] \subseteq owners'[x]
  BY <1>2, <1>3, AsksKeeps
<1>5. wpc' = wpc \/ (wpc = "off" /\ wpc' = "idle")
  BY <1>1 DEF WorkerStarts
<1>6. OtherType' /\ PcPart'
  BY <1>2, <1>5, Parts DEF OtherType, PcPart
<1>7. RunsKnown'
  BY <1>2, <1>4, <1>5, RunsOn
<1> QED BY <1>4, <1>6, <1>7, Assembled

LEMMA CheckKeeps == ASSUME Inv, Check PROVE Inv'
<1>1. /\ running' = running /\ again' = again /\ exclusive' = exclusive /\ late' = late
      /\ closed' = closed /\ stop' = stop /\ call' = call /\ wpc = "check"
  BY DEF Check
<1>2. running # NULL /\ running.key \in Keys /\ TypeOK
  BY <1>1, RunningEntry DEF Inv, Worker
<1>3. /\ \/ wpc' = "pass" /\ call[running.job].pc = "live"
         \/ wpc' = "finish"
      /\ UNCHANGED queue \/ Handoff(running.key, running.job, FALSE)
  BY DEF Check
<1>4. AsksFor(running.key)
  <2>1. CASE UNCHANGED queue
    BY <2>1 DEF AsksFor
  <2>2. CASE Handoff(running.key, running.job, FALSE)
    <3>1. FALSE \in BOOLEAN
      OBVIOUS
    <3> QED BY <1>2, <2>2, <3>1, HandoffAsks
  <2> QED BY <1>3, <2>1, <2>2
<1>5. Rest' /\ \A x \in Keys : owners[x] \subseteq owners'[x]
  BY <1>1, <1>2, <1>4, AsksKeeps
<1>6. OtherType' /\ PcPart'
  BY <1>1, <1>2, <1>3, Parts DEF OtherType, PcPart
<1>7. RunsKnown'
  BY <1>1, <1>3, <1>5, RunsOn
<1> QED BY <1>5, <1>6, <1>7, Assembled

LEMMA PassContinuesKeeps == ASSUME Inv, PassContinues PROVE Inv'
<1>1. /\ running' = running /\ again' = again /\ exclusive' = exclusive /\ late' = late
      /\ closed' = closed /\ stop' = stop /\ call' = call /\ wpc = "pass" /\ wpc' = "finish"
      /\ Enqueue(running.job, running.key, TRUE)
  BY DEF PassContinues
<1>2. running # NULL /\ running.key \in Keys /\ running.job \in Owners /\ TypeOK
  BY <1>1, RunningEntry DEF Inv, Worker
<1>3. running.key \in KeysOf[running.job] /\ TRUE \in BOOLEAN
  BY <1>2 DEF Inv, Registered
<1>4. AsksFor(running.key)
  BY <1>1, <1>2, <1>3, EnqueueAsks
<1>5. Rest' /\ \A x \in Keys : owners[x] \subseteq owners'[x]
  BY <1>1, <1>2, <1>4, AsksKeeps
<1>6. OtherType' /\ PcPart'
  BY <1>1, <1>2, Parts DEF OtherType, PcPart
<1>7. RunsKnown'
  BY <1>1, <1>5, RunsOn
<1> QED BY <1>5, <1>6, <1>7, Assembled

LEMMA PassEndsKeeps == ASSUME Inv, PassEnds PROVE Inv'
<1>1. /\ UNCHANGED queue /\ running' = running /\ again' = again /\ exclusive' = exclusive /\ late' = late
      /\ closed' = closed /\ stop' = stop /\ call' = call /\ wpc = "pass" /\ wpc' = "finish"
  BY DEF PassEnds
<1>2. Rest' /\ owners' = owners
  BY <1>1, QuietKeeps
<1>3. OtherType' /\ PcPart'
  BY <1>1, Parts DEF OtherType, PcPart
<1>4. RunsKnown'
  BY <1>1, <1>2, RunsOn
<1> QED BY <1>2, <1>3, <1>4, Assembled

(* stop is only read by Quiesce and the worker. *)
LEMMA StopKeeps == ASSUME Inv, Stop PROVE Inv'
<1>1. /\ UNCHANGED queue /\ running' = running /\ again' = again /\ exclusive' = exclusive /\ late' = late
      /\ closed' = closed /\ stop' = TRUE /\ call' = call /\ wpc' = wpc
  BY DEF Stop, worker
<1>2. Rest' /\ owners' = owners
  BY <1>1, QuietKeeps
<1>3. OtherType' /\ PcPart'
  BY <1>1, Parts DEF OtherType, PcPart
<1>4. RunsKnown'
  BY <1>1, <1>2, RunsOn
<1> QED BY <1>2, <1>3, <1>4, Assembled

LEMMA WorkerExitsKeeps == ASSUME Inv, WorkerExits PROVE Inv'
<1>1. /\ UNCHANGED queue /\ running' = running /\ again' = again /\ exclusive' = exclusive /\ late' = late
      /\ closed' = closed /\ stop' = stop /\ call' = call /\ wpc = "idle" /\ wpc' = "gone"
  BY DEF WorkerExits
<1>2. Rest' /\ owners' = owners
  BY <1>1, QuietKeeps
<1>3. OtherType' /\ PcPart'
  BY <1>1, Parts DEF OtherType, PcPart
<1>4. RunsKnown'
  BY <1>1, <1>2, RunsOn
<1> QED BY <1>2, <1>3, <1>4, Assembled

(* One engine's call moves on, the scheduler does not. *)
LEMMA CallKeeps ==
  ASSUME Inv, UNCHANGED queue, running' = running, again' = again, exclusive' = exclusive,
         NEW o \in Owners, NEW c, call' = [call EXCEPT ![o] = c],
         c.pc # "new", c.pc = "live" => call[o].pc = "new",
         c.pc \in {"live", "retire"} \/ call[o].pc \notin {"live", "retire"}
  PROVE  Rest' /\ owners' = owners
<1>0. /\ jobs' = jobs /\ deferred' = deferred /\ waiting' = waiting /\ followUp' = followUp
      /\ owners' = owners /\ handoffs' = handoffs
  BY DEF queue
<1>1. QueueType /\ Banks /\ Queued' = Queued /\ Active' = Active
  BY <1>0 DEF Inv, TypeOK, QueueType, Queued, Items, Active
<1>2. QueueType' /\ Banks'
  BY <1>1, NothingScheduled DEF Effect
<1>3. FollowPart'
  BY <1>0 DEF Inv, Worker, FollowPart
<1>4. \A p \in Owners : call'[p] = IF p = o THEN c ELSE call[p]
  BY DEF Inv, TypeOK
<1>5. Local \subseteq Owners
  BY SchedulerAssumption
<1>6. Registered'
  <2>1. \A x \in Keys : \A p \in owners[x] \cap Local : call'[p].pc \in {"live", "retire"}
    BY <1>4, <1>5 DEF Inv, Registered
  <2>2. \A e \in Queued : e.key \in KeysOf[e.job] /\ (e.job \in Local => call'[e.job].pc # "new")
    BY <1>4, <1>5 DEF Inv, Registered
  <2>3. running # NULL => /\ running.key \in KeysOf[running.job]
                          /\ running.job \in Local => call'[running.job].pc # "new"
    BY <1>4, <1>5 DEF Inv, Registered
  <2>4. \A k \in Keys : handoffs[k] = owners[k] \cap Local /\ \A p \in owners[k] : k \in KeysOf[p]
    BY DEF Inv, Registered
  <2> QED BY <1>0, <1>1, <2>1, <2>2, <2>3, <2>4 DEF Registered
<1>7. LiveJobs'
  <2>1. \A e \in Queued : e.job \in Local /\ call'[e.job].pc = "live" => e.job \in owners[e.key]
    BY <1>4, <1>5 DEF Inv, Registered, LiveJobs
  <2> QED BY <1>0, <1>1, <2>1 DEF LiveJobs
<1>8. \A x \in Keys : Asked(x)' <=> Asked(x)
  BY <1>1, AskedQueued, AskedQueuedNext
<1>9. exclusive \subseteq Keys
  BY DEF Inv, TypeOK
<1>10. Leases' /\ LeaseIsAlone'
  BY <1>1, <1>8, <1>9 DEF Inv, Leases, LeaseIsAlone
<1>11. OwnedIsBusy'
  BY <1>0, <1>1, <1>8 DEF Inv, OwnedIsBusy
<1> QED BY <1>0, <1>2, <1>3, <1>6, <1>7, <1>10, <1>11 DEF Rest

LEMMA ArmKeeps == ASSUME Inv, NEW o \in Owners, Arm(o) PROVE Inv'
<1> DEFINE c == [call[o] EXCEPT !.pc = "live"]
<1>1. /\ UNCHANGED queue /\ running' = running /\ again' = again /\ exclusive' = exclusive /\ late' = late
      /\ closed' = closed /\ stop' = stop /\ wpc' = wpc /\ call[o].pc = "new"
      /\ call' = [call EXCEPT ![o] = c]
  BY DEF Arm, worker
<1>2. call \in [Owners -> Calls] /\ call[o] \in Calls
  BY DEF Inv, TypeOK
<1>3. c \in Calls /\ c.pc = "live"
  BY <1>2 DEF Calls
<1> HIDE DEF c
<1>4. Rest' /\ owners' = owners
  BY <1>1, <1>3, CallKeeps
<1>5. call' \in [Owners -> Calls]
  BY <1>1, <1>2, <1>3
<1>6. OtherType' /\ PcPart'
  BY <1>1, <1>5, Parts DEF OtherType, PcPart
<1>7. RunsKnown'
  <2>1. running.job \in Local /\ wpc \in {"check", "pass"} => running.job # o /\ call'[running.job] = call[running.job]
    BY <1>1, <1>2, RunningEntry DEF Inv, Worker, Registered
  <2> QED BY <1>1, <1>4, <2>1 DEF Inv, RunsKnown, Known
<1> QED BY <1>4, <1>6, <1>7, Assembled

LEMMA RetireKeeps == ASSUME Inv, NEW o \in Owners, NEW wait \in BOOLEAN, Retire(o, wait) PROVE Inv'
<1> DEFINE c == [pc |-> "retire", wait |-> wait, keys |-> {}]
<1>1. /\ UNCHANGED queue /\ running' = running /\ again' = again /\ exclusive' = exclusive /\ late' = late
      /\ closed' = closed /\ stop' = stop /\ wpc' = wpc
      /\ call' = [call EXCEPT ![o] = c]
      /\ call[o].pc = "live" \/ (call[o].pc \in {"quiet", "left"} /\ ~call[o].wait)
  BY DEF Retire, worker
<1>2. call \in [Owners -> Calls] /\ call[o] \in Calls
  BY DEF Inv, TypeOK
<1>3. c \in Calls /\ c.pc = "retire"
  BY DEF Calls
<1> HIDE DEF c
<1>4. Rest' /\ owners' = owners
  BY <1>1, <1>3, CallKeeps
<1>5. call' \in [Owners -> Calls] /\ call'[o] = c
  BY <1>1, <1>2, <1>3
<1>6. OtherType' /\ PcPart'
  BY <1>1, <1>5, Parts DEF OtherType, PcPart
<1>7. RunsKnown'
  <2>1. wpc \in {"check", "pass"} => running.job \in Owners
    BY RunningEntry DEF Inv, Worker
  <2>2. CASE running.job # o \/ wpc \notin {"check", "pass"}
    <3>1. wpc \in {"check", "pass"} => call'[running.job] = call[running.job]
      BY <1>1, <1>2, <2>1, <2>2
    <3> QED BY <1>1, <1>4, <3>1 DEF Inv, RunsKnown, Known
  <2>3. CASE running.job = o /\ wpc \in {"check", "pass"}
    <3>1. RunsKnown
      BY DEF Inv
    <3> QED BY <1>1, <1>3, <1>4, <1>5, <2>3, <3>1 DEF RunsKnown, Known
  <2> QED BY <2>2, <2>3
<1> QED BY <1>4, <1>6, <1>7, Assembled

LEMMA RetireReturnsKeeps == ASSUME Inv, NEW o \in Owners, RetireReturns(o) PROVE Inv'
<1> DEFINE c == [call[o] EXCEPT !.pc = IF call[o].keys \cap Active = {} THEN "quiet" ELSE "left"]
<1>1. /\ UNCHANGED queue /\ running' = running /\ again' = again /\ exclusive' = exclusive /\ late' = late
      /\ closed' = closed /\ stop' = stop /\ wpc' = wpc
      /\ call' = [call EXCEPT ![o] = c] /\ call[o].pc = "wait"
  BY DEF RetireReturns, worker
<1>2. call \in [Owners -> Calls] /\ call[o] \in Calls
  BY DEF Inv, TypeOK
<1>3. /\ c \in Calls /\ c.wait = call[o].wait /\ c.pc \in {"quiet", "left"}
      /\ c.pc = "quiet" => call[o].keys \cap Active = {}
  BY <1>2 DEF Calls
<1> HIDE DEF c
<1>4. Rest' /\ owners' = owners
  BY <1>1, <1>3, CallKeeps
<1>5. call' \in [Owners -> Calls] /\ call'[o] = c
  BY <1>1, <1>2, <1>3
<1>6. OtherType' /\ PcPart'
  BY <1>1, <1>5, Parts DEF OtherType, PcPart
<1>7. RunsKnown'
  <2>1. wpc \in {"check", "pass"} => running.job \in Owners /\ running.key \in Active
    BY RunningEntry DEF Inv, Worker, Active
  <2>2. CASE running.job # o \/ wpc \notin {"check", "pass"}
    <3>1. wpc \in {"check", "pass"} => call'[running.job] = call[running.job]
      BY <1>1, <1>2, <2>1, <2>2
    <3> QED BY <1>1, <1>4, <3>1 DEF Inv, RunsKnown, Known
  <2>3. CASE running.job = o /\ wpc \in {"check", "pass"}
    <3>1. RunsKnown
      BY DEF Inv
    <3> QED BY <1>1, <1>3, <1>4, <1>5, <2>1, <2>3, <3>1 DEF RunsKnown, Known
  <2> QED BY <2>2, <2>3
<1> QED BY <1>4, <1>6, <1>7, Assembled

(* Leases. *)
LEMMA LeaseKeeps ==
  ASSUME Inv, NEW k \in Keys, TryAcquireExclusive(k) \/ ReleaseExclusive(k)
  PROVE  Inv'
<1>1. /\ UNCHANGED queue /\ running' = running /\ again' = again /\ late' = late
      /\ closed' = closed /\ stop' = stop /\ wpc' = wpc /\ call' = call
  BY DEF TryAcquireExclusive, ReleaseExclusive, worker
<1>2. /\ jobs' = jobs /\ deferred' = deferred /\ waiting' = waiting /\ followUp' = followUp
      /\ owners' = owners /\ handoffs' = handoffs
  BY <1>1 DEF queue
<1>3. QueueType /\ Banks /\ Queued' = Queued /\ Active' = Active
  BY <1>1, <1>2 DEF Inv, TypeOK, QueueType, Queued, Items, Active
<1>4. QueueType' /\ Banks'
  BY <1>1, <1>3, NothingScheduled DEF Effect
<1>5. FollowPart' /\ Registered' /\ LiveJobs'
  BY <1>1, <1>2, <1>3 DEF Inv, Worker, FollowPart, Registered, LiveJobs
<1>6. \A x \in Keys : Asked(x)' <=> Asked(x)
  BY <1>3, AskedQueued, AskedQueuedNext
<1>7. OwnedIsBusy'
  BY <1>2, <1>3, <1>6 DEF Inv, OwnedIsBusy
<1>8. exclusive' \subseteq Keys /\ Leases' /\ LeaseIsAlone'
  BY <1>3, <1>6 DEF Inv, TypeOK, TryAcquireExclusive, ReleaseExclusive, Leases, LeaseIsAlone, Asked
<1>9. RunsKnown'
  BY <1>1, <1>2, RunsOn
<1>10. OtherType' /\ PcPart'
  BY <1>1, <1>8, Parts DEF OtherType, PcPart
<1> QED BY <1>4, <1>5, <1>7, <1>8, <1>9, <1>10, Assembled DEF Rest

(* Entries move up or are taken to be run; nobody's registration changes. *)
LEMMA MovesKeep ==
  ASSUME Inv, QueueType', Banks', FollowPart', exclusive' = exclusive, call' = call,
         owners' = owners, handoffs' = handoffs, Queued' \subseteq Queued,
         running' \in Queued \cup {running, NULL},
         \A k \in Keys : Asked(k) \/ k \in Active => Asked(k)' \/ k \in Active'
  PROVE  Rest'
<1>1. Registered' /\ LiveJobs'
  BY DEF Inv, Registered, LiveJobs
<1>2. OwnedIsBusy'
  BY DEF Inv, OwnedIsBusy
<1>3. ASSUME NEW x \in exclusive PROVE x \notin Active' /\ ~Asked(x)'
  <2>1. x \notin Active /\ ~Asked(x)
    BY DEF Inv, LeaseIsAlone
  <2>2. \A e \in Queued : e.key # x
    BY <2>1, AskedQueued
  <2>3. ~Asked(x)'
    BY <2>2, AskedQueuedNext
  <2>4. x \notin Active'
    BY <2>1, <2>2 DEF Active
  <2> QED BY <2>3, <2>4
<1>4. Leases' /\ LeaseIsAlone'
  BY <1>3 DEF Inv, Leases, LeaseIsAlone
<1> QED BY <1>1, <1>2, <1>4 DEF Rest

LEMMA DelayElapsesKeeps == ASSUME Inv, NEW k \in Keys, DelayElapses(k) PROVE Inv'
<1>1. /\ jobs' = jobs /\ deferred' = deferred /\ waiting' \subseteq waiting /\ followUp' = followUp
      /\ owners' = owners /\ handoffs' = handoffs
      /\ running' = running /\ again' = again /\ exclusive' = exclusive /\ late' = late
      /\ closed' = closed /\ stop' = stop /\ wpc' = wpc /\ call' = call
  BY DEF DelayElapses, worker
<1>2. QueueType' /\ FollowPart'
  BY <1>1 DEF Inv, TypeOK, QueueType, Worker, FollowPart
<1>3. Banks'
  BY <1>1 DEF Inv, Banks, Unique, KeysIn
<1>4. Queued' = Queued /\ Active' = Active
  BY <1>1 DEF Queued, Items, Active
<1>5. \A x \in Keys : Asked(x)' <=> Asked(x)
  BY <1>4, AskedQueued, AskedQueuedNext
<1>6. Rest'
  BY <1>1, <1>2, <1>3, <1>4, <1>5, MovesKeep
<1>7. OtherType' /\ PcPart'
  BY <1>1, Parts DEF OtherType, PcPart
<1>8. RunsKnown'
  BY <1>1, RunsOn
<1> QED BY <1>6, <1>7, <1>8, Assembled

(* A bank of one entry. *)
LEMMA OneEntry ==
  ASSUME NEW e \in Entry
  PROVE  /\ <<e>> \in Seq(Entry) /\ Len(<<e>>) = 1 /\ Unique(<<e>>)
         /\ Items(<<e>>) = {e} /\ KeysIn(<<e>>) = {e.key}
<1>1. <<e>> \in Seq(Entry) /\ Len(<<e>>) = 1 /\ DOMAIN <<e>> = {1} /\ <<e>>[1] = e
  OBVIOUS
<1> QED BY <1>1 DEF Unique, Items, KeysIn

LEMMA NoEntry ==
  /\ <<>> \in Seq(Entry) /\ Len(<<>>) = 0 /\ Unique(<<>>) /\ Items(<<>>) = {} /\ KeysIn(<<>>) = {}
<1>1. <<>> \in Seq(Entry) /\ Len(<<>>) = 0 /\ DOMAIN <<>> = {}
  OBVIOUS
<1> QED BY <1>1 DEF Unique, Items, KeysIn

(* The banks as the worker finds them hold the same entries. *)
LEMMA ReadyBanks ==
  ASSUME Inv
  PROVE  /\ ReadyQueue \in Seq(Entry) /\ Len(ReadyQueue) <= MaxPending /\ Unique(ReadyQueue)
         /\ Backlog \in Seq(Entry) /\ Len(Backlog) <= MaxPending /\ Unique(Backlog)
         /\ KeysIn(ReadyQueue) \cap KeysIn(Backlog) = {}
         /\ KeysIn(ReadyQueue) \cup KeysIn(Backlog) = KeysIn(jobs) \cup KeysIn(deferred)
         /\ Items(ReadyQueue) \cup Items(Backlog) = Items(jobs) \cup Items(deferred)
<1>1. /\ jobs \in Seq(Entry) /\ Len(jobs) <= MaxPending /\ Unique(jobs)
      /\ deferred \in Seq(Entry) /\ Len(deferred) <= MaxPending /\ Unique(deferred)
      /\ KeysIn(jobs) \cap KeysIn(deferred) = {}
  BY DEF Inv, TypeOK, Banks
<1>2. CASE ~Refilled
  BY <1>1, <1>2 DEF ReadyQueue, Backlog
<1>3. CASE Refilled
  <2>1. jobs = <<>> /\ deferred # <<>> /\ ReadyQueue = <<Head(deferred)>> /\ Backlog = Tail(deferred)
    BY <1>3 DEF Refilled, ReadyQueue, Backlog
  <2>2. /\ Tail(deferred) \in Seq(Entry) /\ Len(Tail(deferred)) = Len(deferred) - 1
        /\ Unique(Tail(deferred)) /\ Head(deferred) \in Entry
        /\ Items(deferred) = Items(Tail(deferred)) \cup {Head(deferred)}
        /\ KeysIn(Tail(deferred)) = KeysIn(deferred) \ {Head(deferred).key}
        /\ Head(deferred).key \in KeysIn(deferred)
    BY <1>1, <2>1, TailBank
  <2>3. /\ <<Head(deferred)>> \in Seq(Entry) /\ Len(<<Head(deferred)>>) = 1 /\ Unique(<<Head(deferred)>>)
        /\ Items(<<Head(deferred)>>) = {Head(deferred)} /\ KeysIn(<<Head(deferred)>>) = {Head(deferred).key}
    BY <2>2, OneEntry
  <2>4. MaxPending >= 1 /\ Len(deferred) - 1 <= MaxPending
    <3>1. MaxPending \in Nat \ {0} /\ Len(deferred) \in Nat
      BY <1>1, SchedulerAssumption
    <3> QED BY <1>1, <3>1
  <2>5. KeysIn(jobs) = {} /\ Items(jobs) = {}
    BY <2>1, NoEntry
  <2> QED BY <2>1, <2>2, <2>3, <2>4, <2>5
<1> QED BY <1>2, <1>3

LEMMA RefillKeeps == ASSUME Inv, Refill PROVE Inv' /\ Queued' = Queued
<1>1. /\ jobs' = ReadyQueue /\ deferred' = Backlog /\ waiting' = waiting /\ followUp' = followUp
      /\ owners' = owners /\ handoffs' = handoffs
      /\ running' = running /\ again' = again /\ exclusive' = exclusive /\ late' = late
      /\ closed' = closed /\ stop' = stop /\ wpc' = wpc /\ call' = call
  BY DEF Refill, worker
<1>2. QueueType' /\ FollowPart'
  BY <1>1, ReadyBanks DEF Inv, TypeOK, QueueType, Worker, FollowPart
<1>3. Banks'
  <2>1. /\ Unique(jobs)' /\ Unique(deferred)'
        /\ KeysIn(jobs)' = KeysIn(ReadyQueue) /\ KeysIn(deferred)' = KeysIn(Backlog)
    BY <1>1, ReadyBanks DEF Unique, KeysIn
  <2> QED BY <1>1, <2>1, ReadyBanks DEF Inv, Banks
<1>4. Queued' = Queued /\ Active' = Active
  <2>1. Items(jobs)' = Items(ReadyQueue) /\ Items(deferred)' = Items(Backlog)
    BY <1>1 DEF Items
  <2> QED BY <1>1, <2>1, ReadyBanks DEF Queued, Active
<1>5. \A x \in Keys : Asked(x)' <=> Asked(x)
  BY <1>4, AskedQueued, AskedQueuedNext
<1>6. Rest'
  BY <1>1, <1>2, <1>3, <1>4, <1>5, MovesKeep
<1>7. OtherType' /\ PcPart'
  BY <1>1, Parts DEF OtherType, PcPart
<1>8. RunsKnown'
  BY <1>1, RunsOn
<1> QED BY <1>4, <1>6, <1>7, <1>8, Assembled

(* The overflow bank gives up its first entry, if it has one. *)
LEMMA MovesUpBanks ==
  ASSUME Inv
  PROVE  LET left == SubSeq(Backlog, Len(MovesUp) + 1, Len(Backlog)) IN
         /\ MovesUp \in Seq(Entry) /\ Len(MovesUp) <= 1 /\ Unique(MovesUp)
         /\ left \in Seq(Entry) /\ Len(left) <= MaxPending /\ Unique(left)
         /\ KeysIn(MovesUp) \cap KeysIn(left) = {}
         /\ KeysIn(MovesUp) \cup KeysIn(left) = KeysIn(Backlog)
         /\ Items(MovesUp) \cup Items(left) = Items(Backlog)
<1> DEFINE b == Backlog
           left == SubSeq(b, Len(MovesUp) + 1, Len(b))
<1>1. b \in Seq(Entry) /\ Len(b) <= MaxPending /\ Unique(b) /\ MaxPending \in Nat
  BY ReadyBanks, SchedulerAssumption
<1>2. MovesUp = IF b = <<>> THEN <<>> ELSE <<Head(b)>>
  BY DEF MovesUp
<1> HIDE DEF b
<1>3. CASE b = <<>>
  <2>1. MovesUp = <<>> /\ left = <<>>
    BY <1>2, <1>3
  <2> HIDE DEF left
  <2>2. /\ MovesUp \in Seq(Entry) /\ Len(MovesUp) <= 1 /\ Unique(MovesUp)
        /\ left \in Seq(Entry) /\ Len(left) <= MaxPending /\ Unique(left)
        /\ KeysIn(MovesUp) \cap KeysIn(left) = {}
        /\ KeysIn(MovesUp) \cup KeysIn(left) = KeysIn(b)
        /\ Items(MovesUp) \cup Items(left) = Items(b)
    BY <1>1, <1>3, <2>1, NoEntry
  <2> QED BY <2>2 DEF left, b
<1>4. CASE b # <<>>
  <2>1. MovesUp = <<Head(b)>> /\ Len(MovesUp) = 1
    BY <1>2, <1>4
  <2>2. left = Tail(b)
    BY <1>1, <1>4, <2>1
  <2>3. /\ Tail(b) \in Seq(Entry) /\ Len(Tail(b)) = Len(b) - 1 /\ Unique(Tail(b)) /\ Head(b) \in Entry
        /\ Items(b) = Items(Tail(b)) \cup {Head(b)}
        /\ KeysIn(Tail(b)) = KeysIn(b) \ {Head(b).key} /\ Head(b).key \in KeysIn(b)
    BY <1>1, <1>4, TailBank
  <2>4. /\ MovesUp \in Seq(Entry) /\ Unique(MovesUp)
        /\ Items(MovesUp) = {Head(b)} /\ KeysIn(MovesUp) = {Head(b).key}
    BY <2>1, <2>3, OneEntry
  <2>5. Len(b) - 1 <= MaxPending
    <3>1. Len(b) \in Nat
      BY <1>1
    <3> QED BY <1>1, <3>1
  <2> HIDE DEF left
  <2>6. /\ MovesUp \in Seq(Entry) /\ Len(MovesUp) <= 1 /\ Unique(MovesUp)
        /\ left \in Seq(Entry) /\ Len(left) <= MaxPending /\ Unique(left)
        /\ KeysIn(MovesUp) \cap KeysIn(left) = {}
        /\ KeysIn(MovesUp) \cup KeysIn(left) = KeysIn(b)
        /\ Items(MovesUp) \cup Items(left) = Items(b)
    BY <2>1, <2>2, <2>3, <2>4, <2>5
  <2> QED BY <2>6 DEF left, b
<1> QED BY <1>3, <1>4

LEMMA TakeKeeps ==
  ASSUME Inv, NEW i \in DOMAIN ReadyQueue, Take(i)
  PROVE  /\ Inv' /\ Queued' \subseteq Queued
         /\ \A k \in Keys : Asked(k) => Asked(k)' \/ k \in Active'
<1> DEFINE q == ReadyQueue
           entry == q[i]
           rest == SubSeq(q, i + 1, Len(q)) \o SubSeq(q, 1, i - 1)
           left == SubSeq(Backlog, Len(MovesUp) + 1, Len(Backlog))
<1>1. /\ jobs' = rest \o MovesUp /\ deferred' = left
      /\ running' = entry /\ wpc' = Begin(entry) /\ again' = FALSE
      /\ waiting' = waiting /\ followUp' = followUp /\ owners' = owners /\ handoffs' = handoffs
      /\ exclusive' = exclusive /\ late' = late /\ closed' = closed /\ stop' = stop /\ call' = call
      /\ wpc = "idle" /\ entry.key \notin waiting
  BY DEF Take
<1>2. /\ q \in Seq(Entry) /\ Len(q) <= MaxPending /\ Unique(q)
      /\ KeysIn(q) \cap KeysIn(Backlog) = {}
      /\ KeysIn(q) \cup KeysIn(Backlog) = KeysIn(jobs) \cup KeysIn(deferred)
      /\ Items(q) \cup Items(Backlog) = Items(jobs) \cup Items(deferred)
  BY ReadyBanks
<1>3. /\ MovesUp \in Seq(Entry) /\ Len(MovesUp) <= 1 /\ Unique(MovesUp)
      /\ left \in Seq(Entry) /\ Len(left) <= MaxPending /\ Unique(left)
      /\ KeysIn(MovesUp) \cap KeysIn(left) = {}
      /\ KeysIn(MovesUp) \cup KeysIn(left) = KeysIn(Backlog)
      /\ Items(MovesUp) \cup Items(left) = Items(Backlog)
  BY MovesUpBanks
<1>4. i \in 1..Len(q) /\ entry \in Entry /\ entry \in Items(q) /\ entry.key \in KeysIn(q)
  <2>1. i \in 1..Len(q) /\ i \in DOMAIN q
    BY <1>2
  <2> QED BY <1>2, <2>1, Elements DEF Items, KeysIn
<1> HIDE DEF q, left
<1>5. /\ rest \in Seq(Entry) /\ Len(rest) = Len(q) - 1 /\ Unique(rest)
      /\ Items(rest) \subseteq Items(q) /\ KeysIn(rest) = KeysIn(q) \ {entry.key}
  BY <1>2, <1>4, Rotation
<1> HIDE DEF rest, entry
<1>6. /\ rest \o MovesUp \in Seq(Entry) /\ Len(rest \o MovesUp) = Len(rest) + Len(MovesUp)
      /\ Unique(rest \o MovesUp)
      /\ Items(rest \o MovesUp) = Items(rest) \cup Items(MovesUp)
      /\ KeysIn(rest \o MovesUp) = KeysIn(rest) \cup KeysIn(MovesUp)
  <2>1. KeysIn(rest) \cap KeysIn(MovesUp) = {}
    BY <1>2, <1>3, <1>5
  <2> QED BY <1>3, <1>5, <2>1, JoinBanks
<1>7. Len(jobs') <= MaxPending
  <2>1. Len(q) \in Nat /\ Len(MovesUp) \in Nat /\ MaxPending \in Nat
    BY <1>2, <1>3, SchedulerAssumption
  <2>2. Len(jobs') = (Len(q) - 1) + Len(MovesUp)
    BY <1>1, <1>5, <1>6
  <2> QED BY <1>2, <1>3, <2>1, <2>2
<1>8. running = NULL /\ followUp = NULL
  BY <1>1 DEF Inv, Worker
<1>9. QueueType' /\ FollowPart'
  BY <1>1, <1>3, <1>6, <1>7, <1>8 DEF Inv, TypeOK, QueueType, FollowPart
<1>10. /\ Unique(jobs)' /\ Unique(deferred)'
       /\ KeysIn(jobs)' = KeysIn(rest) \cup KeysIn(MovesUp) /\ KeysIn(deferred)' = KeysIn(left)
       /\ Items(jobs)' = Items(rest) \cup Items(MovesUp) /\ Items(deferred)' = Items(left)
  <2>1. Unique(jobs') /\ Unique(deferred') /\ KeysIn(jobs') = KeysIn(rest) \cup KeysIn(MovesUp)
        /\ Items(jobs') = Items(rest) \cup Items(MovesUp) /\ deferred' = left
    BY <1>1, <1>3, <1>6
  <2>2. Unique(jobs)' <=> Unique(jobs')
    BY DEF Unique
  <2>3. Unique(deferred)' <=> Unique(deferred')
    BY DEF Unique
  <2>4. KeysIn(jobs)' = KeysIn(jobs') /\ KeysIn(deferred)' = KeysIn(deferred')
    BY DEF KeysIn
  <2>5. Items(jobs)' = Items(jobs') /\ Items(deferred)' = Items(deferred')
    BY DEF Items
  <2> QED BY <2>1, <2>2, <2>3, <2>4, <2>5
<1>11. KeysIn(jobs)' \cup KeysIn(deferred)' = (KeysIn(jobs) \cup KeysIn(deferred)) \ {entry.key}
  BY <1>2, <1>3, <1>4, <1>5, <1>10
<1>12. Banks'
  <2>1. waiting \subseteq KeysIn(jobs) \cup KeysIn(deferred)
    BY DEF Inv, Banks
  <2>2. waiting' \subseteq KeysIn(jobs)' \cup KeysIn(deferred)'
    BY <1>1, <1>11, <2>1
  <2>3. KeysIn(jobs)' \cap KeysIn(deferred)' = {}
    BY <1>2, <1>3, <1>5, <1>10
  <2> QED BY <1>10, <2>2, <2>3 DEF Banks
<1>13. Queued' \subseteq Queued /\ running' \in Queued
  BY <1>1, <1>2, <1>3, <1>4, <1>5, <1>8, <1>10 DEF Queued
<1>14. Active' = {entry.key}
  <2>1. entry # NULL
    BY <1>4, SchedulerAssumption DEF Entry
  <2> QED BY <1>1, <2>1 DEF Active
<1>15. ASSUME NEW k \in Keys, Asked(k) \/ k \in Active PROVE Asked(k)' \/ k \in Active'
  <2>1. k \in KeysIn(jobs) \cup KeysIn(deferred)
    BY <1>8, <1>15 DEF Asked, Active, Pending, FollowsUp
  <2> QED BY <1>11, <1>14, <2>1 DEF Asked, Pending
<1>16. Rest'
  BY <1>1, <1>9, <1>12, <1>13, <1>15, MovesKeep
<1>17. running' \in Entry /\ running' # NULL
  BY <1>1, <1>4, SchedulerAssumption DEF Entry
<1>18. OtherType' /\ PcPart'
  BY <1>1, <1>17, Parts DEF OtherType, PcPart, Begin
<1>19. RunsKnown'
  <2>1. running'.job \in Local /\ call[running'.job].pc = "live" => running'.job \in owners[running'.key]
    BY <1>13 DEF Inv, LiveJobs
  <2>2. wpc' = "pass" => running'.job \notin Local
    BY <1>1 DEF Begin
  <2> QED BY <1>1, <2>1, <2>2 DEF RunsKnown
<1> QED BY <1>13, <1>15, <1>16, <1>18, <1>19, Assembled

LEMMA FollowUpKeeps == ASSUME Inv, FollowUp PROVE Inv'
<1>1. /\ wpc = "finish" /\ followUp # NULL /\ running' = followUp /\ wpc' = Begin(followUp) /\ again' = TRUE
      /\ followUp' = NULL /\ jobs' = jobs /\ deferred' = deferred /\ waiting' = waiting
      /\ owners' = owners /\ handoffs' = handoffs /\ exclusive' = exclusive /\ late' = late
      /\ closed' = closed /\ stop' = stop /\ call' = call
  BY DEF FollowUp, FollowsUp
<1>2. followUp \in Entry /\ followUp \in Queued /\ running # NULL /\ followUp.key = running.key
  BY <1>1 DEF Inv, TypeOK, Queued, Worker
<1>3. QueueType' /\ FollowPart'
  BY <1>1 DEF Inv, TypeOK, QueueType, FollowPart
<1>4. Banks'
  BY <1>1 DEF Inv, Banks, Unique, KeysIn
<1>5. Queued' \subseteq Queued /\ Active' = Active
  BY <1>1, <1>2 DEF Queued, Items, Active
<1>6. ASSUME NEW k \in Keys, Asked(k) \/ k \in Active PROVE Asked(k)' \/ k \in Active'
  <2>1. Pending(k)' <=> Pending(k)
    BY <1>1 DEF Pending, KeysIn
  <2>2. FollowsUp(k) => k \in Active
    BY <1>2 DEF FollowsUp, Active
  <2> QED BY <1>5, <1>6, <2>1, <2>2 DEF Asked
<1>7. Rest'
  BY <1>1, <1>2, <1>3, <1>4, <1>5, <1>6, MovesKeep
<1>8. OtherType' /\ PcPart'
  BY <1>1, <1>2, Parts DEF OtherType, PcPart, Begin
<1>9. RunsKnown'
  <2>1. running'.job \in Local /\ call[running'.job].pc = "live" => running'.job \in owners[running'.key]
    BY <1>1, <1>2 DEF Inv, LiveJobs
  <2>2. wpc' = "pass" => running'.job \notin Local
    BY <1>1 DEF Begin
  <2> QED BY <1>1, <2>1, <2>2 DEF RunsKnown
<1> QED BY <1>7, <1>8, <1>9, Assembled

(* Registrations go with the last of what they are for. *)
LEMMA ReleaseKeeps ==
  ASSUME Inv, NEW keys, NEW active, Release(keys, active)
  PROVE  /\ owners' \in [Keys -> SUBSET Owners] /\ handoffs' \in [Keys -> SUBSET Owners]
         /\ \A k \in Keys : owners'[k] = IF k \in keys \ (active \cup exclusive) THEN {} ELSE owners[k]
         /\ \A k \in Keys : owners'[k] \subseteq owners[k] /\ handoffs'[k] = owners'[k] \cap Local
<1>1. /\ owners' = [k \in Keys |-> IF k \in keys \ (active \cup exclusive) THEN {} ELSE owners[k]]
      /\ handoffs' = [k \in Keys |-> IF k \in keys \ (active \cup exclusive) THEN {} ELSE handoffs[k]]
  BY DEF Release
<1>2. owners \in [Keys -> SUBSET Owners] /\ handoffs \in [Keys -> SUBSET Owners]
  BY DEF Inv, TypeOK
<1>3. \A k \in Keys : handoffs[k] = owners[k] \cap Local
  BY DEF Inv, Registered
<1> QED BY <1>1, <1>2, <1>3

LEMMA FinishKeeps == ASSUME Inv, Finish PROVE Inv'
<1> DEFINE done == IF Pending(running.key) THEN {} ELSE {running.key}
<1>1. /\ wpc = "finish" /\ ~FollowsUp(running.key) /\ running' = NULL /\ wpc' = "idle" /\ again' = FALSE
      /\ jobs' = jobs /\ deferred' = deferred /\ waiting' = waiting /\ followUp' = followUp
      /\ exclusive' = exclusive /\ closed' = closed /\ stop' = stop /\ call' = call
      /\ late' = [o \in Owners |-> late[o] \ {running.key}]
      /\ Release(done, {})
  BY DEF Finish
<1>2. running # NULL /\ followUp = NULL /\ running.key \in Keys
  BY <1>1, RunningEntry DEF Inv, Worker, FollowsUp
<1>3. /\ owners' \in [Keys -> SUBSET Owners] /\ handoffs' \in [Keys -> SUBSET Owners]
      /\ \A k \in Keys : owners'[k] = IF k \in done \ ({} \cup exclusive) THEN {} ELSE owners[k]
      /\ \A k \in Keys : owners'[k] \subseteq owners[k] /\ handoffs'[k] = owners'[k] \cap Local
  BY <1>1, ReleaseKeeps
<1>4. Active = {running.key} /\ running.key \notin exclusive /\ Active' = {}
  BY <1>1, <1>2 DEF Inv, LeaseIsAlone, Active
<1>5. QueueType' /\ FollowPart'
  BY <1>1, <1>2, <1>3 DEF Inv, TypeOK, QueueType, FollowPart
<1>6. Banks'
  BY <1>1 DEF Inv, Banks, Unique, KeysIn
<1>7. Queued' = Queued
  BY <1>1 DEF Queued, Items
<1>8. \A x \in Keys : Asked(x)' <=> Asked(x)
  BY <1>7, AskedQueued, AskedQueuedNext
<1>9. Registered'
  BY <1>1, <1>3, <1>7 DEF Inv, Registered
<1>10. LiveJobs'
  <2> SUFFICES ASSUME NEW e \in Queued, e.job \in Local, call[e.job].pc = "live"
               PROVE  e.job \in owners'[e.key]
    BY <1>1, <1>7 DEF LiveJobs
  <2>1. e.job \in owners[e.key]
    BY DEF Inv, LiveJobs
  <2>2. e \in Items(jobs) \cup Items(deferred)
    BY <1>2 DEF Queued
  <2>3. Pending(e.key) /\ e.key \in Keys
    BY <2>2, Elements DEF Inv, TypeOK, Pending
  <2>4. e.key \notin done
    BY <2>3
  <2> QED BY <1>3, <2>1, <2>3, <2>4
<1>11. OwnedIsBusy'
  <2> SUFFICES ASSUME NEW x \in Keys, owners'[x] # {} PROVE Asked(x)'
    BY DEF OwnedIsBusy
  <2>1. owners[x] # {} /\ x \notin done \ exclusive
    BY <1>3
  <2>2. Asked(x) \/ x = running.key
    BY <1>4, <2>1 DEF Inv, OwnedIsBusy
  <2>3. x = running.key => Pending(x)
    BY <1>4, <2>1
  <2> QED BY <1>8, <2>2, <2>3 DEF Asked
<1>12. Leases' /\ LeaseIsAlone'
  <2>1. exclusive \subseteq Keys
    BY DEF Inv, TypeOK
  <2> QED BY <1>1, <1>4, <1>8, <2>1 DEF Inv, Leases, LeaseIsAlone
<1>13. OtherType' /\ PcPart'
  <2>1. late' \in [Owners -> SUBSET Keys]
    BY <1>1 DEF Inv, TypeOK
  <2> QED BY <1>1, <2>1, Parts DEF OtherType, PcPart
<1>14. RunsKnown'
  BY <1>1 DEF RunsKnown
<1> QED BY <1>5, <1>6, <1>9, <1>10, <1>11, <1>12, <1>13, <1>14, Assembled DEF Rest

(* At exit the queue is emptied. *)
LEMMA QuiescedKeeps ==
  ASSUME Inv, Quiesced, running' = running, again' = again, exclusive' = exclusive, late' = late,
         call' = call, wpc' = wpc \/ (running = NULL /\ wpc' = "gone"), stop' = stop
  PROVE  Inv'
<1> DEFINE idle == {k \in Keys : Pending(k) \/ FollowsUp(k)}
<1>1. /\ closed' = TRUE /\ jobs' = <<>> /\ deferred' = <<>> /\ waiting' = {} /\ followUp' = NULL
      /\ Release(idle, Active)
  BY DEF Quiesced
<1>2. /\ owners' \in [Keys -> SUBSET Owners] /\ handoffs' \in [Keys -> SUBSET Owners]
      /\ \A k \in Keys : owners'[k] = IF k \in idle \ (Active \cup exclusive) THEN {} ELSE owners[k]
      /\ \A k \in Keys : owners'[k] \subseteq owners[k] /\ handoffs'[k] = owners'[k] \cap Local
  BY <1>1, ReleaseKeeps
<1>3. QueueType' /\ FollowPart'
  <2>1. MaxPending \in Nat
    BY SchedulerAssumption
  <2> QED BY <1>1, <1>2, <2>1, NoEntry DEF QueueType, FollowPart
<1>4. /\ KeysIn(jobs)' = {} /\ KeysIn(deferred)' = {} /\ Items(jobs)' = {} /\ Items(deferred)' = {}
      /\ Unique(jobs)' /\ Unique(deferred)'
  BY <1>1, NoEntry DEF KeysIn, Items, Unique
<1>5. Banks' /\ Queued' = {}
  BY <1>1, <1>4 DEF Banks, Queued
<1>6. Active' = Active
  BY DEF Active
<1>7. \A x \in Keys : ~Asked(x)'
  BY <1>5, AskedQueuedNext
<1>8. Registered' /\ LiveJobs'
  BY <1>2, <1>5 DEF Inv, Registered, LiveJobs
<1>9. OwnedIsBusy'
  <2> SUFFICES ASSUME NEW x \in Keys, owners'[x] # {} PROVE x \in Active
    BY <1>6 DEF OwnedIsBusy
  <2>1. owners[x] # {} /\ (x \in idle => x \in Active \cup exclusive)
    BY <1>2
  <2>2. Asked(x) \/ x \in Active
    BY <2>1 DEF Inv, OwnedIsBusy
  <2>3. Asked(x) => x \in idle /\ x \notin exclusive
    BY DEF Inv, LeaseIsAlone, Asked
  <2> QED BY <2>1, <2>2, <2>3
<1>10. Leases' /\ LeaseIsAlone'
  <2>1. exclusive \subseteq Keys
    BY DEF Inv, TypeOK
  <2> QED BY <1>6, <1>7, <2>1 DEF Inv, Leases, LeaseIsAlone
<1>11. OtherType' /\ PcPart'
  BY <1>1, Parts DEF OtherType, PcPart
<1>12. RunsKnown'
  <2>1. CASE wpc' \notin {"check", "pass"}
    BY <2>1 DEF RunsKnown
  <2>2. CASE wpc' \in {"check", "pass"}
    <3>1. wpc' = wpc /\ running # NULL
      BY <2>2 DEF Inv, Worker
    <3>2. running.key \in Keys /\ running.key \in Active
      BY <3>1, RunningEntry DEF Active
    <3>3. owners'[running.key] = owners[running.key]
      BY <1>2, <3>2
    <3>4. RunsKnown
      BY DEF Inv
    <3> QED BY <3>1, <3>3, <3>4 DEF RunsKnown, Known
  <2> QED BY <2>1, <2>2
<1> QED BY <1>3, <1>5, <1>8, <1>9, <1>10, <1>11, <1>12, Assembled DEF Rest

LEMMA QuiesceKeeps == ASSUME Inv, Quiesce PROVE Inv'
<1>1. /\ Quiesced /\ running' = running /\ again' = again /\ exclusive' = exclusive /\ late' = late
      /\ call' = call /\ wpc' = wpc /\ stop' = stop
  BY DEF Quiesce, worker
<1> QED BY <1>1, QuiescedKeeps

LEMMA WorkerQuiescesKeeps == ASSUME Inv, WorkerQuiesces PROVE Inv'
<1>1. /\ Quiesced /\ running' = running /\ again' = again /\ exclusive' = exclusive /\ late' = late
      /\ call' = call /\ wpc = "idle" /\ wpc' = "gone" /\ stop' = stop
  BY DEF WorkerQuiesces
<1>2. running = NULL
  BY <1>1 DEF Inv, Worker
<1> QED BY <1>1, <1>2, QuiescedKeeps

(* A key the owner shares has a surviving FastEmbed owner as heir, if it has *)
(* one.                                                                     *)
Heirs(heir, o) ==
  \A k \in Keys :
    IF o \in owners[k] /\ owners[k] # {o} /\ handoffs[k] \ {o} # {}
    THEN heir[k] \in handoffs[k] \ {o}
    ELSE heir[k] = NULL

\* What retire_owner leaves of the queue.
Retired(heir, o) ==
  /\ Heirs(heir, o)
  /\ QueueType' /\ Banks'
  /\ \A x \in Queued' : x.key \notin Unshared(o) /\ \E y \in Queued : Heired(x, y, heir)
  /\ \A y \in Queued : y.key \notin Unshared(o) => \E x \in Queued' : x.key = y.key
  /\ followUp' # NULL => followUp # NULL /\ followUp'.key = followUp.key

LEMMA RetireOwnerQueue ==
  ASSUME Inv, NEW o \in Owners, RetireOwner(o)
  PROVE  \E heir \in [Keys -> Owners \cup {NULL}] : Retired(heir, o)
<1> DEFINE keys == {k \in Keys : o \in owners[k]}
           dropped == Unshared(o)
           Survivors(k) == IF k \in keys \ dropped THEN handoffs[k] \ {o} ELSE {}
<1>1. PICK heir \in [Keys -> Owners \cup {NULL}] :
        /\ \A k \in Keys : IF Survivors(k) = {} THEN heir[k] = NULL ELSE heir[k] \in Survivors(k)
        /\ jobs' = Inherited(jobs, heir, dropped)
        /\ deferred' = Inherited(deferred, heir, dropped)
        /\ followUp' = IF followUp = NULL THEN NULL
                       ELSE LET s == Inherited(<<followUp>>, heir, dropped)
                            IN IF s = <<>> THEN NULL ELSE s[1]
  BY DEF RetireOwner
<1>2. waiting' = waiting \ dropped /\ owners' = [k \in Keys |-> owners[k] \ {o}] /\ handoffs' = [k \in Keys |-> handoffs[k] \ {o}]
  BY DEF RetireOwner
<1>3. Heirs(heir, o)
  <2> SUFFICES ASSUME NEW k \in Keys
               PROVE  IF o \in owners[k] /\ owners[k] # {o} /\ handoffs[k] \ {o} # {}
                      THEN heir[k] \in handoffs[k] \ {o} ELSE heir[k] = NULL
    BY DEF Heirs
  <2>1. k \in keys \ dropped <=> o \in owners[k] /\ owners[k] # {o}
    BY DEF Unshared
  <2> QED BY <1>1, <2>1
<1> HIDE DEF dropped, Survivors, keys
<1>4. /\ jobs \in Seq(Entry) /\ Unique(jobs) /\ Len(jobs) <= MaxPending
      /\ deferred \in Seq(Entry) /\ Unique(deferred) /\ Len(deferred) <= MaxPending
      /\ KeysIn(jobs) \cap KeysIn(deferred) = {}
      /\ waiting \subseteq KeysIn(jobs) \cup KeysIn(deferred)
      /\ waiting \subseteq Keys /\ MaxPending \in Nat
  BY SchedulerAssumption DEF Inv, TypeOK, Banks
<1>5. /\ jobs' \in Seq(Entry) /\ Len(jobs') <= Len(jobs) /\ Unique(jobs')
      /\ KeysIn(jobs') = KeysIn(jobs) \ dropped
      /\ \A x \in Items(jobs') : \E y \in Items(jobs) : Heired(x, y, heir)
  BY <1>1, <1>4, InheritedBank
<1>6. /\ deferred' \in Seq(Entry) /\ Len(deferred') <= Len(deferred) /\ Unique(deferred')
      /\ KeysIn(deferred') = KeysIn(deferred) \ dropped
      /\ \A x \in Items(deferred') : \E y \in Items(deferred) : Heired(x, y, heir)
  BY <1>1, <1>4, InheritedBank
<1>7. /\ followUp' \in Entry \cup {NULL}
      /\ followUp' # NULL => followUp # NULL /\ Heired(followUp', followUp, heir) /\ followUp'.key \notin dropped
      /\ followUp # NULL /\ followUp.key \notin dropped => followUp' # NULL /\ followUp'.key = followUp.key
  <2>1. CASE followUp = NULL
    BY <1>1, <2>1
  <2>2. CASE followUp # NULL
    <3> DEFINE s == Inherited(<<followUp>>, heir, dropped)
    <3>1. followUp \in Entry
      BY <2>2 DEF Inv, TypeOK
    <3>2. /\ followUp.key \in dropped => s = <<>>
          /\ followUp.key \notin dropped => s # <<>> /\ s[1] \in Entry /\ Heired(s[1], followUp, heir)
      BY <3>1, InheritedOne
    <3>3. followUp' = IF s = <<>> THEN NULL ELSE s[1]
      BY <1>1, <2>2
    <3> HIDE DEF s
    <3>4. CASE followUp.key \in dropped
      BY <2>2, <3>2, <3>3, <3>4
    <3>5. CASE followUp.key \notin dropped
      <4>1. followUp' = s[1] /\ s[1] \in Entry /\ Heired(s[1], followUp, heir)
        BY <3>2, <3>3, <3>5
      <4>2. s[1] # NULL
        BY <4>1, SchedulerAssumption DEF Entry
      <4> QED BY <2>2, <3>5, <4>1, <4>2 DEF Heired
    <3> QED BY <3>4, <3>5
  <2> QED BY <2>1, <2>2
<1>8. QueueType'
  <2>1. Len(jobs') \in Nat /\ Len(deferred') \in Nat /\ Len(jobs) \in Nat /\ Len(deferred) \in Nat
    BY <1>4, <1>5, <1>6
  <2>2. Len(jobs') <= MaxPending /\ Len(deferred') <= MaxPending
    BY <1>4, <1>5, <1>6, <2>1
  <2>3. owners \in [Keys -> SUBSET Owners] /\ handoffs \in [Keys -> SUBSET Owners]
    BY DEF Inv, TypeOK
  <2>4. owners' \in [Keys -> SUBSET Owners] /\ handoffs' \in [Keys -> SUBSET Owners]
    BY <1>2, <2>3
  <2>5. waiting' \subseteq Keys
    BY <1>2, <1>4
  <2> QED BY <1>5, <1>6, <1>7, <2>2, <2>4, <2>5 DEF QueueType
<1>9. /\ KeysIn(jobs)' = KeysIn(jobs') /\ KeysIn(deferred)' = KeysIn(deferred')
      /\ Items(jobs)' = Items(jobs') /\ Items(deferred)' = Items(deferred')
  BY DEF KeysIn, Items
<1>10. Banks'
  <2>1. Unique(jobs)' <=> Unique(jobs')
    BY DEF Unique
  <2>2. Unique(deferred)' <=> Unique(deferred')
    BY DEF Unique
  <2>3. KeysIn(jobs') \cap KeysIn(deferred') = {} /\ waiting' \subseteq KeysIn(jobs') \cup KeysIn(deferred')
    BY <1>2, <1>4, <1>5, <1>6
  <2> QED BY <1>5, <1>6, <1>9, <2>1, <2>2, <2>3 DEF Banks
<1>11. Queued' = Items(jobs') \cup Items(deferred') \cup (IF followUp' = NULL THEN {} ELSE {followUp'})
  BY <1>9 DEF Queued
<1>12. ASSUME NEW x \in Queued' PROVE x.key \notin dropped /\ \E y \in Queued : Heired(x, y, heir)
  <2>1. CASE x \in Items(jobs')
    <3>1. x.key \in KeysIn(jobs')
      BY <2>1 DEF Items, KeysIn
    <3> QED BY <1>5, <2>1, <3>1 DEF Queued
  <2>2. CASE x \in Items(deferred')
    <3>1. x.key \in KeysIn(deferred')
      BY <2>2 DEF Items, KeysIn
    <3> QED BY <1>6, <2>2, <3>1 DEF Queued
  <2>3. CASE followUp' # NULL /\ x = followUp'
    BY <1>7, <2>3 DEF Queued
  <2> QED BY <1>11, <2>1, <2>2, <2>3
<1>13. ASSUME NEW y \in Queued, y.key \notin dropped PROVE \E x \in Queued' : x.key = y.key
  <2>1. CASE y \in Items(jobs)
    <3>1. y.key \in KeysIn(jobs')
      BY <1>5, <1>13, <2>1 DEF Items, KeysIn
    <3>2. \E x \in Items(jobs') : x.key = y.key
      BY <3>1 DEF Items, KeysIn
    <3> QED BY <1>11, <3>2
  <2>2. CASE y \in Items(deferred)
    <3>1. y.key \in KeysIn(deferred')
      BY <1>6, <1>13, <2>2 DEF Items, KeysIn
    <3>2. \E x \in Items(deferred') : x.key = y.key
      BY <3>1 DEF Items, KeysIn
    <3> QED BY <1>11, <3>2
  <2>3. CASE followUp # NULL /\ y = followUp
    BY <1>7, <1>11, <1>13, <2>3
  <2> QED BY <2>1, <2>2, <2>3 DEF Queued
<1>14. followUp' # NULL => followUp # NULL /\ followUp'.key = followUp.key
  BY <1>7 DEF Heired
<1>15. Retired(heir, o)
  BY <1>3, <1>8, <1>10, <1>12, <1>13, <1>14 DEF Retired, dropped
<1> QED BY <1>15

LEMMA RetireOwnerKeeps == ASSUME Inv, NEW o \in Owners, RetireOwner(o) PROVE Inv'
<1>1. PICK heir \in [Keys -> Owners \cup {NULL}] : Retired(heir, o)
  BY RetireOwnerQueue
<1>2. /\ call[o].pc = "retire"
      /\ owners' = [k \in Keys |-> owners[k] \ {o}] /\ handoffs' = [k \in Keys |-> handoffs[k] \ {o}]
      /\ late' = [late EXCEPT ![o] = IF call[o].wait THEN {} ELSE StillActive(o)]
      /\ running' = running /\ wpc' = wpc /\ again' = again
      /\ exclusive' = exclusive /\ closed' = closed /\ stop' = stop
  BY DEF RetireOwner, worker
<1> DEFINE c == [call[o] EXCEPT !.pc = IF StillActive(o) = {} THEN "quiet"
                                      ELSE IF call[o].wait THEN "wait" ELSE "left",
                               !.keys = {k \in Keys : o \in owners[k]} \cup (late[o] \cap Active)]
<1>3. call' = [call EXCEPT ![o] = c]
  BY DEF RetireOwner
<1>4. call \in [Owners -> Calls] /\ call[o] \in Calls /\ late \in [Owners -> SUBSET Keys]
  BY DEF Inv, TypeOK
<1>5. /\ c \in Calls /\ c.wait = call[o].wait /\ c.pc \in {"quiet", "wait", "left"}
      /\ c.pc = "quiet" => StillActive(o) = {}
      /\ c.pc = "wait" => call[o].wait
      /\ c.pc = "left" => ~call[o].wait
      /\ c.keys = {k \in Keys : o \in owners[k]} \cup (late[o] \cap Active)
  BY <1>4 DEF Calls
<1> HIDE DEF c
<1>6. \A p \in Owners : call'[p] = IF p = o THEN c ELSE call[p]
  BY <1>3, <1>4
<1>7. /\ QueueType' /\ Banks' /\ Heirs(heir, o)
      /\ \A x \in Queued' : x.key \notin Unshared(o) /\ \E y \in Queued : Heired(x, y, heir)
      /\ \A y \in Queued : y.key \notin Unshared(o) => \E x \in Queued' : x.key = y.key
      /\ followUp' # NULL => followUp # NULL /\ followUp'.key = followUp.key
  BY <1>1 DEF Retired
<1>8. Active' = Active /\ Local \subseteq Owners
  BY <1>2, SchedulerAssumption DEF Active
<1>9. FollowPart'
  BY <1>2, <1>7 DEF Inv, Worker, FollowPart
<1>10. \A k \in Keys : owners'[k] = owners[k] \ {o} /\ handoffs'[k] = handoffs[k] \ {o}
  BY <1>2
<1>11. \A y \in Queued : y \in Entry /\ y.key \in Keys /\ y.job \in Owners
  <2>1. \A y \in Queued : y \in Entry
    BY Elements DEF Inv, TypeOK, Queued
  <2> QED BY <2>1 DEF Entry
<1>12. Registered /\ LiveJobs
  BY DEF Inv
\* The job of an entry is what it was, or that of a registered heir.
<1>13. ASSUME NEW x \in Queued'
       PROVE  \E y \in Queued : /\ x.key = y.key /\ x.key \in Keys
                                /\ x.job = y.job \/ x.job \in (owners[y.key] \cap Local) \ {o}
  <2>1. PICK y \in Queued : Heired(x, y, heir)
    BY <1>7
  <2>2. x.key = y.key /\ y.key \in Keys
    BY <1>11, <2>1 DEF Heired
  <2>3. CASE heir[y.key] = NULL
    BY <2>1, <2>2, <2>3 DEF Heired
  <2>4. CASE heir[y.key] # NULL
    <3>1. x.job = heir[y.key]
      BY <2>1, <2>4 DEF Heired
    <3>2. heir[y.key] \in handoffs[y.key] \ {o}
      BY <1>7, <2>2, <2>4 DEF Heirs
    <3>3. handoffs[y.key] = owners[y.key] \cap Local
      BY <1>12, <2>2 DEF Registered
    <3> QED BY <2>2, <3>1, <3>2, <3>3
  <2> QED BY <2>3, <2>4
<1>14. Registered'
  <2>1. \A k \in Keys : handoffs'[k] = owners'[k] \cap Local /\ \A p \in owners'[k] : k \in KeysOf[p]
    BY <1>10, <1>12 DEF Registered
  <2>2. \A k \in Keys : \A p \in owners'[k] \cap Local : call'[p].pc \in {"live", "retire"}
    BY <1>6, <1>8, <1>10, <1>12 DEF Registered
  <2>3. ASSUME NEW x \in Queued'
        PROVE  x.key \in KeysOf[x.job] /\ (x.job \in Local => call'[x.job].pc # "new")
    <3>1. PICK y \in Queued : /\ x.key = y.key /\ x.key \in Keys
                              /\ x.job = y.job \/ x.job \in (owners[y.key] \cap Local) \ {o}
      BY <1>13
    <3>2. x.key \in KeysOf[x.job] /\ (x.job \in Local => call[x.job].pc # "new")
      BY <1>12, <3>1 DEF Registered
    <3> QED BY <1>5, <1>6, <1>8, <3>2
  <2>4. running # NULL => /\ running.key \in KeysOf[running.job]
                          /\ running.job \in Local => call'[running.job].pc # "new"
    BY <1>5, <1>6, <1>8, <1>12 DEF Registered
  <2> QED BY <1>2, <2>1, <2>2, <2>3, <2>4 DEF Registered
<1>15. LiveJobs'
  <2> SUFFICES ASSUME NEW x \in Queued', x.job \in Local, call'[x.job].pc = "live"
               PROVE  x.job \in owners'[x.key]
    BY DEF LiveJobs
  <2>1. PICK y \in Queued : /\ x.key = y.key /\ x.key \in Keys
                            /\ x.job = y.job \/ x.job \in (owners[y.key] \cap Local) \ {o}
    BY <1>13
  <2>2. x.job # o /\ call[x.job].pc = "live"
    BY <1>5, <1>6, <1>8
  <2>3. x.job \in owners[x.key]
    BY <1>12, <2>1, <2>2 DEF LiveJobs
  <2> QED BY <1>10, <2>1, <2>2, <2>3
<1>16. ASSUME NEW k \in Keys, Asked(k)' PROVE Asked(k)
  <2>1. PICK x \in Queued' : x.key = k
    BY <1>16, AskedQueuedNext
  <2>2. \E y \in Queued : y.key = k
    BY <1>13, <2>1
  <2> QED BY <2>2, AskedQueued
<1>17. Leases' /\ LeaseIsAlone'
  <2>1. exclusive \subseteq Keys
    BY DEF Inv, TypeOK
  <2> QED BY <1>2, <1>8, <1>16, <2>1 DEF Inv, Leases, LeaseIsAlone
<1>18. OwnedIsBusy'
  <2> SUFFICES ASSUME NEW k \in Keys, owners'[k] # {}, k \notin Active PROVE Asked(k)'
    BY <1>8 DEF OwnedIsBusy
  <2>1. owners[k] # {} /\ k \notin Unshared(o)
    BY <1>10 DEF Unshared
  <2>2. PICK y \in Queued : y.key = k
    BY <2>1, AskedQueued DEF Inv, OwnedIsBusy
  <2>3. \E x \in Queued' : x.key = k
    BY <1>7, <2>1, <2>2
  <2> QED BY <2>3, AskedQueuedNext
<1>19. StillActive(o) \subseteq Keys
  BY <1>4 DEF StillActive
<1>20. OtherType' /\ PcPart'
  <2>1. call' \in [Owners -> Calls] /\ late' \in [Owners -> SUBSET Keys]
    BY <1>2, <1>3, <1>4, <1>5, <1>19
  <2> QED BY <1>2, <2>1, Parts DEF OtherType, PcPart
<1>21. RunsKnown'
  <2>0. RunsKnown
    BY DEF Inv
  <2>1. CASE wpc \notin {"check", "pass"}
    BY <1>2, <2>1 DEF RunsKnown
  <2>2. CASE wpc \in {"check", "pass"} /\ running.job # o
    <3>1. running.key \in Keys /\ running.job \in Owners
      BY <2>2, RunningEntry DEF Inv, Worker
    <3>2. /\ call'[running.job] = call[running.job] /\ late'[running.job] = late[running.job]
          /\ running.job \in owners[running.key] => running.job \in owners'[running.key]
      BY <1>2, <1>4, <1>6, <1>10, <2>2, <3>1
    <3> QED BY <1>2, <2>0, <2>2, <3>2 DEF RunsKnown, Known
  <2>3. CASE wpc \in {"check", "pass"} /\ running.job = o
    <3>1. running.key \in Keys /\ running.key \in Active
      BY <2>3, RunningEntry DEF Inv, Worker, Active
    <3>2. call'[o] = c
      BY <1>6
    <3>3. CASE wpc = "pass" /\ o \in Local
      <4>1. running.key \in {k \in Keys : o \in owners[k]} \cup late[o]
        BY <1>2, <2>0, <2>3, <3>1, <3>3 DEF RunsKnown, Known
      <4>2. running.key \in StillActive(o)
        BY <3>1, <4>1 DEF StillActive
      <4>3. late'[o] = IF call[o].wait THEN {} ELSE StillActive(o)
        BY <1>2, <1>4
      <4>4. Known(o)'
        BY <1>2, <1>5, <3>1, <3>2, <4>1, <4>2, <4>3 DEF Known
      <4> QED BY <1>2, <1>5, <2>3, <3>2, <3>3, <4>4 DEF RunsKnown
    <3>4. CASE ~(wpc = "pass" /\ o \in Local)
      BY <1>2, <1>5, <2>3, <3>2, <3>4 DEF RunsKnown
    <3> QED BY <3>3, <3>4
  <2> QED BY <2>1, <2>2, <2>3
<1> QED BY <1>7, <1>9, <1>14, <1>15, <1>17, <1>18, <1>20, <1>21, Assembled DEF Rest

LEMMA InitInv == Init => Inv
<1> SUFFICES ASSUME Init PROVE Inv
  OBVIOUS
<1>1. MaxPending \in Nat
  BY SchedulerAssumption
<1>2. /\ jobs = <<>> /\ deferred = <<>> /\ waiting = {} /\ running = NULL /\ wpc = "off" /\ again = FALSE
      /\ followUp = NULL /\ exclusive = {} /\ owners = [k \in Keys |-> {}] /\ handoffs = [k \in Keys |-> {}]
      /\ late = [o \in Owners |-> {}] /\ closed = FALSE /\ stop = FALSE
      /\ call = [o \in Owners |-> [pc |-> "new", wait |-> FALSE, keys |-> {}]]
  BY DEF Init
<1>3. call \in [Owners -> Calls]
  <2>1. [pc |-> "new", wait |-> FALSE, keys |-> {}] \in Calls
    BY DEF Calls
  <2> QED BY <1>2, <2>1
<1>4. TypeOK
  <2>1. /\ jobs \in Seq(Entry) /\ Len(jobs) <= MaxPending
        /\ deferred \in Seq(Entry) /\ Len(deferred) <= MaxPending
    BY <1>1, <1>2, NoEntry
  <2>2. /\ owners \in [Keys -> SUBSET Owners] /\ handoffs \in [Keys -> SUBSET Owners]
        /\ late \in [Owners -> SUBSET Keys]
    BY <1>2
  <2> QED BY <1>2, <1>3, <2>1, <2>2 DEF TypeOK
<1>5. Queued = {} /\ Active = {}
  BY <1>2, NoEntry DEF Queued, Active
<1>6. Banks /\ Worker
  BY <1>2, NoEntry DEF Banks, Worker
<1>7. Registered /\ LiveJobs /\ RunsKnown /\ Leases /\ LeaseIsAlone /\ OwnedIsBusy
  BY <1>2, <1>5 DEF Registered, LiveJobs, RunsKnown, Leases, LeaseIsAlone, OwnedIsBusy
<1> QED BY <1>4, <1>6, <1>7 DEF Inv

LEMMA StutterKeeps == ASSUME Inv, UNCHANGED vars PROVE Inv'
<1>1. /\ UNCHANGED queue /\ running' = running /\ again' = again /\ exclusive' = exclusive /\ late' = late
      /\ closed' = closed /\ stop' = stop /\ call' = call /\ wpc' = wpc
  BY DEF vars, queue
<1>2. Rest' /\ owners' = owners
  BY <1>1, QuietKeeps
<1>3. OtherType' /\ PcPart'
  BY <1>1, Parts DEF OtherType, PcPart
<1>4. RunsKnown'
  BY <1>1, <1>2, RunsOn
<1> QED BY <1>2, <1>3, <1>4, Assembled

LEMMA NextKeeps == ASSUME Inv, [Next]_vars PROVE Inv'
<1>1. CASE WorkerStep
  <2>1. CASE \E i \in DOMAIN ReadyQueue : Take(i)
    BY <2>1, TakeKeeps
  <2>2. CASE Refill \/ Check \/ PassEnds \/ PassContinues
    BY <2>2, RefillKeeps, CheckKeeps, PassEndsKeeps, PassContinuesKeeps
  <2>3. CASE FollowUp \/ Finish \/ WorkerQuiesces \/ WorkerExits
    BY <2>3, FollowUpKeeps, FinishKeeps, WorkerQuiescesKeeps, WorkerExitsKeeps
  <2> QED BY <1>1, <2>1, <2>2, <2>3 DEF WorkerStep
<1>2. CASE \E k \in Keys : DelayElapses(k) \/ TryAcquireExclusive(k) \/ ReleaseExclusive(k)
  BY <1>2, DelayElapsesKeeps, LeaseKeeps
<1>3. CASE \E o \in Owners : \/ Arm(o)
                             \/ \E k \in Keys : Request(o, k)
                             \/ \E wait \in BOOLEAN : Retire(o, wait)
                             \/ RetireOwner(o)
                             \/ RetireReturns(o)
  BY <1>3, ArmKeeps, RequestKeeps, RetireKeeps, RetireOwnerKeeps, RetireReturnsKeeps
<1>4. CASE Stop \/ Quiesce \/ UNCHANGED vars
  BY <1>4, StopKeeps, QuiesceKeeps, StutterKeeps
<1> QED BY <1>1, <1>2, <1>3, <1>4 DEF Next

LEMMA Invariance == Spec => []Inv
<1>1. Init => Inv
  BY InitInv
<1>2. Inv /\ [Next]_vars => Inv'
  BY NextKeeps
<1> QED BY <1>1, <1>2, PTL DEF Spec

-----------------------------------------------------------------------------
(* The theorems                                                            *)

(* The scheduler's state keeps its type, and neither bank grows past        *)
(* max_pending_jobs.                                                       *)
THEOREM TypeCorrect == Spec => []TypeOK
<1>1. Inv => TypeOK
  BY DEF Inv
<1> QED BY <1>1, Invariance, PTL

(* A key has one place in the two banks, and a delay in _not_before belongs *)
(* to a queued entry (schedule, the worker's rotation, retire_owner).      *)
THEOREM QueuedOnceHolds == Spec => []QueuedOnce
<1>1. ASSUME Inv PROVE QueuedOnce
  <2>1. /\ jobs \in Seq(Entry) /\ Unique(jobs) /\ deferred \in Seq(Entry) /\ Unique(deferred)
        /\ KeysIn(jobs) \cap KeysIn(deferred) = {}
    BY <1>1 DEF Inv, TypeOK, Banks
  <2>2. Unique(jobs \o deferred)
    BY <2>1, JoinBanks
  <2>3. \A k \in waiting : Pending(k)
    BY <1>1 DEF Inv, Banks, Pending
  <2> QED BY <2>2, <2>3 DEF QueuedOnce, Unique
<1> QED BY <1>1, Invariance, PTL

(* try_acquire_exclusive: a leased key is neither queued, followed up nor   *)
(* running.                                                                *)
THEOREM LeaseIsAloneHolds == Spec => []LeaseIsAlone
<1>1. Inv => LeaseIsAlone
  BY DEF Inv
<1> QED BY <1>1, Invariance, PTL

(* A key with an owner is one the worker has or will come to, so that       *)
(* drain_owner does not wait for a key nobody runs.                        *)
THEOREM OwnedIsBusyHolds == Spec => []OwnedIsBusy
<1>1. Inv => OwnedIsBusy
  BY DEF Inv
<1> QED BY <1>1, Invariance, PTL

(* When retire_owner returned True no FastEmbed pass of the owner runs.     *)
THEOREM RetiredIsQuietHolds == Spec => []RetiredIsQuiet
<1>1. Inv => RetiredIsQuiet
  BY DEF Inv, RunsKnown, Known, RetiredIsQuiet
<1> QED BY <1>1, Invariance, PTL

-----------------------------------------------------------------------------
(* Owners that are retired stay out                                        *)

(* Registrations stay, and what is queued anew is registered. *)
LEMMA LocalJobsGrow ==
  ASSUME Inv, LocalJobs, \A x \in Keys : owners[x] \subseteq owners'[x],
         \A e \in Queued' : e \in Queued \/ e.job \in owners'[e.key]
  PROVE  LocalJobs'
<1>1. \A y \in Queued : y.key \in Keys
  <2>1. \A y \in Queued : y \in Entry
    BY Elements DEF Inv, TypeOK, Queued
  <2> QED BY <2>1 DEF Entry
<1> QED BY <1>1 DEF LocalJobs

LEMMA LocalJobsAsks ==
  ASSUME Inv, LocalJobs, NEW k \in Keys, AsksFor(k), running' = running, again' = again,
         exclusive' = exclusive, call' = call
  PROVE  LocalJobs'
<1>0. QueueType /\ Banks /\ Worker
  BY DEF Inv, TypeOK, QueueType
<1>1. \A x \in Keys : owners[x] \subseteq owners'[x]
  BY AsksKeeps
<1>2. \A e \in Queued' : e \in Queued \/ e.job \in owners'[e.key]
  <2>1. CASE UNCHANGED queue
    BY <2>1 DEF queue, Queued, Items
  <2>2. ASSUME NEW p \in Owners, NEW delayed \in BOOLEAN, Schedule(k, p, delayed)
        PROVE  \A e \in Queued' : e \in Queued \/ e.job \in owners'[e.key]
    <3>1. Effect(k, p)
      BY <1>0, <2>2, ScheduleEffect
    <3> QED BY <3>1 DEF Effect
  <2> QED BY <2>1, <2>2 DEF AsksFor
<1> QED BY <1>1, <1>2, LocalJobsGrow

(* retire_owner finds an heir for every shared key when its owners have the *)
(* same kind of provider.                                                  *)
LEMMA LocalJobsRetired ==
  ASSUME Inv, LocalJobs, SameProvider, NEW o \in Owners, RetireOwner(o)
  PROVE  LocalJobs'
<1>1. PICK heir \in [Keys -> Owners \cup {NULL}] : Retired(heir, o)
  BY RetireOwnerQueue
<1>2. /\ Heirs(heir, o)
      /\ \A x \in Queued' : x.key \notin Unshared(o) /\ \E y \in Queued : Heired(x, y, heir)
  BY <1>1 DEF Retired
<1>3. \A k \in Keys : owners'[k] = owners[k] \ {o}
  BY DEF RetireOwner
<1>4. \A k \in Keys : owners[k] \subseteq Owners /\ handoffs[k] = owners[k] \cap Local /\ \A p \in owners[k] : k \in KeysOf[p]
  BY DEF Inv, TypeOK, Registered
<1>5. NULL \notin Owners
  BY SchedulerAssumption
<1> SUFFICES ASSUME NEW x \in Queued', x.job \in Local
             PROVE  x.job \in owners'[x.key]
  BY DEF LocalJobs
<1>6. PICK y \in Queued : Heired(x, y, heir)
  BY <1>2
<1>7. y.key \in Keys /\ x.key = y.key /\ y.key \notin Unshared(o)
  <2>1. y \in Entry
    BY Elements DEF Inv, TypeOK, Queued
  <2> QED BY <1>2, <1>6, <2>1 DEF Entry, Heired
<1>8. CASE heir[y.key] # NULL
  <2>1. x.job = heir[y.key]
    BY <1>6, <1>8 DEF Heired
  <2>2. heir[y.key] \in handoffs[y.key] \ {o}
    BY <1>2, <1>7, <1>8 DEF Heirs
  <2> QED BY <1>3, <1>4, <1>7, <2>1, <2>2
<1>9. CASE heir[y.key] = NULL
  <2>1. x.job = y.job /\ y.job \in owners[y.key]
    BY <1>6, <1>9 DEF Heired, LocalJobs
  <2>2. CASE y.job # o
    BY <1>3, <1>7, <2>1, <2>2
  <2>3. CASE y.job = o
    <3>1. PICK p \in owners[y.key] : p # o
      BY <1>7, <2>1, <2>3 DEF Unshared
    <3>2. p \in Local
      <4>1. y.key \in KeysOf[p] \cap KeysOf[o] /\ p \in Owners
        BY <1>4, <1>7, <2>1, <2>3, <3>1
      <4> QED BY <2>1, <2>3, <4>1 DEF SameProvider
    <3>3. p \in handoffs[y.key] \ {o}
      BY <1>4, <1>7, <3>1, <3>2
    <3>4. heir[y.key] \in handoffs[y.key] \ {o}
      BY <1>2, <1>7, <2>1, <2>3, <3>1, <3>3 DEF Heirs
    <3> QED BY <1>4, <1>5, <1>7, <1>9, <3>4
  <2> QED BY <2>2, <2>3
<1> QED BY <1>8, <1>9

LEMMA LocalJobsFinish == ASSUME Inv, LocalJobs, Finish PROVE LocalJobs'
<1> DEFINE done == IF Pending(running.key) THEN {} ELSE {running.key}
<1>1. /\ wpc = "finish" /\ ~FollowsUp(running.key) /\ jobs' = jobs /\ deferred' = deferred
      /\ followUp' = followUp /\ Release(done, {})
  BY DEF Finish
<1>2. followUp = NULL /\ Queued' = Queued
  BY <1>1 DEF Inv, Worker, FollowsUp, Queued, Items
<1>3. \A k \in Keys : owners'[k] = IF k \in done \ ({} \cup exclusive) THEN {} ELSE owners[k]
  BY <1>1, ReleaseKeeps
<1> SUFFICES ASSUME NEW e \in Queued, e.job \in Local PROVE e.job \in owners'[e.key]
  BY <1>2 DEF LocalJobs
<1>4. e \in Items(jobs) \cup Items(deferred)
  BY <1>2 DEF Queued
<1>5. Pending(e.key) /\ e.key \in Keys
  BY <1>4, Elements DEF Inv, TypeOK, Pending
<1> QED BY <1>3, <1>5 DEF LocalJobs

LEMMA LocalJobsQuiesced == ASSUME Quiesced PROVE LocalJobs'
<1>1. jobs' = <<>> /\ deferred' = <<>> /\ followUp' = NULL
  BY DEF Quiesced
<1>2. Queued' = {}
  BY <1>1, NoEntry DEF Queued, Items
<1> QED BY <1>2 DEF LocalJobs

LEMMA LocalJobsNext ==
  ASSUME Inv, LocalJobs, SameProvider, [Next]_vars PROVE LocalJobs'
<1>0. FALSE \in BOOLEAN /\ TRUE \in BOOLEAN /\ TypeOK
  BY DEF Inv
<1>1. ASSUME NEW o \in Owners, NEW k \in Keys, Request(o, k) PROVE LocalJobs'
  <2>1. AsksFor(k)
    BY <1>0, <1>1, EnqueueAsks DEF Request
  <2> QED BY <1>1, <2>1, LocalJobsAsks DEF Request
<1>2. CASE Check
  <2>1. running.key \in Keys
    BY <1>2, RunningEntry DEF Check, Inv, Worker
  <2>2. AsksFor(running.key)
    BY <1>0, <1>2, <2>1, HandoffAsks DEF Check, AsksFor
  <2> QED BY <1>2, <2>1, <2>2, LocalJobsAsks DEF Check
<1>3. CASE PassContinues
  <2>1. running.key \in Keys /\ running.job \in Owners /\ running.key \in KeysOf[running.job]
    BY <1>3, RunningEntry DEF PassContinues, Inv, Worker, Registered
  <2>2. AsksFor(running.key)
    BY <1>0, <1>3, <2>1, EnqueueAsks DEF PassContinues
  <2> QED BY <1>3, <2>1, <2>2, LocalJobsAsks DEF PassContinues
<1>4. ASSUME NEW i \in DOMAIN ReadyQueue, Take(i) PROVE LocalJobs'
  BY <1>4, TakeKeeps, LocalJobsGrow DEF Take
<1>5. CASE Refill
  BY <1>5, RefillKeeps, LocalJobsGrow DEF Refill
<1>6. CASE FollowUp
  <2>1. owners' = owners /\ Queued' \subseteq Queued
    BY <1>6 DEF FollowUp, Queued, Items
  <2> QED BY <2>1, LocalJobsGrow
<1>7. CASE Finish
  BY <1>7, LocalJobsFinish
<1>8. CASE WorkerQuiesces \/ Quiesce
  BY <1>8, LocalJobsQuiesced DEF WorkerQuiesces, Quiesce
<1>9. ASSUME NEW k \in Keys, DelayElapses(k) PROVE LocalJobs'
  <2>1. owners' = owners /\ Queued' = Queued
    BY <1>9 DEF DelayElapses, Queued, Items
  <2> QED BY <2>1, LocalJobsGrow
<1>10. ASSUME NEW o \in Owners, RetireOwner(o) PROVE LocalJobs'
  BY <1>10, LocalJobsRetired
<1>11. CASE UNCHANGED queue
  <2>1. owners' = owners /\ Queued' = Queued
    BY <1>11 DEF queue, Queued, Items
  <2> QED BY <2>1, LocalJobsGrow
<1>12. CASE PassEnds \/ WorkerExits \/ Stop \/ UNCHANGED vars
  <2>1. UNCHANGED queue
    BY <1>12 DEF PassEnds, WorkerExits, Stop, vars, queue
  <2> QED BY <1>11, <2>1
<1>13. ASSUME NEW k \in Keys, TryAcquireExclusive(k) \/ ReleaseExclusive(k) PROVE LocalJobs'
  BY <1>11, <1>13 DEF TryAcquireExclusive, ReleaseExclusive
<1>14. ASSUME NEW o \in Owners, Arm(o) \/ RetireReturns(o) \/ \E wait \in BOOLEAN : Retire(o, wait) PROVE LocalJobs'
  BY <1>11, <1>14 DEF Arm, RetireReturns, Retire
<1>15. CASE WorkerStep
  BY <1>2, <1>3, <1>4, <1>5, <1>6, <1>7, <1>8, <1>12, <1>15 DEF WorkerStep
<1>16. CASE \E o \in Owners : \/ Arm(o)
                              \/ \E k \in Keys : Request(o, k)
                              \/ \E wait \in BOOLEAN : Retire(o, wait)
                              \/ RetireOwner(o)
                              \/ RetireReturns(o)
  BY <1>1, <1>10, <1>14, <1>16
<1>17. CASE \E k \in Keys : DelayElapses(k) \/ TryAcquireExclusive(k) \/ ReleaseExclusive(k)
  BY <1>9, <1>13, <1>17
<1>18. CASE Stop \/ Quiesce \/ UNCHANGED vars
  BY <1>8, <1>12, <1>18
<1> QED BY <1>15, <1>16, <1>17, <1>18 DEF Next

(* retire_owner: once it has returned, nothing registers the owner again    *)
(* and no queued pass is its own, in a process whose engines on one         *)
(* database have the same kind of provider.                                *)
THEOREM RetiredStaysOutHolds == ASSUME SameProvider PROVE Spec => []RetiredStaysOut
<1>1. Init => LocalJobs
  BY NoEntry DEF Init, LocalJobs, Queued
<1>0. SameProvider
  OBVIOUS
<1>2. Inv /\ LocalJobs /\ [Next]_vars => LocalJobs'
  BY <1>0, LocalJobsNext
<1>3. ASSUME Inv, LocalJobs PROVE RetiredStaysOut
  <2> SUFFICES ASSUME NEW o \in Local, call[o].pc \in {"wait", "quiet", "left"}
               PROVE  /\ \A k \in Keys : o \notin owners[k] \cup handoffs[k]
                      /\ \A i \in DOMAIN (jobs \o deferred) : (jobs \o deferred)[i].job # o
                      /\ followUp # NULL => followUp.job # o
    BY DEF RetiredStaysOut
  <2>1. \A k \in Keys : o \notin owners[k] \cup handoffs[k]
    BY <1>3 DEF Inv, Registered
  <2>2. ASSUME NEW e \in Queued PROVE e.job # o
    <3>1. e \in Entry
      BY <1>3, Elements DEF Inv, TypeOK, Queued
    <3> QED BY <1>3, <2>1, <3>1 DEF LocalJobs, Entry
  <2>3. Items(jobs \o deferred) = Items(jobs) \cup Items(deferred)
    BY <1>3, JoinBanks DEF Inv, TypeOK, Banks
  <2>4. \A i \in DOMAIN (jobs \o deferred) : (jobs \o deferred)[i] \in Queued
    BY <2>3 DEF Items, Queued
  <2>5. followUp # NULL => followUp \in Queued
    BY DEF Queued
  <2> QED BY <2>1, <2>2, <2>4, <2>5
<1> QED BY <1>1, <1>2, <1>3, Invariance, PTL DEF Spec

-----------------------------------------------------------------------------
(* Accepted work                                                           *)

(* schedule() loses nothing that is queued but the follow-up of a delayed   *)
(* request that it refuses, and what it is asked for is queued unless the   *)
(* banks are full.                                                         *)
LEMMA ScheduleKeepsAsked ==
  ASSUME Inv, NEW k \in Keys, NEW o \in Owners, NEW delayed \in BOOLEAN,
         Schedule(k, o, delayed)
  PROVE  /\ \A x \in Keys : Asked(x) => Asked(x)' \/ (x = k /\ FollowsUp(k) /\ delayed /\ Saturated)
         /\ ~closed /\ k \notin exclusive =>
              Asked(k)' \/ (Saturated /\ ~ToFollowUp(k, delayed))
<1> DEFINE entry == [key |-> k, job |-> o]
           open == ~closed /\ k \notin exclusive
           toQueue == open /\ ~Pending(k) /\ ~ToFollowUp(k, delayed)
<1>0. entry \in Entry /\ entry.key = k /\ entry # NULL
  BY SchedulerAssumption DEF Entry
<1>00. /\ jobs \in Seq(Entry) /\ deferred \in Seq(Entry) /\ Unique(jobs) /\ Unique(deferred)
  BY DEF Inv, TypeOK, Banks
<1>1. CASE ~open /\ UNCHANGED queue
  BY <1>1 DEF queue, Asked, Pending, FollowsUp, KeysIn
<1>2. CASE /\ open /\ Pending(k)
           /\ Held(k, delayed) /\ Track(k, o)
           /\ UNCHANGED <<jobs, deferred, followUp>>
  BY <1>2 DEF Asked, Pending, FollowsUp, KeysIn
<1>3. CASE /\ open /\ ~Pending(k) /\ ToFollowUp(k, delayed)
           /\ followUp' = entry
           /\ Track(k, o)
           /\ UNCHANGED <<jobs, deferred, waiting>>
  <2>1. followUp # NULL => followUp.key = k
    BY <1>3 DEF ToFollowUp, Active, Inv, Worker
  <2>2. Asked(k)'
    BY <1>0, <1>3 DEF Asked, FollowsUp
  <2>3. \A x \in Keys : Pending(x)' = Pending(x)
    BY <1>3 DEF Pending, KeysIn
  <2> QED BY <2>1, <2>2, <2>3 DEF Asked, FollowsUp
<1>4. CASE /\ toQueue /\ QueueHasRoom
           /\ jobs' = Append(jobs, entry)
           /\ Held(k, delayed) /\ DelayReplacesFollowUp(k, delayed) /\ Track(k, o)
           /\ UNCHANGED deferred
  <2>1. KeysIn(jobs') = KeysIn(jobs) \cup {k}
    BY <1>0, <1>00, <1>4, AppendBank DEF Pending
  <2>2. KeysIn(jobs)' = KeysIn(jobs') /\ KeysIn(deferred)' = KeysIn(deferred)
    BY <1>4 DEF KeysIn
  <2>3. \A x \in Keys : FollowsUp(x) => x = k \/ FollowsUp(x)'
    BY <1>4 DEF DelayReplacesFollowUp, FollowsUp
  <2> QED BY <2>1, <2>2, <2>3 DEF Asked, Pending
<1>5. CASE /\ toQueue /\ ~QueueHasRoom /\ BankHasRoom
           /\ deferred' = Append(deferred, entry)
           /\ Held(k, delayed) /\ DelayReplacesFollowUp(k, delayed) /\ Track(k, o)
           /\ UNCHANGED jobs
  <2>1. KeysIn(deferred') = KeysIn(deferred) \cup {k}
    BY <1>0, <1>00, <1>5, AppendBank DEF Pending
  <2>2. KeysIn(deferred)' = KeysIn(deferred') /\ KeysIn(jobs)' = KeysIn(jobs)
    BY <1>5 DEF KeysIn
  <2>3. \A x \in Keys : FollowsUp(x) => x = k \/ FollowsUp(x)'
    BY <1>5 DEF DelayReplacesFollowUp, FollowsUp
  <2> QED BY <2>1, <2>2, <2>3 DEF Asked, Pending
<1>6. CASE /\ toQueue /\ ~QueueHasRoom /\ ~BankHasRoom
           /\ waiting' = waiting \ {k}
           /\ DelayReplacesFollowUp(k, delayed)
           /\ UNCHANGED <<jobs, deferred, owners, handoffs>>
  <2>1. Saturated /\ ~ToFollowUp(k, delayed)
    BY <1>6 DEF Saturated
  <2>2. \A x \in Keys : Pending(x)' = Pending(x)
    BY <1>6 DEF Pending, KeysIn
  <2>3. \A x \in Keys : FollowsUp(x) => FollowsUp(x)' \/ (x = k /\ delayed)
    BY <1>6 DEF DelayReplacesFollowUp, FollowsUp
  <2> QED BY <2>1, <2>2, <2>3 DEF Asked
<1> QED BY <1>1, <1>2, <1>3, <1>4, <1>5, <1>6 DEF Schedule

LEMMA EnqueueKeepsAsked ==
  ASSUME Inv, NEW k \in Keys, NEW o \in Owners, NEW delayed \in BOOLEAN,
         Enqueue(o, k, delayed) \/ Handoff(k, o, delayed)
  PROVE  \A x \in Keys : Asked(x) => Asked(x)' \/ (x = k /\ FollowsUp(k) /\ delayed /\ Saturated)
<1> SUFFICES ASSUME NEW x \in Keys, Asked(x)
             PROVE  Asked(x)' \/ (x = k /\ FollowsUp(k) /\ delayed /\ Saturated)
  OBVIOUS
<1> DEFINE Goal == Asked(x)' \/ (x = k /\ FollowsUp(k) /\ delayed /\ Saturated)
<1>1. UNCHANGED queue => Goal
  BY DEF queue, Asked, Pending, FollowsUp, KeysIn
<1>2. ASSUME NEW p \in Owners, Schedule(k, p, delayed) PROVE Goal
  BY <1>2, ScheduleKeepsAsked
<1>3. handoffs[k] \subseteq Owners
  BY DEF Inv, TypeOK
<1>4. Handoff(k, o, delayed) => UNCHANGED queue \/ \E p \in Owners : Schedule(k, p, delayed)
  BY <1>3 DEF Handoff
<1>5. Enqueue(o, k, delayed) => UNCHANGED queue \/ \E p \in Owners : Schedule(k, p, delayed)
  BY <1>4 DEF Enqueue
<1>6. Goal
  <2> HIDE DEF Goal
  <2> QED BY <1>1, <1>2, <1>4, <1>5
<1> QED BY <1>6

(* Every step accounts for a request that is no longer queued. *)
LEMMA NothingLost ==
  ASSUME Inv, [Next]_vars, NEW k \in Keys, Asked(k), ~Asked(k)'
  PROVE  \/ Took(k) \/ closed' \/ owners'[k] = {}
         \/ FollowsUp(k) /\ ContinuationRefused(k)
<1> DEFINE Goal == \/ Took(k) \/ closed' \/ owners'[k] = {}
                   \/ FollowsUp(k) /\ ContinuationRefused(k)
<1>0. FALSE \in BOOLEAN /\ TRUE \in BOOLEAN
  OBVIOUS
<1>1. ASSUME NEW o \in Owners, NEW x \in Keys, Request(o, x) PROVE Goal
  BY <1>0, <1>1, EnqueueKeepsAsked DEF Request
<1>2. ~(jobs' = jobs /\ deferred' = deferred /\ followUp' = followUp)
  BY DEF Asked, Pending, FollowsUp, KeysIn
<1>3. CASE Check
  <2>1. running.key \in Keys /\ running.job \in Owners
    BY <1>3, RunningEntry DEF Check, Inv, Worker
  <2> QED BY <1>0, <1>2, <1>3, <2>1, EnqueueKeepsAsked DEF Check, queue
<1>4. CASE PassContinues
  <2>1. running.key \in Keys /\ running.job \in Owners
    BY <1>4, RunningEntry DEF PassContinues, Inv, Worker
  <2>2. Enqueue(running.job, running.key, TRUE)
    BY <1>4 DEF PassContinues
  <2>3. k = running.key /\ FollowsUp(running.key) /\ Saturated
    BY <1>0, <2>1, <2>2, EnqueueKeepsAsked
  <2> QED BY <1>4, <2>3 DEF PassContinues, ContinuationRefused
<1>5. ASSUME NEW i \in DOMAIN ReadyQueue, Take(i) PROVE Goal
  <2>1. k \in Active'
    BY <1>5, TakeKeeps
  <2>2. running = NULL
    BY <1>5 DEF Take, Inv, Worker
  <2>3. running' # NULL
    BY <2>1 DEF Active
  <2> QED BY <2>1, <2>2, <2>3 DEF Took
<1>6. CASE Refill
  <2>1. Queued' = Queued
    BY <1>6, RefillKeeps
  <2> QED BY <2>1, AskedQueued, AskedQueuedNext
<1>7. CASE FollowUp
  <2>1. FollowsUp(k)
    BY <1>7 DEF FollowUp, Asked, Pending, KeysIn
  <2>2. running' = followUp /\ followUp # NULL /\ followUp.key = k
    BY <1>7, <2>1 DEF FollowUp, FollowsUp
  <2>3. k \in Active'
    BY <2>2 DEF Active
  <2>4. again' = TRUE /\ ~again
    BY <1>7, <2>2 DEF FollowUp, Inv, Worker
  <2> QED BY <2>3, <2>4 DEF Took
<1>8. CASE WorkerQuiesces \/ Quiesce
  BY <1>8 DEF WorkerQuiesces, Quiesce, Quiesced
<1>9. ASSUME NEW o \in Owners, RetireOwner(o) PROVE Goal
  <2>1. PICK heir \in [Keys -> Owners \cup {NULL}] : Retired(heir, o)
    BY <1>9, RetireOwnerQueue
  <2>2. PICK y \in Queued : y.key = k
    BY AskedQueued
  <2>3. \A x \in Queued' : x.key # k
    BY AskedQueuedNext
  <2>4. k \in Unshared(o)
    BY <2>1, <2>2, <2>3 DEF Retired
  <2>5. owners[k] = {o} /\ owners'[k] = owners[k] \ {o}
    BY <1>9, <2>4 DEF Unshared, RetireOwner
  <2> QED BY <2>5
<1>10. ~(Finish \/ PassEnds \/ WorkerExits \/ Stop \/ UNCHANGED vars)
  BY <1>2 DEF Finish, PassEnds, WorkerExits, Stop, queue, vars
<1>11. ~ \E x \in Keys : DelayElapses(x) \/ TryAcquireExclusive(x) \/ ReleaseExclusive(x)
  BY <1>2 DEF DelayElapses, TryAcquireExclusive, ReleaseExclusive, queue
<1>12. \A o \in Owners : ~(Arm(o) \/ RetireReturns(o) \/ \E wait \in BOOLEAN : Retire(o, wait))
  BY <1>2 DEF Arm, RetireReturns, Retire, queue
<1>13. CASE WorkerStep
  BY <1>3, <1>4, <1>5, <1>6, <1>7, <1>8, <1>10, <1>13 DEF WorkerStep
<1>14. CASE \E o \in Owners : \/ Arm(o)
                              \/ \E x \in Keys : Request(o, x)
                              \/ \E wait \in BOOLEAN : Retire(o, wait)
                              \/ RetireOwner(o)
                              \/ RetireReturns(o)
  BY <1>1, <1>9, <1>12, <1>14
<1> HIDE DEF Goal
<1>15. Next
  BY <1>10
<1>16. \/ WorkerStep
       \/ Quiesce
       \/ \E o \in Owners : \/ Arm(o)
                            \/ \E x \in Keys : Request(o, x)
                            \/ \E wait \in BOOLEAN : Retire(o, wait)
                            \/ RetireOwner(o)
                            \/ RetireReturns(o)
  BY <1>10, <1>11, <1>15 DEF Next
<1> QED BY <1>8, <1>13, <1>14, <1>16

(* schedule, _take_next_locked, retire_owner, quiesce: an accepted request  *)
(* leaves the queue only with the worker that runs it, with its last owner, *)
(* at exit, or as the follow-up of a key whose delayed continuation finds   *)
(* both banks full.                                                        *)
THEOREM AcceptedWorkKeptHolds == Spec => AcceptedWorkKept
<1>1. Inv /\ [Next]_vars =>
        [\A k \in Keys : Asked(k) /\ ~Asked(k)'
           => \/ Took(k) \/ closed' \/ owners'[k] = {}
              \/ FollowsUp(k) /\ ContinuationRefused(k)]_vars
  BY NothingLost
<1> QED BY <1>1, Invariance, PTL DEF Spec, AcceptedWorkKept

(* maintain() of a FastEmbed engine that was retired: while a live engine   *)
(* has the key, it is queued again before the pass gives way, if there is   *)
(* room or the pass is not a follow-up.                                     *)
LEMMA HandoffAsked ==
  ASSUME Inv, SameProvider, [Next]_vars, wpc = "check", wpc' = "finish", ~closed,
         \E o \in owners[running.key] : call[o].pc = "live"
  PROVE  Asked(running.key)' \/ (again /\ Saturated)
<1> DEFINE k == running.key
           o == running.job
<1>0. running # NULL /\ o \in Local /\ k \in Keys /\ o \in Owners /\ k \in KeysOf[o]
  BY RunningEntry DEF Inv, Worker, Registered
<1>1. Check
  <2>1. ~\E i \in DOMAIN ReadyQueue : Take(i)
    BY DEF Take
  <2>2. ~(Refill \/ PassEnds \/ PassContinues \/ FollowUp \/ Finish \/ WorkerQuiesces \/ WorkerExits)
    BY DEF Refill, PassEnds, PassContinues, FollowUp, Finish, WorkerQuiesces, WorkerExits
  <2>3. ~\E x \in Keys : DelayElapses(x) \/ TryAcquireExclusive(x) \/ ReleaseExclusive(x)
    BY DEF DelayElapses, TryAcquireExclusive, ReleaseExclusive, worker
  <2>4. \A p \in Owners : ~(Arm(p) \/ RetireReturns(p) \/ RetireOwner(p) \/ \E wait \in BOOLEAN : Retire(p, wait))
    BY DEF Arm, RetireReturns, RetireOwner, Retire, worker
  <2>5. \A p \in Owners : \A x \in Keys : ~Request(p, x)
    BY DEF Request, WorkerStarts
  <2>6. ~(Stop \/ Quiesce \/ UNCHANGED vars)
    BY DEF Stop, Quiesce, worker, vars
  <2>7. CASE WorkerStep
    BY <2>1, <2>2, <2>7 DEF WorkerStep
  <2> QED BY <2>3, <2>4, <2>5, <2>6, <2>7 DEF Next
<1>2. call[o].pc # "live" /\ Handoff(k, o, FALSE)
  BY <1>1 DEF Check
<1>3. PICK p \in owners[k] : call[p].pc = "live"
  OBVIOUS
<1>4. p \in Owners /\ k \in KeysOf[p] /\ p # o
  BY <1>0, <1>2, <1>3 DEF Inv, TypeOK, Registered
<1>5. p \in Local
  BY <1>0, <1>4 DEF SameProvider
<1>6. p \in handoffs[k] \ {o}
  BY <1>0, <1>3, <1>4, <1>5 DEF Inv, Registered
<1>7. PICK q \in handoffs[k] \ {o} : Schedule(k, q, FALSE)
  BY <1>2, <1>6 DEF Handoff
<1>8. q \in Owners /\ FALSE \in BOOLEAN
  BY <1>0, <1>7 DEF Inv, TypeOK
<1>9. k \in Active /\ k \notin exclusive
  <2>1. k \in Active
    BY <1>0 DEF Active
  <2> QED BY <1>0, <2>1 DEF Inv, LeaseIsAlone
<1>10. PICK x \in Keys : x = running.key
  BY <1>0
<1>11. Asked(x)' \/ (Saturated /\ ~ToFollowUp(x, FALSE))
  BY <1>7, <1>8, <1>9, <1>10, ScheduleKeepsAsked
<1>12. running' = running
  BY <1>1 DEF Check
<1>13. ToFollowUp(x, FALSE) \/ again
  BY <1>9, <1>10 DEF ToFollowUp
<1> QED BY <1>10, <1>11, <1>12, <1>13

(* A FastEmbed pass that finds its engine retired gives way only to another *)
(* pass of its key, while a live engine asked for one, unless it is a       *)
(* follow-up and both banks are full.                                       *)
THEOREM HandedOverHolds == ASSUME SameProvider PROVE Spec => HandedOver
<1>0. SameProvider
  OBVIOUS
<1>1. Inv /\ [Next]_vars =>
        [wpc = "check" /\ wpc' = "finish" /\ ~closed
           /\ (\E o \in owners[running.key] : call[o].pc = "live")
         => Asked(running.key)' \/ (again /\ Saturated)]_vars
  BY <1>0, HandoffAsked
<1> QED BY <1>1, Invariance, PTL DEF Spec, HandedOver

=============================================================================
