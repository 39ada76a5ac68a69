------------------------ MODULE Collections_proofs ------------------------
(***************************************************************************)
(* What Kept and the SumFunction of the community modules compute.  Both   *)
(* are recursive functions; a claim about all of them is proved by a least *)
(* counterexample, which the well-foundedness of the strict subsets of a   *)
(* finite set provides.                                                    *)
(***************************************************************************)
EXTENDS Collections, Functions, FiniteSetTheorems, WellFoundedInduction, TLAPS

(* Among sets of parts of a finite set there is a smallest one. *)
LEMMA LeastSubset ==
  ASSUME NEW S, IsFiniteSet(S), NEW T, T \subseteq SUBSET S, T # {}
  PROVE  \E X \in T : \A Y \in T : Y \subseteq X => Y = X
<1>1. IsWellFoundedOn(StrictSubsetOrdering(S), SUBSET S)
  BY FS_StrictSubsetOrderingWellFounded, FS_FiniteSubsetsOfFinite
<1>2. PICK X \in T : \A Y \in T : ~(<<Y, X>> \in StrictSubsetOrdering(S))
  BY <1>1, WFMin
<1>3. ASSUME NEW Y \in T, Y \subseteq X, Y # X PROVE FALSE
  <2>1. <<Y, X>> \in StrictSubsetOrdering(S)
    BY <1>3 DEF StrictSubsetOrdering
  <2> QED BY <1>2, <2>1
<1> QED BY <1>3

(* A set of naturals has a least element: induction by a least counterexample. *)
LEMMA LeastNat ==
  ASSUME NEW S \in SUBSET Nat, S # {}
  PROVE  \E n \in S : \A m \in S : n <= m
<1>1. PICK N \in S : TRUE
  OBVIOUS
<1> DEFINE T == {X \in SUBSET (0..N) : \E k \in S : k <= N /\ X = 0..k}
<1>2. IsFiniteSet(0..N) /\ T \subseteq SUBSET (0..N) /\ 0..N \in T
  BY FS_Interval
<1>3. PICK X \in T : \A Y \in T : Y \subseteq X => Y = X
  <2> DEFINE R == 0..N
  <2>1. IsFiniteSet(R) /\ T \subseteq SUBSET R /\ T # {}
    BY <1>2
  <2> HIDE DEF T, R
  <2> QED BY <2>1, LeastSubset
<1>4. PICK n \in S : n <= N /\ X = 0..n
  BY <1>3
<1>5. ASSUME NEW m \in S, ~(n <= m) PROVE FALSE
  <2>1. 0..m \in T /\ 0..m \subseteq 0..n
    BY <1>4, <1>5
  <2>2. n \in 0..n /\ n \notin 0..m
    BY <1>5
  <2> QED BY <1>3, <1>4, <2>1, <2>2
<1> QED BY <1>5

-----------------------------------------------------------------------------
\* The prefixes of the filter: the recursive function of Kept exists.
Prefixes(s, keep, f, m) ==
  \A n \in 0..m :
    f[n] = IF n = 0 THEN <<>>
           ELSE IF s[n] \in keep THEN Append(f[n - 1], s[n]) ELSE f[n - 1]

(* The prefixes can be computed one after another. *)
LEMMA PrefixesExist ==
  ASSUME NEW E, NEW s \in Seq(E), NEW keep, NEW m \in 0..Len(s)
  PROVE  \E f \in [0..m -> Seq(E)] : Prefixes(s, keep, f, m)
<1> DEFINE Bad == {n \in Nat : n <= Len(s) /\ ~\E f \in [0..n -> Seq(E)] : Prefixes(s, keep, f, n)}
<1> SUFFICES ASSUME Bad # {} PROVE FALSE
  OBVIOUS
<1>1. PICK n \in Bad : \A k \in Bad : n <= k
  <2>1. Bad \in SUBSET Nat
    OBVIOUS
  <2> HIDE DEF Bad
  <2> QED BY <2>1, LeastNat
<1>2. CASE n = 0
  <2> DEFINE f == [x \in 0..0 |-> <<>>]
  <2>1. f \in [0..n -> Seq(E)] /\ Prefixes(s, keep, f, n)
    <3>1. f \in [0..n -> Seq(E)]
      BY <1>2
    <3>2. \A x \in 0..n : x = 0 /\ f[x] = <<>>
      BY <1>2
    <3> QED BY <3>1, <3>2 DEF Prefixes
  <2> QED BY <2>1
<1>3. CASE n # 0
  <2>0. n \in Nat /\ n <= Len(s)
    OBVIOUS
  <2>1. n - 1 \in Nat /\ n - 1 <= Len(s) /\ n - 1 \notin Bad
    <3> HIDE DEF Bad
    <3> QED BY <1>1, <1>3, <2>0
  <2>2. PICK f \in [0..(n - 1) -> Seq(E)] : Prefixes(s, keep, f, n - 1)
    BY <2>1
  <2>3. s[n] \in E
    <3>1. n \in 1..Len(s)
      BY <1>1, <1>3
    <3> QED BY <3>1
  <2> DEFINE g == [x \in 0..n |-> IF x < n THEN f[x]
                                  ELSE IF s[n] \in keep THEN Append(f[n - 1], s[n]) ELSE f[n - 1]]
  <2>4. g \in [0..n -> Seq(E)]
    BY <2>1, <2>2, <2>3
  <2>5. Prefixes(s, keep, g, n)
    <3> SUFFICES ASSUME NEW x \in 0..n
                 PROVE  g[x] = IF x = 0 THEN <<>>
                               ELSE IF s[x] \in keep THEN Append(g[x - 1], s[x]) ELSE g[x - 1]
      BY DEF Prefixes
    <3>1. CASE x = n
      <4>1. g[x] = (IF s[n] \in keep THEN Append(f[n - 1], s[n]) ELSE f[n - 1]) /\ g[x - 1] = f[n - 1]
        BY <1>3, <2>0, <2>1, <3>1
      <4> QED BY <1>3, <3>1, <4>1
    <3>2. CASE x # n
      <4>1. x \in 0..(n - 1) /\ g[x] = f[x] /\ (x # 0 => g[x - 1] = f[x - 1])
        BY <2>0, <3>2
      <4> QED BY <2>2, <4>1 DEF Prefixes
    <3> QED BY <3>1, <3>2
  <2> QED BY <2>4, <2>5
<1> QED BY <1>2, <1>3

(* Kept is the last of them. *)
LEMMA KeptPrefix ==
  ASSUME NEW E, NEW s \in Seq(E), NEW keep
  PROVE  \E f \in [0..Len(s) -> Seq(E)] :
           Prefixes(s, keep, f, Len(s)) /\ Kept(s, keep) = f[Len(s)]
<1> DEFINE Body(g) == [n \in 0..Len(s) |->
              IF n = 0 THEN <<>>
              ELSE IF s[n] \in keep THEN Append(g[n - 1], s[n]) ELSE g[n - 1]]
           F == CHOOSE g : g = Body(g)
<1>0. Len(s) \in Nat /\ Len(s) \in 0..Len(s)
  OBVIOUS
<1>1. PICK f \in [0..Len(s) -> Seq(E)] : Prefixes(s, keep, f, Len(s))
  BY <1>0, PrefixesExist
<1>2. f = Body(f)
  <2>1. \A n \in 0..Len(s) : f[n] = Body(f)[n]
    BY <1>1 DEF Prefixes
  <2>2. f = [n \in 0..Len(s) |-> f[n]]
    OBVIOUS
  <2>3. Body(f) = [n \in 0..Len(s) |-> Body(f)[n]]
    OBVIOUS
  <2> HIDE DEF Body
  <2> QED BY <2>1, <2>2, <2>3
<1>3. F = Body(F)
  <2> HIDE DEF Body
  <2> QED BY <1>2
<1>4. Kept(s, keep) = F[Len(s)]
  BY DEF Kept
<1> HIDE DEF F
<1> DEFINE Bad == {n \in Nat : n <= Len(s) /\ F[n] # f[n]}
<1>5. Bad = {}
  <2> SUFFICES ASSUME Bad # {} PROVE FALSE
    OBVIOUS
  <2>1. PICK n \in Bad : \A k \in Bad : n <= k
    <3>1. Bad \in SUBSET Nat
      OBVIOUS
    <3> HIDE DEF Bad
    <3> QED BY <3>1, LeastNat
  <2>2. n \in Nat /\ n <= Len(s) /\ F[n] # f[n]
    OBVIOUS
  <2>3. n # 0 => F[n - 1] = f[n - 1]
    <3>1. n # 0 => n - 1 \in Nat /\ n - 1 <= Len(s) /\ n - 1 \notin Bad
      <4> HIDE DEF Bad
      <4> QED BY <1>0, <2>1, <2>2
    <3> QED BY <3>1
  <2>4. F[n] = Body(F)[n] /\ f[n] = Body(f)[n] /\ n \in 0..Len(s)
    <3> HIDE DEF Body
    <3> QED BY <1>0, <1>2, <1>3, <2>2
  <2> QED BY <2>2, <2>3, <2>4
<1>6. F[Len(s)] = f[Len(s)]
  BY <1>0, <1>5
<1> QED BY <1>1, <1>4, <1>6

\* t holds, in order, the first n elements of s that are in keep: the i-th of
\* them has place g[i] in s.
Places(s, keep, n, t, g) ==
  /\ \A i, j \in 1..Len(t) : i < j => g[i] < g[j]
  /\ \A i \in 1..Len(t) : t[i] = s[g[i]] /\ t[i] \in keep
  /\ \A j \in 1..n : s[j] \in keep => \E i \in 1..Len(t) : g[i] = j

IsFilter(s, keep, n, t) ==
  /\ Len(t) <= n
  /\ \E g \in [1..Len(t) -> 1..n] : Places(s, keep, n, t, g)

(* One more element of s. *)
LEMMA FilterGrows ==
  ASSUME NEW E, NEW s \in Seq(E), NEW keep, NEW n \in Nat, n < Len(s),
         NEW t \in Seq(E), IsFilter(s, keep, n, t)
  PROVE  IsFilter(s, keep, n + 1, IF s[n + 1] \in keep THEN Append(t, s[n + 1]) ELSE t)
<1>0. Len(t) \in Nat /\ n + 1 \in 1..Len(s) /\ Len(t) <= n
  BY DEF IsFilter
<1>1. PICK g \in [1..Len(t) -> 1..n] :
        /\ \A i, j \in 1..Len(t) : i < j => g[i] < g[j]
        /\ \A i \in 1..Len(t) : t[i] = s[g[i]] /\ t[i] \in keep
        /\ \A j \in 1..n : s[j] \in keep => \E i \in 1..Len(t) : g[i] = j
  BY DEF IsFilter, Places
<1>2. CASE s[n + 1] \notin keep
  <2>1. g \in [1..Len(t) -> 1..(n + 1)]
    BY <1>0
  <2>2. \A j \in 1..(n + 1) : s[j] \in keep => \E i \in 1..Len(t) : g[i] = j
    BY <1>0, <1>1, <1>2
  <2>3. IsFilter(s, keep, n + 1, t)
    <3>1. Places(s, keep, n + 1, t, g)
      BY <1>1, <2>2 DEF Places
    <3> QED BY <1>0, <2>1, <3>1 DEF IsFilter
  <2> QED BY <1>2, <2>3
<1>3. CASE s[n + 1] \in keep
  <2> DEFINE u == Append(t, s[n + 1])
             h == [i \in 1..(Len(t) + 1) |-> IF i <= Len(t) THEN g[i] ELSE n + 1]
  <2>1. /\ Len(u) = Len(t) + 1 /\ u[Len(t) + 1] = s[n + 1]
        /\ \A i \in 1..Len(t) : u[i] = t[i]
    BY <1>0
  <2>2. h \in [1..Len(u) -> 1..(n + 1)]
    BY <1>0, <2>1
  <2>3. ASSUME NEW i \in 1..Len(u), NEW j \in 1..Len(u), i < j PROVE h[i] < h[j]
    <3>0. i \in 1..Len(t)
      BY <1>0, <2>1, <2>3
    <3>1. i \in 1..Len(t) /\ g[i] \in 1..n /\ h[i] = g[i]
      BY <1>0, <3>0
    <3>2. CASE j <= Len(t)
      <4>1. j \in 1..Len(t) /\ h[j] = g[j]
        BY <1>0, <2>1, <3>2
      <4>2. g[i] < g[j]
        BY <1>1, <2>3, <3>1, <4>1
      <4> QED BY <3>1, <4>1, <4>2
    <3>3. CASE j > Len(t)
      <4>1. h[j] = n + 1
        BY <1>0, <2>1, <3>3
      <4> QED BY <3>1, <4>1
    <3> QED BY <1>0, <2>1, <3>2, <3>3
  <2>4. ASSUME NEW i \in 1..Len(u) PROVE u[i] = s[h[i]] /\ u[i] \in keep
    <3>1. CASE i \in 1..Len(t)
      BY <1>0, <1>1, <2>1, <3>1
    <3>2. CASE i = Len(t) + 1
      BY <1>0, <1>3, <2>1, <3>2
    <3> QED BY <1>0, <2>1, <3>1, <3>2
  <2>5. ASSUME NEW j \in 1..(n + 1), s[j] \in keep PROVE \E i \in 1..Len(u) : h[i] = j
    <3>1. CASE j \in 1..n
      <4>1. PICK i \in 1..Len(t) : g[i] = j
        BY <1>1, <2>5, <3>1
      <4>2. i \in 1..Len(u) /\ h[i] = j
        BY <1>0, <2>1, <4>1
      <4> QED BY <4>2
    <3>2. CASE j = n + 1
      <4>1. Len(t) + 1 \in 1..Len(u) /\ h[Len(t) + 1] = n + 1
        BY <1>0, <2>1
      <4> QED BY <3>2, <4>1
    <3> QED BY <1>0, <3>1, <3>2
  <2>6. IsFilter(s, keep, n + 1, u)
    <3> HIDE DEF u, h
    <3>1. Places(s, keep, n + 1, u, h)
      BY <2>3, <2>4, <2>5 DEF Places
    <3>2. Len(u) <= n + 1
      BY <1>0, <2>1
    <3> QED BY <2>2, <3>1, <3>2 DEF IsFilter
  <2> QED BY <1>3, <2>6
<1> QED BY <1>2, <1>3

\* What Kept returns: a sequence of the elements in keep, all of them, each
\* once for each place it has in s, in the order of s.
LEMMA KeptFilters ==
  ASSUME NEW E, NEW s \in Seq(E), NEW keep
  PROVE  Kept(s, keep) \in Seq(E) /\ IsFilter(s, keep, Len(s), Kept(s, keep))
<1>0. Len(s) \in Nat
  OBVIOUS
<1>1. PICK f \in [0..Len(s) -> Seq(E)] :
        Prefixes(s, keep, f, Len(s)) /\ Kept(s, keep) = f[Len(s)]
  BY KeptPrefix
<1> DEFINE Bad == {n \in Nat : n <= Len(s) /\ ~IsFilter(s, keep, n, f[n])}
<1>2. Bad = {}
  <2> SUFFICES ASSUME Bad # {} PROVE FALSE
    OBVIOUS
  <2>1. PICK n \in Bad : \A k \in Bad : n <= k
    <3>1. Bad \in SUBSET Nat
      OBVIOUS
    <3> HIDE DEF Bad
    <3> QED BY <3>1, LeastNat
  <2>2. n \in Nat /\ n <= Len(s) /\ ~IsFilter(s, keep, n, f[n])
    OBVIOUS
  <2>3. CASE n = 0
    <3>1. f[0] = <<>>
      BY <1>0, <1>1 DEF Prefixes
    <3> DEFINE e == <<>>
               g == [i \in 1..0 |-> 0]
    <3>2. g \in [1..0 -> 1..0] /\ Len(e) = 0
      OBVIOUS
    <3> HIDE DEF e, g, Bad
    <3>3. Places(s, keep, 0, e, g)
      BY <3>2 DEF Places
    <3>4. IsFilter(s, keep, 0, e)
      BY <3>2, <3>3 DEF IsFilter
    <3>5. f[0] = e
      BY <3>1 DEF e
    <3> QED BY <2>2, <2>3, <3>4, <3>5
  <2>4. CASE n # 0
    <3>1. n - 1 \in Nat /\ n - 1 < Len(s) /\ n - 1 \notin Bad
      <4> HIDE DEF Bad
      <4> QED BY <1>0, <2>1, <2>2, <2>4
    <3>2. IsFilter(s, keep, n - 1, f[n - 1]) /\ f[n - 1] \in Seq(E) /\ (n - 1) + 1 = n
      BY <1>0, <3>1
    <3>3. f[n] = IF s[n] \in keep THEN Append(f[n - 1], s[n]) ELSE f[n - 1]
      BY <1>0, <1>1, <2>2, <2>4 DEF Prefixes
    <3> DEFINE m == n - 1
    <3> HIDE DEF m
    <3>4. m \in Nat /\ m < Len(s) /\ f[m] \in Seq(E) /\ IsFilter(s, keep, m, f[m]) /\ m + 1 = n
      BY <3>1, <3>2 DEF m
    <3>5. IsFilter(s, keep, m + 1, IF s[m + 1] \in keep THEN Append(f[m], s[m + 1]) ELSE f[m])
      BY <3>4, FilterGrows
    <3>6. f[n] = IF s[m + 1] \in keep THEN Append(f[m], s[m + 1]) ELSE f[m]
      BY <3>3, <3>4 DEF m
    <3> QED BY <2>2, <3>4, <3>5, <3>6
  <2> QED BY <2>3, <2>4
<1>3. IsFilter(s, keep, Len(s), f[Len(s)])
  BY <1>0, <1>2
<1> QED BY <1>0, <1>1, <1>3

-----------------------------------------------------------------------------
(* SumFunction over a finite domain                                        *)

\* it[T] is the sum of f over T, computed by taking out one chosen element
\* after another.
Chosen(T) == CHOOSE x \in T : TRUE
SumRule(f, it, S) ==
  \A T \in S : it[T] = IF T = {} THEN 0 ELSE f[Chosen(T)] + it[T \ {Chosen(T)}]

UpToSize(D, n) == {T \in SUBSET D : Cardinality(T) <= n}

(* The sums of the parts of D can be computed, smaller parts first. *)
LEMMA SumsExist ==
  ASSUME NEW D, IsFiniteSet(D), NEW f \in [D -> Nat], NEW m \in Nat
  PROVE  \E it \in [UpToSize(D, m) -> Nat] : SumRule(f, it, UpToSize(D, m))
<1> DEFINE Bad == {n \in Nat : ~\E it \in [UpToSize(D, n) -> Nat] : SumRule(f, it, UpToSize(D, n))}
<1> SUFFICES ASSUME Bad # {} PROVE FALSE
  OBVIOUS
<1>1. PICK n \in Bad : \A k \in Bad : n <= k
  <2>1. Bad \in SUBSET Nat
    OBVIOUS
  <2> HIDE DEF Bad
  <2> QED BY <2>1, LeastNat
<1>2. n \in Nat
  OBVIOUS
<1>3. \A T \in SUBSET D : IsFiniteSet(T) /\ Cardinality(T) \in Nat
  BY FS_Subset, FS_CardinalityType
<1>4. \A T \in SUBSET D : T # {} =>
        /\ Chosen(T) \in T /\ T \ {Chosen(T)} \in SUBSET D
        /\ Cardinality(T \ {Chosen(T)}) = Cardinality(T) - 1
  <2> SUFFICES ASSUME NEW T \in SUBSET D, T # {}
               PROVE  /\ Chosen(T) \in T /\ T \ {Chosen(T)} \in SUBSET D
                      /\ Cardinality(T \ {Chosen(T)}) = Cardinality(T) - 1
    OBVIOUS
  <2>1. Chosen(T) \in T
    BY DEF Chosen
  <2> QED BY <1>3, <2>1, FS_RemoveElement
<1>5. CASE n = 0
  <2> DEFINE it == [T \in UpToSize(D, 0) |-> 0]
  <2>1. it \in [UpToSize(D, n) -> Nat]
    BY <1>5
  <2>2. ASSUME NEW T \in UpToSize(D, 0) PROVE T = {}
    <3>1. T \in SUBSET D /\ Cardinality(T) <= 0
      BY DEF UpToSize
    <3> QED BY <1>3, <3>1, FS_EmptySet
  <2>3. SumRule(f, it, UpToSize(D, n))
    BY <1>5, <2>2 DEF SumRule
  <2> QED BY <2>1, <2>3
<1>6. CASE n # 0
  <2>1. n - 1 \in Nat /\ n - 1 \notin Bad
    <3> HIDE DEF Bad
    <3> QED BY <1>1, <1>2, <1>6
  <2> DEFINE m1 == n - 1
  <2>2. PICK old \in [UpToSize(D, m1) -> Nat] : SumRule(f, old, UpToSize(D, m1))
    BY <2>1
  <2> DEFINE it == [T \in UpToSize(D, n) |->
                      IF T \in UpToSize(D, m1) THEN old[T]
                      ELSE f[Chosen(T)] + old[T \ {Chosen(T)}]]
  <2>3. ASSUME NEW T \in UpToSize(D, n), T # {}
        PROVE  /\ Chosen(T) \in D /\ T \ {Chosen(T)} \in UpToSize(D, m1)
               /\ T \ {Chosen(T)} \in UpToSize(D, n)
    BY <1>2, <1>3, <1>4, <2>3 DEF UpToSize
  <2>4. {} \in UpToSize(D, m1)
    BY <2>1, FS_EmptySet DEF UpToSize
  <2>5. ASSUME NEW T \in UpToSize(D, n) PROVE it[T] \in Nat
    <3>1. CASE T \in UpToSize(D, m1)
      BY <3>1
    <3>2. CASE T \notin UpToSize(D, m1)
      <4> HIDE DEF m1
      <4>1. T # {}
        BY <2>4, <3>2
      <4>2. f[Chosen(T)] \in Nat /\ old[T \ {Chosen(T)}] \in Nat
        BY <2>2, <2>3, <4>1
      <4>3. it[T] = f[Chosen(T)] + old[T \ {Chosen(T)}]
        BY <3>2
      <4> HIDE DEF it
      <4> QED BY <4>2, <4>3
    <3> QED BY <3>1, <3>2
  <2>6. it \in [UpToSize(D, n) -> Nat]
    BY <2>5
  <2>7. ASSUME NEW T \in UpToSize(D, n)
        PROVE  it[T] = IF T = {} THEN 0 ELSE f[Chosen(T)] + it[T \ {Chosen(T)}]
    <3>0. T # {} => it[T \ {Chosen(T)}] = old[T \ {Chosen(T)}]
      BY <2>3
    <3>1. CASE T \in UpToSize(D, m1)
      BY <2>2, <3>0, <3>1 DEF SumRule
    <3>2. CASE T \notin UpToSize(D, m1)
      BY <2>4, <3>0, <3>2
    <3> QED BY <3>1, <3>2
  <2>8. SumRule(f, it, UpToSize(D, n))
    <3> HIDE DEF it
    <3> QED BY <2>7 DEF SumRule
  <2> HIDE DEF it
  <2> QED BY <2>6, <2>8
<1> QED BY <1>5, <1>6

\* The sum is the value of a function that obeys the rule on every subset.
LEMMA SumIsIter ==
  ASSUME NEW D, IsFiniteSet(D), NEW f \in [D -> Nat]
  PROVE  \E it \in [SUBSET D -> Nat] : SumRule(f, it, SUBSET D) /\ SumFunction(f) = it[D]
<1> DEFINE Body(h) == [T \in SUBSET D |->
                         IF T = {} THEN 0 ELSE f[Chosen(T)] + h[T \ {Chosen(T)}]]
           F == CHOOSE h : h = Body(h)
<1>1. UpToSize(D, Cardinality(D)) = SUBSET D /\ Cardinality(D) \in Nat
  BY FS_Subset, FS_CardinalityType DEF UpToSize
<1>2. PICK it \in [SUBSET D -> Nat] : SumRule(f, it, SUBSET D)
  <2> DEFINE m == Cardinality(D)
  <2> HIDE DEF m
  <2>1. m \in Nat /\ UpToSize(D, m) = SUBSET D
    BY <1>1 DEF m
  <2>2. \E it \in [UpToSize(D, m) -> Nat] : SumRule(f, it, UpToSize(D, m))
    BY <2>1, SumsExist
  <2> QED BY <2>1, <2>2
<1>3. it = Body(it)
  <2>1. \A T \in SUBSET D : it[T] = Body(it)[T]
    BY <1>2 DEF SumRule
  <2>2. it = [T \in SUBSET D |-> it[T]] /\ Body(it) = [T \in SUBSET D |-> Body(it)[T]]
    OBVIOUS
  <2> HIDE DEF Body
  <2> QED BY <2>1, <2>2
<1>4. F = Body(F)
  <2> HIDE DEF Body
  <2> QED BY <1>3
<1>5. SumFunction(f) = F[D]
  <2>1. DOMAIN f = D
    OBVIOUS
  <2> QED BY <2>1 DEF SumFunction, SumFunctionOnSet, FoldFunctionOnSet, MapThenFoldSet, Chosen
<1> HIDE DEF F
<1> DEFINE Bad == {T \in SUBSET D : F[T] # it[T]}
<1>6. Bad = {}
  <2> SUFFICES ASSUME Bad # {} PROVE FALSE
    OBVIOUS
  <2>1. PICK T \in Bad : \A Y \in Bad : Y \subseteq T => Y = T
    <3>1. Bad \subseteq SUBSET D
      OBVIOUS
    <3> HIDE DEF Bad
    <3> QED BY <3>1, LeastSubset
  <2>2. T \in SUBSET D /\ F[T] # it[T]
    OBVIOUS
  <2>3. T # {} => F[T \ {Chosen(T)}] = it[T \ {Chosen(T)}]
    <3>1. T # {} => Chosen(T) \in T
      BY DEF Chosen
    <3>2. T # {} => T \ {Chosen(T)} \subseteq T /\ T \ {Chosen(T)} # T
      BY <3>1
    <3>3. T # {} => T \ {Chosen(T)} \notin Bad
      <4> HIDE DEF Bad
      <4> QED BY <2>1, <3>2
    <3> QED BY <3>3
  <2>4. F[T] = Body(F)[T] /\ it[T] = Body(it)[T]
    <3> HIDE DEF Body
    <3> QED BY <1>3, <1>4
  <2> QED BY <2>2, <2>3, <2>4
<1>7. F[D] = it[D]
  BY <1>6
<1> QED BY <1>2, <1>5, <1>7

\* Any element may be taken out first.
LEMMA SumTakesOut ==
  ASSUME NEW D, IsFiniteSet(D), NEW f \in [D -> Nat], NEW it \in [SUBSET D -> Nat],
         SumRule(f, it, SUBSET D), NEW T \in SUBSET D, NEW a \in T
  PROVE  it[T] = f[a] + it[T \ {a}]
<1> DEFINE Bad == {Y \in SUBSET D : \E b \in Y : it[Y] # f[b] + it[Y \ {b}]}
<1> SUFFICES Bad = {}
  OBVIOUS
<1> SUFFICES ASSUME Bad # {} PROVE FALSE
  OBVIOUS
<1>1. PICK Y \in Bad : \A Z \in Bad : Z \subseteq Y => Z = Y
  <2>1. Bad \subseteq SUBSET D
    OBVIOUS
  <2> HIDE DEF Bad
  <2> QED BY <2>1, LeastSubset
<1>2. Y \in SUBSET D
  OBVIOUS
<1>3. PICK b \in Y : it[Y] # f[b] + it[Y \ {b}]
  OBVIOUS
<1> DEFINE c == Chosen(Y)
<1>4. c \in Y
  BY <1>3 DEF Chosen
<1>5. it[Y] = f[c] + it[Y \ {c}]
  BY <1>2, <1>3 DEF SumRule
<1> HIDE DEF c
<1>6. c # b
  BY <1>3, <1>5
<1>7. Y \ {c} \notin Bad /\ Y \ {b} \notin Bad
  <2>1. Y \ {c} \subseteq Y /\ Y \ {c} # Y /\ Y \ {b} \subseteq Y /\ Y \ {b} # Y
    BY <1>4
  <2> HIDE DEF Bad
  <2> QED BY <1>1, <2>1
<1>8. it[Y \ {c}] = f[b] + it[(Y \ {c}) \ {b}]
  BY <1>2, <1>6, <1>7
<1>9. it[Y \ {b}] = f[c] + it[(Y \ {b}) \ {c}]
  BY <1>2, <1>4, <1>6, <1>7
<1>10. (Y \ {b}) \ {c} = (Y \ {c}) \ {b} /\ (Y \ {c}) \ {b} \in SUBSET D
  BY <1>2
<1> DEFINE r == it[(Y \ {c}) \ {b}]
<1>11. f[b] \in Nat /\ f[c] \in Nat /\ r \in Nat
  BY <1>2, <1>4, <1>10
<1>12. it[Y \ {c}] = f[b] + r /\ it[Y \ {b}] = f[c] + r
  BY <1>8, <1>9, <1>10
<1> HIDE DEF r, Bad
<1>13. it[Y] = f[c] + (f[b] + r) /\ f[b] + it[Y \ {b}] = f[b] + (f[c] + r)
  BY <1>5, <1>12
<1>14. f[c] + (f[b] + r) = f[b] + (f[c] + r)
  BY <1>11
<1> QED BY <1>3, <1>13, <1>14

\* A function that obeys the rule gives the sum of f over every subset.
LEMMA SumOfPart ==
  ASSUME NEW D, IsFiniteSet(D), NEW f \in [D -> Nat], NEW it \in [SUBSET D -> Nat],
         SumRule(f, it, SUBSET D), NEW T \in SUBSET D
  PROVE  SumFunction([x \in T |-> f[x]]) = it[T]
<1> DEFINE h == [x \in T |-> f[x]]
<1>1. h \in [T -> Nat] /\ IsFiniteSet(T)
  BY FS_Subset
<1>2. PICK jt \in [SUBSET T -> Nat] : SumRule(h, jt, SUBSET T) /\ SumFunction(h) = jt[T]
  <2> HIDE DEF h
  <2> QED BY <1>1, SumIsIter
<1> DEFINE Bad == {Y \in SUBSET T : jt[Y] # it[Y]}
<1>3. Bad = {}
  <2> SUFFICES ASSUME Bad # {} PROVE FALSE
    OBVIOUS
  <2>1. PICK Y \in Bad : \A Z \in Bad : Z \subseteq Y => Z = Y
    <3>1. Bad \subseteq SUBSET T
      OBVIOUS
    <3> HIDE DEF Bad
    <3> QED BY <1>1, <3>1, LeastSubset
  <2>2. Y \in SUBSET T /\ jt[Y] # it[Y]
    OBVIOUS
  <2>3. CASE Y = {}
    BY <1>2, <2>2, <2>3 DEF SumRule
  <2>4. CASE Y # {}
    <3> DEFINE c == Chosen(Y)
    <3>1. c \in Y
      BY <2>4 DEF Chosen
    <3>2. jt[Y] = h[c] + jt[Y \ {c}] /\ it[Y] = f[c] + it[Y \ {c}]
      BY <1>2, <2>2, <2>4 DEF SumRule
    <3> HIDE DEF c
    <3>3. Y \ {c} \notin Bad
      <4>1. Y \ {c} \subseteq Y /\ Y \ {c} # Y
        BY <3>1
      <4> HIDE DEF Bad
      <4> QED BY <2>1, <4>1
    <3>4. jt[Y \ {c}] = it[Y \ {c}]
      BY <2>2, <3>3
    <3> QED BY <2>2, <3>1, <3>2, <3>4
  <2> QED BY <2>3, <2>4
<1> QED BY <1>2, <1>3

(* A sum of naturals is a natural. *)
LEMMA SumType ==
  ASSUME NEW D, IsFiniteSet(D), NEW f \in [D -> Nat]
  PROVE  SumFunction(f) \in Nat
<1>1. PICK it \in [SUBSET D -> Nat] : SumFunction(f) = it[D]
  BY SumIsIter
<1> QED BY <1>1

(* The empty sum is 0. *)
LEMMA SumOfNothing ==
  ASSUME NEW f \in [{} -> Nat]
  PROVE  SumFunction(f) = 0
<1>1. IsFiniteSet({})
  BY FS_EmptySet
<1> DEFINE D == {}
<1> HIDE DEF D
<1>2. PICK it \in [SUBSET D -> Nat] : SumRule(f, it, SUBSET D) /\ SumFunction(f) = it[D]
  BY <1>1, SumIsIter DEF D
<1> QED BY <1>2 DEF SumRule, D

\* h is f without its value at a.
LacksOne(D, f, a, h) == h \in [D \ {a} -> Nat] /\ \A x \in D \ {a} : h[x] = f[x]

\* The sum without one element.
LEMMA SumWithout ==
  ASSUME NEW D, IsFiniteSet(D), NEW f \in [D -> Nat], NEW a \in D,
         NEW h, LacksOne(D, f, a, h)
  PROVE  SumFunction(f) = f[a] + SumFunction(h)
<1>1. PICK it \in [SUBSET D -> Nat] : SumRule(f, it, SUBSET D) /\ SumFunction(f) = it[D]
  BY SumIsIter
<1>2. it[D] = f[a] + it[D \ {a}]
  BY <1>1, SumTakesOut
<1>3. SumFunction(h) = it[D \ {a}]
  <2> DEFINE T == D \ {a}
  <2>1. T \in SUBSET D /\ h = [x \in T |-> f[x]]
    BY DEF LacksOne
  <2> HIDE DEF T
  <2>2. SumFunction([x \in T |-> f[x]]) = it[T]
    BY <1>1, <2>1, SumOfPart
  <2> QED BY <2>1, <2>2 DEF T
<1> QED BY <1>1, <1>2, <1>3

(* No term exceeds the sum. *)
LEMMA SumBoundsEach ==
  ASSUME NEW D, IsFiniteSet(D), NEW f \in [D -> Nat], NEW a \in D
  PROVE  f[a] <= SumFunction(f)
<1> DEFINE h == [x \in D \ {a} |-> f[x]]
<1>1. h \in [D \ {a} -> Nat] /\ IsFiniteSet(D \ {a})
  BY FS_RemoveElement
<1>0. LacksOne(D, f, a, h)
  BY DEF LacksOne
<1> HIDE DEF h
<1>2. SumFunction(f) = f[a] + SumFunction(h)
  BY <1>0, <1>1, SumWithout
<1>3. SumFunction(h) \in Nat
  <2> DEFINE E == D \ {a}
  <2> HIDE DEF E
  <2>1. h \in [E -> Nat] /\ IsFiniteSet(E)
    BY <1>1 DEF E
  <2> QED BY <2>1, SumType
<1> QED BY <1>2, <1>3

\* One value changes.
LEMMA SumUpdate ==
  ASSUME NEW D, IsFiniteSet(D), NEW f \in [D -> Nat], NEW a \in D, NEW v \in Nat
  PROVE  SumFunction([f EXCEPT ![a] = v]) = SumFunction(f) - f[a] + v
<1> DEFINE g == [f EXCEPT ![a] = v]
<1>1. g \in [D -> Nat] /\ g[a] = v
  OBVIOUS
<1>2. \A x \in D \ {a} : g[x] = f[x]
  OBVIOUS
<1> HIDE DEF g
<1> DEFINE h == [x \in D \ {a} |-> f[x]]
<1>0. LacksOne(D, f, a, h) /\ LacksOne(D, g, a, h)
  BY <1>2 DEF LacksOne
<1>5. SumFunction(h) \in Nat
  <2> DEFINE E == D \ {a}
  <2>1. h \in [E -> Nat] /\ IsFiniteSet(E)
    BY FS_RemoveElement
  <2> HIDE DEF E, h
  <2> QED BY <2>1, SumType
<1> HIDE DEF h
<1>3. SumFunction(f) = f[a] + SumFunction(h)
  BY <1>0, SumWithout
<1>4. SumFunction(g) = v + SumFunction(h)
  <2>1. SumFunction(g) = g[a] + SumFunction(h)
    BY <1>0, <1>1, SumWithout
  <2> QED BY <1>1, <2>1
<1>6. f[a] \in Nat
  OBVIOUS
<1> QED BY <1>3, <1>4, <1>5, <1>6 DEF g

-----------------------------------------------------------------------------
(* Sums over the numbers below a bound                                     *)

Below(g, m) == SumFunction([x \in 0..(m - 1) |-> g[x]])

(* The numbers below a bound are finitely many. *)
LEMMA FiniteBelow ==
  ASSUME NEW m \in Int
  PROVE  IsFiniteSet(0..(m - 1))
<1> DEFINE q == m - 1
<1>1. q \in Int
  OBVIOUS
<1> HIDE DEF q
<1>2. IsFiniteSet(0..q)
  BY <1>1, FS_Interval
<1> QED BY <1>2 DEF q

(* The sum below a bound is a natural. *)
LEMMA BelowType ==
  ASSUME NEW N \in Nat, NEW g \in [0..N -> Nat], NEW m \in 0..(N + 1)
  PROVE  Below(g, m) \in Nat
<1> DEFINE D == 0..(m - 1)
           h == [x \in D |-> g[x]]
<1>1. IsFiniteSet(D) /\ h \in [D -> Nat]
  <2>1. IsFiniteSet(D)
    BY FiniteBelow
  <2>2. h \in [D -> Nat]
    OBVIOUS
  <2> QED BY <2>1, <2>2
<1> HIDE DEF D, h
<1>2. SumFunction(h) \in Nat
  BY <1>1, SumType
<1> QED BY <1>2 DEF Below, D, h

(* Nothing is below 0. *)
LEMMA BelowZero ==
  ASSUME NEW g
  PROVE  Below(g, 0) = 0
<1> DEFINE h == [x \in 0..(0 - 1) |-> g[x]]
<1>1. h \in [{} -> Nat]
  OBVIOUS
<1> HIDE DEF h
<1>2. SumFunction(h) = 0
  BY <1>1, SumOfNothing
<1> QED BY <1>2 DEF Below, h

(* The next number adds its term. *)
LEMMA BelowStep ==
  ASSUME NEW N \in Nat, NEW g \in [0..N -> Nat], NEW m \in 0..N
  PROVE  Below(g, m + 1) = g[m] + Below(g, m)
<1> DEFINE D == 0..((m + 1) - 1)
           h == [x \in D |-> g[x]]
           r == [x \in D \ {m} |-> h[x]]
<1>1. IsFiniteSet(D) /\ h \in [D -> Nat] /\ m \in D /\ h[m] = g[m]
  <2>1. IsFiniteSet(D)
    <3> DEFINE q == m + 1
    <3>1. q \in Int
      OBVIOUS
    <3> HIDE DEF q
    <3>2. IsFiniteSet(0..(q - 1))
      BY <3>1, FiniteBelow
    <3> QED BY <3>2 DEF q
  <2>2. h \in [D -> Nat] /\ m \in D /\ h[m] = g[m]
    OBVIOUS
  <2> QED BY <2>1, <2>2
<1>2. r = [x \in 0..(m - 1) |-> g[x]]
  <2>1. D \ {m} = 0..(m - 1)
    OBVIOUS
  <2>2. \A x \in D \ {m} : h[x] = g[x]
    OBVIOUS
  <2> HIDE DEF D, h
  <2> QED BY <2>1, <2>2
<1>3. SumFunction(h) = h[m] + SumFunction(r)
  <2> DEFINE a == m
  <2>1. LacksOne(D, h, a, r)
    BY <1>1 DEF LacksOne
  <2>2. IsFiniteSet(D) /\ h \in [D -> Nat] /\ a \in D
    BY <1>1
  <2> HIDE DEF D, h, r, a
  <2>3. SumFunction(h) = h[a] + SumFunction(r)
    BY <2>1, <2>2, SumWithout
  <2> QED BY <2>3 DEF a
<1> HIDE DEF r
<1> QED BY <1>1, <1>2, <1>3 DEF Below

(* A larger bound gives a sum at least as large. *)
LEMMA BelowGrows ==
  ASSUME NEW N \in Nat, NEW g \in [0..N -> Nat], NEW m \in 0..N
  PROVE  Below(g, m) <= Below(g, m + 1)
<1>1. m \in 0..(N + 1) /\ g[m] \in Nat
  OBVIOUS
<1>2. Below(g, m) \in Nat
  BY <1>1, BelowType
<1>3. Below(g, m + 1) = g[m] + Below(g, m)
  BY BelowStep
<1> DEFINE a == Below(g, m)
           b == g[m]
<1>4. a \in Nat /\ b \in Nat /\ Below(g, m + 1) = b + a
  BY <1>1, <1>2, <1>3
<1> HIDE DEF a, b
<1>5. a <= b + a
  BY <1>4
<1> QED BY <1>4, <1>5 DEF a

(* So does any larger bound. *)
LEMMA BelowMonotone ==
  ASSUME NEW N \in Nat, NEW g \in [0..N -> Nat], NEW m \in 0..(N + 1), NEW p \in m..(N + 1)
  PROVE  Below(g, m) <= Below(g, p)
<1> DEFINE Bad == {n \in Nat : n \in m..(N + 1) /\ ~(Below(g, m) <= Below(g, n))}
<1> SUFFICES ASSUME Bad # {} PROVE FALSE
  <2>1. p \in Nat /\ (~(Below(g, m) <= Below(g, p)) => p \in Bad)
    OBVIOUS
  <2> HIDE DEF Bad
  <2> QED BY <2>1
<1>1. PICK n \in Bad : \A k \in Bad : n <= k
  <2>1. Bad \in SUBSET Nat
    OBVIOUS
  <2> HIDE DEF Bad
  <2> QED BY <2>1, LeastNat
<1>2. n \in m..(N + 1) /\ ~(Below(g, m) <= Below(g, n))
  OBVIOUS
<1>3. Below(g, m) \in Nat
  BY BelowType
<1>4. n # m
  BY <1>2, <1>3
<1> DEFINE k == n - 1
<1>5. k \in Nat /\ k \in m..(N + 1) /\ k \in 0..N /\ k \in 0..(N + 1) /\ k + 1 = n /\ k < n
  BY <1>2, <1>4
<1>6. k \notin Bad
  <2> HIDE DEF Bad, k
  <2> QED BY <1>1, <1>2, <1>5
<1>7. Below(g, m) <= Below(g, k)
  BY <1>5, <1>6
<1> HIDE DEF k, Bad
<1>8. Below(g, k) <= Below(g, k + 1) /\ Below(g, k) \in Nat
  BY <1>5, BelowGrows, BelowType
<1>9. Below(g, k + 1) \in Nat
  <2>1. n \in 0..(N + 1)
    BY <1>2
  <2> QED BY <1>5, <2>1, BelowType
<1> QED BY <1>2, <1>3, <1>5, <1>7, <1>8, <1>9

\* Every value moves up by one place: the sum is that of one place less.
LEMMA BelowShift ==
  ASSUME NEW N \in Nat, NEW f \in [0..N -> Nat], NEW g \in [0..N -> Nat],
         g[0] = 0, \A a \in 1..N : g[a] = f[a - 1], NEW m \in 0..N
  PROVE  Below(g, m + 1) = Below(f, m)
<1> DEFINE Bad == {n \in Nat : n \in 0..N /\ Below(g, n + 1) # Below(f, n)}
<1> SUFFICES ASSUME Bad # {} PROVE FALSE
  <2>1. m \in Nat /\ (Below(g, m + 1) # Below(f, m) => m \in Bad)
    OBVIOUS
  <2> HIDE DEF Bad
  <2> QED BY <2>1
<1>1. PICK n \in Bad : \A k \in Bad : n <= k
  <2>1. Bad \in SUBSET Nat
    OBVIOUS
  <2> HIDE DEF Bad
  <2> QED BY <2>1, LeastNat
<1>2. n \in 0..N /\ Below(g, n + 1) # Below(f, n)
  OBVIOUS
<1>3. Below(g, n + 1) = g[n] + Below(g, n)
  BY <1>2, BelowStep
<1>4. CASE n = 0
  <2>1. Below(g, 0) = 0 /\ Below(f, 0) = 0
    BY BelowZero
  <2> QED BY <1>2, <1>3, <1>4, <2>1
<1>5. CASE n # 0
  <2> DEFINE k == n - 1
  <2>1. k \in 0..N /\ k + 1 = n /\ k < n /\ k \in Nat
    BY <1>2, <1>5
  <2>2. k \notin Bad
    <3> HIDE DEF Bad, k
    <3> QED BY <1>1, <1>2, <2>1
  <2>3. Below(g, k + 1) = Below(f, k)
    BY <2>1, <2>2
  <2>4. g[n] = f[k]
    BY <1>2, <1>5
  <2> HIDE DEF k
  <2>5. Below(f, k + 1) = f[k] + Below(f, k)
    BY <2>1, BelowStep
  <2>6. Below(g, n) = Below(f, k)
    BY <2>1, <2>3
  <2>7. Below(f, n) = f[k] + Below(f, k)
    BY <2>1, <2>5
  <2> QED BY <1>2, <1>3, <2>4, <2>6, <2>7
<1> QED BY <1>4, <1>5

\* Nothing but zeros.
LEMMA BelowOfZeros ==
  ASSUME NEW N \in Nat, NEW f \in [0..N -> Nat], \A a \in 0..N : f[a] = 0,
         NEW m \in 0..(N + 1)
  PROVE  Below(f, m) = 0
<1> DEFINE Bad == {n \in Nat : n \in 0..(N + 1) /\ Below(f, n) # 0}
<1> SUFFICES ASSUME Bad # {} PROVE FALSE
  <2>1. m \in Nat /\ (Below(f, m) # 0 => m \in Bad)
    OBVIOUS
  <2> HIDE DEF Bad
  <2> QED BY <2>1
<1>1. PICK n \in Bad : \A k \in Bad : n <= k
  <2>1. Bad \in SUBSET Nat
    OBVIOUS
  <2> HIDE DEF Bad
  <2> QED BY <2>1, LeastNat
<1>2. n \in 0..(N + 1) /\ Below(f, n) # 0
  OBVIOUS
<1>3. n # 0
  BY <1>2, BelowZero
<1> DEFINE k == n - 1
<1>4. k \in 0..N /\ k + 1 = n /\ k < n /\ k \in Nat /\ k \in 0..(N + 1)
  BY <1>2, <1>3
<1>5. k \notin Bad
  <2> HIDE DEF Bad, k
  <2> QED BY <1>1, <1>2, <1>4
<1>6. Below(f, k) = 0
  BY <1>4, <1>5
<1> HIDE DEF k
<1>7. Below(f, k + 1) = f[k] + Below(f, k)
  BY <1>4, BelowStep
<1>8. f[k] = 0
  BY <1>4
<1> QED BY <1>2, <1>4, <1>6, <1>7, <1>8

-----------------------------------------------------------------------------
(* Bounds and maxima of sets of naturals                                   *)

(* A finite set of naturals is bounded. *)
LEMMA FiniteBound ==
  ASSUME NEW S, S \subseteq Nat, IsFiniteSet(S)
  PROVE  \E u \in Nat : \A x \in S : x <= u
<1> DEFINE Unbounded == {X \in SUBSET S : ~\E u \in Nat : \A x \in X : x <= u}
<1> SUFFICES ASSUME Unbounded # {} PROVE FALSE
  OBVIOUS
<1>1. PICK X \in Unbounded : \A Y \in Unbounded : Y \subseteq X => Y = X
  <2> DEFINE R == S
  <2>1. IsFiniteSet(R) /\ Unbounded \subseteq SUBSET R /\ Unbounded # {}
    OBVIOUS
  <2> HIDE DEF Unbounded, R
  <2> QED BY <2>1, LeastSubset
<1>2. PICK x \in X : TRUE
  <2>1. CASE X = {}
    BY <1>1, <2>1
  <2> QED BY <2>1
<1>3. PICK u \in Nat : \A y \in X \ {x} : y <= u
  <2> DEFINE Y == X \ {x}
  <2>1. Y \in SUBSET S /\ Y \subseteq X /\ Y # X
    BY <1>1, <1>2
  <2>2. Y \notin Unbounded
    <3> HIDE DEF Unbounded, Y
    <3> QED BY <1>1, <2>1
  <2>3. \E u \in Nat : \A y \in Y : y <= u
    <3> HIDE DEF Y
    <3> QED BY <2>1, <2>2
  <2> QED BY <2>3
<1>4. x \in Nat /\ \A y \in X : y \in Nat
  BY <1>1, <1>2
<1>5. CASE x <= u
  BY <1>1, <1>3, <1>4, <1>5
<1>6. CASE ~(x <= u)
  <2>1. \A y \in X : y <= x
    BY <1>3, <1>4, <1>6
  <2> QED BY <1>1, <1>4, <2>1
<1> QED BY <1>5, <1>6

(* A bounded set of naturals that is not empty has a largest element. *)
LEMMA LargestNat ==
  ASSUME NEW S \in SUBSET Nat, S # {}, NEW b \in Nat, \A x \in S : x <= b
  PROVE  \E n \in S : \A m \in S : m <= n
<1> DEFINE U == {u \in Nat : \A x \in S : x <= u}
<1>1. PICK u \in U : \A v \in U : u <= v
  <2>1. U \in SUBSET Nat /\ U # {}
    OBVIOUS
  <2> HIDE DEF U
  <2> QED BY <2>1, LeastNat
<1>2. u \in S
  <2> SUFFICES ASSUME u \notin S PROVE FALSE
    OBVIOUS
  <2>1. PICK x \in S : TRUE
    OBVIOUS
  <2>2. u \in Nat /\ x \in Nat /\ x < u
    BY <1>1, <2>1
  <2>3. u - 1 \in Nat
    BY <2>2
  <2>4. \A y \in S : y <= u - 1
    BY <1>1, <2>2
  <2>5. u - 1 \in U
    BY <2>3, <2>4
  <2> QED BY <1>1, <2>2, <2>5
<1> QED BY <1>1, <1>2

-----------------------------------------------------------------------------
(* Elements of a filtered sequence, sums with few terms                    *)

(* Kept has the elements of s that are in keep. *)
LEMMA KeptElements ==
  ASSUME NEW E, NEW s \in Seq(E), NEW keep
  PROVE  /\ \A i \in 1..Len(Kept(s, keep)) :
               Kept(s, keep)[i] \in keep /\ \E j \in 1..Len(s) : Kept(s, keep)[i] = s[j]
         /\ \A j \in 1..Len(s) : s[j] \in keep => \E i \in 1..Len(Kept(s, keep)) : Kept(s, keep)[i] = s[j]
<1> DEFINE t == Kept(s, keep)
<1>1. t \in Seq(E) /\ IsFilter(s, keep, Len(s), t)
  BY KeptFilters
<1> HIDE DEF t
<1>2. PICK g \in [1..Len(t) -> 1..Len(s)] : Places(s, keep, Len(s), t, g)
  BY <1>1 DEF IsFilter
<1>3. \A i \in 1..Len(t) : t[i] \in keep /\ t[i] = s[g[i]] /\ g[i] \in 1..Len(s)
  BY <1>2 DEF Places
<1>4. ASSUME NEW j \in 1..Len(s), s[j] \in keep PROVE \E i \in 1..Len(t) : t[i] = s[j]
  <2>1. PICK i \in 1..Len(t) : g[i] = j
    BY <1>2, <1>4 DEF Places
  <2> QED BY <1>3, <2>1
<1> QED BY <1>3, <1>4 DEF t

(* Kept keeps distinct elements distinct. *)
LEMMA KeptOnce ==
  ASSUME NEW E, NEW s \in Seq(E), NEW keep, \A i, j \in 1..Len(s) : s[i] = s[j] => i = j
  PROVE  \A i, j \in 1..Len(Kept(s, keep)) : Kept(s, keep)[i] = Kept(s, keep)[j] => i = j
<1> DEFINE t == Kept(s, keep)
<1>1. t \in Seq(E) /\ IsFilter(s, keep, Len(s), t)
  BY KeptFilters
<1> HIDE DEF t
<1>2. PICK g \in [1..Len(t) -> 1..Len(s)] : Places(s, keep, Len(s), t, g)
  BY <1>1 DEF IsFilter
<1>3. \A i \in 1..Len(t) : t[i] = s[g[i]] /\ g[i] \in 1..Len(s)
  BY <1>2 DEF Places
<1>4. \A i, j \in 1..Len(t) : i < j => g[i] < g[j]
  BY <1>2 DEF Places
<1>5. ASSUME NEW i \in 1..Len(t), NEW j \in 1..Len(t), t[i] = t[j] PROVE i = j
  <2>1. g[i] = g[j] /\ g[i] \in Int
    BY <1>3, <1>5
  <2>2. ~(i < j) /\ ~(j < i)
    BY <1>4, <2>1
  <2>3. i \in Int /\ j \in Int
    OBVIOUS
  <2> QED BY <2>2, <2>3
<1> QED BY <1>5 DEF t

(* A sum of zeros is 0. *)
LEMMA SumOfZeros ==
  ASSUME NEW D, IsFiniteSet(D), NEW f \in [D -> Nat], \A x \in D : f[x] = 0
  PROVE  SumFunction(f) = 0
<1>1. PICK it \in [SUBSET D -> Nat] : SumRule(f, it, SUBSET D) /\ SumFunction(f) = it[D]
  BY SumIsIter
<1> DEFINE Bad == {T \in SUBSET D : it[T] # 0}
<1>2. Bad = {}
  <2> SUFFICES ASSUME Bad # {} PROVE FALSE
    OBVIOUS
  <2>1. PICK T \in Bad : \A Y \in Bad : Y \subseteq T => Y = T
    <3>1. Bad \subseteq SUBSET D
      OBVIOUS
    <3> HIDE DEF Bad
    <3> QED BY <3>1, LeastSubset
  <2>2. T \in SUBSET D /\ it[T] # 0
    OBVIOUS
  <2> HIDE DEF Bad
  <2>3. T # {}
    <3>1. {} \in SUBSET D
      OBVIOUS
    <3>2. it[{}] = 0
      BY <1>1, <3>1 DEF SumRule
    <3> QED BY <2>2, <3>2
  <2> DEFINE a == Chosen(T)
  <2>4. a \in T
    BY <2>3 DEF Chosen
  <2>5. it[T] = f[a] + it[T \ {a}]
    BY <1>1, <2>2, <2>3 DEF SumRule
  <2> HIDE DEF a
  <2>6. T \ {a} \notin Bad /\ T \ {a} \in SUBSET D
    <3>1. T \ {a} \subseteq T /\ T \ {a} # T /\ T \ {a} \in SUBSET D
      BY <2>2, <2>4
    <3> QED BY <2>1, <3>1
  <2>7. it[T \ {a}] = 0 /\ f[a] = 0
    BY <2>2, <2>4, <2>6 DEF Bad
  <2> QED BY <2>2, <2>5, <2>7
<1> QED BY <1>1, <1>2

(* A sum with one term that is not 0 is that term. *)
LEMMA SumOfOne ==
  ASSUME NEW D, IsFiniteSet(D), NEW f \in [D -> Nat], NEW a \in D, \A x \in D \ {a} : f[x] = 0
  PROVE  SumFunction(f) = f[a]
<1> DEFINE E == D \ {a}
           h == [x \in E |-> f[x]]
<1>1. LacksOne(D, f, a, h)
  BY DEF LacksOne
<1>2. h \in [E -> Nat] /\ IsFiniteSet(E) /\ \A x \in E : h[x] = 0
  BY FS_RemoveElement
<1> HIDE DEF h, E
<1>3. SumFunction(h) = 0
  BY <1>2, SumOfZeros
<1>4. SumFunction(f) = f[a] + SumFunction(h)
  BY <1>1, SumWithout
<1>5. f[a] \in Nat
  OBVIOUS
<1> QED BY <1>3, <1>4, <1>5

=============================================================================
