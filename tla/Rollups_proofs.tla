--------------------------- MODULE Rollups_proofs ---------------------------
(***************************************************************************)
(* What TLAPS proves of Rollups, for any days, nodes, lineages, builders,  *)
(* readers and limits of a pass and a drain.                               *)
(***************************************************************************)
EXTENDS Rollups, Collections_proofs, SequenceTheorems

-----------------------------------------------------------------------------
(* The canonical frontier of a forest.  Operators of the texts t, so that   *)
(* what is proved of them holds before and after a step.                   *)

LiveOf(t) == {n \in Nodes : t[n] > 0}

TermBody(t, f, n) ==
    IF t[n] = 0 \/ Kids[n] = {} THEN {n} ELSE UNION {f[k] : k \in Kids[n]}
TermOf(t) == CHOOSE f : f = [n \in Nodes |-> TermBody(t, f, n)]

CanonOf(t, S) ==
    {n \in S : \A m \in S \ {n} :
        /\ TermOf(t)[n] \subseteq TermOf(t)[m] => TermOf(t)[n] = TermOf(t)[m]
        /\ TermOf(t)[n] = TermOf(t)[m] =>
               Depth[m] < Depth[n] \/ (Depth[m] = Depth[n] /\ n < m)}

\* No node is a source of two condensed nodes that are there.
ForestOf(t) == \A a, b \in LiveOf(t) : a # b => Kids[a] \cap Kids[b] = {}

\* The nodes nothing that is there was condensed from.
Roots(t) == {n \in LiveOf(t) : \A m \in LiveOf(t) : n \notin Kids[m]}

(* The constants. *)
LEMMA Lineage ==
    /\ Nodes \subseteq Nat /\ IsFiniteSet(Nodes)
    /\ Kids \in [Nodes -> SUBSET Nodes]
    /\ \A n \in Nodes : \A k \in Kids[n] : k \in Nodes /\ k < n
  BY RollupAssumption

(* A lineage can be followed to its end: smaller nodes first. *)
LEMMA TermsExist ==
    ASSUME NEW t, NEW m \in Nat
    PROVE  \E f \in [Nodes -> SUBSET Nodes] :
             \A n \in Nodes : n < m => f[n] = TermBody(t, f, n)
  <1> DEFINE Good(i) == \E f \in [Nodes -> SUBSET Nodes] :
                          \A n \in Nodes : n < i => f[n] = TermBody(t, f, n)
             Bad == {i \in Nat : ~Good(i)}
  <1> SUFFICES ASSUME Bad # {} PROVE FALSE
    OBVIOUS
  <1>1. PICK i \in Bad : \A j \in Bad : i <= j
    <2>1. Bad \in SUBSET Nat
      OBVIOUS
    <2> HIDE DEF Bad
    <2> QED BY <2>1, LeastNat
  <1>2. CASE i = 0
    <2> DEFINE f == [n \in Nodes |-> {}]
    <2>1. f \in [Nodes -> SUBSET Nodes]
      OBVIOUS
    <2>2. \A n \in Nodes : ~(n < i)
      BY <1>2, Lineage
    <2> HIDE DEF f
    <2> QED BY <1>1, <2>1, <2>2
  <1>3. CASE i # 0
    <2>1. i - 1 \in Nat /\ i - 1 < i
      BY <1>3
    <2>2. Good(i - 1)
      BY <1>1, <2>1
    <2>3. PICK f \in [Nodes -> SUBSET Nodes] :
            \A n \in Nodes : n < i - 1 => f[n] = TermBody(t, f, n)
      BY <2>2
    <2> DEFINE g == [n \in Nodes |-> IF n < i - 1 THEN f[n] ELSE TermBody(t, f, n)]
    <2>4. \A n \in Nodes : TermBody(t, f, n) \in SUBSET Nodes
      BY Lineage, ZenonT(40) DEF TermBody
    <2>5. g \in [Nodes -> SUBSET Nodes]
      BY <2>4
    <2>6. ASSUME NEW n \in Nodes, n < i PROVE g[n] = TermBody(t, g, n)
      <3>1. \A k \in Kids[n] : k \in Nodes /\ k < i - 1
        BY <2>1, <2>6, Lineage
      <3>2. \A k \in Kids[n] : g[k] = f[k]
        BY <3>1
      <3>3. g[n] = TermBody(t, f, n)
        BY <2>3
      <3> HIDE DEF g
      <3>4. {f[k] : k \in Kids[n]} = {g[k] : k \in Kids[n]}
        BY <3>2
      <3> QED BY <3>3, <3>4 DEF TermBody
    <2> HIDE DEF g
    <2> QED BY <1>1, <2>5, <2>6
  <1> QED BY <1>2, <1>3

(* The lineage of a node by its rule, for the chosen function. *)
LEMMA TermRule ==
    ASSUME NEW t
    PROVE  \A n \in Nodes : TermOf(t)[n] = TermBody(t, TermOf(t), n)
  <1>1. PICK m \in Nat : \A n \in Nodes : n < m
    <2>1. PICK u \in Nat : \A n \in Nodes : n <= u
      BY Lineage, FiniteBound
    <2>2. u + 1 \in Nat /\ \A n \in Nodes : n < u + 1
      BY <2>1, Lineage
    <2> QED BY <2>2
  <1>2. PICK f \in [Nodes -> SUBSET Nodes] : \A n \in Nodes : f[n] = TermBody(t, f, n)
    BY <1>1, TermsExist
  <1>3. f = [n \in Nodes |-> TermBody(t, f, n)]
    BY <1>2
  <1>4. TermOf(t) = [n \in Nodes |-> TermBody(t, TermOf(t), n)]
    BY <1>3 DEF TermOf
  <1> QED BY <1>4

(* The lineage of a node that is not there, or is a leaf, is itself ... *)
LEMMA TermEnds ==
    ASSUME NEW t, NEW n \in Nodes, t[n] = 0 \/ Kids[n] = {}
    PROVE  TermOf(t)[n] = {n}
  <1>1. TermOf(t)[n] = TermBody(t, TermOf(t), n)
    BY TermRule
  <1> QED BY <1>1 DEF TermBody

(* ... and else that of its sources. *)
LEMMA TermGoesOn ==
    ASSUME NEW t, NEW n \in Nodes, t[n] # 0, Kids[n] # {}
    PROVE  TermOf(t)[n] = UNION {TermOf(t)[k] : k \in Kids[n]}
  <1>1. TermOf(t)[n] = TermBody(t, TermOf(t), n)
    BY TermRule
  <1> QED BY <1>1 DEF TermBody

(* A lineage ends somewhere. *)
LEMMA TermNotEmpty ==
    ASSUME NEW t
    PROVE  \A n \in Nodes : TermOf(t)[n] # {}
  <1> DEFINE Bad == {n \in Nodes : TermOf(t)[n] = {}}
  <1> SUFFICES ASSUME Bad # {} PROVE FALSE
    OBVIOUS
  <1>1. PICK n \in Bad : \A m \in Bad : n <= m
    <2>1. Bad \in SUBSET Nat
      BY Lineage
    <2> HIDE DEF Bad
    <2> QED BY <2>1, LeastNat
  <1>2. n \in Nodes /\ TermOf(t)[n] = {}
    OBVIOUS
  <1>3. t[n] # 0 /\ Kids[n] # {}
    BY <1>2, TermEnds
  <1>4. PICK k \in Kids[n] : TRUE
    BY <1>3
  <1>5. k \in Nodes /\ k < n /\ k \in Nat /\ n \in Nat
    BY <1>2, <1>4, Lineage
  <1>6. k \notin Bad
    <2> HIDE DEF Bad
    <2> QED BY <1>1, <1>5
  <1>7. TermOf(t)[k] # {}
    BY <1>5, <1>6
  <1>8. TermOf(t)[n] = UNION {TermOf(t)[j] : j \in Kids[n]}
    BY <1>2, <1>3, TermGoesOn
  <1> QED BY <1>2, <1>4, <1>7, <1>8

\* Closed downwards and upwards along the lineages that are there.
Down(t, S) == \A n \in S : n \in LiveOf(t) => Kids[n] \subseteq S
Up(t, S) == \A n \in LiveOf(t) : Kids[n] \cap S # {} => n \in S

(* A lineage stays on its side of a set that is closed both ways. *)
LEMMA TermStays ==
    ASSUME NEW t \in [Nodes -> Nat], NEW S, Down(t, S), Up(t, S)
    PROVE  \A n \in Nodes : /\ n \in S => TermOf(t)[n] \subseteq S
                            /\ n \notin S => TermOf(t)[n] \cap S = {}
  <1> DEFINE Bad == {n \in Nodes : ~(/\ n \in S => TermOf(t)[n] \subseteq S
                                     /\ n \notin S => TermOf(t)[n] \cap S = {})}
  <1> SUFFICES ASSUME Bad # {} PROVE FALSE
    OBVIOUS
  <1>1. PICK n \in Bad : \A m \in Bad : n <= m
    <2>1. Bad \in SUBSET Nat
      BY Lineage
    <2> HIDE DEF Bad
    <2> QED BY <2>1, LeastNat
  <1>2. n \in Nodes /\ ~(/\ n \in S => TermOf(t)[n] \subseteq S
                         /\ n \notin S => TermOf(t)[n] \cap S = {})
    OBVIOUS
  <1>3. CASE t[n] = 0 \/ Kids[n] = {}
    BY <1>2, <1>3, TermEnds
  <1>4. CASE t[n] # 0 /\ Kids[n] # {}
    <2>1. TermOf(t)[n] = UNION {TermOf(t)[j] : j \in Kids[n]}
      BY <1>2, <1>4, TermGoesOn
    <2>2. n \in LiveOf(t)
      BY <1>2, <1>4 DEF LiveOf
    <2>3. ASSUME NEW k \in Kids[n]
          PROVE  /\ k \in S => TermOf(t)[k] \subseteq S
                 /\ k \notin S => TermOf(t)[k] \cap S = {}
      <3>1. k \in Nodes /\ k < n /\ k \in Nat /\ n \in Nat
        BY <1>2, Lineage
      <3>2. k \notin Bad
        <4> HIDE DEF Bad
        <4> QED BY <1>1, <3>1
      <3> QED BY <3>1, <3>2
    <2>4. CASE n \in S
      <3>1. \A k \in Kids[n] : k \in S
        BY <2>2, <2>4 DEF Down
      <3> QED BY <1>2, <2>1, <2>3, <2>4, <3>1
    <2>5. CASE n \notin S
      <3>1. \A k \in Kids[n] : k \notin S
        BY <2>2, <2>5 DEF Up
      <3> QED BY <1>2, <2>1, <2>3, <2>5, <3>1
    <2> QED BY <2>4, <2>5
  <1> QED BY <1>3, <1>4

-----------------------------------------------------------------------------
(* Depth.                                                                  *)

DepthBody(f, n) == IF Kids[n] = {} THEN 0 ELSE 1 + Max({f[k] : k \in Kids[n]})

(* Max is the largest element of a finite set of naturals. *)
LEMMA MaxIsLargest ==
    ASSUME NEW S, S \subseteq Nat, IsFiniteSet(S), S # {}
    PROVE  Max(S) \in S /\ \A x \in S : x <= Max(S)
  <1>1. PICK u \in Nat : \A x \in S : x <= u
    BY FiniteBound
  <1>2. PICK m \in S : \A x \in S : x <= m
    BY <1>1, LargestNat
  <1>3. \E x \in S : \A y \in S : x >= y
    BY <1>2
  <1>4. Max(S) \in S /\ \A y \in S : Max(S) >= y
    BY <1>3 DEF Max
  <1> QED BY <1>4

(* What a function that assigns naturals gives for the sources of a node. *)
LEMMA KidsImage ==
    ASSUME NEW f, NEW n \in Nodes, \A k \in Kids[n] : f[k] \in Nat, Kids[n] # {}
    PROVE  /\ Max({f[k] : k \in Kids[n]}) \in Nat
           /\ \A k \in Kids[n] : f[k] <= Max({f[j] : j \in Kids[n]})
  <1> DEFINE S == {f[k] : k \in Kids[n]}
  <1>1. IsFiniteSet(Kids[n])
    BY Lineage, FS_Subset
  <1>2. IsFiniteSet(S)
    <2> DEFINE K == Kids[n]
               h == [k \in K |-> f[k]]
    <2>1. h \in Surjection(K, S)
      BY DEF Surjection
    <2> HIDE DEF K, h, S
    <2> QED BY <1>1, <2>1, FS_Surjection DEF K
  <1>3. S \subseteq Nat /\ S # {}
    OBVIOUS
  <1> HIDE DEF S
  <1>4. Max(S) \in S /\ \A x \in S : x <= Max(S)
    BY <1>2, <1>3, MaxIsLargest
  <1> QED BY <1>3, <1>4 DEF S

(* The depths can be computed from the leaves up. *)
LEMMA DepthsExist ==
    ASSUME NEW m \in Nat
    PROVE  \E f \in [Nodes -> Nat] : \A n \in Nodes : n < m => f[n] = DepthBody(f, n)
  <1> DEFINE Good(i) == \E f \in [Nodes -> Nat] : \A n \in Nodes : n < i => f[n] = DepthBody(f, n)
             Bad == {i \in Nat : ~Good(i)}
  <1> SUFFICES ASSUME Bad # {} PROVE FALSE
    OBVIOUS
  <1>1. PICK i \in Bad : \A j \in Bad : i <= j
    <2>1. Bad \in SUBSET Nat
      OBVIOUS
    <2> HIDE DEF Bad
    <2> QED BY <2>1, LeastNat
  <1>2. CASE i = 0
    <2> DEFINE f == [n \in Nodes |-> 0]
    <2>1. f \in [Nodes -> Nat]
      OBVIOUS
    <2>2. \A n \in Nodes : ~(n < i)
      BY <1>2, Lineage
    <2> HIDE DEF f
    <2> QED BY <1>1, <2>1, <2>2
  <1>3. CASE i # 0
    <2>1. i - 1 \in Nat /\ i - 1 < i
      BY <1>3
    <2>2. Good(i - 1)
      BY <1>1, <2>1
    <2>3. PICK f \in [Nodes -> Nat] : \A n \in Nodes : n < i - 1 => f[n] = DepthBody(f, n)
      BY <2>2
    <2> DEFINE g == [n \in Nodes |-> IF n < i - 1 THEN f[n] ELSE DepthBody(f, n)]
    <2>4. ASSUME NEW n \in Nodes PROVE DepthBody(f, n) \in Nat
      <3>1. \A k \in Kids[n] : f[k] \in Nat
        BY Lineage
      <3>2. Kids[n] # {} => Max({f[k] : k \in Kids[n]}) \in Nat
        BY <3>1, KidsImage
      <3> QED BY <3>2 DEF DepthBody
    <2>5. g \in [Nodes -> Nat]
      BY <2>4
    <2>6. ASSUME NEW n \in Nodes, n < i PROVE g[n] = DepthBody(g, n)
      <3>1. \A k \in Kids[n] : k \in Nodes /\ k < i - 1
        BY <2>1, <2>6, Lineage
      <3>2. \A k \in Kids[n] : g[k] = f[k]
        BY <3>1
      <3>3. g[n] = DepthBody(f, n)
        BY <2>3
      <3> HIDE DEF g
      <3>4. {f[k] : k \in Kids[n]} = {g[k] : k \in Kids[n]}
        BY <3>2
      <3> QED BY <3>3, <3>4 DEF DepthBody
    <2> HIDE DEF g
    <2> QED BY <1>1, <2>5, <2>6
  <1> QED BY <1>2, <1>3

(* The depth of a node by its rule. *)
LEMMA DepthRule ==
    \A n \in Nodes : Depth[n] = DepthBody(Depth, n)
  <1>1. PICK m \in Nat : \A n \in Nodes : n < m
    <2>1. PICK u \in Nat : \A n \in Nodes : n <= u
      BY Lineage, FiniteBound
    <2>2. u + 1 \in Nat /\ \A n \in Nodes : n < u + 1
      BY <2>1, Lineage
    <2> QED BY <2>2
  <1>2. PICK f \in [Nodes -> Nat] : \A n \in Nodes : f[n] = DepthBody(f, n)
    BY <1>1, DepthsExist
  <1>3. f = [n \in Nodes |-> DepthBody(f, n)]
    BY <1>2
  <1>4. Depth = CHOOSE g : g = [n \in Nodes |-> DepthBody(g, n)]
    BY DEF Depth, DepthBody
  <1>5. Depth = [n \in Nodes |-> DepthBody(Depth, n)]
    BY <1>3, <1>4
  <1> QED BY <1>5

(* Depths are natural numbers. *)
LEMMA DepthType ==
    \A n \in Nodes : Depth[n] \in Nat
  <1> DEFINE Bad == {n \in Nodes : Depth[n] \notin Nat}
  <1> SUFFICES ASSUME Bad # {} PROVE FALSE
    OBVIOUS
  <1>1. PICK n \in Bad : \A m \in Bad : n <= m
    <2>1. Bad \in SUBSET Nat
      BY Lineage
    <2> HIDE DEF Bad
    <2> QED BY <2>1, LeastNat
  <1>2. n \in Nodes /\ Depth[n] \notin Nat
    OBVIOUS
  <1>3. ASSUME NEW k \in Kids[n] PROVE Depth[k] \in Nat
    <2>1. k \in Nodes /\ k < n /\ k \in Nat /\ n \in Nat
      BY <1>2, Lineage
    <2>2. k \notin Bad
      <3> HIDE DEF Bad
      <3> QED BY <1>1, <2>1
    <2> QED BY <2>1, <2>2
  <1>4. Kids[n] # {} => Max({Depth[k] : k \in Kids[n]}) \in Nat
    BY <1>2, <1>3, KidsImage
  <1>5. Depth[n] = DepthBody(Depth, n)
    BY <1>2, DepthRule
  <1> QED BY <1>2, <1>4, <1>5 DEF DepthBody

(* A source is less deep than what is condensed from it. *)
LEMMA KidsAreLower ==
    ASSUME NEW n \in Nodes, NEW k \in Kids[n]
    PROVE  Depth[k] < Depth[n]
  <1>1. k \in Nodes /\ \A j \in Kids[n] : j \in Nodes
    BY Lineage
  <1>2. \A j \in Kids[n] : Depth[j] \in Nat
    BY <1>1, DepthType
  <1>3. /\ Max({Depth[j] : j \in Kids[n]}) \in Nat
        /\ Depth[k] <= Max({Depth[j] : j \in Kids[n]})
    BY <1>2, KidsImage
  <1>4. Depth[n] = 1 + Max({Depth[j] : j \in Kids[n]})
    BY DepthRule DEF DepthBody
  <1> DEFINE top == Max({Depth[j] : j \in Kids[n]})
  <1>5. top \in Nat /\ Depth[k] \in Nat /\ Depth[k] <= top /\ Depth[n] = 1 + top
    BY <1>2, <1>3, <1>4
  <1> HIDE DEF top
  <1> QED BY <1>5

-----------------------------------------------------------------------------
(* In a forest the canonical frontier is the roots.                        *)

\* What a node was condensed from, over any number of levels.
Under(t, r) == {n \in Nodes : \A S \in SUBSET Nodes : r \in S /\ Down(t, S) => n \in S}

(* What is under a root is closed downwards, and holds the root. *)
LEMMA UnderIsDown ==
    ASSUME NEW t, NEW r \in Nodes
    PROVE  r \in Under(t, r) /\ Under(t, r) \in SUBSET Nodes /\ Down(t, Under(t, r))
  <1>1. r \in Under(t, r) /\ Under(t, r) \in SUBSET Nodes
    BY DEF Under
  <1>2. ASSUME NEW n \in Under(t, r), n \in LiveOf(t), NEW k \in Kids[n] PROVE k \in Under(t, r)
    <2>1. n \in Nodes /\ k \in Nodes
      BY <1>2, Lineage DEF LiveOf
    <2>2. ASSUME NEW S \in SUBSET Nodes, r \in S, Down(t, S) PROVE k \in S
      <3>1. n \in S
        BY <1>2, <2>2 DEF Under
      <3> QED BY <1>2, <2>2, <3>1 DEF Down
    <2> QED BY <2>1, <2>2 DEF Under
  <1> QED BY <1>1, <1>2 DEF Down

(* The tree of a root is closed upwards too: no node has two parents. *)
LEMMA UnderIsUp ==
    ASSUME NEW t, ForestOf(t), NEW r \in Roots(t)
    PROVE  Up(t, Under(t, r))
  <1> DEFINE U == Under(t, r)
  <1>1. r \in Nodes /\ r \in U /\ U \in SUBSET Nodes /\ Down(t, U)
    BY UnderIsDown DEF Roots, LiveOf
  <1>2. ASSUME NEW p \in LiveOf(t), NEW k \in Kids[p], k \in U, p \notin U PROVE FALSE
    <2>1. k # r
      BY <1>2 DEF Roots
    <2> DEFINE V == U \ {k}
    <2>2. V \in SUBSET Nodes /\ r \in V
      BY <1>1, <2>1
    <2>3. ASSUME NEW n \in V, n \in LiveOf(t), NEW j \in Kids[n] PROVE j \in V
      <3>1. n \in U /\ n # p
        BY <1>2
      <3>2. j \in U
        BY <1>1, <2>3, <3>1 DEF Down
      <3>3. j # k
        BY <1>2, <2>3, <3>1 DEF ForestOf
      <3> QED BY <3>2, <3>3
    <2>4. Down(t, V)
      <3> HIDE DEF V
      <3> QED BY <2>3 DEF Down
    <2>5. k \in V
      <3> HIDE DEF V
      <3> QED BY <1>2, <2>2, <2>4 DEF Under
    <2> QED BY <2>5
  <1> HIDE DEF U
  <1>3. Up(t, U)
    BY <1>2 DEF Up
  <1> QED BY <1>3 DEF U

(* The lineage of a source is part of the lineage of the node. *)
LEMMA KidsAreNarrower ==
    ASSUME NEW t \in [Nodes -> Nat], NEW n \in LiveOf(t), NEW k \in Kids[n]
    PROVE  TermOf(t)[k] \subseteq TermOf(t)[n]
  <1>1. n \in Nodes /\ t[n] # 0 /\ Kids[n] # {}
    BY DEF LiveOf
  <1>2. TermOf(t)[n] = UNION {TermOf(t)[j] : j \in Kids[n]}
    BY <1>1, TermGoesOn
  <1> QED BY <1>2

(* Everything else in the tree of a root is narrower and lower. *)
LEMMA UnderIsLower ==
    ASSUME NEW t \in [Nodes -> Nat], NEW r \in LiveOf(t), NEW m \in Under(t, r), m # r
    PROVE  TermOf(t)[m] \subseteq TermOf(t)[r] /\ Depth[m] < Depth[r]
  <1> DEFINE S == {n \in Nodes : n = r \/ (TermOf(t)[n] \subseteq TermOf(t)[r] /\ Depth[n] < Depth[r])}
  <1>1. r \in Nodes /\ r \in S /\ S \in SUBSET Nodes
    BY DEF LiveOf
  <1>2. ASSUME NEW n \in S, n \in LiveOf(t), NEW k \in Kids[n] PROVE k \in S
    <2>1. n \in Nodes /\ k \in Nodes
      BY Lineage
    <2>2. TermOf(t)[k] \subseteq TermOf(t)[n]
      BY <1>2, KidsAreNarrower
    <2>3. Depth[k] < Depth[n]
      BY <2>1, KidsAreLower
    <2>4. Depth[k] \in Nat /\ Depth[n] \in Nat /\ Depth[r] \in Nat
      BY <1>1, <2>1, DepthType
    <2>5. TermOf(t)[k] \subseteq TermOf(t)[r]
      BY <2>2
    <2>6. Depth[k] < Depth[r]
      <3>1. Depth[n] <= Depth[r]
        BY <2>4
      <3> QED BY <2>3, <2>4, <3>1
    <2> QED BY <2>1, <2>5, <2>6
  <1>3. Down(t, S)
    <2> HIDE DEF S
    <2> QED BY <1>2 DEF Down
  <1>4. m \in S
    <2> HIDE DEF S
    <2> QED BY <1>1, <1>3 DEF Under
  <1> QED BY <1>4

(* The canonical frontier of a forest is the nodes nothing was condensed from. *)
LEMMA RootsAreCanonical ==
    ASSUME NEW t \in [Nodes -> Nat], ForestOf(t)
    PROVE  CanonOf(t, LiveOf(t)) = Roots(t)
  <1> DEFINE T == TermOf(t)
             L == LiveOf(t)
  <1>1. ASSUME NEW r \in Roots(t), NEW m \in L \ {r}
        PROVE  /\ T[r] \subseteq T[m] => T[r] = T[m]
               /\ T[r] = T[m] => Depth[m] < Depth[r] \/ (Depth[m] = Depth[r] /\ r < m)
    <2> DEFINE U == Under(t, r)
    <2>1. r \in L /\ r \in Nodes /\ m \in Nodes /\ m # r /\ m \in L
      BY DEF Roots, LiveOf
    <2>2. r \in U /\ Down(t, U) /\ Up(t, U)
      BY <2>1, UnderIsDown, UnderIsUp
    <2>3. T[r] # {}
      BY <2>1, TermNotEmpty
    <2>4. CASE m \in U
      <3>1. T[m] \subseteq T[r] /\ Depth[m] < Depth[r]
        BY <2>1, <2>4, UnderIsLower
      <3> QED BY <3>1
    <2>5. CASE m \notin U
      <3> HIDE DEF U
      <3>1. T[m] \cap U = {} /\ T[r] \subseteq U
        BY <2>1, <2>2, <2>5, TermStays
      <3> HIDE DEF T
      <3> QED BY <2>3, <3>1
    <2> QED BY <2>4, <2>5
  <1>2. ASSUME NEW n \in CanonOf(t, L) PROVE n \in Roots(t)
    <2> SUFFICES ASSUME NEW m \in L, n \in Kids[m] PROVE FALSE
      BY DEF CanonOf, Roots
    <2>1. n \in L /\ m \in Nodes /\ n \in Nodes /\ n \in Nat /\ m \in Nat /\ n < m
      BY Lineage DEF CanonOf, LiveOf
    <2>2. T[n] \subseteq T[m]
      BY KidsAreNarrower
    <2>3. Depth[n] < Depth[m] /\ Depth[n] \in Nat /\ Depth[m] \in Nat
      BY <2>1, KidsAreLower, DepthType
    <2>4. m \in L \ {n}
      BY <2>1
    <2>5. /\ T[n] \subseteq T[m] => T[n] = T[m]
          /\ T[n] = T[m] => Depth[m] < Depth[n] \/ (Depth[m] = Depth[n] /\ n < m)
      BY <2>4 DEF CanonOf
    <2> HIDE DEF T
    <2> QED BY <2>2, <2>3, <2>5
  <1>3. ASSUME NEW r \in Roots(t) PROVE r \in CanonOf(t, L)
    <2>1. r \in L
      BY DEF Roots
    <2> HIDE DEF L
    <2> QED BY <1>1, <2>1 DEF CanonOf
  <1> QED BY <1>2, <1>3

\* The content of a period, and the texts of some nodes, as functions of t.
SourcesOf(t, d) == {n \in CanonOf(t, LiveOf(t)) : First[n] <= d /\ d <= Last[n]}
TextsOf(t, S) == {<<n, t[n]>> : n \in S}
ContentOf(t, p) == IF p = Agg THEN CanonOf(t, LiveOf(t)) ELSE SourcesOf(t, p)

(* A mutation of n changes the content of the days of n only. *)
LEMMA MutationIsLocal ==
    ASSUME NEW t \in [Nodes -> Nat], NEW u \in [Nodes -> Nat], ForestOf(t), ForestOf(u),
           NEW n \in Nodes, \A m \in Nodes \ {n} : u[m] = t[m],
           NEW d \in Days, ~(First[n] <= d /\ d <= Last[n])
    PROVE  SourcesOf(u, d) = SourcesOf(t, d) /\ TextsOf(u, SourcesOf(u, d)) = TextsOf(t, SourcesOf(t, d))
  <1>0. /\ First \in [Nodes -> Days] /\ Last \in [Nodes -> Days] /\ Days \subseteq Int
        /\ \A m \in Nodes : \A k \in Kids[m] : First[m] <= First[k] /\ Last[k] <= Last[m]
    BY RollupAssumption DEF Days
  <1>1. CanonOf(t, LiveOf(t)) = Roots(t) /\ CanonOf(u, LiveOf(u)) = Roots(u)
    BY RootsAreCanonical
  <1>2. ASSUME NEW m \in Nodes, First[m] <= d, d <= Last[m]
        PROVE  m # n /\ m \notin Kids[n]
    <2>1. m # n
      BY <1>2
    <2>2. ASSUME m \in Kids[n] PROVE FALSE
      <3>1. First[n] <= First[m] /\ Last[m] <= Last[n]
        BY <1>0, <2>2
      <3>2. First[n] \in Int /\ First[m] \in Int /\ Last[n] \in Int /\ Last[m] \in Int /\ d \in Int
        BY <1>0
      <3> QED BY <1>2, <3>1, <3>2
    <2> QED BY <2>1, <2>2
  <1>3. ASSUME NEW m \in Nodes, First[m] <= d, d <= Last[m]
        PROVE  m \in Roots(t) <=> m \in Roots(u)
    <2>1. m # n /\ m \notin Kids[n]
      BY <1>2, <1>3
    <2>2. \A x \in Nodes \ {n} : x \in LiveOf(t) <=> x \in LiveOf(u)
      BY DEF LiveOf
    <2>3. LiveOf(t) \subseteq Nodes /\ LiveOf(u) \subseteq Nodes
      BY DEF LiveOf
    <2> QED BY <2>1, <2>2, <2>3 DEF Roots
  <1>4. Roots(t) \subseteq Nodes /\ Roots(u) \subseteq Nodes
    BY DEF Roots, LiveOf
  <1>5. SourcesOf(u, d) = SourcesOf(t, d)
    BY <1>1, <1>3, <1>4 DEF SourcesOf
  <1>6. \A m \in SourcesOf(t, d) : u[m] = t[m]
    BY <1>1, <1>2, <1>4 DEF SourcesOf
  <1>7. TextsOf(u, SourcesOf(t, d)) = TextsOf(t, SourcesOf(t, d))
    BY <1>6 DEF TextsOf
  <1> QED BY <1>5, <1>7

-----------------------------------------------------------------------------
(* The invariant.                                                          *)

Forest == ForestOf(text)

Gens == 0..(GenBound - 1)
Lines == SUBSET (Nodes \X Nat)
Events == {e \in [first : Days, last : Days, next : Days] : e.first <= e.next /\ e.next <= e.last}
\* A row has a nonce while it is being built.
Rows == {r \in [st : {"none", "stale", "building", "ready", "failed"}, gen : Gens,
                nonce : Builders \cup {NoNonce}, late : BOOLEAN, built : Lines] :
            r.nonce # NoNonce <=> r.st = "building"}

\* A builder at work has a target: the aggregate, where only an aggregate gets.
Working(l) == l.pc \notin {"idle", "reclaim"} \cup Selects
Aimed(l) ==
    /\ Len(l.todo) <= PerPass
    /\ Working(l) => l.todo # <<>>
    /\ l.pc = "sources" => Head(l.todo) # Agg
    /\ l.pc \in {"statuses", "content", "gather", "canonical"} => Head(l.todo) = Agg

LocalsType ==
    [pc : {"idle", "reclaim", "next", "claim", "sources", "statuses", "content",
           "gather", "canonical", "publish", "restale", "defer", "resolve", "fail"} \cup Selects,
     todo : Seq(Periods), op : BOOLEAN, gen : Gens, days : SUBSET Days, have : Lines]
Locals == {l \in LocalsType : Aimed(l)}

Reads == [pc : {"idle", "count", "rows", "served"}, seen : [Days -> SUBSET Lines],
          served : UNION {[D -> Lines] : D \in SUBSET Days}]

Typed ==
    /\ text \in [Nodes -> Nat] /\ born \subseteq Nodes
    /\ outbox \in Seq(Events)
    /\ row \in [Periods -> Rows]
    /\ bld \in [Builders -> Locals]
    /\ rd \in [Readers -> Reads]

\* The texts a rollup of the period has to be built from.
Due(t, p) == TextsOf(t, ContentOf(t, p))

\* An event of the outbox q will stale the period.
OwedBy(q, p) == \E k \in DOMAIN q : p = Agg \/ (q[k].next <= p /\ p <= q[k].last)

\* What no pending event will stale is right: a ready row was built from what
\* is due, and nothing is due for a period without a row.
RowIsRight(r, t, q, p) ==
    ~ OwedBy(q, p) => /\ r.st = "ready" => r.built = Due(t, p)
                      /\ r.st = "none" => Due(t, p) = {}

\* The builder b, with locals l, holds the lease of its target.
Holds(rows, l, b) == rows[Head(l.todo)].st = "building" /\ rows[Head(l.todo)].nonce = b

\* What a builder that still holds its lease has read is still so, unless an
\* event is pending that will take the lease away or refuse the publication.
BuildIsRight(l, b, rows, t, q) ==
    Holds(rows, l, b) /\ ~ OwedBy(q, Head(l.todo)) =>
      /\ l.pc = "publish" => l.have = Due(t, Head(l.todo))
      /\ l.pc = "resolve" => Due(t, Head(l.todo)) = {}
      /\ l.pc \in {"content", "gather"} => \A d \in l.days : rows[d].built = Due(t, d)
      /\ l.pc = "gather" => \A d \in Days \ l.days : Due(t, d) = {}
      /\ l.pc = "canonical" => l.have = Due(t, Agg)

\* A reader has seen what is due for each day, and whatever is ready.
ReadIsRight(r, rows, t) ==
    /\ r.pc # "idle" =>
         \A d \in Days : /\ Due(t, d) \in r.seen[d]
                         /\ rows[d].st = "ready" => rows[d].built \in r.seen[d]
    /\ \A d \in DOMAIN r.served : r.served[d] \in r.seen[d]

RowsRight == \A p \in Periods : RowIsRight(row[p], text, outbox, p)
BuildsRight == \A b \in Builders : Working(bld[b]) => BuildIsRight(bld[b], b, row, text, outbox)
ReadsRight == \A r \in Readers : ReadIsRight(rd[r], row, text)

Right == RowsRight /\ BuildsRight /\ ReadsRight

Inv == Typed /\ Right

-----------------------------------------------------------------------------
(* The drain.                                                              *)

\* Days an event still has to expand.
Remainder(e) == e.last - e.next + 1

CostBody(s, f, k) == IF k = 0 THEN 0 ELSE f[k - 1] + (s[k].last - s[k].next + 1)

(* The fields of an event, as numbers. *)
LEMMA EventFacts ==
    ASSUME NEW e \in Events
    PROVE  /\ e.first \in Days /\ e.last \in Days /\ e.next \in Days
           /\ e.first \in Int /\ e.last \in Int /\ e.next \in Int
           /\ e.first <= e.next /\ e.next <= e.last
           /\ Remainder(e) \in Nat /\ Remainder(e) > 0
  <1>1. /\ e.first \in Days /\ e.last \in Days /\ e.next \in Days
        /\ e.first <= e.next /\ e.next <= e.last
    BY DEF Events
  <1>2. e.first \in Int /\ e.last \in Int /\ e.next \in Int
    BY <1>1, RollupAssumption DEF Days
  <1> QED BY <1>1, <1>2 DEF Remainder

(* The costs can be added up one after another. *)
LEMMA CostsExist ==
    ASSUME NEW s \in Seq(Events), NEW m \in 0..Len(s)
    PROVE  \E f \in [0..Len(s) -> Nat] : \A k \in 0..m : f[k] = CostBody(s, f, k)
  <1> DEFINE Good(i) == \E f \in [0..Len(s) -> Nat] : \A k \in 0..i : f[k] = CostBody(s, f, k)
             Bad == {i \in Nat : i <= Len(s) /\ ~Good(i)}
  <1> SUFFICES ASSUME Bad # {} PROVE FALSE
    OBVIOUS
  <1>0. Len(s) \in Nat
    OBVIOUS
  <1>1. PICK i \in Bad : \A j \in Bad : i <= j
    <2>1. Bad \in SUBSET Nat
      OBVIOUS
    <2> HIDE DEF Bad
    <2> QED BY <2>1, LeastNat
  <1>2. CASE i = 0
    <2> DEFINE f == [k \in 0..Len(s) |-> 0]
    <2>1. f \in [0..Len(s) -> Nat]
      OBVIOUS
    <2>2. \A k \in 0..i : f[k] = CostBody(s, f, k)
      BY <1>2 DEF CostBody
    <2> HIDE DEF f
    <2> QED BY <1>1, <2>1, <2>2
  <1>3. CASE i # 0
    <2>1. i \in 1..Len(s) /\ i - 1 \in Nat /\ i - 1 < i /\ i - 1 <= Len(s)
      BY <1>3
    <2>2. Good(i - 1)
      <3>1. i - 1 \notin Bad
        <4> HIDE DEF Bad
        <4> QED BY <1>1, <2>1
      <3> HIDE DEF Good
      <3> QED BY <2>1, <3>1
    <2>3. PICK f \in [0..Len(s) -> Nat] : \A k \in 0..(i - 1) : f[k] = CostBody(s, f, k)
      BY <2>2
    <2>4. s[i] \in Events
      BY <2>1
    <2>5. Remainder(s[i]) \in Nat
      BY <2>4, EventFacts
    <2>6. f[i - 1] \in Nat
      BY <2>1
    <2> DEFINE v == f[i - 1] + Remainder(s[i])
               g == [f EXCEPT ![i] = v]
    <2>7. v \in Nat
      BY <2>5, <2>6
    <2>8. v = CostBody(s, f, i)
      BY <2>1 DEF CostBody, Remainder
    <2> HIDE DEF v
    <2>9. g \in [0..Len(s) -> Nat]
      BY <2>7
    <2>10. ASSUME NEW k \in 0..i PROVE g[k] = CostBody(s, g, k)
      <3>1. CASE k = i
        <4>1. g[k] = v /\ g[k - 1] = f[k - 1]
          BY <2>1, <3>1
        <4> QED BY <2>8, <3>1, <4>1 DEF CostBody
      <3>2. CASE k # i
        <4>1. k \in 0..(i - 1) /\ g[k] = f[k] /\ (k # 0 => g[k - 1] = f[k - 1])
          BY <2>1, <3>2
        <4>2. f[k] = CostBody(s, f, k)
          BY <2>3, <4>1
        <4> HIDE DEF g
        <4> QED BY <4>1, <4>2 DEF CostBody
      <3> QED BY <3>1, <3>2
    <2> HIDE DEF g
    <2> QED BY <1>1, <2>9, <2>10
  <1> QED BY <1>2, <1>3

(* Cost by its rule, on a typed outbox; a cost is a natural number. *)
LEMMA CostRule ==
    ASSUME outbox \in Seq(Events)
    PROVE  /\ Cost \in [0..Len(outbox) -> Nat] /\ Cost[0] = 0
           /\ \A k \in 1..Len(outbox) : Cost[k] = Cost[k - 1] + Remainder(outbox[k])
  <1>0. Len(outbox) \in Nat /\ Len(outbox) \in 0..Len(outbox)
    OBVIOUS
  <1>1. PICK f \in [0..Len(outbox) -> Nat] : \A k \in 0..Len(outbox) : f[k] = CostBody(outbox, f, k)
    BY <1>0, CostsExist
  <1>2. f = [k \in 0..Len(outbox) |-> CostBody(outbox, f, k)]
    BY <1>1
  <1>3. Cost = CHOOSE g : g = [k \in 0..Len(outbox) |-> CostBody(outbox, g, k)]
    BY DEF Cost, CostBody
  <1>4. Cost = [k \in 0..Len(outbox) |-> CostBody(outbox, Cost, k)]
    BY <1>2, <1>3
  <1>5. \A k \in 0..Len(outbox) : Cost[k] = CostBody(outbox, Cost, k)
    BY <1>4
  <1>6. Cost[0] = 0
    BY <1>0, <1>5 DEF CostBody
  <1>7. \A k \in 1..Len(outbox) : Cost[k] = Cost[k - 1] + Remainder(outbox[k])
    BY <1>0, <1>5 DEF CostBody, Remainder
  <1> DEFINE Bad == {k \in Nat : k <= Len(outbox) /\ Cost[k] # f[k]}
  <1>8. Bad = {}
    <2> SUFFICES ASSUME Bad # {} PROVE FALSE
      OBVIOUS
    <2>1. PICK n \in Bad : \A k \in Bad : n <= k
      <3>1. Bad \in SUBSET Nat
        OBVIOUS
      <3> HIDE DEF Bad
      <3> QED BY <3>1, LeastNat
    <2>2. n \in Nat /\ n <= Len(outbox) /\ Cost[n] # f[n] /\ n \in 0..Len(outbox)
      OBVIOUS
    <2>3. n # 0 => Cost[n - 1] = f[n - 1]
      <3>1. n # 0 => n - 1 \in Nat /\ n - 1 <= Len(outbox) /\ n - 1 \notin Bad
        <4> HIDE DEF Bad
        <4> QED BY <1>0, <2>1, <2>2
      <3> QED BY <3>1
    <2>4. Cost[n] = CostBody(outbox, Cost, n) /\ f[n] = CostBody(outbox, f, n)
      BY <1>1, <1>5, <2>2
    <2> QED BY <2>2, <2>3, <2>4 DEF CostBody
  <1>9. \A k \in 0..Len(outbox) : Cost[k] = f[k]
    BY <1>0, <1>8
  <1>10. Cost \in [0..Len(outbox) -> Nat]
    <2>1. \A k \in 0..Len(outbox) : Cost[k] \in Nat
      BY <1>9
    <2>2. Cost = [k \in 0..Len(outbox) |-> Cost[k]]
      BY <1>4, <1>5
    <2> QED BY <2>1, <2>2
  <1> QED BY <1>6, <1>7, <1>10

(* Min of two numbers. *)
LEMMA MinOfTwo ==
    ASSUME NEW a \in Nat, NEW b \in Nat
    PROVE  Min({a, b}) \in Nat /\ Min({a, b}) <= a /\ Min({a, b}) <= b /\ Min({a, b}) \in {a, b}
  <1>1. \E x \in {a, b} : \A y \in {a, b} : x =< y
    OBVIOUS
  <1>2. Min({a, b}) \in {a, b} /\ \A y \in {a, b} : Min({a, b}) =< y
    BY <1>1 DEF Min
  <1> QED BY <1>2

(* Limits of a drain: it finishes what fits, and begins one event at most. *)
LEMMA DrainLimits ==
    ASSUME outbox \in Seq(Events)
    PROVE  /\ Finished \in Nat /\ Finished <= Len(outbox) /\ Spare \in Nat
           /\ Spare > 0 => /\ Finished + 1 \in 1..Len(outbox)
                           /\ Spare < Remainder(outbox[Finished + 1])
           /\ Processed \in Nat
           /\ Processed = 0 => Finished = 0 /\ Spare = 0
  <1>0. Len(outbox) \in Nat /\ EventLimit \in Nat /\ DayBudget \in Nat
    BY RollupAssumption
  <1>1. Batch \in Nat /\ Batch <= Len(outbox)
    BY <1>0, MinOfTwo DEF Batch
  <1>2. /\ Cost \in [0..Len(outbox) -> Nat] /\ Cost[0] = 0
        /\ \A k \in 1..Len(outbox) : Cost[k] = Cost[k - 1] + Remainder(outbox[k])
    BY CostRule
  <1> DEFINE Fit == {k \in 0..Batch : Cost[k] <= DayBudget}
  <1>3. Fit \subseteq Nat /\ 0 \in Fit /\ Fit # {}
    BY <1>0, <1>1, <1>2
  <1>4. IsFiniteSet(Fit)
    <2> DEFINE R == 0..Batch
    <2>1. IsFiniteSet(R)
      BY <1>1, FS_Interval
    <2>2. Fit \subseteq R
      OBVIOUS
    <2> HIDE DEF R, Fit
    <2> QED BY <2>1, <2>2, FS_Subset
  <1>5. Finished \in Fit /\ \A k \in Fit : k <= Finished
    <2>1. Finished = Max(Fit)
      BY DEF Finished
    <2> HIDE DEF Fit
    <2> QED BY <1>3, <1>4, <2>1, MaxIsLargest
  <1>6. Finished \in 0..Batch /\ Cost[Finished] <= DayBudget
    BY <1>5
  <1>7. Finished \in Nat /\ Finished <= Len(outbox) /\ Cost[Finished] \in Nat
    <2>1. Finished \in Nat /\ Finished <= Len(outbox) /\ Finished \in 0..Len(outbox)
      BY <1>0, <1>1, <1>6
    <2>2. Cost[Finished] \in Nat
      BY <1>2, <2>1
    <2> QED BY <2>1, <2>2
  <1>8. Finished < Batch => Cost[Finished + 1] > DayBudget
    <2> SUFFICES ASSUME Finished < Batch, ~(Cost[Finished + 1] > DayBudget) PROVE FALSE
      OBVIOUS
    <2>1. Finished + 1 \in 0..Batch /\ Finished + 1 \in 0..Len(outbox)
      BY <1>0, <1>1, <1>7
    <2>2. Cost[Finished + 1] <= DayBudget
      BY <1>0, <1>2, <2>1
    <2>3. Finished + 1 \in Fit
      BY <2>1, <2>2
    <2> HIDE DEF Fit
    <2> QED BY <1>5, <1>7, <2>3
  <1>9. Finished < Batch =>
          /\ Finished + 1 \in 1..Len(outbox)
          /\ Cost[Finished + 1] = Cost[Finished] + Remainder(outbox[Finished + 1])
          /\ Remainder(outbox[Finished + 1]) \in Nat
    <2> SUFFICES ASSUME Finished < Batch
                 PROVE  /\ Finished + 1 \in 1..Len(outbox)
                        /\ Cost[Finished + 1] = Cost[Finished] + Remainder(outbox[Finished + 1])
                        /\ Remainder(outbox[Finished + 1]) \in Nat
      OBVIOUS
    <2>1. Finished + 1 \in 1..Len(outbox) /\ (Finished + 1) - 1 = Finished
      BY <1>0, <1>1, <1>7
    <2>2. outbox[Finished + 1] \in Events
      BY <2>1
    <2>3. Remainder(outbox[Finished + 1]) \in Nat
      BY <2>2, EventFacts
    <2> QED BY <1>2, <2>1, <2>3
  <1>10. Spare \in Nat
    BY <1>0, <1>6, <1>7 DEF Spare
  <1>11. Spare > 0 => /\ Finished + 1 \in 1..Len(outbox)
                      /\ Spare < Remainder(outbox[Finished + 1])
    <2> SUFFICES ASSUME Spare > 0
                 PROVE  Finished + 1 \in 1..Len(outbox) /\ Spare < Remainder(outbox[Finished + 1])
      OBVIOUS
    <2>1. Finished < Batch /\ Spare = DayBudget - Cost[Finished]
      BY <1>1, <1>7 DEF Spare
    <2>2. Cost[Finished] + Remainder(outbox[Finished + 1]) > DayBudget
      BY <1>8, <1>9, <2>1
    <2> QED BY <1>0, <1>7, <1>9, <2>1, <2>2
  <1>12. Processed \in Nat /\ (Processed = 0 => Cost[Finished] = 0 /\ Spare = 0)
    <2> DEFINE c == Cost[Finished]
               s == Spare
    <2>1. c \in Nat /\ s \in Nat /\ Processed = c + s
      BY <1>7, <1>10 DEF Processed
    <2> HIDE DEF c, s
    <2>2. c + s \in Nat /\ (c + s = 0 => c = 0 /\ s = 0)
      BY <2>1
    <2> QED BY <2>1, <2>2 DEF c, s
  <1>13. Cost[Finished] = 0 => Finished = 0
    <2> SUFFICES ASSUME Finished # 0 PROVE Cost[Finished] # 0
      OBVIOUS
    <2>1. Finished \in 1..Len(outbox) /\ Finished - 1 \in 0..Len(outbox)
      BY <1>0, <1>7
    <2>2. outbox[Finished] \in Events
      BY <2>1
    <2>3. Remainder(outbox[Finished]) \in Nat /\ Remainder(outbox[Finished]) > 0
      BY <2>2, EventFacts
    <2>4. Cost[Finished] = Cost[Finished - 1] + Remainder(outbox[Finished]) /\ Cost[Finished - 1] \in Nat
      BY <1>2, <2>1
    <2> QED BY <2>3, <2>4
  <1> HIDE DEF Fit
  <1> QED BY <1>7, <1>10, <1>11, <1>12, <1>13

\* The drain stales the day for the k-th event.
Hit(k, d) ==
    \/ k \in 1..Finished /\ outbox[k].next <= d /\ d <= outbox[k].last
    \/ k = Finished + 1 /\ Spare > 0 /\ outbox[k].next <= d /\ d < outbox[k].next + Spare

(* A day a drain hits is a day of an event it expands, and the other way round. *)
LEMMA HitsAreEvents ==
    ASSUME outbox \in Seq(Events), NEW d \in Days
    PROVE  Hits(d) \in Nat /\ (Hits(d) # 0 <=> \E k \in 1..(Finished + 1) : Hit(k, d))
  <1> DEFINE H == {k \in 1..Finished : outbox[k].next <= d /\ d <= outbox[k].last}
             one == IF Spare > 0 /\ outbox[Finished + 1].next <= d
                                 /\ d < outbox[Finished + 1].next + Spare THEN 1 ELSE 0
  <1>0. Finished \in Nat
    BY DrainLimits
  <1>1. IsFiniteSet(H)
    <2> DEFINE R == 1..Finished
    <2>1. IsFiniteSet(R)
      BY <1>0, FS_Interval
    <2>2. H \subseteq R
      OBVIOUS
    <2> HIDE DEF R, H
    <2> QED BY <2>1, <2>2, FS_Subset
  <1>2. Cardinality(H) \in Nat /\ (Cardinality(H) = 0 <=> H = {})
    <2> HIDE DEF H
    <2> QED BY <1>1, FS_CardinalityType, FS_EmptySet
  <1>3. Hits(d) = Cardinality(H) + one
    BY DEF Hits
  <1>4. one \in {0, 1} /\ (one = 1 <=> Hit(Finished + 1, d))
    BY <1>0 DEF Hit
  <1>5. H # {} <=> \E k \in 1..Finished : Hit(k, d)
    BY <1>0 DEF Hit
  <1>6. (\E k \in 1..(Finished + 1) : Hit(k, d)) <=> H # {} \/ one = 1
    <2>1. \A k \in 1..(Finished + 1) : k \in 1..Finished \/ k = Finished + 1
      BY <1>0
    <2>2. \A k \in 1..Finished : k \in 1..(Finished + 1)
      BY <1>0
    <2>3. Finished + 1 \in 1..(Finished + 1)
      BY <1>0
    <2> HIDE DEF H, one
    <2> QED BY <1>4, <1>5, <2>1, <2>2, <2>3
  <1> HIDE DEF H, one
  <1>7. Hits(d) \in Nat /\ (Hits(d) # 0 <=> H # {} \/ one = 1)
    BY <1>2, <1>3, <1>4
  <1> QED BY <1>6, <1>7

(* What is left: the events not finished, the one that was begun from where the drain stopped. *)
LEMMA DrainLeaves ==
    ASSUME outbox \in Seq(Events)
    PROVE  /\ DrainedOutbox \in Seq(Events)
           /\ Len(DrainedOutbox) = Len(outbox) - Finished
           /\ \A k \in 1..Len(DrainedOutbox) :
                /\ DrainedOutbox[k].last = outbox[k + Finished].last
                /\ DrainedOutbox[k].next =
                     IF k = 1 THEN outbox[k + Finished].next + Spare ELSE outbox[k + Finished].next
  <1> DEFINE rest == SubSeq(outbox, Finished + 1, Len(outbox))
             left == Len(outbox) - Finished
  <1>0. /\ Finished \in Nat /\ Finished <= Len(outbox) /\ Spare \in Nat
        /\ Spare > 0 => /\ Finished + 1 \in 1..Len(outbox)
                        /\ Spare < Remainder(outbox[Finished + 1])
    BY DrainLimits
  <1>1. /\ rest \in Seq(Events) /\ Len(rest) = left /\ left \in Nat
        /\ \A k \in 1..left : rest[k] = outbox[k + Finished] /\ k + Finished \in 1..Len(outbox)
    <2>1. left \in Nat /\ Finished + 1 <= Len(outbox) + 1 /\ Len(outbox) \in Nat
      BY <1>0
    <2>2. rest \in Seq(Events)
      BY <1>0, <2>1
    <2>3. Len(rest) = left
      BY <1>0, <2>1
    <2>4. \A k \in 1..left : rest[k] = outbox[k + Finished] /\ k + Finished \in 1..Len(outbox)
      BY <1>0, <2>1
    <2> QED BY <2>1, <2>2, <2>3, <2>4
  <1>2. CASE Spare > 0
    <2>1. DrainedOutbox = [rest EXCEPT ![1].next = @ + Spare] /\ 1 \in 1..left
      <3>1. DrainedOutbox = [rest EXCEPT ![1].next = @ + Spare]
        BY <1>2 DEF DrainedOutbox
      <3>2. 1 \in 1..left
        BY <1>0, <1>2
      <3> QED BY <3>1, <3>2
    <2> HIDE DEF rest
    <2> DEFINE e == rest[1]
               f == [e EXCEPT !.next = @ + Spare]
    <2>2. e \in Events /\ e = outbox[Finished + 1] /\ Spare < Remainder(e)
      BY <1>0, <1>1, <1>2, <2>1
    <2>3. /\ e.first \in Int /\ e.last \in Int /\ e.next \in Int
          /\ e.first \in Days /\ e.last \in Days /\ e.next \in Days
          /\ e.first <= e.next /\ e.next <= e.last
      BY <2>2, EventFacts
    <2>4. e.next + Spare <= e.last /\ e.first <= e.next + Spare /\ e.next + Spare \in Days
      BY <1>0, <2>2, <2>3, RollupAssumption DEF Remainder, Days
    <2>5. e \in [first : Days, last : Days, next : Days]
      BY <2>2 DEF Events
    <2>6. f = [first |-> e.first, last |-> e.last, next |-> e.next + Spare]
      BY <2>5
    <2>7. f \in Events /\ f.next = e.next + Spare /\ f.last = e.last
      BY <2>3, <2>4, <2>6 DEF Events
    <2>8. DrainedOutbox = [rest EXCEPT ![1] = f]
      BY <2>1
    <2>9. DrainedOutbox \in Seq(Events) /\ Len(DrainedOutbox) = left
          /\ DrainedOutbox[1] = f /\ \A k \in 1..left : k # 1 => DrainedOutbox[k] = rest[k]
      <3> HIDE DEF f, e
      <3>1. 1 \in 1..Len(rest)
        BY <1>1, <2>1
      <3> DEFINE new == [rest EXCEPT ![1] = f]
      <3>2. new \in Seq(Events) /\ Len(new) = Len(rest)
            /\ \A k \in 1..Len(rest) : new[k] = IF k = 1 THEN f ELSE rest[k]
        BY <1>1, <2>7, <3>1, ExceptSeq
      <3> HIDE DEF new, left
      <3> QED BY <1>1, <2>8, <3>1, <3>2 DEF new
    <2> HIDE DEF e, f
    <2> QED BY <1>0, <1>1, <2>2, <2>7, <2>9
  <1>3. CASE ~(Spare > 0)
    <2>1. Spare = 0 /\ DrainedOutbox = rest
      BY <1>0, <1>3 DEF DrainedOutbox
    <2> HIDE DEF rest
    <2>2. ASSUME NEW k \in 1..left
          PROVE  outbox[k + Finished].next + Spare = outbox[k + Finished].next
      <3>1. outbox[k + Finished] \in Events
        BY <1>1
      <3>2. outbox[k + Finished].next \in Int
        BY <3>1, EventFacts
      <3> QED BY <2>1, <3>2
    <2> QED BY <1>0, <1>1, <2>1, <2>2
  <1> QED BY <1>2, <1>3

-----------------------------------------------------------------------------
(* What a step does to the rows R and the outbox q, which become S and u.  *)

\* A row keeps what it was built from and does not become ready or gone.
Eased(r, s) ==
    /\ s.built = r.built
    /\ s.st \in {"ready", "none", "building"} => s.st = r.st /\ s.nonce = r.nonce

Moves(R, S, t, q, u) ==
    \A p \in Periods :
        /\ \/ S[p].built = R[p].built /\ (S[p].st \in {"ready", "none"} => S[p].st = R[p].st)
           \/ S[p].st = "ready" /\ ~ OwedBy(q, p) /\ S[p].built = Due(t, p)
           \/ S[p].st = "none" /\ S[p].built = {} /\ (OwedBy(q, p) \/ Due(t, p) = {})
        /\ OwedBy(q, p) => OwedBy(u, p) \/ S[p].st = "stale"

\* Nobody gets a lease in the name of b.
LeaseKept(R, S, b) ==
    \A p \in Periods : S[p].st = "building" /\ S[p].nonce = b => R[p].st = "building" /\ R[p].nonce = b

(* Rows that are only eased move, and no lease is handed out. *)
LEMMA EasedMoves ==
    ASSUME NEW R, NEW S, NEW t, NEW q, \A p \in Periods : Eased(R[p], S[p])
    PROVE  Moves(R, S, t, q, q) /\ \A b \in Builders : LeaseKept(R, S, b)
  <1>1. Moves(R, S, t, q, q)
    BY DEF Moves, Eased
  <1>2. \A b \in Builders : LeaseKept(R, S, b)
    BY DEF LeaseKept, Eased
  <1> QED BY <1>1, <1>2

(* A row that moves stays right. *)
LEMMA RowStays ==
    ASSUME NEW R, NEW S, NEW t, NEW q, NEW u, Moves(R, S, t, q, u),
           NEW p \in Periods, RowIsRight(R[p], t, q, p)
    PROVE  RowIsRight(S[p], t, u, p)
  BY DEF Moves, RowIsRight

(* A reader stays right when rows move. *)
LEMMA ReadStays ==
    ASSUME NEW R, NEW S, NEW t, NEW q, NEW u, Moves(R, S, t, q, u),
           NEW r, ReadIsRight(r, R, t)
    PROVE  ReadIsRight(r, S, t)
  <1>1. Days \subseteq Periods
    BY RollupAssumption DEF Days, Periods
  <1>2. ASSUME r.pc # "idle", NEW d \in Days
        PROVE  Due(t, d) \in r.seen[d] /\ (S[d].st = "ready" => S[d].built \in r.seen[d])
    BY <1>1, <1>2 DEF Moves, ReadIsRight
  <1>3. \A d \in DOMAIN r.served : r.served[d] \in r.seen[d]
    BY DEF ReadIsRight
  <1> QED BY <1>2, <1>3 DEF ReadIsRight

(* The fields of a builder, as the proofs need them. *)
LEMMA LocalsFacts ==
    ASSUME NEW l \in Locals
    PROVE  /\ l \in LocalsType /\ Aimed(l) /\ l.days \subseteq Days
           /\ l.todo \in Seq(Periods) /\ Len(l.todo) \in Nat /\ Len(l.todo) <= PerPass
           /\ Working(l) => l.todo # <<>> /\ Head(l.todo) \in Periods /\ Tail(l.todo) \in Seq(Periods)
           /\ l.pc \in {"content", "gather", "canonical"} => Head(l.todo) = Agg
  <1>1. l \in LocalsType /\ Aimed(l)
    BY DEF Locals
  <1>2. l.days \subseteq Days /\ l.todo \in Seq(Periods)
    BY <1>1 DEF LocalsType, Selects
  <1>3. Len(l.todo) \in Nat /\ Len(l.todo) <= PerPass
    BY <1>1, <1>2 DEF Aimed
  <1>4. Working(l) => l.todo # <<>> /\ Head(l.todo) \in Periods /\ Tail(l.todo) \in Seq(Periods)
    <2> SUFFICES ASSUME l.todo # <<>> PROVE Head(l.todo) \in Periods /\ Tail(l.todo) \in Seq(Periods)
      BY <1>1 DEF Aimed
    <2> QED BY <1>2
  <1> QED BY <1>1, <1>2, <1>3, <1>4 DEF Aimed

(* A builder that does not step stays right when rows move. *)
LEMMA BuildStays ==
    ASSUME NEW R, NEW S, NEW t, NEW q, NEW u, Moves(R, S, t, q, u),
           NEW b, LeaseKept(R, S, b), NEW l \in Locals, Working(l), BuildIsRight(l, b, R, t, q)
    PROVE  BuildIsRight(l, b, S, t, u)
  <1> SUFFICES ASSUME Holds(S, l, b), ~ OwedBy(u, Head(l.todo))
               PROVE  /\ l.pc = "publish" => l.have = Due(t, Head(l.todo))
                      /\ l.pc = "resolve" => Due(t, Head(l.todo)) = {}
                      /\ l.pc \in {"content", "gather"} => \A d \in l.days : S[d].built = Due(t, d)
                      /\ l.pc = "gather" => \A d \in Days \ l.days : Due(t, d) = {}
                      /\ l.pc = "canonical" => l.have = Due(t, Agg)
    BY DEF BuildIsRight
  <1>1. /\ Head(l.todo) \in Periods /\ l.days \subseteq Days
        /\ l.pc \in {"content", "gather", "canonical"} => Head(l.todo) = Agg
    BY LocalsFacts
  <1>2. Days \subseteq Periods
    BY RollupAssumption DEF Days, Periods
  <1>3. Holds(R, l, b)
    BY <1>1 DEF Holds, LeaseKept
  <1>4. ~ OwedBy(q, Head(l.todo))
    BY <1>1 DEF Moves, Holds
  <1>5. /\ l.pc = "publish" => l.have = Due(t, Head(l.todo))
        /\ l.pc = "resolve" => Due(t, Head(l.todo)) = {}
        /\ l.pc \in {"content", "gather"} => \A d \in l.days : R[d].built = Due(t, d)
        /\ l.pc = "gather" => \A d \in Days \ l.days : Due(t, d) = {}
        /\ l.pc = "canonical" => l.have = Due(t, Agg)
    BY <1>3, <1>4 DEF BuildIsRight
  <1>6. ASSUME l.pc \in {"content", "gather"}, NEW d \in l.days PROVE S[d].built = Due(t, d)
    <2>1. d \in Periods /\ R[d].built = Due(t, d)
      BY <1>1, <1>2, <1>5, <1>6
    <2>2. ~ OwedBy(q, d)
      BY <1>1, <1>4, <1>6 DEF OwedBy
    <2> QED BY <2>1, <2>2 DEF Moves
  <1> QED BY <1>5, <1>6

\* Only reading says something.
LEMMA NothingRead ==
    ASSUME NEW l, l.pc \notin {"publish", "resolve", "content", "gather", "canonical"},
           NEW b, NEW R, NEW t, NEW q
    PROVE  BuildIsRight(l, b, R, t, q)
  BY DEF BuildIsRight

(* A step of a builder. *)
LEMMA BuilderTyped ==
    ASSUME Typed, NEW b \in Builders, NEW l \in Locals, Step(b, l),
           row' \in [Periods -> Rows], outbox' \in Seq(Events), UNCHANGED <<text, born, rd>>
    PROVE  Typed'
  BY DEF Typed, Step

(* The rest of the invariant after a step of a builder: its own part is new. *)
LEMMA BuilderRight ==
    ASSUME Inv, NEW b \in Builders, NEW l \in Locals, Step(b, l), UNCHANGED <<text, rd>>,
           Moves(row, row', text, outbox, outbox'),
           \A c \in Builders \ {b} : LeaseKept(row, row', c),
           Working(l) => BuildIsRight(l, b, row', text, outbox')
    PROVE  Right'
  <1>1. \A p \in Periods : RowIsRight(row'[p], text, outbox', p)
    BY RowStays DEF Inv, Right, RowsRight
  <1>2. \A r \in Readers : ReadIsRight(rd[r], row', text)
    BY ReadStays DEF Inv, Right, ReadsRight
  <1>3. bld \in [Builders -> Locals]
    BY DEF Inv, Typed
  <1>4. ASSUME NEW c \in Builders, Working(bld'[c])
        PROVE  BuildIsRight(bld'[c], c, row', text, outbox')
    <2>1. CASE c = b
      BY <1>3, <1>4, <2>1 DEF Step
    <2>2. CASE c # b
      <3>1. bld'[c] = bld[c] /\ bld[c] \in Locals
        BY <1>3, <2>2 DEF Step
      <3>2. BuildIsRight(bld[c], c, row, text, outbox)
        BY <1>4, <3>1 DEF Inv, Right, BuildsRight
      <3> QED BY <1>4, <2>2, <3>1, <3>2, BuildStays
    <2> QED BY <2>1, <2>2
  <1>5. text' = text /\ rd' = rd
    OBVIOUS
  <1>6. RowsRight'
    BY <1>1, <1>5 DEF RowsRight
  <1>7. ReadsRight'
    BY <1>2, <1>5 DEF ReadsRight
  <1>8. BuildsRight'
    BY <1>4, <1>5 DEF BuildsRight
  <1> QED BY <1>6, <1>7, <1>8 DEF Right

(* A generation is counted modulo its bound. *)
LEMMA GenFacts ==
    ASSUME NEW g \in Int
    PROVE  g % GenBound \in Gens /\ 0 \in Gens
  BY RollupAssumption DEF Gens

\* Staling a row.
LEMMA StaleRow ==
    ASSUME NEW r \in Rows, NEW n \in Nat
    PROVE  /\ StaleBy(r, n) \in Rows /\ Eased(r, StaleBy(r, n))
           /\ n # 0 => StaleBy(r, n).st = "stale"
  <1>1. CASE n = 0
    BY <1>1 DEF StaleBy, Eased
  <1>2. CASE n # 0
    <2> DEFINE g == (IF r.st = "none" THEN n - 1 ELSE r.gen + n) % GenBound
    <2>1. r.gen \in Int
      BY RollupAssumption DEF Rows, Gens
    <2>2. g \in Gens
      <3> DEFINE x == IF r.st = "none" THEN n - 1 ELSE r.gen + n
      <3>1. x \in Int
        BY <2>1
      <3> HIDE DEF x
      <3>2. x % GenBound \in Gens
        BY <3>1, GenFacts
      <3> QED BY <3>2 DEF x
    <2>3. StaleBy(r, n) = [r EXCEPT !.st = "stale", !.nonce = NoNonce, !.late = FALSE, !.gen = g]
      BY <1>2 DEF StaleBy
    <2> HIDE DEF g
    <2>4. r \in [st : {"none", "stale", "building", "ready", "failed"}, gen : Gens,
                 nonce : Builders \cup {NoNonce}, late : BOOLEAN, built : Lines]
      BY DEF Rows
    <2>5. StaleBy(r, n) = [st |-> "stale", gen |-> g, nonce |-> NoNonce, late |-> FALSE, built |-> r.built]
      BY <2>3, <2>4
    <2>6. r.built \in Lines
      BY <2>4
    <2>7. StaleBy(r, n) \in Rows
      BY <2>2, <2>5, <2>6 DEF Rows
    <2>8. Eased(r, StaleBy(r, n)) /\ StaleBy(r, n).st = "stale"
      BY <2>5 DEF Eased
    <2> QED BY <2>7, <2>8
  <1> QED BY <1>1, <1>2

(* A drain stales every period an event it expands is about; the others keep their rows. *)
LEMMA DrainMoves ==
    ASSUME outbox \in Seq(Events), row \in [Periods -> Rows], NEW t
    PROVE  /\ DrainedRows \in [Periods -> Rows]
           /\ Moves(row, DrainedRows, t, outbox, DrainedOutbox)
           /\ \A b \in Builders : LeaseKept(row, DrainedRows, b)
  <1> DEFINE times(p) == IF p = Agg THEN Processed ELSE Hits(p)
  <1>0. /\ Finished \in Nat /\ Finished <= Len(outbox) /\ Spare \in Nat
        /\ Spare > 0 => Finished + 1 \in 1..Len(outbox) /\ Spare < Remainder(outbox[Finished + 1])
        /\ Processed \in Nat
        /\ Processed = 0 => Finished = 0 /\ Spare = 0
    BY DrainLimits
  <1>1. /\ DrainedOutbox \in Seq(Events)
        /\ Len(DrainedOutbox) = Len(outbox) - Finished
        /\ \A k \in 1..Len(DrainedOutbox) :
             /\ DrainedOutbox[k].last = outbox[k + Finished].last
             /\ DrainedOutbox[k].next =
                  IF k = 1 THEN outbox[k + Finished].next + Spare ELSE outbox[k + Finished].next
    BY DrainLeaves
  <1>2. \A p \in Periods : p = Agg \/ p \in Days
    BY RollupAssumption DEF Periods, Agg, Days
  <1>3. \A p \in Periods : times(p) \in Nat
    BY <1>0, <1>2, HitsAreEvents
  <1>4. \A p \in Periods : DrainedRows[p] = StaleBy(row[p], times(p))
    BY DEF DrainedRows
  <1>5. ASSUME NEW p \in Periods
        PROVE  /\ DrainedRows[p] \in Rows /\ Eased(row[p], DrainedRows[p])
               /\ times(p) # 0 => DrainedRows[p].st = "stale"
    <2> DEFINE n == times(p)
    <2>1. n \in Nat /\ DrainedRows[p] = StaleBy(row[p], n)
      BY <1>3, <1>4
    <2> HIDE DEF n
    <2>2. row[p] \in Rows
      OBVIOUS
    <2>3. DrainedRows[p] \in Rows /\ Eased(row[p], DrainedRows[p]) /\ (n # 0 => DrainedRows[p].st = "stale")
      BY <2>1, <2>2, StaleRow
    <2> QED BY <2>3 DEF n
  <1>6. DrainedRows \in [Periods -> Rows]
    BY <1>5 DEF DrainedRows
  <1>7. ASSUME NEW p \in Periods, OwedBy(outbox, p), times(p) = 0
        PROVE  OwedBy(DrainedOutbox, p)
    <2>0. Len(outbox) \in Nat /\ DOMAIN outbox = 1..Len(outbox)
          /\ DOMAIN DrainedOutbox = 1..Len(DrainedOutbox)
      BY <1>1
    <2>1. PICK k \in 1..Len(outbox) : p = Agg \/ (outbox[k].next <= p /\ p <= outbox[k].last)
      BY <1>7, <2>0 DEF OwedBy
    <2>2. CASE p = Agg
      <3>1. Processed = 0
        BY <1>7, <2>2
      <3>2. Len(DrainedOutbox) = Len(outbox)
        BY <1>0, <1>1, <2>0, <3>1
      <3>3. k \in DOMAIN DrainedOutbox
        BY <2>0, <3>2
      <3> QED BY <2>2, <3>3 DEF OwedBy
    <2>3. CASE p # Agg
      <3>1. p \in Days /\ Hits(p) = 0
        BY <1>2, <1>7, <2>3
      <3>2. ~ \E j \in 1..(Finished + 1) : Hit(j, p)
        BY <3>1, HitsAreEvents
      <3>3. outbox[k].next <= p /\ p <= outbox[k].last
        BY <2>1, <2>3
      <3>4. ~(k \in 1..Finished)
        <4> SUFFICES ASSUME k \in 1..Finished PROVE FALSE
          OBVIOUS
        <4>1. k \in 1..(Finished + 1) /\ Hit(k, p)
          BY <1>0, <3>3 DEF Hit
        <4> QED BY <3>2, <4>1
      <3> DEFINE j == k - Finished
      <3>5. j \in 1..Len(DrainedOutbox) /\ j + Finished = k
        BY <1>0, <1>1, <2>0, <3>4
      <3> HIDE DEF j
      <3>6. DrainedOutbox[j].last = outbox[k].last
            /\ DrainedOutbox[j].next = IF j = 1 THEN outbox[k].next + Spare ELSE outbox[k].next
        BY <1>1, <3>5
      <3>7. DrainedOutbox[j].next <= p
        <4>1. CASE j # 1
          BY <3>3, <3>6, <4>1
        <4>2. CASE j = 1 /\ Spare = 0
          <5>1. outbox[k] \in Events
            BY <2>1
          <5>2. outbox[k].next \in Int
            BY <5>1, EventFacts
          <5> QED BY <3>3, <3>6, <4>2, <5>2
        <4>3. CASE j = 1 /\ Spare > 0
          <5>1. k = Finished + 1 /\ k \in 1..(Finished + 1)
            BY <1>0, <3>5, <4>3
          <5>2. ~ Hit(k, p)
            BY <3>2, <5>1
          <5>3. ~(p < outbox[k].next + Spare)
            BY <3>3, <4>3, <5>1, <5>2 DEF Hit
          <5>4. outbox[k] \in Events
            BY <2>1
          <5>5. outbox[k].next \in Int /\ p \in Int
            BY <3>1, <5>4, EventFacts, RollupAssumption DEF Days
          <5> QED BY <1>0, <3>6, <4>3, <5>3, <5>5
        <4> QED BY <1>0, <4>1, <4>2, <4>3
      <3> QED BY <2>0, <3>3, <3>5, <3>6, <3>7 DEF OwedBy
    <2> QED BY <2>2, <2>3
  <1>8. Moves(row, DrainedRows, t, outbox, DrainedOutbox)
    <2> HIDE DEF times
    <2>1. ASSUME NEW p \in Periods
          PROVE  /\ DrainedRows[p].built = row[p].built
                 /\ DrainedRows[p].st \in {"ready", "none"} => DrainedRows[p].st = row[p].st
                 /\ OwedBy(outbox, p) => OwedBy(DrainedOutbox, p) \/ DrainedRows[p].st = "stale"
      <3>1. Eased(row[p], DrainedRows[p]) /\ (times(p) # 0 => DrainedRows[p].st = "stale")
        BY <1>5
      <3>2. OwedBy(outbox, p) /\ times(p) = 0 => OwedBy(DrainedOutbox, p)
        BY <1>7
      <3> QED BY <3>1, <3>2 DEF Eased
    <2> QED BY <2>1 DEF Moves
  <1>9. \A b \in Builders : LeaseKept(row, DrainedRows, b)
    BY <1>5 DEF LeaseKept, Eased
  <1> HIDE DEF times
  <1> QED BY <1>6, <1>8, <1>9

-----------------------------------------------------------------------------
(* What a pass picks.                                                      *)

(* Ascending lists periods of the set. *)
LEMMA AscendingType ==
    ASSUME NEW S, S \subseteq Periods
    PROVE  Ascending(S) \in Seq(Periods)
  <1> DEFINE upTo(p) == {q \in S : q <= p}
             N == Cardinality(S)
             I == 1..N
             f == [p \in S |-> Cardinality(upTo(p))]
  <1>0. S \subseteq Int
    BY RollupAssumption DEF Periods
  <1>1. IsFiniteSet(S)
    <2>1. NDays \in Int
      BY RollupAssumption
    <2>2. IsFiniteSet(0..NDays)
      BY <2>1, FS_Interval
    <2> QED BY <2>2, FS_Subset DEF Periods
  <1>2. N \in Nat
    BY <1>1, FS_CardinalityType
  <1>3. IsFiniteSet(I) /\ Cardinality(I) = N
    BY <1>2, FS_Interval
  <1>4. ASSUME NEW p \in S
        PROVE  /\ IsFiniteSet(upTo(p)) /\ Cardinality(upTo(p)) \in Nat
               /\ Cardinality(upTo(p)) <= N /\ Cardinality(upTo(p)) > 0
    <2> DEFINE U == upTo(p)
    <2>1. U \subseteq S /\ U # {}
      BY <1>0
    <2> HIDE DEF U
    <2>2. IsFiniteSet(U) /\ Cardinality(U) <= N /\ Cardinality(U) \in Nat
      BY <1>1, <2>1, FS_Subset, FS_CardinalityType
    <2>3. Cardinality(U) # 0
      BY <2>1, <2>2, FS_EmptySet
    <2> QED BY <2>2, <2>3 DEF U
  <1>5. ASSUME NEW p \in S, NEW q \in S, p < q PROVE f[p] < f[q]
    <2> DEFINE U == upTo(p)
               V == upTo(q)
    <2>0. p \in Int /\ q \in Int
      BY <1>0
    <2>1. U \subseteq V /\ q \in V /\ q \notin U
      <3>1. q \in V /\ q \notin U
        BY <1>5, <2>0
      <3>2. ASSUME NEW x \in U PROVE x \in V
        <4>1. x \in Int /\ x \in S /\ x <= p
          BY <1>0
        <4>2. x <= q
          BY <1>5, <2>0, <4>1
        <4> QED BY <4>1, <4>2
      <3> QED BY <3>1, <3>2
    <2>2. IsFiniteSet(V) /\ Cardinality(U) \in Nat /\ Cardinality(V) \in Nat
      BY <1>4
    <2>3. f[p] = Cardinality(U) /\ f[q] = Cardinality(V)
      OBVIOUS
    <2> HIDE DEF U, V, f
    <2>4. Cardinality(U) <= Cardinality(V) /\ (Cardinality(U) = Cardinality(V) => U = V)
      BY <2>1, <2>2, FS_Subset
    <2> QED BY <2>1, <2>2, <2>3, <2>4
  <1>6. ASSUME NEW p \in S PROVE f[p] \in I /\ f[p] \in Nat
    BY <1>2, <1>4
  <1>7. f \in Injection(S, I)
    <2>1. f \in [S -> I]
      BY <1>6
    <2>2. ASSUME NEW p \in S, NEW q \in S, f[p] = f[q] PROVE p = q
      <3>1. p \in Int /\ q \in Int /\ f[p] \in Nat /\ f[q] \in Nat
        BY <1>0, <1>6
      <3> HIDE DEF f
      <3> QED BY <1>5, <2>2, <3>1
    <2> HIDE DEF f, I
    <2> QED BY <2>1, <2>2 DEF Injection, IsInjective
  <1>8. f \in Surjection(S, I)
    <2> HIDE DEF f, I
    <2> QED BY <1>1, <1>3, <1>7, FS_Injection
  <1>9. ASSUME NEW i \in I PROVE (CHOOSE p \in S : Cardinality(upTo(p)) = i) \in Periods
    <2>1. PICK p \in S : f[p] = i
      <3> HIDE DEF f, I
      <3> QED BY <1>8 DEF Surjection
    <2>2. Cardinality(upTo(p)) = i
      BY <2>1
    <2> QED BY <2>2
  <1>10. Ascending(S) = [i \in I |-> CHOOSE p \in S : Cardinality(upTo(p)) = i]
    BY DEF Ascending
  <1> HIDE DEF I, f, upTo
  <1>11. Ascending(S) \in [I -> Periods]
    BY <1>9, <1>10
  <1> QED BY <1>2, <1>11 DEF I

(* An order of the days of a set lists periods. *)
LEMMA OrdersType ==
    ASSUME NEW S, S \subseteq Periods, NEW f \in Orders(S)
    PROVE  f \in Seq(Periods)
  <1>1. IsFiniteSet(Periods)
    <2>1. NDays \in Int /\ 0 \in Int
      BY RollupAssumption
    <2> QED BY <2>1, FS_Interval DEF Periods
  <1>2. Cardinality(S) \in Nat
    BY <1>1, FS_Subset, FS_CardinalityType
  <1>3. f \in [1..Cardinality(S) -> S]
    BY DEF Orders
  <1> QED BY <1>2, <1>3

(* What a SELECT returns: periods. *)
LEMMA FoundType ==
    ASSUME NEW pc, NEW found \in Found(pc)
    PROVE  found \in Seq(Periods)
  <1>0. Days \subseteq Periods /\ Agg \in Periods
    BY RollupAssumption DEF Days, Periods, Agg
  <1> DEFINE X == {d \in Days : row[d].st = "stale"}
             Y == {d \in Days : Retriable(d)}
  <1>1. X \subseteq Periods /\ Y \subseteq Periods
    BY <1>0
  <1>2. \/ found = Ascending(X) \/ found \in Orders(Y)
        \/ found = <<Agg>> \/ found = <<>>
    BY DEF Found
  <1> HIDE DEF X, Y
  <1>3. CASE found = Ascending(X)
    BY <1>1, <1>3, AscendingType
  <1>4. CASE found \in Orders(Y)
    BY <1>1, <1>4, OrdersType
  <1>5. <<Agg>> \in Seq(Periods)
    BY <1>0
  <1>6. <<>> \in Seq(Periods)
    OBVIOUS
  <1> QED BY <1>2, <1>3, <1>4, <1>5, <1>6

(* What a pass has picked: periods, no more than its budget. *)
LEMMA PickedType ==
    ASSUME NEW had \in Seq(Periods), Len(had) <= PerPass, NEW found \in Seq(Periods)
    PROVE  Picked(had, found) \in Seq(Periods) /\ Len(Picked(had, found)) <= PerPass
  <1> DEFINE m == PerPass - Len(had)
             n == Min({m, Len(found)})
             more == SubSeq(found, 1, n)
  <1>1. PerPass \in Nat /\ Len(had) \in Nat /\ Len(found) \in Nat
    BY RollupAssumption
  <1>2. m \in Nat
    BY <1>1
  <1> HIDE DEF m
  <1>3. n \in Nat /\ n <= m /\ n <= Len(found)
    BY <1>1, <1>2, MinOfTwo
  <1> HIDE DEF n
  <1>4. more \in Seq(Periods) /\ Len(more) = n
    BY <1>1, <1>3
  <1>5. Picked(had, found) = had \o more
    BY DEF Picked, more, n, m
  <1> HIDE DEF more
  <1>6. had \o more \in Seq(Periods) /\ Len(had \o more) = Len(had) + n
    BY <1>4
  <1>7. Len(had) + n <= PerPass
    BY <1>1, <1>3 DEF m
  <1> QED BY <1>5, <1>6, <1>7

-----------------------------------------------------------------------------
(* The locals of a builder after a step.                                   *)

(* Locals from their type and their aim. *)
LEMMA MakeLocals ==
    ASSUME NEW l \in LocalsType, Len(l.todo) <= PerPass, Working(l) => l.todo # <<>>,
           l.pc = "sources" => Head(l.todo) # Agg,
           l.pc \in {"statuses", "content", "gather", "canonical"} => Head(l.todo) = Agg
    PROVE  l \in Locals
  BY DEF Locals, Aimed

(* An idle builder is well typed. *)
LEMMA IdleType ==
    Idle \in Locals /\ Idle.pc = "idle" /\ Idle \in LocalsType /\ ~ Working(Idle)
  <1>1. Idle \in LocalsType
    <2>1. 0 \in Gens
      BY GenFacts
    <2>2. <<>> \in Seq(Periods) /\ {} \in SUBSET Days /\ {} \in Lines
      BY DEF Lines
    <2> QED BY <2>1, <2>2 DEF Idle, LocalsType
  <1>2. Idle.pc = "idle" /\ Len(Idle.todo) = 0
    BY DEF Idle
  <1>3. PerPass \in Nat
    BY RollupAssumption
  <1> QED BY <1>1, <1>2, <1>3 DEF Locals, Aimed, Working, Selects

\* Before there is a target.
LEMMA NotWorkingType ==
    ASSUME NEW l \in Locals, NEW pc \in {"reclaim", "pick"}
    PROVE  [l EXCEPT !.pc = pc] \in Locals /\ ~ Working([l EXCEPT !.pc = pc])
  <1> DEFINE m == [l EXCEPT !.pc = pc]
  <1>1. l \in LocalsType /\ Len(l.todo) <= PerPass
    BY LocalsFacts
  <1>2. m \in LocalsType /\ m.pc = pc /\ m.todo = l.todo
    BY <1>1 DEF LocalsType, Selects
  <1> HIDE DEF m
  <1>3. ~ Working(m)
    BY <1>2 DEF Working, Selects
  <1>4. m \in Locals
    BY <1>1, <1>2, <1>3, MakeLocals
  <1> QED BY <1>3, <1>4 DEF m

\* The next steps of a build, anywhere.
Loose == {"next", "claim", "publish", "restale", "defer", "resolve", "fail"}

(* A builder may go to any place that asks nothing of its target. *)
LEMMA GotoType ==
    ASSUME NEW l \in Locals, Working(l), NEW pc \in Loose
    PROVE  [l EXCEPT !.pc = pc] \in Locals /\ [l EXCEPT !.pc = pc].pc = pc
  <1> DEFINE m == [l EXCEPT !.pc = pc]
  <1>1. l \in LocalsType /\ Len(l.todo) <= PerPass /\ l.todo # <<>>
    BY LocalsFacts
  <1>2. m \in LocalsType /\ m.pc = pc /\ m.todo = l.todo
    BY <1>1 DEF LocalsType, Loose
  <1> HIDE DEF m
  <1>3. pc \notin {"sources", "statuses", "content", "gather", "canonical"}
    BY DEF Loose
  <1>4. m \in Locals
    BY <1>1, <1>2, <1>3, MakeLocals
  <1> QED BY <1>2, <1>4 DEF m

\* A list of targets.
LEMMA TodoType ==
    ASSUME NEW s \in Seq(Periods), s # <<>>, Len(s) <= PerPass, NEW o \in BOOLEAN
    PROVE  LET m == [Idle EXCEPT !.pc = "next", !.todo = s, !.op = o]
           IN  m \in Locals /\ m.pc = "next"
  <1> DEFINE m == [Idle EXCEPT !.pc = "next", !.todo = s, !.op = o]
  <1>1. m \in LocalsType /\ m.pc = "next" /\ m.todo = s
    <2>1. Idle \in LocalsType
      BY IdleType
    <2> QED BY <2>1 DEF LocalsType, Selects
  <1> HIDE DEF m
  <1>2. m \in Locals
    BY <1>1, MakeLocals
  <1> QED BY <1>1, <1>2 DEF m

\* The end of a build.
LEMMA DoneType ==
    ASSUME Typed, NEW b \in Builders, Working(bld[b])
    PROVE  Done(b) \in Locals /\ Done(b).pc \in {"idle", "next"}
  <1> DEFINE l == bld[b]
  <1>1. l \in Locals
    BY DEF Typed
  <1>2. /\ l \in LocalsType /\ l.todo \in Seq(Periods) /\ Len(l.todo) \in Nat /\ Len(l.todo) <= PerPass
        /\ l.todo # <<>> /\ Tail(l.todo) \in Seq(Periods)
    BY <1>1, LocalsFacts
  <1>3. CASE Len(l.todo) = 1
    BY <1>3, IdleType DEF Done
  <1>4. CASE Len(l.todo) # 1
    <2> DEFINE s == Tail(l.todo)
               o == l.op
    <2>1. Done(b) = [Idle EXCEPT !.pc = "next", !.todo = s, !.op = o]
      BY <1>4 DEF Done
    <2>2. o \in BOOLEAN
      BY <1>2 DEF LocalsType, Selects
    <2>3. s \in Seq(Periods) /\ s # <<>> /\ Len(s) <= PerPass
      <3>1. Len(l.todo) # 0
        BY <1>2
      <3>2. Len(s) = Len(l.todo) - 1
        BY <1>2
      <3>3. Len(s) # 0 /\ Len(s) <= PerPass
        BY <1>2, <1>4, <3>1, <3>2, RollupAssumption
      <3>4. s \in Seq(Periods)
        BY <1>2
      <3> HIDE DEF s
      <3>5. s # <<>>
        BY <3>3, <3>4
      <3> QED BY <3>3, <3>4, <3>5
    <2> HIDE DEF s, o
    <2>4. [Idle EXCEPT !.pc = "next", !.todo = s, !.op = o] \in Locals
          /\ [Idle EXCEPT !.pc = "next", !.todo = s, !.op = o].pc = "next"
      BY <2>2, <2>3, TodoType
    <2> QED BY <2>1, <2>4
  <1> QED BY <1>3, <1>4

-----------------------------------------------------------------------------
(* The steps of a builder.                                                 *)

(* A step of a builder, types and the rest of the invariant together. *)
LEMMA BuilderStep ==
    ASSUME Typed, NEW b \in Builders, NEW l \in Locals, Step(b, l),
           row' \in [Periods -> Rows], outbox' \in Seq(Events), UNCHANGED <<text, born, rd>>,
           Right => Moves(row, row', text, outbox, outbox'),
           \A c \in Builders \ {b} : LeaseKept(row, row', c),
           Right /\ Working(l) => BuildIsRight(l, b, row', text, outbox')
    PROVE  Typed' /\ (Right => Right')
  <1>1. Typed'
    BY BuilderTyped
  <1>2. ASSUME Right PROVE Right'
    <2>1. Inv
      BY <1>2 DEF Inv
    <2> QED BY <1>2, <2>1, BuilderRight
  <1> QED BY <1>1, <1>2

\* Locals that claim nothing about what was read.
Quiet(l) == l.pc \notin {"publish", "resolve", "content", "gather", "canonical"}

(* A step that eases rows and reads nothing. *)
LEMMA EasedStep ==
    ASSUME Typed, NEW b \in Builders, NEW l \in Locals, Quiet(l), Step(b, l),
           row' \in [Periods -> Rows], UNCHANGED outbox, UNCHANGED <<text, born, rd>>,
           \A p \in Periods : Eased(row[p], row'[p])
    PROVE  Typed' /\ (Right => Right')
  <1>1. Moves(row, row', text, outbox, outbox) /\ \A c \in Builders : LeaseKept(row, row', c)
    BY EasedMoves
  <1>2. outbox' = outbox /\ outbox \in Seq(Events)
    BY DEF Typed
  <1>3. BuildIsRight(l, b, row', text, outbox')
    BY NothingRead DEF Quiet
  <1> QED BY <1>1, <1>2, <1>3, BuilderStep

(* A step that only reads. *)
LEMMA ReadOnlyStep ==
    ASSUME Typed, NEW b \in Builders, NEW l \in Locals, Step(b, l), ReadOnly, UNCHANGED <<text, born, rd>>,
           Right /\ Working(l) => BuildIsRight(l, b, row, text, outbox)
    PROVE  Typed' /\ (Right => Right')
  <1>0. row' = row /\ outbox' = outbox
    BY DEF ReadOnly
  <1>1. row \in [Periods -> Rows] /\ outbox \in Seq(Events)
    BY DEF Typed
  <1>2. \A p \in Periods : Eased(row[p], row'[p])
    BY <1>0 DEF Eased
  <1>3. Moves(row, row', text, outbox, outbox) /\ \A c \in Builders : LeaseKept(row, row', c)
    BY <1>2, EasedMoves
  <1> QED BY <1>0, <1>1, <1>3, BuilderStep

(* A step that drains first. *)
LEMMA DrainStep ==
    ASSUME Typed, NEW b \in Builders, NEW l \in Locals, Quiet(l), Step(b, l), drain_invalidations,
           UNCHANGED <<text, born, rd>>
    PROVE  Typed' /\ (Right => Right')
  <1>0. row' = DrainedRows /\ outbox' = DrainedOutbox
    BY DEF drain_invalidations
  <1>1. row \in [Periods -> Rows] /\ outbox \in Seq(Events)
    BY DEF Typed
  <1>2. /\ DrainedRows \in [Periods -> Rows]
        /\ Moves(row, DrainedRows, text, outbox, DrainedOutbox)
        /\ \A c \in Builders : LeaseKept(row, DrainedRows, c)
    BY <1>1, DrainMoves
  <1>3. DrainedOutbox \in Seq(Events)
    BY <1>1, DrainLeaves
  <1>4. BuildIsRight(l, b, row', text, outbox')
    BY NothingRead DEF Quiet
  <1> QED BY <1>0, <1>2, <1>3, <1>4, BuilderStep

(* What a builder leaves outside. *)
LEMMA Frozen ==
    ASSUME Outside
    PROVE  UNCHANGED <<text, born, rd>>
  BY DEF Outside

(* run_rollup_maintenance begins with a drain. *)
LEMMA StartPassStep ==
    ASSUME Typed, NEW b \in Builders, StartPass(b)
    PROVE  Typed' /\ (Right => Right')
  <1> DEFINE l == [Idle EXCEPT !.pc = "reclaim"]
  <1>1. l \in Locals /\ ~ Working(l)
    BY IdleType, NotWorkingType
  <1>2. Step(b, l) /\ drain_invalidations /\ UNCHANGED <<text, born, rd>>
    BY Frozen DEF StartPass
  <1> HIDE DEF l
  <1>3. Quiet(l)
    BY <1>1 DEF Quiet, Working, Selects
  <1> QED BY <1>1, <1>2, <1>3, DrainStep

(* A build begins with a drain. *)
LEMMA BeginBuildStep ==
    ASSUME Typed, NEW b \in Builders, BeginBuild(b)
    PROVE  Typed' /\ (Right => Right')
  <1> DEFINE l == [bld[b] EXCEPT !.pc = "claim"]
  <1>1. bld[b] \in Locals /\ Working(bld[b])
    BY DEF Typed, BeginBuild, At, Working, Selects
  <1>2. l \in Locals /\ l.pc = "claim"
    BY <1>1, GotoType DEF Loose
  <1>3. Step(b, l) /\ drain_invalidations /\ UNCHANGED <<text, born, rd>>
    BY Frozen DEF BeginBuild, Goto
  <1> HIDE DEF l
  <1>4. Quiet(l)
    BY <1>2 DEF Quiet
  <1> QED BY <1>2, <1>3, <1>4, DrainStep

(* Reclaiming takes leases away and hands none out. *)
LEMMA ReclaimStep ==
    ASSUME Typed, NEW b \in Builders, reclaim_stale_building(b)
    PROVE  Typed' /\ (Right => Right')
  <1> DEFINE l == [bld[b] EXCEPT !.pc = "pick"]
  <1>0. row \in [Periods -> Rows] /\ bld[b] \in Locals
    BY DEF Typed
  <1>1. l \in Locals /\ ~ Working(l)
    BY <1>0, NotWorkingType
  <1>2. Step(b, l) /\ UNCHANGED outbox /\ UNCHANGED <<text, born, rd>>
    BY Frozen DEF reclaim_stale_building, Goto
  <1>3. row' = [p \in Periods |-> IF row[p].st = "building" /\ row[p].late THEN StaleBy(row[p], 1) ELSE row[p]]
    BY DEF reclaim_stale_building
  <1>4. \A p \in Periods : StaleBy(row[p], 1) \in Rows /\ Eased(row[p], StaleBy(row[p], 1))
    BY <1>0, StaleRow
  <1>5. row' \in [Periods -> Rows] /\ \A p \in Periods : Eased(row[p], row'[p])
    <2>1. \A p \in Periods : row[p] \in Rows /\ Eased(row[p], row[p])
      BY <1>0 DEF Eased
    <2>2. \A p \in Periods : row'[p] = row[p] \/ row'[p] = StaleBy(row[p], 1)
      BY <1>3
    <2>3. \A p \in Periods : row'[p] \in Rows /\ Eased(row[p], row'[p])
      BY <1>4, <2>1, <2>2
    <2> QED BY <1>3, <2>3
  <1> HIDE DEF l
  <1>6. Quiet(l)
    BY <1>1 DEF Quiet, Working, Selects
  <1> QED BY <1>1, <1>2, <1>5, <1>6, EasedStep

(* Picking only reads. *)
LEMMA PickRowsStep ==
    ASSUME Typed, NEW b \in Builders, PickRows(b)
    PROVE  Typed' /\ (Right => Right')
  <1>0. PICK found \in Found(bld[b].pc) :
          LET todo == Picked(bld[b].todo, found)
              then == IF Len(todo) = PerPass THEN "next" ELSE Following(bld[b].pc)
          IN  Step(b, IF then = "next" /\ todo = <<>> THEN Idle
                      ELSE [Idle EXCEPT !.pc = then, !.todo = todo])
    BY DEF PickRows
  <1> DEFINE todo == Picked(bld[b].todo, found)
             then == IF Len(todo) = PerPass THEN "next" ELSE Following(bld[b].pc)
  <1>1. /\ then \in Selects \cup {"next"}
        /\ Step(b, IF then = "next" /\ todo = <<>> THEN Idle
                   ELSE [Idle EXCEPT !.pc = then, !.todo = todo])
    BY <1>0 DEF Following, Selects
  <1>2. todo \in Seq(Periods) /\ Len(todo) <= PerPass
    <2>1. bld[b].todo \in Seq(Periods) /\ Len(bld[b].todo) <= PerPass
      BY LocalsFacts DEF Typed
    <2>2. found \in Seq(Periods)
      BY FoundType
    <2> QED BY <2>1, <2>2, PickedType
  <1> HIDE DEF todo, then
  <1> DEFINE m == [Idle EXCEPT !.pc = then, !.todo = todo]
             l == IF then = "next" /\ todo = <<>> THEN Idle ELSE m
  <1>3. m \in LocalsType /\ m.pc = then /\ m.todo = todo
    <2>1. Idle \in LocalsType
      BY IdleType
    <2> QED BY <1>1, <1>2, <2>1 DEF LocalsType, Selects
  <1> HIDE DEF m
  <1>4. ~ (then = "next" /\ todo = <<>>) => m \in Locals
    <2>1. Working(m) => then = "next"
      BY <1>1, <1>3 DEF Working, Selects
    <2>2. m.pc \notin {"sources", "statuses", "content", "gather", "canonical"}
      BY <1>1, <1>3 DEF Selects
    <2> QED BY <1>2, <1>3, <2>1, <2>2, MakeLocals
  <1>5. l \in Locals /\ Quiet(l)
    <2>1. m.pc \notin {"publish", "resolve", "content", "gather", "canonical"}
      BY <1>1, <1>3 DEF Selects
    <2> QED BY <1>4, <2>1, IdleType DEF Quiet
  <1>6. Step(b, l) /\ ReadOnly /\ UNCHANGED <<text, born, rd>>
    BY <1>1, Frozen DEF PickRows, m
  <1> HIDE DEF l
  <1>7. BuildIsRight(l, b, row, text, outbox)
    BY <1>5, NothingRead DEF Quiet
  <1> QED BY <1>5, <1>6, <1>7, ReadOnlyStep

(* A rebuild stales rows that nobody is building. *)
LEMMA RebuildStep ==
    ASSUME Typed, NEW b \in Builders, NEW targets \in RebuildTargets, Rebuild(b, targets)
    PROVE  Typed' /\ (Right => Right')
  <1> DEFINE n == Min({PerPass, Len(targets)})
             s == SubSeq(targets, 1, n)
             m == [Idle EXCEPT !.pc = "next", !.op = TRUE, !.todo = s]
             l == IF PerPass = 0 THEN Idle ELSE m
             seeded == {targets[i] : i \in DOMAIN targets} \cup {Agg}
  <1>0. row \in [Periods -> Rows] /\ PerPass \in Nat
    BY RollupAssumption DEF Typed
  <1>1. targets \in Seq(Periods) /\ Len(targets) \in Nat /\ Len(targets) > 0
    <2>1. Agg \in Periods /\ Days \subseteq Periods
      BY RollupAssumption DEF Agg, Periods, Days
    <2>2. CASE \E p \in Periods : targets = <<p>>
      BY <2>2
    <2>3. CASE \E d \in Days : targets = <<d, Agg>>
      BY <2>1, <2>3
    <2> QED BY <2>2, <2>3 DEF RebuildTargets
  <1>2. n \in Nat /\ n <= PerPass /\ n <= Len(targets) /\ (PerPass # 0 => n # 0)
    BY <1>0, <1>1, MinOfTwo
  <1> HIDE DEF n
  <1>3. s \in Seq(Periods) /\ Len(s) = n
    BY <1>1, <1>2
  <1> HIDE DEF s
  <1>4. PerPass # 0 => s # <<>>
    BY <1>2, <1>3
  <1>5. m \in LocalsType /\ m.pc = "next" /\ m.todo = s
    <2>1. Idle \in LocalsType
      BY IdleType
    <2> QED BY <1>3, <2>1 DEF LocalsType, Selects
  <1> HIDE DEF m
  <1>6. PerPass # 0 => m \in Locals
    BY <1>2, <1>3, <1>4, <1>5, MakeLocals
  <1>7. l \in Locals /\ Quiet(l)
    BY <1>5, <1>6, IdleType DEF Quiet
  <1>8. Step(b, l) /\ UNCHANGED outbox /\ UNCHANGED <<text, born, rd>>
    BY DEF Rebuild, m, s, n
  <1>9. row' = [p \in Periods |->
                  IF p \in seeded /\ row[p].st # "building" THEN StaleBy(row[p], 1) ELSE row[p]]
    BY DEF Rebuild
  <1>10. row' \in [Periods -> Rows] /\ \A p \in Periods : Eased(row[p], row'[p])
    <2>1. \A p \in Periods : StaleBy(row[p], 1) \in Rows /\ Eased(row[p], StaleBy(row[p], 1))
      BY <1>0, StaleRow
    <2>2. \A p \in Periods : row[p] \in Rows /\ Eased(row[p], row[p])
      BY <1>0 DEF Eased
    <2>3. \A p \in Periods : row'[p] = row[p] \/ row'[p] = StaleBy(row[p], 1)
      BY <1>9
    <2>4. \A p \in Periods : row'[p] \in Rows /\ Eased(row[p], row'[p])
      BY <2>1, <2>2, <2>3
    <2> QED BY <1>9, <2>4
  <1> HIDE DEF l
  <1> QED BY <1>7, <1>8, <1>10, EasedStep

(* A builder that stops leaves its row behind. *)
LEMMA EndsStep ==
    ASSUME Typed, NEW b \in Builders, Step(b, Idle), ReadOnly, Outside
    PROVE  Typed' /\ (Right => Right')
  <1>1. Idle \in Locals /\ ~ Working(Idle)
    BY IdleType
  <1>2. UNCHANGED <<text, born, rd>>
    BY Frozen
  <1> QED BY <1>1, <1>2, ReadOnlyStep

(* After a build a builder has read nothing. *)
LEMMA DoneQuiet ==
    ASSUME Typed, NEW b \in Builders, Working(bld[b])
    PROVE  Done(b) \in Locals /\ Quiet(Done(b))
  BY DoneType DEF Quiet

(* A statement or the summarizer raises. *)
LEMMA BuildRaisesStep ==
    ASSUME Typed, NEW b \in Builders, BuildRaises(b)
    PROVE  Typed' /\ (Right => Right')
  <1>1. bld[b] \in Locals /\ Working(bld[b]) /\ ReadOnly /\ UNCHANGED <<text, born, rd>>
    BY Frozen DEF Typed, BuildRaises, Picks, Working
  <1>2. CASE Step(b, Done(b))
    <2>1. Done(b) \in Locals /\ Quiet(Done(b))
      BY <1>1, DoneQuiet
    <2>2. BuildIsRight(Done(b), b, row, text, outbox)
      BY <2>1, NothingRead DEF Quiet
    <2> QED BY <1>1, <1>2, <2>1, <2>2, ReadOnlyStep
  <1>3. CASE Goto(b, "fail")
    <2> DEFINE l == [bld[b] EXCEPT !.pc = "fail"]
    <2>1. l \in Locals /\ l.pc = "fail"
      BY <1>1, GotoType DEF Loose
    <2>2. Step(b, l)
      BY <1>3 DEF Goto
    <2> HIDE DEF l
    <2>3. BuildIsRight(l, b, row, text, outbox)
      BY <2>1, NothingRead
    <2> QED BY <1>1, <2>1, <2>2, <2>3, ReadOnlyStep
  <1> QED BY <1>2, <1>3 DEF BuildRaises

(* The row of the target of a builder at work. *)
LEMMA TargetFacts ==
    ASSUME Typed, NEW b \in Builders, Working(bld[b])
    PROVE  Target(b) \in Periods /\ row[Target(b)] \in Rows /\ bld[b] \in Locals
  <1>1. bld[b] \in Locals /\ row \in [Periods -> Rows]
    BY DEF Typed
  <1> QED BY <1>1, LocalsFacts DEF Target

(* A guarded update that releases the lease. *)
LEMMA ReleaseStep ==
    ASSUME Typed, NEW b \in Builders, Working(bld[b]), NEW st \in {"stale", "failed"},
           Guarded(b, Released(b, st)), Step(b, Done(b)), Outside
    PROVE  Typed' /\ (Right => Right')
  <1> DEFINE p == Target(b)
             r == row[p]
             v == Released(b, st)
  <1>1. p \in Periods /\ r \in Rows /\ row \in [Periods -> Rows]
    BY TargetFacts DEF Typed
  <1>2. v \in Rows /\ Eased(r, v)
    <2>1. v = [r EXCEPT !.st = st, !.nonce = NoNonce, !.late = FALSE]
      BY DEF Released
    <2>2. r \in [st : {"none", "stale", "building", "ready", "failed"}, gen : Gens,
                 nonce : Builders \cup {NoNonce}, late : BOOLEAN, built : Lines]
      BY <1>1 DEF Rows
    <2>3. v = [st |-> st, gen |-> r.gen, nonce |-> NoNonce, late |-> FALSE, built |-> r.built]
      BY <2>1, <2>2
    <2>4. r.gen \in Gens /\ r.built \in Lines
      BY <2>2
    <2> HIDE DEF r, v
    <2>5. v \in Rows
      BY <2>3, <2>4 DEF Rows
    <2>6. Eased(r, v)
      BY <2>3 DEF Eased
    <2> QED BY <2>5, <2>6
  <1>3. row' = row \/ row' = [row EXCEPT ![p] = v]
    BY DEF Guarded
  <1> HIDE DEF v, p
  <1>4. row' \in [Periods -> Rows] /\ \A x \in Periods : Eased(row[x], row'[x])
    <2>1. \A x \in Periods : Eased(row[x], row[x])
      BY DEF Eased
    <2>2. CASE row' = row
      BY <1>1, <2>1, <2>2
    <2>3. CASE row' = [row EXCEPT ![p] = v]
      <3>1. \A x \in Periods : row'[x] = IF x = p THEN v ELSE row[x]
        BY <1>1, <2>3
      <3>2. row' \in [Periods -> Rows]
        BY <1>1, <1>2, <2>3
      <3> QED BY <1>2, <2>1, <3>1, <3>2
    <2> QED BY <1>3, <2>2, <2>3
  <1>5. Done(b) \in Locals /\ Quiet(Done(b))
    BY DoneQuiet
  <1>6. UNCHANGED outbox /\ UNCHANGED <<text, born, rd>>
    BY Frozen DEF Guarded
  <1> QED BY <1>4, <1>5, <1>6, EasedStep

(* The aggregate is staled after a day was published. *)
LEMMA RestaleStep ==
    ASSUME Typed, NEW b \in Builders, stale_aggregates_for_day(b)
    PROVE  Typed' /\ (Right => Right')
  <1> DEFINE v == StaleBy(row[Agg], 1)
  <1>0. row \in [Periods -> Rows] /\ Agg \in Periods
    BY RollupAssumption DEF Typed, Agg, Periods
  <1>1. v \in Rows /\ Eased(row[Agg], v)
    BY <1>0, StaleRow
  <1>2. row' = [row EXCEPT ![Agg] = v] /\ UNCHANGED outbox /\ Step(b, Done(b)) /\ UNCHANGED <<text, born, rd>>
    BY Frozen DEF stale_aggregates_for_day
  <1> HIDE DEF v
  <1>3. row' \in [Periods -> Rows]
    BY <1>0, <1>1, <1>2
  <1>4. \A x \in Periods : Eased(row[x], row'[x])
    <2>1. \A x \in Periods : Eased(row[x], row[x])
      BY DEF Eased
    <2>2. \A x \in Periods : row'[x] = IF x = Agg THEN v ELSE row[x]
      BY <1>0, <1>2
    <2> QED BY <1>1, <2>1, <2>2
  <1>5. Done(b) \in Locals /\ Quiet(Done(b))
    BY DoneQuiet DEF stale_aggregates_for_day, At, Working, Selects
  <1> QED BY <1>2, <1>3, <1>4, <1>5, EasedStep

(* The claim takes the lease from whoever held it. *)
LEMMA UpsertStep ==
    ASSUME Typed, NEW b \in Builders, upsert_building(b)
    PROVE  Typed' /\ (Right => Right')
  <1> DEFINE p == Target(b)
             r == row[p]
             g == IF r.st = "none" THEN 0 ELSE (r.gen + 1) % GenBound
             v == [r EXCEPT !.st = "building", !.gen = g, !.nonce = b, !.late = FALSE]
             l == [bld[b] EXCEPT !.gen = g, !.pc = IF p = Agg THEN "statuses" ELSE "sources"]
  <1>0. Working(bld[b])
    BY DEF upsert_building, At, Working, Selects
  <1>1. p \in Periods /\ r \in Rows /\ bld[b] \in Locals /\ row \in [Periods -> Rows]
    BY <1>0, TargetFacts DEF Typed
  <1>2. r \in [st : {"none", "stale", "building", "ready", "failed"}, gen : Gens,
               nonce : Builders \cup {NoNonce}, late : BOOLEAN, built : Lines]
    BY <1>1 DEF Rows
  <1>3. g \in Gens
    <2>1. r.gen + 1 \in Int
      BY <1>2, RollupAssumption DEF Gens
    <2> QED BY <2>1, GenFacts
  <1>4. row' = [row EXCEPT ![p] = v] /\ Step(b, l) /\ UNCHANGED outbox /\ UNCHANGED <<text, born, rd>>
    BY Frozen DEF upsert_building
  <1>5. l \in Locals /\ Quiet(l)
    <2>1. bld[b] \in LocalsType /\ Len(bld[b].todo) <= PerPass /\ bld[b].todo # <<>>
      BY <1>0, <1>1, LocalsFacts
    <2> HIDE DEF g
    <2>2. l \in LocalsType /\ l.todo = bld[b].todo /\ l.pc = IF p = Agg THEN "statuses" ELSE "sources"
      BY <1>3, <2>1 DEF LocalsType, Selects
    <2> HIDE DEF l
    <2>3. l \in Locals
      BY <2>1, <2>2, MakeLocals DEF Target
    <2> QED BY <2>2, <2>3 DEF Quiet
  <1> HIDE DEF g, l
  <1>6. v \in Rows /\ v.st = "building" /\ v.nonce = b /\ v.built = row[p].built
    <2> HIDE DEF r
    <2> DEFINE T == [st : {"none", "stale", "building", "ready", "failed"}, gen : Gens,
                     nonce : Builders \cup {NoNonce}, late : BOOLEAN, built : Lines]
    <2>1. r \in T
      BY <1>2
    <2>2. v.st = "building" /\ v.nonce = b /\ v.built = r.built
      BY <2>1
    <2>3. v \in T
      BY <1>3, <2>1
    <2>4. b # NoNonce
      BY RollupAssumption
    <2> HIDE DEF v
    <2>5. v \in Rows
      BY <2>2, <2>3, <2>4 DEF Rows
    <2> QED BY <2>2, <2>5 DEF r
  <1> HIDE DEF v, r, p
  <1>8. row' \in [Periods -> Rows] /\ \A x \in Periods : row'[x] = IF x = p THEN v ELSE row[x]
    BY <1>1, <1>4, <1>6
  <1>10. Moves(row, row', text, outbox, outbox)
    BY <1>6, <1>8 DEF Moves
  <1>11. \A c \in Builders \ {b} : LeaseKept(row, row', c)
    BY <1>6, <1>8 DEF LeaseKept
  <1>12. outbox' = outbox /\ outbox' \in Seq(Events)
    BY <1>4 DEF Typed
  <1>13. BuildIsRight(l, b, row', text, outbox')
    BY <1>5, NothingRead DEF Quiet
  <1> QED BY <1>4, <1>5, <1>8, <1>10, <1>11, <1>12, <1>13, BuilderStep

-----------------------------------------------------------------------------
(* What a builder reads.                                                   *)

(* The frontier of the module is the one of the texts. *)
LEMMA FrontierIs ==
    /\ Live = LiveOf(text)
    /\ \A S : Canonical(S) = CanonOf(text, S) /\ Texts(S) = TextsOf(text, S)
    /\ \A d : Sources(d) = SourcesOf(text, d)
    /\ \A p : Content(p) = ContentOf(text, p) /\ Owed(p) = OwedBy(outbox, p)
  <1>1. Live = LiveOf(text)
    BY DEF Live, LiveOf
  <1>2. Terminal = TermOf(text)
    BY DEF Terminal, TermOf, TermBody
  <1>3. \A S : Canonical(S) = CanonOf(text, S)
    BY <1>2 DEF Canonical, CanonOf
  <1>4. \A S : Texts(S) = TextsOf(text, S)
    BY DEF Texts, TextsOf
  <1>5. \A d : Sources(d) = SourcesOf(text, d)
    BY <1>1, <1>3 DEF Sources, SourcesOf
  <1>6. \A p : Content(p) = ContentOf(text, p)
    BY <1>1, <1>3, <1>5 DEF Content, ContentOf
  <1>7. \A p : Owed(p) = OwedBy(outbox, p)
    BY DEF Owed, OwedBy
  <1> QED BY <1>1, <1>3, <1>4, <1>5, <1>6, <1>7

(* A canonical frontier is part of its set, and canonical itself. *)
LEMMA CanonFacts ==
    ASSUME NEW t, NEW S
    PROVE  CanonOf(t, S) \subseteq S /\ CanonOf(t, CanonOf(t, S)) = CanonOf(t, S)
  BY DEF CanonOf

(* The texts of nodes are well typed. *)
LEMMA TextsType ==
    ASSUME NEW t \in [Nodes -> Nat], NEW S, S \subseteq Nodes
    PROVE  TextsOf(t, S) \in Lines
  BY DEF TextsOf, Lines

(* The days together have what is due for the aggregate. *)
LEMMA DaysMakeAgg ==
    ASSUME NEW t, NEW D, D \subseteq Days, \A d \in Days \ D : Due(t, d) = {}
    PROVE  UNION {Due(t, d) : d \in D} = Due(t, Agg)
  <1> DEFINE C == CanonOf(t, LiveOf(t))
  <1>0. /\ Days \subseteq Int /\ Agg \notin Days /\ C \subseteq Nodes
        /\ \A n \in Nodes : First[n] \in Days /\ Last[n] \in Days /\ First[n] <= Last[n]
    <2>1. C \subseteq LiveOf(t) /\ LiveOf(t) \subseteq Nodes
      BY CanonFacts DEF LiveOf
    <2> QED BY <2>1, RollupAssumption DEF Days, Agg
  <1>1. Due(t, Agg) = {<<n, t[n]>> : n \in C}
    BY DEF Due, TextsOf, ContentOf
  <1>2. \A d \in Days : Due(t, d) = {<<n, t[n]>> : n \in SourcesOf(t, d)}
    BY <1>0 DEF Due, TextsOf, ContentOf
  <1>3. \A d \in Days : SourcesOf(t, d) = {n \in C : First[n] <= d /\ d <= Last[n]}
    BY DEF SourcesOf
  <1> HIDE DEF C
  <1>4. ASSUME NEW n \in C PROVE \E d \in D : <<n, t[n]>> \in Due(t, d)
    <2> DEFINE d == First[n]
    <2>1. d \in Days /\ First[n] <= d /\ d <= Last[n]
      <3>1. n \in Nodes
        BY <1>0
      <3>2. First[n] \in Days /\ First[n] <= Last[n] /\ First[n] \in Int
        BY <1>0, <3>1
      <3> QED BY <3>2
    <2> HIDE DEF d
    <2>2. <<n, t[n]>> \in Due(t, d)
      BY <1>2, <1>3, <2>1
    <2>3. d \in D
      BY <2>1, <2>2
    <2> QED BY <2>2, <2>3
  <1>5. ASSUME NEW d \in D PROVE Due(t, d) \subseteq Due(t, Agg)
    BY <1>1, <1>2, <1>3
  <1>6. Due(t, Agg) \subseteq UNION {Due(t, d) : d \in D}
    <2> SUFFICES ASSUME NEW x \in Due(t, Agg) PROVE \E d \in D : x \in Due(t, d)
      OBVIOUS
    <2>1. PICK n \in C : x = <<n, t[n]>>
      BY <1>1
    <2> QED BY <1>4, <2>1
  <1> QED BY <1>5, <1>6

(* Reading the aggregate's frontier from what is due gives what is due. *)
LEMMA AggReadsBack ==
    ASSUME NEW t, NEW have, have = Due(t, Agg)
    PROVE  TextsOf(t, CanonOf(t, NodesOf(have) \cap LiveOf(t))) = Due(t, Agg)
  <1> DEFINE C == CanonOf(t, LiveOf(t))
  <1>1. Due(t, Agg) = TextsOf(t, C)
    BY DEF Due, ContentOf
  <1>2. C \subseteq LiveOf(t) /\ CanonOf(t, C) = C
    BY CanonFacts
  <1> HIDE DEF C
  <1>3. NodesOf(have) = C
    <2>1. have = {<<n, t[n]>> : n \in C}
      BY <1>1 DEF TextsOf
    <2>2. ASSUME NEW x \in have PROVE x[1] \in C
      BY <2>1
    <2>3. ASSUME NEW n \in C PROVE \E x \in have : n = x[1]
      <3>1. <<n, t[n]>> \in have /\ <<n, t[n]>>[1] = n
        BY <2>1
      <3> QED BY <3>1
    <2> QED BY <2>2, <2>3 DEF NodesOf
  <1>4. NodesOf(have) \cap LiveOf(t) = C
    BY <1>2, <1>3
  <1> QED BY <1>1, <1>2, <1>4

(* A builder that goes on with its target. *)
LEMMA NextLocals ==
    ASSUME NEW l \in Locals, Working(l), NEW m \in LocalsType, m.todo = l.todo,
           m.pc \in Loose \/ (m.pc \in {"content", "gather", "canonical"} /\ Head(l.todo) = Agg)
    PROVE  m \in Locals
  <1>1. Len(l.todo) <= PerPass /\ l.todo # <<>>
    BY LocalsFacts
  <1>2. m.pc # "sources" /\ (m.pc \in {"statuses", "content", "gather", "canonical"} => Head(m.todo) = Agg)
    BY DEF Loose
  <1> QED BY <1>1, <1>2, MakeLocals

(* A day is read: what is read is what is due. *)
LEMMA ReadDayStep ==
    ASSUME Typed, NEW b \in Builders, ReadDay(b)
    PROVE  Typed' /\ (Right => Right')
  <1> DEFINE o == bld[b]
             p == Target(b)
             S == Sources(p)
             h == Texts(S)
             pc == IF Ambiguous(Live) THEN "fail" ELSE IF S = {} THEN "resolve" ELSE "publish"
             l == [o EXCEPT !.have = h, !.pc = pc]
  <1>0. Working(o) /\ o.pc = "sources"
    BY DEF ReadDay, At, Working, Selects
  <1>1. p \in Periods /\ o \in Locals /\ o \in LocalsType /\ p # Agg /\ p = Head(o.todo)
    <2>1. p \in Periods /\ o \in Locals
      BY <1>0, TargetFacts
    <2>2. o \in LocalsType /\ Aimed(o)
      BY <2>1, LocalsFacts
    <2> QED BY <1>0, <2>1, <2>2 DEF Aimed, Target
  <1>2. text \in [Nodes -> Nat]
    BY DEF Typed
  <1>3. Due(text, p) = h /\ h \in Lines /\ (S = {} => h = {})
    <2>1. S = SourcesOf(text, p) /\ h = TextsOf(text, S)
      BY FrontierIs
    <2>2. S \subseteq Nodes
      BY <2>1, CanonFacts DEF SourcesOf, LiveOf
    <2>3. h = Due(text, p)
      BY <1>1, <2>1 DEF Due, ContentOf
    <2>4. h \in Lines
      <3> HIDE DEF S, h
      <3> QED BY <1>2, <2>1, <2>2, TextsType
    <2>5. S = {} => h = {}
      BY DEF Texts
    <2> QED BY <2>3, <2>4, <2>5
  <1>4. Step(b, l) /\ ReadOnly /\ UNCHANGED <<text, born, rd>>
    BY Frozen DEF ReadDay
  <1>5. pc \in {"fail", "resolve", "publish"} /\ (pc = "resolve" => S = {})
    OBVIOUS
  <1> HIDE DEF S, h, pc, p
  <1>6. l \in LocalsType /\ l.todo = o.todo /\ l.pc = pc /\ l.have = h
    BY <1>1, <1>3, <1>5 DEF LocalsType, Selects
  <1> HIDE DEF l
  <1>7. l \in Locals
    BY <1>0, <1>1, <1>5, <1>6, NextLocals DEF Loose
  <1>8. BuildIsRight(l, b, row, text, outbox)
    <2>1. l.pc = "publish" => l.have = Due(text, Head(l.todo))
      BY <1>1, <1>3, <1>6
    <2>2. l.pc = "resolve" => Due(text, Head(l.todo)) = {}
      BY <1>1, <1>3, <1>5, <1>6
    <2>3. l.pc \notin {"content", "gather", "canonical"}
      BY <1>5, <1>6
    <2> QED BY <2>1, <2>2, <2>3 DEF BuildIsRight
  <1> QED BY <1>4, <1>7, <1>8, ReadOnlyStep

(* An aggregate reads which days are ready: those are current, unless an event is pending. *)
LEMMA ReadStatusesStep ==
    ASSUME Typed, NEW b \in Builders, ReadStatuses(b)
    PROVE  Typed' /\ (Right => Right')
  <1> DEFINE o == bld[b]
             D == {d \in Days : row[d].st = "ready"}
             l == [o EXCEPT !.days = D, !.pc = "content"]
  <1>0. Working(o) /\ o.pc = "statuses"
    BY DEF ReadStatuses, At, Working, Selects
  <1>1. o \in Locals /\ o \in LocalsType /\ Head(o.todo) = Agg
    <2>1. o \in Locals
      BY DEF Typed
    <2>2. o \in LocalsType /\ Aimed(o)
      BY <2>1, LocalsFacts
    <2> QED BY <1>0, <2>1, <2>2 DEF Aimed
  <1>2. Step(b, l) /\ ReadOnly /\ UNCHANGED <<text, born, rd>>
    BY Frozen DEF ReadStatuses
  <1>3. D \subseteq Days /\ \A d \in D : row[d].st = "ready"
    OBVIOUS
  <1> HIDE DEF D
  <1>4. l \in LocalsType /\ l.todo = o.todo /\ l.pc = "content" /\ l.days = D
    BY <1>1, <1>3 DEF LocalsType, Selects
  <1> HIDE DEF l
  <1>5. l \in Locals
    BY <1>0, <1>1, <1>4, NextLocals
  <1>6. ASSUME Right PROVE BuildIsRight(l, b, row, text, outbox)
    <2>1. Days \subseteq Periods
      BY RollupAssumption DEF Days, Periods
    <2>2. ASSUME ~ OwedBy(outbox, Agg), NEW d \in D PROVE row[d].built = Due(text, d)
      <3>1. d \in Periods /\ ~ OwedBy(outbox, d)
        BY <1>3, <2>1, <2>2 DEF OwedBy
      <3>2. RowIsRight(row[d], text, outbox, d)
        BY <1>6, <3>1 DEF Right, RowsRight
      <3> QED BY <1>3, <3>1, <3>2 DEF RowIsRight
    <2> QED BY <1>1, <1>4, <2>2 DEF BuildIsRight
  <1> QED BY <1>2, <1>5, <1>6, ReadOnlyStep

(* An aggregate reads which days have content: the others have nothing due. *)
LEMMA ReadContentStep ==
    ASSUME Typed, NEW b \in Builders, ReadContent(b)
    PROVE  Typed' /\ (Right => Right')
  <1> DEFINE o == bld[b]
             content == {d \in Days : Sources(d) # {}}
             pc == IF Ambiguous(Live) THEN "fail"
                   ELSE IF ~ content \subseteq o.days THEN "defer"
                   ELSE IF o.days = {} THEN "resolve" ELSE "gather"
             l == [o EXCEPT !.pc = pc]
  <1>0. Working(o) /\ o.pc = "content"
    BY DEF ReadContent, At, Working, Selects
  <1>1. o \in Locals /\ o \in LocalsType /\ Head(o.todo) = Agg /\ o.days \subseteq Days
    <2>1. o \in Locals
      BY DEF Typed
    <2> QED BY <1>0, <2>1, LocalsFacts
  <1>2. Step(b, l) /\ ReadOnly /\ UNCHANGED <<text, born, rd>>
    BY Frozen DEF ReadContent, Goto
  <1>3. /\ pc \in {"fail", "defer", "resolve", "gather"}
        /\ pc \in {"resolve", "gather"} => content \subseteq o.days
        /\ pc = "resolve" => o.days = {}
    OBVIOUS
  <1>4. \A d \in Days : d \notin content => Due(text, d) = {}
    <2> SUFFICES ASSUME NEW d \in Days, Sources(d) = {} PROVE Due(text, d) = {}
      OBVIOUS
    <2>1. d # Agg /\ SourcesOf(text, d) = {}
      BY FrontierIs, RollupAssumption DEF Agg, Days
    <2> QED BY <2>1 DEF Due, ContentOf, TextsOf
  <1> HIDE DEF content, pc
  <1>5. l \in LocalsType /\ l.todo = o.todo /\ l.pc = pc /\ l.days = o.days
    BY <1>1, <1>3 DEF LocalsType, Selects
  <1> HIDE DEF l
  <1>6. l \in Locals
    BY <1>0, <1>1, <1>3, <1>5, NextLocals DEF Loose
  <1>7. ASSUME Right PROVE BuildIsRight(l, b, row, text, outbox)
    <2>1. BuildIsRight(o, b, row, text, outbox)
      BY <1>0, <1>7 DEF Right, BuildsRight
    <2>2. pc = "resolve" => Due(text, Agg) = {}
      <3> SUFFICES ASSUME pc = "resolve" PROVE Due(text, Agg) = {}
        OBVIOUS
      <3>1. \A d \in Days : Due(text, d) = {}
        BY <1>3, <1>4
      <3> DEFINE E == {}
      <3>2. E \subseteq Days /\ \A d \in Days \ E : Due(text, d) = {}
        BY <3>1
      <3> HIDE DEF E
      <3>3. UNION {Due(text, d) : d \in E} = Due(text, Agg)
        BY <3>2, DaysMakeAgg
      <3> QED BY <3>3 DEF E
    <2>3. pc = "gather" => \A d \in Days \ o.days : Due(text, d) = {}
      BY <1>3, <1>4
    <2>4. ASSUME Holds(row, l, b), ~ OwedBy(outbox, Head(l.todo)), NEW d \in o.days
          PROVE  row[d].built = Due(text, d)
      <3>1. Holds(row, o, b) /\ ~ OwedBy(outbox, Head(o.todo))
        BY <1>5, <2>4 DEF Holds
      <3> QED BY <1>0, <2>1, <2>4, <3>1 DEF BuildIsRight
    <2>5. l.pc \notin {"publish", "content", "canonical"}
      BY <1>3, <1>5
    <2> QED BY <1>1, <1>5, <2>2, <2>3, <2>4, <2>5 DEF BuildIsRight
  <1> QED BY <1>2, <1>6, <1>7, ReadOnlyStep

(* An aggregate gathers what its days were built from: what is due for it. *)
LEMMA ReadConstituentsStep ==
    ASSUME Typed, NEW b \in Builders, ReadConstituents(b)
    PROVE  Typed' /\ (Right => Right')
  <1> DEFINE o == bld[b]
             h == UNION {row[d].built : d \in o.days}
             l == [o EXCEPT !.have = h, !.pc = "canonical"]
  <1>0. Working(o) /\ o.pc = "gather"
    BY DEF ReadConstituents, At, Working, Selects
  <1>1. o \in Locals /\ o \in LocalsType /\ Head(o.todo) = Agg /\ o.days \subseteq Days
    <2>1. o \in Locals
      BY DEF Typed
    <2> QED BY <1>0, <2>1, LocalsFacts
  <1>2. Step(b, l) /\ ReadOnly /\ UNCHANGED <<text, born, rd>>
    BY Frozen DEF ReadConstituents
  <1>3. h \in Lines
    <2>1. \A d \in o.days : d \in Periods
      BY <1>1, RollupAssumption DEF Days, Periods
    <2>2. \A d \in o.days : row[d].built \in Lines
      BY <2>1 DEF Typed, Rows
    <2> QED BY <2>2 DEF Lines
  <1>4. ASSUME Right, Holds(row, o, b), ~ OwedBy(outbox, Agg) PROVE h = Due(text, Agg)
    <2>1. BuildIsRight(o, b, row, text, outbox)
      BY <1>0, <1>4 DEF Right, BuildsRight
    <2>2. /\ \A d \in o.days : row[d].built = Due(text, d)
          /\ \A d \in Days \ o.days : Due(text, d) = {}
      BY <1>0, <1>1, <1>4, <2>1 DEF BuildIsRight
    <2> DEFINE D == o.days
    <2>3. h = UNION {Due(text, d) : d \in D}
      BY <2>2
    <2>4. D \subseteq Days /\ \A d \in Days \ D : Due(text, d) = {}
      BY <1>1, <2>2
    <2> HIDE DEF D, h
    <2> QED BY <2>3, <2>4, DaysMakeAgg
  <1> HIDE DEF h
  <1>5. l \in LocalsType /\ l.todo = o.todo /\ l.pc = "canonical" /\ l.have = h
    BY <1>1, <1>3 DEF LocalsType, Selects
  <1> HIDE DEF l
  <1>6. l \in Locals
    BY <1>0, <1>1, <1>5, NextLocals
  <1>7. ASSUME Right PROVE BuildIsRight(l, b, row, text, outbox)
    <2>1. Holds(row, l, b) /\ ~ OwedBy(outbox, Head(l.todo)) => l.have = Due(text, Agg)
      BY <1>1, <1>4, <1>5, <1>7 DEF Holds
    <2> QED BY <1>5, <2>1 DEF BuildIsRight
  <1> QED BY <1>2, <1>6, <1>7, ReadOnlyStep

(* The canonical frontier of what was gathered is what is due for the aggregate. *)
LEMMA ReadCanonicalStep ==
    ASSUME Typed, NEW b \in Builders, ReadCanonical(b)
    PROVE  Typed' /\ (Right => Right')
  <1> DEFINE o == bld[b]
             S == NodesOf(o.have) \cap Live
             h == Texts(Canonical(S))
             pc == IF Ambiguous(S) THEN "fail" ELSE IF S = {} THEN "defer" ELSE "publish"
             l == [o EXCEPT !.have = h, !.pc = pc]
  <1>0. Working(o) /\ o.pc = "canonical"
    BY DEF ReadCanonical, At, Working, Selects
  <1>1. o \in Locals /\ o \in LocalsType /\ Head(o.todo) = Agg
    <2>1. o \in Locals
      BY DEF Typed
    <2> QED BY <1>0, <2>1, LocalsFacts
  <1>2. Step(b, l) /\ ReadOnly /\ UNCHANGED <<text, born, rd>>
    BY Frozen DEF ReadCanonical
  <1>3. h = TextsOf(text, CanonOf(text, S)) /\ Live = LiveOf(text)
    BY FrontierIs
  <1>4. h \in Lines
    <2> DEFINE C == CanonOf(text, S)
    <2>1. C \subseteq Nodes
      BY <1>3, CanonFacts DEF LiveOf
    <2>2. text \in [Nodes -> Nat] /\ h = TextsOf(text, C)
      BY <1>3 DEF Typed
    <2> HIDE DEF C, h
    <2> QED BY <2>1, <2>2, TextsType
  <1>5. o.have = Due(text, Agg) => h = Due(text, Agg)
    <2> DEFINE w == o.have
    <2>1. S = NodesOf(w) \cap LiveOf(text)
      BY <1>3
    <2>2. w = Due(text, Agg) => TextsOf(text, CanonOf(text, NodesOf(w) \cap LiveOf(text))) = Due(text, Agg)
      <3> HIDE DEF w
      <3> QED BY AggReadsBack
    <2> QED BY <1>3, <2>1, <2>2
  <1>6. pc \in {"fail", "defer", "publish"}
    OBVIOUS
  <1> HIDE DEF h, pc, S
  <1>7. l \in LocalsType /\ l.todo = o.todo /\ l.pc = pc /\ l.have = h
    BY <1>1, <1>4, <1>6 DEF LocalsType, Selects
  <1> HIDE DEF l
  <1>8. l \in Locals
    BY <1>0, <1>1, <1>6, <1>7, NextLocals DEF Loose
  <1>9. ASSUME Right PROVE BuildIsRight(l, b, row, text, outbox)
    <2>1. BuildIsRight(o, b, row, text, outbox)
      BY <1>0, <1>9 DEF Right, BuildsRight
    <2>2. Holds(row, l, b) /\ ~ OwedBy(outbox, Head(l.todo)) => o.have = Due(text, Agg)
      BY <1>0, <1>1, <1>7, <2>1 DEF BuildIsRight, Holds
    <2>3. l.pc \notin {"resolve", "content", "gather", "canonical"}
      BY <1>6, <1>7
    <2> QED BY <1>1, <1>5, <1>7, <2>2, <2>3 DEF BuildIsRight
  <1> QED BY <1>2, <1>8, <1>9, ReadOnlyStep

-----------------------------------------------------------------------------
(* What a builder publishes.                                               *)

(* A row that does not exist is well typed. *)
LEMMA NoRowType ==
    NoRow \in Rows /\ NoRow.st = "none" /\ NoRow.built = {}
  <1>1. 0 \in Gens /\ {} \in Lines
    BY GenFacts DEF Lines
  <1> QED BY <1>1 DEF NoRow, Rows

\* An event that will stale a period is pending for it.
LEMMA OwedIsPending ==
    ASSUME outbox \in Seq(Events), NEW p \in Periods, OwedBy(outbox, p)
    PROVE  Pending(p)
  <1>1. PICK k \in DOMAIN outbox : p = Agg \/ (outbox[k].next <= p /\ p <= outbox[k].last)
    BY DEF OwedBy
  <1>2. outbox[k] \in Events /\ p \in Int
    BY RollupAssumption DEF Periods
  <1>3. outbox[k].first \in Int /\ outbox[k].next \in Int /\ outbox[k].first <= outbox[k].next
    BY <1>2, EventFacts
  <1>4. p = Agg \/ (outbox[k].first <= p /\ p <= outbox[k].last)
    BY <1>1, <1>2, <1>3
  <1> QED BY <1>4 DEF Pending

(* A guarded update of the target, in general. *)
LEMMA GuardedMoves ==
    ASSUME Typed, NEW b \in Builders, Working(bld[b]), NEW v \in Rows, Guarded(b, v),
           v.st # "building",
           Right /\ Owns(b) =>
             \/ Eased(row[Target(b)], v)
             \/ v.st = "ready" /\ ~ OwedBy(outbox, Target(b)) /\ v.built = Due(text, Target(b))
             \/ v.st = "none" /\ v.built = {} /\ (OwedBy(outbox, Target(b)) \/ Due(text, Target(b)) = {})
    PROVE  /\ row' \in [Periods -> Rows] /\ outbox' = outbox /\ outbox \in Seq(Events)
           /\ Right => Moves(row, row', text, outbox, outbox')
           /\ \A c \in Builders \ {b} : LeaseKept(row, row', c)
  <1> DEFINE p == Target(b)
  <1>1. p \in Periods /\ row \in [Periods -> Rows] /\ outbox \in Seq(Events)
    BY TargetFacts DEF Typed
  <1>2. outbox' = outbox /\ row' = IF Owns(b) THEN [row EXCEPT ![p] = v] ELSE row
    BY DEF Guarded
  <1>3. CASE ~ Owns(b)
    <2>1. row' = row
      BY <1>2, <1>3
    <2>2. \A x \in Periods : Eased(row[x], row'[x])
      BY <2>1 DEF Eased
    <2>3. Moves(row, row', text, outbox, outbox) /\ \A c \in Builders : LeaseKept(row, row', c)
      BY <2>2, EasedMoves
    <2> QED BY <1>1, <1>2, <2>1, <2>3
  <1>4. CASE Owns(b)
    <2>1. row' = [row EXCEPT ![p] = v]
      BY <1>2, <1>4
    <2> HIDE DEF p
    <2>2. row' \in [Periods -> Rows] /\ \A x \in Periods : row'[x] = IF x = p THEN v ELSE row[x]
      BY <1>1, <2>1
    <2>3. \A c \in Builders : LeaseKept(row, row', c)
      BY <2>2 DEF LeaseKept
    <2>4. ASSUME Right PROVE Moves(row, row', text, outbox, outbox)
      <3>1. \/ Eased(row[p], v)
            \/ v.st = "ready" /\ ~ OwedBy(outbox, p) /\ v.built = Due(text, p)
            \/ v.st = "none" /\ v.built = {} /\ (OwedBy(outbox, p) \/ Due(text, p) = {})
        BY <1>4, <2>4 DEF p
      <3> QED BY <2>2, <3>1 DEF Moves, Eased
    <2> QED BY <1>1, <1>2, <2>2, <2>3, <2>4
  <1> QED BY <1>3, <1>4

(* A row is deleted by its token: nothing is due, or an event will seed it again. *)
LEMMA ResolveStep ==
    ASSUME Typed, NEW b \in Builders, resolve_no_source(b)
    PROVE  Typed' /\ (Right => Right')
  <1>0. Working(bld[b]) /\ bld[b].pc = "resolve"
    BY DEF resolve_no_source, At, Working, Selects
  <1>1. Guarded(b, NoRow) /\ Step(b, Done(b)) /\ UNCHANGED <<text, born, rd>>
    BY Frozen DEF resolve_no_source
  <1>2. ASSUME Right, Owns(b)
        PROVE  OwedBy(outbox, Target(b)) \/ Due(text, Target(b)) = {}
    <2>1. BuildIsRight(bld[b], b, row, text, outbox)
      BY <1>0, <1>2 DEF Right, BuildsRight
    <2>2. Holds(row, bld[b], b)
      BY <1>2 DEF Owns, Holds, Target
    <2> QED BY <1>0, <2>1, <2>2 DEF BuildIsRight, Target
  <1>3. /\ row' \in [Periods -> Rows] /\ outbox' = outbox /\ outbox \in Seq(Events)
        /\ Right => Moves(row, row', text, outbox, outbox')
        /\ \A c \in Builders \ {b} : LeaseKept(row, row', c)
    <2> DEFINE v == NoRow
    <2>1. v \in Rows /\ v.st = "none" /\ v.built = {} /\ Guarded(b, v)
      BY <1>1, NoRowType
    <2> HIDE DEF v
    <2> QED BY <1>0, <1>2, <2>1, GuardedMoves
  <1>4. Done(b) \in Locals /\ Quiet(Done(b))
    BY <1>0, DoneQuiet
  <1>5. BuildIsRight(Done(b), b, row', text, outbox')
    BY <1>4, NothingRead DEF Quiet
  <1> QED BY <1>1, <1>3, <1>4, <1>5, BuilderStep

(* The row of a completed build is stale, or ready with what is due. *)
LEMMA PublishedRow ==
    ASSUME Typed, NEW b \in Builders, Working(bld[b])
    PROVE  /\ Published(b) \in Rows /\ Published(b).st # "building"
           /\ \/ Eased(row[Target(b)], Published(b))
              \/ /\ Published(b).st = "ready" /\ Published(b).built = bld[b].have
                 /\ ~ Pending(Target(b))
  <1> DEFINE r == row[Target(b)]
             h == bld[b].have
             T == [st : {"none", "stale", "building", "ready", "failed"}, gen : Gens,
                   nonce : Builders \cup {NoNonce}, late : BOOLEAN, built : Lines]
  <1>1. r \in Rows /\ bld[b] \in Locals
    BY TargetFacts
  <1>2. h \in Lines
    <2>1. bld[b] \in LocalsType
      BY <1>1, LocalsFacts
    <2> QED BY <2>1 DEF LocalsType, Selects
  <1>3. CASE Pending(Target(b)) \/ ~ NodesOf(h) \subseteq Live
    <2>1. Published(b) = StaleBy(r, 1)
      BY <1>3 DEF Published
    <2> HIDE DEF r
    <2>2. StaleBy(r, 1) \in Rows /\ Eased(r, StaleBy(r, 1)) /\ StaleBy(r, 1).st = "stale"
      BY <1>1, StaleRow
    <2> QED BY <2>1, <2>2 DEF r
  <1>4. CASE ~ Pending(Target(b)) /\ NodesOf(h) \subseteq Live
    <2> DEFINE w == [r EXCEPT !.st = "ready", !.nonce = NoNonce, !.late = FALSE]
               v == [w EXCEPT !.built = h]
    <2>1. Published(b) = v
      BY <1>4 DEF Published, Released
    <2>2. r \in T
      BY <1>1 DEF Rows
    <2> HIDE DEF r, h
    <2>3. w \in T /\ w.st = "ready" /\ w.nonce = NoNonce
      BY <2>2
    <2> HIDE DEF w
    <2>4. v \in T /\ v.st = "ready" /\ v.nonce = NoNonce /\ v.built = h
      BY <1>2, <2>3
    <2> HIDE DEF v
    <2>5. v \in Rows
      BY <2>4 DEF Rows
    <2> QED BY <1>4, <2>1, <2>4, <2>5 DEF h
  <1> QED BY <1>3, <1>4

(* A build is published. *)
LEMMA MarkReadyStep ==
    ASSUME Typed, NEW b \in Builders, mark_ready(b)
    PROVE  Typed' /\ (Right => Right')
  <1> DEFINE v == Published(b)
             p == Target(b)
  <1>0. Working(bld[b]) /\ bld[b].pc = "publish"
    BY DEF mark_ready, At, Working, Selects
  <1>1. Guarded(b, v) /\ UNCHANGED <<text, born, rd>>
    BY Frozen DEF mark_ready
  <1>2. /\ v \in Rows /\ v.st # "building"
        /\ Eased(row[p], v) \/ (v.st = "ready" /\ v.built = bld[b].have /\ ~ Pending(p))
    BY <1>0, PublishedRow
  <1>3. p \in Periods /\ outbox \in Seq(Events) /\ bld[b] \in Locals
    BY <1>0, TargetFacts DEF Typed
  <1> HIDE DEF v
  <1>4. ASSUME Right, Owns(b), ~ Eased(row[p], v)
        PROVE  v.st = "ready" /\ ~ OwedBy(outbox, p) /\ v.built = Due(text, p)
    <2>1. v.st = "ready" /\ v.built = bld[b].have /\ ~ OwedBy(outbox, p)
      BY <1>2, <1>3, <1>4, OwedIsPending
    <2>2. BuildIsRight(bld[b], b, row, text, outbox)
      BY <1>0, <1>4 DEF Right, BuildsRight
    <2>3. Holds(row, bld[b], b)
      BY <1>4 DEF Owns, Holds, Target
    <2>4. bld[b].have = Due(text, p)
      BY <1>0, <2>1, <2>2, <2>3 DEF BuildIsRight, Target
    <2> QED BY <2>1, <2>4
  <1>5. /\ row' \in [Periods -> Rows] /\ outbox' = outbox /\ outbox \in Seq(Events)
        /\ Right => Moves(row, row', text, outbox, outbox')
        /\ \A c \in Builders \ {b} : LeaseKept(row, row', c)
    BY <1>0, <1>1, <1>2, <1>4, GuardedMoves
  <1>6. CASE Goto(b, "restale")
    <2> DEFINE l == [bld[b] EXCEPT !.pc = "restale"]
    <2>1. l \in Locals /\ l.pc = "restale"
      BY <1>0, <1>3, GotoType DEF Loose
    <2>2. Step(b, l)
      BY <1>6 DEF Goto
    <2> HIDE DEF l
    <2>3. BuildIsRight(l, b, row', text, outbox')
      BY <2>1, NothingRead
    <2> QED BY <1>1, <1>5, <2>1, <2>2, <2>3, BuilderStep
  <1>7. CASE Step(b, Done(b))
    <2>1. Done(b) \in Locals /\ Quiet(Done(b))
      BY <1>0, DoneQuiet
    <2>2. BuildIsRight(Done(b), b, row', text, outbox')
      BY <2>1, NothingRead DEF Quiet
    <2> QED BY <1>1, <1>5, <1>7, <2>1, <2>2, BuilderStep
  <1> QED BY <1>6, <1>7 DEF mark_ready

(* Whatever a builder does. *)
LEMMA BuildStep ==
    ASSUME Typed, NEW b \in Builders,
           Pass(b) \/ Build(b) \/ StopPass(b) \/ DeferLevel3(b) \/ BuildRaises(b) \/ Abandon(b)
           \/ \E t \in RebuildTargets : Rebuild(b, t)
    PROVE  Typed' /\ (Right => Right')
  <1>1. CASE Pass(b)
    BY <1>1, StartPassStep, ReclaimStep, PickRowsStep DEF Pass
  <1>2. CASE StopPass(b) \/ Abandon(b)
    <2>1. Step(b, Idle) /\ ReadOnly /\ Outside
      BY <1>2 DEF StopPass, Abandon
    <2> QED BY <2>1, EndsStep
  <1>3. CASE BuildRaises(b)
    BY <1>3, BuildRaisesStep
  <1>4. CASE \E t \in RebuildTargets : Rebuild(b, t)
    BY <1>4, RebuildStep
  <1>5. CASE DeferLevel3(b)
    <2>1. Working(bld[b]) /\ Guarded(b, Released(b, "stale")) /\ Step(b, Done(b)) /\ Outside
      BY <1>5 DEF DeferLevel3, At, Working, Selects
    <2> QED BY <2>1, ReleaseStep
  <1>6. CASE defer_incomplete(b)
    <2>1. Working(bld[b]) /\ Guarded(b, Released(b, "stale")) /\ Step(b, Done(b)) /\ Outside
      BY <1>6 DEF defer_incomplete, At, Working, Selects
    <2> QED BY <2>1, ReleaseStep
  <1>7. CASE mark_failed(b)
    <2>1. Working(bld[b]) /\ Guarded(b, Released(b, "failed")) /\ Step(b, Done(b)) /\ Outside
      BY <1>7 DEF mark_failed, At, Working, Selects
    <2> QED BY <2>1, ReleaseStep
  <1>8. CASE BeginBuild(b) \/ upsert_building(b) \/ ReadDay(b) \/ ReadStatuses(b) \/ ReadContent(b)
    BY <1>8, BeginBuildStep, UpsertStep, ReadDayStep, ReadStatusesStep, ReadContentStep
  <1>9. CASE ReadConstituents(b) \/ ReadCanonical(b) \/ mark_ready(b)
             \/ stale_aggregates_for_day(b) \/ resolve_no_source(b)
    BY <1>9, ReadConstituentsStep, ReadCanonicalStep, MarkReadyStep, RestaleStep, ResolveStep
  <1> QED BY <1>1, <1>2, <1>3, <1>4, <1>5, <1>6, <1>7, <1>8, <1>9 DEF Build

-----------------------------------------------------------------------------
(* The steps outside a builder.                                            *)

(* A step that moves rows and nothing else. *)
LEMMA RowsStep ==
    ASSUME Typed, row' \in [Periods -> Rows], outbox' \in Seq(Events), UNCHANGED <<text, born, bld, rd>>,
           Moves(row, row', text, outbox, outbox'), \A c \in Builders : LeaseKept(row, row', c)
    PROVE  Typed' /\ (Right => Right')
  <1>0. text' = text /\ born' = born /\ bld' = bld /\ rd' = rd
    OBVIOUS
  <1>1. Typed'
    BY <1>0 DEF Typed
  <1>2. ASSUME Right PROVE Right'
    <2>1. \A p \in Periods : RowIsRight(row'[p], text, outbox', p)
      BY <1>2, RowStays DEF Right, RowsRight
    <2>2. \A r \in Readers : ReadIsRight(rd[r], row', text)
      BY <1>2, ReadStays DEF Right, ReadsRight
    <2>3. ASSUME NEW c \in Builders, Working(bld[c])
          PROVE  BuildIsRight(bld[c], c, row', text, outbox')
      <3>1. bld[c] \in Locals
        BY DEF Typed
      <3>2. BuildIsRight(bld[c], c, row, text, outbox)
        BY <1>2, <2>3 DEF Right, BuildsRight
      <3> QED BY <2>3, <3>1, <3>2, BuildStays
    <2> QED BY <1>0, <2>1, <2>2, <2>3 DEF Right, RowsRight, BuildsRight, ReadsRight
  <1> QED BY <1>1, <1>2

(* An engine drains after a publication. *)
LEMMA EngineDrainStep ==
    ASSUME Typed, EngineDrain
    PROVE  Typed' /\ (Right => Right')
  <1>0. row' = DrainedRows /\ outbox' = DrainedOutbox /\ UNCHANGED <<text, born, bld, rd>>
    BY DEF EngineDrain, drain_invalidations
  <1>1. row \in [Periods -> Rows] /\ outbox \in Seq(Events)
    BY DEF Typed
  <1>2. /\ DrainedRows \in [Periods -> Rows]
        /\ Moves(row, DrainedRows, text, outbox, DrainedOutbox)
        /\ \A c \in Builders : LeaseKept(row, DrainedRows, c)
    BY <1>1, DrainMoves
  <1>3. DrainedOutbox \in Seq(Events)
    BY <1>1, DrainLeaves
  <1> QED BY <1>0, <1>2, <1>3, RowsStep

(* A lease or a backoff runs out. *)
LEMMA ElapseStep ==
    ASSUME Typed, NEW p \in Periods, Elapse(p)
    PROVE  Typed' /\ (Right => Right')
  <1> DEFINE r == row[p]
             v == [r EXCEPT !.late = TRUE]
             T == [st : {"none", "stale", "building", "ready", "failed"}, gen : Gens,
                   nonce : Builders \cup {NoNonce}, late : BOOLEAN, built : Lines]
  <1>0. row' = [row EXCEPT ![p] = v] /\ UNCHANGED <<text, born, bld, rd>> /\ outbox' = outbox
    BY DEF Elapse
  <1>1. row \in [Periods -> Rows] /\ outbox \in Seq(Events) /\ r \in T
        /\ (r.nonce # NoNonce <=> r.st = "building")
    BY DEF Typed, Rows
  <1>2. v \in T /\ v.st = r.st /\ v.nonce = r.nonce /\ v.built = r.built
    <2> HIDE DEF r
    <2> QED BY <1>1
  <1> HIDE DEF v
  <1>3. v \in Rows /\ Eased(r, v)
    BY <1>1, <1>2 DEF Rows, Eased
  <1>4. row' \in [Periods -> Rows] /\ \A x \in Periods : row'[x] = IF x = p THEN v ELSE row[x]
    BY <1>0, <1>1, <1>3
  <1>5. \A x \in Periods : Eased(row[x], row'[x])
    <2>1. \A x \in Periods : Eased(row[x], row[x])
      BY DEF Eased
    <2> QED BY <1>3, <1>4, <2>1
  <1>6. Moves(row, row', text, outbox, outbox) /\ \A c \in Builders : LeaseKept(row, row', c)
    BY <1>5, EasedMoves
  <1> QED BY <1>0, <1>1, <1>4, <1>6, RowsStep

(* A step of a reader. *)
LEMMA ReaderStep ==
    ASSUME Typed, NEW r \in Readers, NEW l \in Reads, RdStep(r, l),
           Right => ReadIsRight(l, row, text)
    PROVE  Typed' /\ (Right => Right')
  <1>0. text' = text /\ born' = born /\ bld' = bld /\ row' = row /\ outbox' = outbox
        /\ rd' = [rd EXCEPT ![r] = l]
    BY DEF RdStep
  <1>1. rd \in [Readers -> Reads]
    BY DEF Typed
  <1>2. rd' \in [Readers -> Reads] /\ \A x \in Readers : rd'[x] = IF x = r THEN l ELSE rd[x]
    BY <1>0, <1>1
  <1>3. Typed'
    BY <1>0, <1>2 DEF Typed
  <1>4. ASSUME Right PROVE Right'
    <2>1. \A x \in Readers : ReadIsRight(rd'[x], row, text)
      BY <1>2, <1>4 DEF Right, ReadsRight
    <2>2. ReadsRight'
      BY <1>0, <2>1 DEF ReadsRight
    <2>3. RowsRight' /\ BuildsRight'
      BY <1>0, <1>4 DEF Right, RowsRight, BuildsRight
    <2> QED BY <2>2, <2>3 DEF Right
  <1> QED BY <1>3, <1>4

(* A reader between calls is well typed and has served nothing. *)
LEMMA NotReadingRight ==
    /\ NotReading \in Reads /\ NotReading.pc = "idle" /\ DOMAIN NotReading.served = {}
    /\ \A R, t : ReadIsRight(NotReading, R, t)
  <1>1. NotReading.pc = "idle" /\ DOMAIN NotReading.served = {}
    BY DEF NotReading
  <1>2. NotReading \in Reads
    <2> DEFINE s == [d \in Days |-> {}]
               e == [d \in {} |-> {}]
    <2>1. s \in [Days -> SUBSET Lines]
      OBVIOUS
    <2>2. e \in [{} -> Lines] /\ {} \in SUBSET Days
      OBVIOUS
    <2>3. e \in UNION {[D -> Lines] : D \in SUBSET Days}
      <3> HIDE DEF e
      <3> QED BY <2>2
    <2> HIDE DEF s, e
    <2> QED BY <2>1, <2>3 DEF NotReading, Reads, s, e
  <1>3. \A R, t : ReadIsRight(NotReading, R, t)
    BY <1>1 DEF ReadIsRight
  <1> QED BY <1>1, <1>2, <1>3

\* What is due for a day is the texts of its sources, and well typed.
LEMMA DueOfDay ==
    ASSUME Typed, NEW d \in Days
    PROVE  Texts(Sources(d)) = Due(text, d) /\ Due(text, d) \in Lines
  <1>1. d # Agg
    BY RollupAssumption DEF Days, Agg
  <1>2. Texts(Sources(d)) = TextsOf(text, SourcesOf(text, d)) /\ Due(text, d) = TextsOf(text, SourcesOf(text, d))
    BY <1>1, FrontierIs DEF Due, ContentOf
  <1>3. SourcesOf(text, d) \subseteq Nodes /\ text \in [Nodes -> Nat]
    BY CanonFacts DEF SourcesOf, LiveOf, Typed
  <1>4. TextsOf(text, SourcesOf(text, d)) \in Lines
    BY <1>3, TextsType
  <1> QED BY <1>2, <1>4

(* With no event pending, whatever is ready is current. *)
LEMMA ReadPendingStep ==
    ASSUME Typed, NEW r \in Readers, ReadPending(r)
    PROVE  Typed' /\ (Right => Right')
  <1> DEFINE s == [d \in Days |-> {Texts(Sources(d))}]
             l == [NotReading EXCEPT !.pc = "count", !.seen = s]
  <1>1. RdStep(r, l) /\ outbox = <<>>
    BY DEF ReadPending
  <1>2. s \in [Days -> SUBSET Lines] /\ \A d \in Days : s[d] = {Due(text, d)}
    BY DueOfDay
  <1> HIDE DEF s
  <1>3. l \in Reads /\ l.pc = "count" /\ l.seen = s /\ l.served = NotReading.served
    BY <1>2, NotReadingRight DEF Reads
  <1> HIDE DEF l
  <1>4. ASSUME Right PROVE ReadIsRight(l, row, text)
    <2>1. DOMAIN l.served = {}
      BY <1>3, NotReadingRight
    <2>2. ASSUME NEW d \in Days, row[d].st = "ready" PROVE row[d].built = Due(text, d)
      <3>1. d \in Periods
        BY RollupAssumption DEF Days, Periods
      <3>2. RowIsRight(row[d], text, outbox, d)
        BY <1>4, <3>1 DEF Right, RowsRight
      <3>3. ~ OwedBy(outbox, d)
        BY <1>1 DEF OwedBy
      <3> QED BY <2>2, <3>2, <3>3 DEF RowIsRight
    <2> QED BY <1>2, <1>3, <2>1, <2>2 DEF ReadIsRight
  <1> QED BY <1>1, <1>3, <1>4, ReaderStep

(* The count decides between the rollups and the leaves. *)
LEMMA ReadCountStep ==
    ASSUME Typed, NEW r \in Readers, ReadCount(r)
    PROVE  Typed' /\ (Right => Right')
  <1> DEFINE o == rd[r]
             l == [o EXCEPT !.pc = "rows"]
  <1>1. o \in Reads /\ o.pc = "count"
    BY DEF Typed, ReadCount
  <1>2. l \in Reads /\ l.seen = o.seen /\ l.served = o.served /\ l.pc = "rows"
    BY <1>1 DEF Reads
  <1>3. RdStep(r, l) \/ RdStep(r, NotReading)
    BY DEF ReadCount
  <1> HIDE DEF l
  <1>4. Right => ReadIsRight(l, row, text)
    BY <1>1, <1>2 DEF Right, ReadsRight, ReadIsRight
  <1> QED BY <1>2, <1>3, <1>4, NotReadingRight, ReaderStep

(* What is ready now has been seen. *)
LEMMA ReadRowsStep ==
    ASSUME Typed, NEW r \in Readers, ReadRows(r)
    PROVE  Typed' /\ (Right => Right')
  <1> DEFINE o == rd[r]
             D == {d \in Days : row[d].st = "ready"}
             s == [d \in D |-> row[d].built]
             l == [o EXCEPT !.pc = "served", !.served = s]
  <1>1. o \in Reads /\ o.pc = "rows"
    BY DEF Typed, ReadRows
  <1>2. s \in UNION {[E -> Lines] : E \in SUBSET Days}
    <2>1. D \in SUBSET Days
      OBVIOUS
    <2>2. \A d \in D : d \in Periods
      BY RollupAssumption DEF Days, Periods
    <2>3. \A d \in D : row[d].built \in Lines
      BY <2>2 DEF Typed, Rows
    <2>4. s \in [D -> Lines]
      BY <2>3
    <2> HIDE DEF s, D
    <2> QED BY <2>1, <2>4
  <1>3. RdStep(r, l) \/ RdStep(r, NotReading)
    BY DEF ReadRows
  <1>4. DOMAIN s = D /\ \A d \in D : d \in Days /\ row[d].st = "ready" /\ s[d] = row[d].built
    OBVIOUS
  <1> HIDE DEF s, D
  <1>5. l \in Reads /\ l.seen = o.seen /\ l.served = s /\ l.pc = "served"
    BY <1>1, <1>2 DEF Reads
  <1> HIDE DEF l
  <1>6. Right => ReadIsRight(l, row, text)
    BY <1>1, <1>4, <1>5 DEF Right, ReadsRight, ReadIsRight
  <1> QED BY <1>3, <1>5, <1>6, NotReadingRight, ReaderStep

(* The call returns. *)
LEMMA ReadReturnsStep ==
    ASSUME Typed, NEW r \in Readers, ReadReturns(r)
    PROVE  Typed' /\ (Right => Right')
  BY NotReadingRight, ReaderStep DEF ReadReturns

(* What is due after a step is a function of the texts after it. *)
LEMMA DueAfter ==
    ASSUME text' \in [Nodes -> Nat], NEW d \in Days
    PROVE  Texts(Sources(d))' = Due(text', d) /\ Due(text', d) \in Lines
  <1>0. d # Agg
    BY RollupAssumption DEF Days, Agg
  <1>1. Terminal' = TermOf(text')
    BY DEF Terminal, TermOf, TermBody
  <1>2. Canonical(Live)' = CanonOf(text', LiveOf(text'))
    BY <1>1 DEF Canonical, CanonOf, Live, LiveOf
  <1>3. Sources(d)' = SourcesOf(text', d)
    BY <1>2 DEF Sources, SourcesOf
  <1>4. Texts(Sources(d))' = TextsOf(text', SourcesOf(text', d))
    BY <1>3 DEF Texts, TextsOf
  <1>5. Due(text', d) = TextsOf(text', SourcesOf(text', d))
    BY <1>0 DEF Due, ContentOf
  <1>6. SourcesOf(text', d) \subseteq Nodes
    BY CanonFacts DEF SourcesOf, LiveOf
  <1>7. TextsOf(text', SourcesOf(text', d)) \in Lines
    BY <1>6, TextsType
  <1> QED BY <1>4, <1>5, <1>7

\* Only the text of n changes, and an event e joins the ones of the outbox q.
Edited(t, u, n) == \A m \in Nodes \ {n} : u[m] = t[m]
Adds(q, w, e) ==
    /\ \A k \in DOMAIN q : k \in DOMAIN w /\ w[k] = q[k]
    /\ \E j \in DOMAIN w : w[j] = e

(* The trigger's event stales every period whose content the mutation changes. *)
LEMMA EventOwes ==
    ASSUME NEW t \in [Nodes -> Nat], NEW u \in [Nodes -> Nat], ForestOf(t), ForestOf(u),
           NEW n \in Nodes, Edited(t, u, n), NEW q, NEW w, Adds(q, w, Event(n)),
           NEW p \in Periods, ~ OwedBy(w, p)
    PROVE  p \in Days /\ ~ OwedBy(q, p) /\ Due(u, p) = Due(t, p)
  <1>1. p # Agg /\ ~(First[n] <= p /\ p <= Last[n])
    BY DEF OwedBy, Event, Adds
  <1>2. p \in Days
    BY <1>1, RollupAssumption DEF Periods, Days, Agg
  <1>3. ~ OwedBy(q, p)
    BY DEF OwedBy, Adds
  <1>4. TextsOf(u, SourcesOf(u, p)) = TextsOf(t, SourcesOf(t, p))
    BY <1>1, <1>2, MutationIsLocal DEF Edited
  <1> QED BY <1>1, <1>2, <1>3, <1>4 DEF Due, ContentOf

(* The outbox after a mutation: the events that were there, then the node's. *)
LEMMA OutboxGrows ==
    ASSUME outbox \in Seq(Events), NEW n \in Nodes,
           outbox' = Append(outbox, Event(n)) \/ outbox' = outbox \o <<Event(n), Event(n)>>
    PROVE  /\ outbox' \in Seq(Events)
           /\ Adds(outbox, outbox', Event(n))
  <1> DEFINE e == Event(n)
  <1>1. e \in Events
    <2>1. First[n] \in Days /\ Last[n] \in Days /\ First[n] <= Last[n]
      BY RollupAssumption
    <2>2. First[n] <= First[n]
      BY <2>1, RollupAssumption DEF Days
    <2> QED BY <2>1, <2>2 DEF Events, Event
  <1> HIDE DEF e
  <1>2. CASE outbox' = Append(outbox, e)
    <2>1. outbox' \in Seq(Events) /\ Len(outbox') = Len(outbox) + 1
      BY <1>1, <1>2
    <2>2. \A k \in 1..Len(outbox) : k \in 1..Len(outbox') /\ outbox'[k] = outbox[k]
      BY <1>1, <1>2, <2>1
    <2>3. Len(outbox) + 1 \in 1..Len(outbox') /\ outbox'[Len(outbox) + 1] = e
      BY <1>1, <1>2, <2>1
    <2>4. DOMAIN outbox = 1..Len(outbox) /\ DOMAIN outbox' = 1..Len(outbox')
      BY <2>1
    <2> QED BY <2>1, <2>2, <2>3, <2>4 DEF e, Adds
  <1>3. CASE outbox' = outbox \o <<e, e>>
    <2> DEFINE s == <<e, e>>
    <2>0. s \in Seq(Events) /\ Len(s) = 2 /\ s[1] = e
      BY <1>1
    <2> HIDE DEF s
    <2>1. outbox' = outbox \o s
      BY <1>3 DEF s
    <2>2. outbox' \in Seq(Events) /\ Len(outbox') = Len(outbox) + 2
      <3>1. outbox \o s \in Seq(Events) /\ Len(outbox \o s) = Len(outbox) + Len(s)
        BY <2>0, ConcatProperties
      <3> QED BY <2>0, <2>1, <3>1
    <2>3. \A k \in 1..Len(outbox) : k \in 1..Len(outbox') /\ outbox'[k] = outbox[k]
      BY <2>0, <2>1, <2>2
    <2>4. Len(outbox) + 1 \in 1..Len(outbox') /\ outbox'[Len(outbox) + 1] = e
      BY <2>0, <2>1, <2>2
    <2>5. DOMAIN outbox = 1..Len(outbox) /\ DOMAIN outbox' = 1..Len(outbox')
      BY <2>2
    <2> QED BY <2>2, <2>3, <2>4, <2>5 DEF e, Adds
  <1> QED BY <1>2, <1>3 DEF e

(* A reader takes note of what the mutation makes due. *)
LEMMA ObserveType ==
    ASSUME rd \in [Readers -> Reads], text' \in [Nodes -> Nat], Observe
    PROVE  /\ rd' \in [Readers -> Reads]
           /\ \A r \in Readers :
                 /\ rd'[r].pc = rd[r].pc /\ rd'[r].served = rd[r].served
                 /\ rd[r].pc = "idle" => rd'[r] = rd[r]
                 /\ rd[r].pc # "idle" =>
                       \A d \in Days : rd'[r].seen[d] = rd[r].seen[d] \cup {Due(text', d)}
  <1> DEFINE now == [d \in Days |-> Texts(Sources(d))']
  <1>1. \A d \in Days : now[d] = Due(text', d) /\ Due(text', d) \in Lines
    BY DueAfter
  <1>2. rd' = [r \in Readers |->
                  IF rd[r].pc = "idle" THEN rd[r]
                  ELSE [rd[r] EXCEPT !.seen = [d \in Days |-> @[d] \cup {now[d]}]]]
    BY DEF Observe
  <1> HIDE DEF now
  <1>3. ASSUME NEW r \in Readers
        PROVE  /\ rd'[r] \in Reads
               /\ rd'[r].pc = rd[r].pc /\ rd'[r].served = rd[r].served
               /\ rd[r].pc = "idle" => rd'[r] = rd[r]
               /\ rd[r].pc # "idle" =>
                     \A d \in Days : rd'[r].seen[d] = rd[r].seen[d] \cup {Due(text', d)}
    <2> DEFINE o == rd[r]
               s == [d \in Days |-> o.seen[d] \cup {now[d]}]
               l == [o EXCEPT !.seen = s]
    <2>1. o \in Reads
      OBVIOUS
    <2>2. rd'[r] = IF o.pc = "idle" THEN o ELSE l
      BY <1>2
    <2> HIDE DEF o
    <2>3. s \in [Days -> SUBSET Lines] /\ \A d \in Days : s[d] = o.seen[d] \cup {Due(text', d)}
      BY <1>1, <2>1 DEF Reads
    <2> HIDE DEF s
    <2>4. l \in Reads /\ l.pc = o.pc /\ l.served = o.served /\ l.seen = s
      BY <2>1, <2>3 DEF Reads
    <2> HIDE DEF l
    <2>5. CASE o.pc = "idle"
      BY <2>1, <2>2, <2>5 DEF o
    <2>6. CASE o.pc # "idle"
      BY <2>2, <2>3, <2>4, <2>6 DEF o
    <2> QED BY <2>5, <2>6
  <1>4. rd' \in [Readers -> Reads]
    BY <1>2, <1>3
  <1> QED BY <1>3, <1>4

(* A mutation of a node. *)
LEMMA MutateStep ==
    ASSUME Typed, NEW n \in Nodes, NEW v \in Nat, text' = [text EXCEPT ![n] = v],
           outbox' = Append(outbox, Event(n)) \/ outbox' = outbox \o <<Event(n), Event(n)>>,
           Observe, born' \subseteq Nodes, UNCHANGED <<row, bld>>
    PROVE  Typed' /\ (Forest /\ Forest' /\ Right => Right')
  <1>0. row' = row /\ bld' = bld
    OBVIOUS
  <1>1. text \in [Nodes -> Nat] /\ text' \in [Nodes -> Nat] /\ Edited(text, text', n)
    BY DEF Typed, Edited
  <1>2. outbox' \in Seq(Events) /\ Adds(outbox, outbox', Event(n))
    BY OutboxGrows DEF Typed
  <1>3. /\ rd' \in [Readers -> Reads]
        /\ \A r \in Readers :
              /\ rd'[r].pc = rd[r].pc /\ rd'[r].served = rd[r].served
              /\ rd[r].pc = "idle" => rd'[r] = rd[r]
              /\ rd[r].pc # "idle" =>
                    \A d \in Days : rd'[r].seen[d] = rd[r].seen[d] \cup {Due(text', d)}
    BY <1>1, ObserveType DEF Typed
  <1>4. Typed'
    BY <1>0, <1>1, <1>2, <1>3 DEF Typed
  <1>5. ASSUME Forest, Forest', Right PROVE Right'
    <2>1. ASSUME NEW p \in Periods, ~ OwedBy(outbox', p)
          PROVE  p \in Days /\ ~ OwedBy(outbox, p) /\ Due(text', p) = Due(text, p)
      <3>1. ForestOf(text) /\ ForestOf(text')
        BY <1>5 DEF Forest
      <3> QED BY <1>1, <1>2, <2>1, <3>1, EventOwes
    <2>2. RowsRight'
      <3>1. ASSUME NEW p \in Periods PROVE RowIsRight(row[p], text', outbox', p)
        <4>1. RowIsRight(row[p], text, outbox, p)
          BY <1>5 DEF Right, RowsRight
        <4> QED BY <2>1, <4>1 DEF RowIsRight
      <3> QED BY <1>0, <3>1 DEF RowsRight
    <2>3. BuildsRight'
      <3>1. ASSUME NEW c \in Builders, Working(bld[c])
            PROVE  BuildIsRight(bld[c], c, row, text', outbox')
        <4> DEFINE l == bld[c]
        <4>1. l \in Locals /\ Working(l)
          BY <3>1 DEF Typed
        <4>2. BuildIsRight(l, c, row, text, outbox)
          BY <1>5, <3>1 DEF Right, BuildsRight
        <4> HIDE DEF l
        <4>3. /\ Head(l.todo) \in Periods /\ Agg \notin Days
              /\ l.pc \in {"content", "gather", "canonical"} => Head(l.todo) = Agg
          BY <4>1, LocalsFacts, RollupAssumption DEF Days, Agg
        <4> SUFFICES ASSUME ~ OwedBy(outbox', Head(l.todo)) PROVE BuildIsRight(l, c, row, text', outbox')
          BY DEF BuildIsRight, l
        <4>4. /\ Head(l.todo) \in Days /\ ~ OwedBy(outbox, Head(l.todo))
              /\ Due(text', Head(l.todo)) = Due(text, Head(l.todo))
          BY <2>1, <4>3
        <4>5. l.pc \notin {"content", "gather", "canonical"}
          BY <4>3, <4>4
        <4> QED BY <4>2, <4>4, <4>5 DEF BuildIsRight
      <3> QED BY <1>0, <3>1 DEF BuildsRight
    <2>4. ReadsRight'
      <3>1. ASSUME NEW r \in Readers PROVE ReadIsRight(rd'[r], row, text')
        <4>1. ReadIsRight(rd[r], row, text)
          BY <1>5 DEF Right, ReadsRight
        <4>2. rd[r] \in Reads
          BY DEF Typed
        <4>3. DOMAIN rd[r].served \subseteq Days
          BY <4>2 DEF Reads
        <4>4. CASE rd[r].pc = "idle"
          BY <1>3, <4>1, <4>4 DEF ReadIsRight
        <4>5. CASE rd[r].pc # "idle"
          <5>1. \A d \in Days : rd'[r].seen[d] = rd[r].seen[d] \cup {Due(text', d)}
            BY <1>3, <4>5
          <5>2. rd'[r].served = rd[r].served
            BY <1>3
          <5>3. \A d \in Days : /\ Due(text', d) \in rd'[r].seen[d]
                                /\ row[d].st = "ready" => row[d].built \in rd'[r].seen[d]
            BY <4>1, <4>5, <5>1 DEF ReadIsRight
          <5>4. \A d \in DOMAIN rd'[r].served : rd'[r].served[d] \in rd'[r].seen[d]
            BY <4>1, <4>3, <5>1, <5>2 DEF ReadIsRight
          <5> QED BY <5>3, <5>4 DEF ReadIsRight
        <4> QED BY <4>4, <4>5
      <3> QED BY <1>0, <3>1 DEF ReadsRight
    <2> QED BY <2>2, <2>3, <2>4 DEF Right
  <1> QED BY <1>4, <1>5

(* A node is published, deleted or rewritten. *)
LEMMA NodeStep ==
    ASSUME Typed, NEW n \in Nodes, InsertNode(n) \/ DeleteNode(n) \/ UpdateNode(n)
    PROVE  Typed' /\ (Forest /\ Forest' /\ Right => Right')
  <1>0. text \in [Nodes -> Nat] /\ born \subseteq Nodes
    BY DEF Typed
  <1>1. PICK v \in Nat : text' = [text EXCEPT ![n] = v]
    <2>1. CASE InsertNode(n)
      BY <2>1 DEF InsertNode, Mutate
    <2>2. CASE DeleteNode(n)
      BY <2>2 DEF DeleteNode, Mutate
    <2>3. CASE UpdateNode(n)
      <3>1. text' = [text EXCEPT ![n] = text[n] + 1]
        BY <2>3 DEF UpdateNode
      <3>2. text[n] + 1 \in Nat
        BY <1>0
      <3> QED BY <3>1, <3>2
    <2> QED BY <2>1, <2>2, <2>3
  <1>2. /\ outbox' = Append(outbox, Event(n)) \/ outbox' = outbox \o <<Event(n), Event(n)>>
        /\ Observe /\ UNCHANGED <<row, bld>>
    BY DEF InsertNode, DeleteNode, UpdateNode, Mutate
  <1>3. born' \subseteq Nodes
    BY <1>0 DEF InsertNode, DeleteNode, UpdateNode, Mutate
  <1> QED BY <1>1, <1>2, <1>3, MutateStep

(* A step that leaves what the invariant speaks of alone. *)
LEMMA NoStep ==
    ASSUME Typed, UNCHANGED <<text, born, outbox, row, bld, rd>>
    PROVE  Typed' /\ (Right => Right')
  <1>1. Typed'
    BY DEF Typed
  <1>2. Right => Right'
    BY DEF Right, RowsRight, BuildsRight, ReadsRight
  <1> QED BY <1>1, <1>2

(* Every step keeps the types, and in a forest the rest of the invariant. *)
LEMMA NextStep ==
    ASSUME Typed, [Next]_vars
    PROVE  Typed' /\ (Forest /\ Forest' /\ Right => Right')
  <1>1. CASE \E n \in Nodes : InsertNode(n) \/ DeleteNode(n) \/ UpdateNode(n)
    BY <1>1, NodeStep
  <1>2. CASE EngineDrain
    BY <1>2, EngineDrainStep
  <1>3. CASE FaultsCease \/ UNCHANGED vars
    <2>1. UNCHANGED <<text, born, outbox, row, bld, rd>>
      BY <1>3 DEF FaultsCease, vars
    <2> QED BY <2>1, NoStep
  <1>4. CASE \E p \in Periods : Elapse(p)
    BY <1>4, ElapseStep
  <1>5. CASE \E b \in Builders :
               \/ Pass(b) \/ Build(b) \/ StopPass(b)
               \/ DeferLevel3(b) \/ BuildRaises(b) \/ Abandon(b)
               \/ \E t \in RebuildTargets : Rebuild(b, t)
    BY <1>5, BuildStep
  <1>6. CASE \E r \in Readers : ReadPending(r) \/ ReadCount(r) \/ ReadRows(r) \/ ReadReturns(r)
    BY <1>6, ReadPendingStep, ReadCountStep, ReadRowsStep, ReadReturnsStep
  <1> QED BY <1>1, <1>2, <1>3, <1>4, <1>5, <1>6 DEF Next

(* Before the first node is published nothing is due. *)
LEMMA InitInv == Init => Inv
  <1> SUFFICES ASSUME Init PROVE Inv
    OBVIOUS
  <1>1. /\ text = [n \in Nodes |-> 0] /\ born = {} /\ outbox = <<>>
        /\ row = [p \in Periods |-> NoRow] /\ bld = [b \in Builders |-> Idle]
        /\ rd = [r \in Readers |-> NotReading]
    BY DEF Init
  <1>2. NoRow \in Rows /\ NoRow.st = "none"
    BY NoRowType DEF NoRow
  <1>3. Idle \in Locals /\ ~ Working(Idle)
    BY IdleType DEF Idle, Working, Selects
  <1>4. NotReading \in Reads /\ \A R, t : ReadIsRight(NotReading, R, t)
    BY NotReadingRight
  <1>5. Typed
    <2>1. text \in [Nodes -> Nat] /\ born \subseteq Nodes /\ outbox \in Seq(Events)
      BY <1>1
    <2>2. row \in [Periods -> Rows]
      BY <1>1, <1>2
    <2>3. bld \in [Builders -> Locals]
      BY <1>1, <1>3
    <2>4. rd \in [Readers -> Reads]
      BY <1>1, <1>4
    <2> QED BY <2>1, <2>2, <2>3, <2>4 DEF Typed
  <1>6. RowsRight
    <2>1. LiveOf(text) = {}
      BY <1>1 DEF LiveOf
    <2>2. CanonOf(text, LiveOf(text)) = {}
      BY <2>1, CanonFacts
    <2>3. \A p \in Periods : Due(text, p) = {}
      BY <2>2 DEF Due, ContentOf, SourcesOf, TextsOf
    <2> QED BY <1>1, <1>2, <2>3 DEF RowsRight, RowIsRight
  <1>7. BuildsRight
    BY <1>1, <1>3 DEF BuildsRight
  <1>8. ReadsRight
    BY <1>1, <1>4 DEF ReadsRight
  <1> QED BY <1>5, <1>6, <1>7, <1>8 DEF Inv, Right

-----------------------------------------------------------------------------
(* The theorems.                                                           *)

(***************************************************************************)
(* Whatever builders, operators, readers, crashes and drains do, every     *)
(* pending event is an interval of days with its progress inside it, a row *)
(* carries a lease nonce exactly while it is being built, generations stay *)
(* in range and a pass never holds more targets than its budget.           *)
(***************************************************************************)
THEOREM TypeCorrect == Spec => []TypeOK
  <1>1. Init => Typed
    BY InitInv DEF Inv
  <1>2. Typed /\ [Next]_vars => Typed'
    BY NextStep
  <1>3. Typed => TypeOK
    <2> SUFFICES ASSUME Typed PROVE TypeOK
      OBVIOUS
    <2>1. ASSUME NEW k \in DOMAIN outbox
          PROVE  /\ outbox[k].first \in Days /\ outbox[k].last \in Days
                 /\ outbox[k].next \in outbox[k].first..outbox[k].last
      <3>1. outbox[k] \in Events
        BY DEF Typed
      <3> QED BY <3>1, EventFacts
    <2>2. ASSUME NEW p \in Periods
          PROVE  /\ row[p].st \in {"none", "stale", "building", "ready", "failed"}
                 /\ row[p].gen \in 0..(GenBound - 1)
                 /\ row[p].nonce \in Builders \cup {NoNonce}
                 /\ (row[p].nonce # NoNonce) = (row[p].st = "building")
      BY DEF Typed, Rows, Gens
    <2>3. ASSUME NEW b \in Builders
          PROVE  bld[b].gen \in 0..(GenBound - 1) /\ Len(bld[b].todo) <= PerPass
      <3>1. bld[b] \in Locals
        BY DEF Typed
      <3>2. bld[b] \in LocalsType /\ Len(bld[b].todo) <= PerPass
        BY <3>1, LocalsFacts
      <3> QED BY <3>2 DEF LocalsType, Gens
    <2> QED BY <2>1, <2>2, <2>3 DEF TypeOK, Typed
  <1> QED BY <1>1, <1>2, <1>3, PTL DEF Spec

(* In a forest the invariant holds for good. *)
LEMMA InvHolds == Spec /\ []Forest => []Inv
  <1>1. Init => Inv
    BY InitInv
  <1>2. Inv /\ Forest /\ Forest' /\ [Next]_vars => Inv'
    BY NextStep DEF Inv
  <1> QED BY <1>1, <1>2, PTL DEF Spec

(***************************************************************************)
(* A ready rollup that no pending event will stale was built from exactly  *)
(* the current text of the canonical frontier of its period, whatever      *)
(* builders, reclaims, rebuilds and mutations did while it was being built:*)
(* mark_ready is guarded by the build token and refuses a pending window.  *)
(* Forest: no node that is there is a source of two condensed nodes that   *)
(* are there, as the engine condenses uncondensed nodes only.              *)
(***************************************************************************)
THEOREM ReadyIsCurrentHolds == Spec /\ []Forest => []ReadyIsCurrent
  <1>1. Inv => ReadyIsCurrent
    <2> SUFFICES ASSUME Inv, NEW p \in Periods, row[p].st = "ready", ~ Owed(p)
                 PROVE  row[p].built = Texts(Content(p))
      BY DEF ReadyIsCurrent
    <2>1. RowIsRight(row[p], text, outbox, p)
      BY DEF Inv, Right, RowsRight
    <2>2. ~ OwedBy(outbox, p) /\ Texts(Content(p)) = Due(text, p)
      BY FrontierIs DEF Due
    <2> QED BY <2>1, <2>2 DEF RowIsRight
  <1> QED BY <1>1, InvHolds, PTL

(***************************************************************************)
(* A period that has content has a row or a pending event that will seed   *)
(* one: resolve_no_source, which deletes a row by its build token, never   *)
(* deletes the row of content that came after the builder had looked.      *)
(***************************************************************************)
THEOREM NothingForgottenHolds == Spec /\ []Forest => []NothingForgotten
  <1>1. Inv => NothingForgotten
    <2> SUFFICES ASSUME Inv, NEW p \in Periods, row[p].st = "none", ~ Owed(p)
                 PROVE  Content(p) = {}
      BY DEF NothingForgotten
    <2>1. RowIsRight(row[p], text, outbox, p)
      BY DEF Inv, Right, RowsRight
    <2>2. ~ OwedBy(outbox, p) /\ Texts(Content(p)) = Due(text, p)
      BY FrontierIs DEF Due
    <2>3. Texts(Content(p)) = {}
      BY <2>1, <2>2 DEF RowIsRight
    <2> QED BY <2>3 DEF Texts
  <1> QED BY <1>1, InvHolds, PTL

(***************************************************************************)
(* What lcm_recent serves for a day was the content of that day at some    *)
(* moment of the call, although its check for pending events, its count of *)
(* ready days and its read of the rows are three separate statements.      *)
(***************************************************************************)
THEOREM ServedWasCurrentHolds == Spec /\ []Forest => []ServedWasCurrent
  <1>1. Inv => ServedWasCurrent
    BY DEF Inv, Right, ReadsRight, ReadIsRight, ServedWasCurrent
  <1> QED BY <1>1, InvHolds, PTL

=============================================================================
