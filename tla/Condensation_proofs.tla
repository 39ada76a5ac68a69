------------------------ MODULE Condensation_proofs ------------------------
(***************************************************************************)
(* MadeOfAllSources of Condensation for any engines, and FollowsSources    *)
(* for one engine, with any number of nodes, deletions and moves.          *)
(***************************************************************************)
EXTENDS Condensation, TLAPS

Copies == UNION {[s -> Nat] : s \in SUBSET Nat}
Node == [session : Sessions, depth : Nat, srcs : SUBSET Nat, text : Nat,
         frag : BOOLEAN, basis : Copies]
Rows == UNION {[s -> Node] : s \in SUBSET Nat}
News == UNION {[s -> Copies] : s \in SUBSET Nat}
Pass == [pc : {"idle", "chosen", "registered", "call", "leave"},
         group : SUBSET Nat, depth : Nat, copy : Copies]
Repair == [pc : {"idle", "ancestors", "rows", "next", "summarise", "commit"},
           ids : SUBSET Nat, rows : Rows, todo : SUBSET SUBSET Nat,
           group : SUBSET Nat, new : News]

Typed ==
    /\ created \in Nat
    /\ node \in [Stored -> Node] /\ Stored \subseteq 1..created
    /\ pass \in [Engines -> Pass]
    /\ repair \in [Engines -> Repair]

(* Sources and depth of a node are those it was created with. *)
Graph ==
    \A n \in Stored : /\ node[n].srcs \subseteq 1..created
                      /\ DOMAIN node[n].basis = node[n].srcs
                      /\ \A c \in node[n].srcs \cap Stored : node[c].depth < node[n].depth

PassInv(p) ==
    /\ p.group \subseteq 1..created
    /\ p.pc = "call" => DOMAIN p.copy = p.group
    /\ \A c \in p.group \cap Stored : node[c].depth = p.depth

(* What a repair read of the graph still holds of the nodes that are left, *)
(* and every new text is made from all sources, bottom-up.                 *)
RepairInv(r) ==
    /\ DOMAIN r.rows \subseteq 1..created
    /\ r.group \subseteq DOMAIN r.rows /\ DOMAIN r.new \subseteq r.group
    /\ r.todo \subseteq SUBSET DOMAIN r.rows
    /\ r.pc = "commit" => DOMAIN r.new = r.group
    /\ r.pc \notin {"summarise", "commit"} => r.group = {} /\ DOMAIN r.new = {}
    /\ \A n \in DOMAIN r.rows :
         /\ r.rows[n].srcs \subseteq 1..created
         /\ n \in Stored => node[n].srcs = r.rows[n].srcs
         /\ \A c \in r.rows[n].srcs \cap DOMAIN r.rows : r.rows[c].depth < r.rows[n].depth
    /\ \A n \in DOMAIN r.new :
         /\ DOMAIN r.new[n] = r.rows[n].srcs
         /\ \A c \in r.rows[n].srcs \cap r.group :
              c \in DOMAIN r.new /\ r.new[n][c] = r.rows[c].text + 1

IInv ==
    /\ Typed /\ Graph
    /\ \A e \in Engines : PassInv(pass[e]) /\ RepairInv(repair[e])

(* What one engine has read is still so. *)
Current(e) ==
    /\ pass[e].pc = "call" =>
         \A c \in pass[e].group \cap Stored : pass[e].copy[c] = node[c].text
    /\ \A n \in DOMAIN repair[e].new :
         \A c \in (repair[e].rows[n].srcs \cap Stored) \ repair[e].group :
           repair[e].new[n][c] = node[c].text

FInv == IInv /\ FollowsSources /\ \A e \in Engines : Current(e)

-----------------------------------------------------------------------------
LEMMA EmptyTyped == Empty \in Copies /\ Empty \in Rows /\ Empty \in News /\ DOMAIN Empty = {}
  BY ZenonT(60) DEF Empty, Copies, Rows, News

LEMMA NoPassTyped == NoPass \in Pass /\ NoPass.group = {} /\ NoPass.pc = "idle"
  BY EmptyTyped DEF NoPass, Pass

LEMMA NoRepairTyped ==
    /\ NoRepair \in Repair /\ NoRepair.group = {} /\ NoRepair.pc = "idle"
    /\ NoRepair.todo = {} /\ DOMAIN NoRepair.rows = {} /\ DOMAIN NoRepair.new = {}
  BY EmptyTyped DEF NoRepair, Repair

LEMMA InitFInv == Init => FInv
  <1> SUFFICES ASSUME Init PROVE FInv
    OBVIOUS
  <1>1. Stored = {} /\ created = 0
    BY EmptyTyped DEF Init, Stored
  <1>2. Typed
    BY <1>1, NoPassTyped, NoRepairTyped DEF Init, Typed, Empty, Stored
  <1>3. ASSUME NEW e \in Engines PROVE PassInv(pass[e]) /\ RepairInv(repair[e]) /\ Current(e)
    BY <1>1, NoPassTyped, NoRepairTyped DEF Init, PassInv, RepairInv, Current
  <1> QED
    BY <1>1, <1>2, <1>3 DEF FInv, IInv, Graph, FollowsSources

-----------------------------------------------------------------------------
(* A new node leaves what passes and repairs know of the others. *)
LEMMA AddKeeps ==
    ASSUME IInv, NEW n \in Node, Add(n), n.srcs \subseteq 1..created,
           DOMAIN n.basis = n.srcs, \A c \in n.srcs \cap Stored : node[c].depth < n.depth
    PROVE  /\ created' \in Nat /\ node' \in [Stored' -> Node] /\ Stored' \subseteq 1..created'
           /\ Graph' /\ 1..created \subseteq 1..created'
           /\ Stored' = Stored \cup {created + 1} /\ created + 1 \notin 1..created
           /\ \A m \in Stored : node'[m] = node[m]
           /\ node'[created + 1] = n
           /\ \A p \in Pass : PassInv(p) => PassInv(p)'
           /\ \A r \in Repair : RepairInv(r) => RepairInv(r)'
  <1>1. created \in Nat /\ node \in [Stored -> Node] /\ Stored \subseteq 1..created
    BY DEF IInv, Typed
  <1>2. /\ created' = created + 1 /\ created' \in Nat /\ created + 1 \notin 1..created
        /\ 1..created' = 1..created \cup {created + 1}
    BY <1>1 DEF Add
  <1>3. /\ Stored' = Stored \cup {created + 1} /\ Stored' \subseteq 1..created'
        /\ node' \in [Stored' -> Node] /\ node'[created + 1] = n
        /\ \A m \in Stored : node'[m] = node[m]
    BY <1>1, <1>2 DEF Add, With, Stored
  <1>4. Graph'
    BY <1>1, <1>2, <1>3 DEF IInv, Graph
  <1>5. ASSUME NEW p \in Pass, PassInv(p) PROVE PassInv(p)'
    BY <1>2, <1>3, <1>5 DEF PassInv
  <1>6. ASSUME NEW r \in Repair, RepairInv(r) PROVE RepairInv(r)'
    BY <1>2, <1>3, <1>6 DEF RepairInv
  <1> QED
    BY <1>2, <1>3, <1>4, <1>5, <1>6

(* So does a step that removes nodes, or changes other fields than sources *)
(* and depth.                                                              *)
LEMMA LessKeeps ==
    ASSUME IInv, UNCHANGED created, node' \in [Stored' -> Node], Stored' \subseteq Stored,
           \A n \in Stored' : /\ node'[n].srcs = node[n].srcs /\ node'[n].depth = node[n].depth
                              /\ DOMAIN node'[n].basis = node[n].srcs
    PROVE  /\ Graph' /\ Stored' \subseteq 1..created'
           /\ \A p \in Pass : PassInv(p) => PassInv(p)'
           /\ \A r \in Repair : RepairInv(r) => RepairInv(r)'
  BY DEF IInv, Typed, Graph, PassInv, RepairInv

Single == \A e, f \in Engines : e = f
Keeps == IInv' /\ (Single /\ FInv => FInv')

(* Steps of a pass, or of a repair, that leave the database alone. *)
LEMMA PassOnly ==
    ASSUME IInv, NEW e \in Engines, NEW p \in Pass, pass' = [pass EXCEPT ![e] = p],
           UNCHANGED <<node, created, repair>>, PassInv(p),
           p.pc = "call" => \A c \in p.group \cap Stored : p.copy[c] = node[c].text
    PROVE  Keeps
  <1>1. pass' \in [Engines -> Pass] /\ pass'[e] = p /\ \A f \in Engines \ {e} : pass'[f] = pass[f]
    BY DEF IInv, Typed
  <1>2. Typed' /\ Graph'
    BY <1>1 DEF IInv, Typed, Graph, Stored
  <1>3. ASSUME NEW f \in Engines PROVE PassInv(pass[f])' /\ RepairInv(repair[f])'
    BY <1>1 DEF IInv, PassInv, RepairInv, Stored
  <1>4. ASSUME FInv PROVE FollowsSources' /\ \A f \in Engines : Current(f)'
    BY <1>1, <1>4 DEF FInv, FollowsSources, Current, Stored
  <1> QED
    BY <1>2, <1>3, <1>4 DEF Keeps, IInv, FInv

LEMMA RepairOnly ==
    ASSUME IInv, NEW e \in Engines, NEW r \in Repair, repair' = [repair EXCEPT ![e] = r],
           UNCHANGED <<node, created, pass>>, RepairInv(r),
           FInv => \A n \in DOMAIN r.new : \A c \in (r.rows[n].srcs \cap Stored) \ r.group :
                     r.new[n][c] = node[c].text
    PROVE  Keeps
  <1>1. repair' \in [Engines -> Repair] /\ repair'[e] = r
        /\ \A f \in Engines \ {e} : repair'[f] = repair[f]
    BY DEF IInv, Typed
  <1>2. Typed' /\ Graph'
    BY <1>1 DEF IInv, Typed, Graph, Stored
  <1>3. ASSUME NEW f \in Engines PROVE PassInv(pass[f])' /\ RepairInv(repair[f])'
    BY <1>1 DEF IInv, PassInv, RepairInv, Stored
  <1>4. ASSUME FInv PROVE FollowsSources' /\ \A f \in Engines : Current(f)'
    BY <1>1, <1>4 DEF FInv, FollowsSources, Current, Stored
  <1> QED
    BY <1>2, <1>3, <1>4 DEF Keeps, IInv, FInv

LEMMA AddLeafStep ==
    ASSUME IInv, NEW s \in Sessions, AddLeaf(s)
    PROVE  Keeps
  <1>1. PICK frag \in BOOLEAN : Add([session |-> s, depth |-> 0, srcs |-> {}, text |-> 0,
                                     frag |-> frag, basis |-> Empty])
    BY DEF AddLeaf
  <1> DEFINE n == [session |-> s, depth |-> 0, srcs |-> {}, text |-> 0, frag |-> frag,
                   basis |-> Empty]
  <1>2. n \in Node /\ n.srcs = {} /\ DOMAIN n.basis = {}
    BY EmptyTyped DEF Node
  <1>3. UNCHANGED <<pass, repair>>
    BY DEF AddLeaf
  <1> HIDE DEF n
  <1>4. /\ created' \in Nat /\ node' \in [Stored' -> Node] /\ Stored' \subseteq 1..created'
        /\ Graph' /\ Stored' = Stored \cup {created + 1} /\ created + 1 \notin 1..created
        /\ \A m \in Stored : node'[m] = node[m]
        /\ node'[created + 1] = n
        /\ \A p \in Pass : PassInv(p) => PassInv(p)'
        /\ \A r \in Repair : RepairInv(r) => RepairInv(r)'
    BY <1>1, <1>2, AddKeeps DEF n
  <1>5. IInv'
    BY <1>3, <1>4 DEF IInv, Typed
  <1>6. ASSUME FInv PROVE FollowsSources' /\ \A f \in Engines : Current(f)'
    <2>1. FollowsSources'
      BY <1>2, <1>4, <1>6 DEF FInv, IInv, Graph, FollowsSources
    <2>2. ASSUME NEW f \in Engines PROVE Current(f)'
      BY <1>3, <1>4, <1>6 DEF FInv, IInv, PassInv, RepairInv, Current
    <2> QED
      BY <2>1, <2>2
  <1> QED
    BY <1>5, <1>6 DEF Keeps, FInv

LEMMA DeleteStep ==
    ASSUME IInv, NEW s \in Sessions, Delete(s)
    PROVE  Keeps
  <1>1. PICK ns : node' = On(node, Stored \ ns)
    BY DEF Delete
  <1>2. UNCHANGED <<created, pass, repair>>
    BY DEF Delete
  <1>3. /\ Stored' = Stored \ ns /\ node' \in [Stored' -> Node]
        /\ \A n \in Stored' : node'[n] = node[n]
    BY <1>1 DEF On, Stored, IInv, Typed
  <1>4. /\ Graph' /\ Stored' \subseteq 1..created'
        /\ \A p \in Pass : PassInv(p) => PassInv(p)'
        /\ \A r \in Repair : RepairInv(r) => RepairInv(r)'
    BY <1>2, <1>3, LessKeeps DEF IInv, Graph
  <1>5. IInv'
    BY <1>2, <1>3, <1>4 DEF IInv, Typed
  <1>6. ASSUME FInv PROVE FollowsSources' /\ \A f \in Engines : Current(f)'
    BY <1>2, <1>3, <1>6 DEF FInv, FollowsSources, Current
  <1> QED
    BY <1>5, <1>6 DEF Keeps, FInv

LEMMA ReassignStep ==
    ASSUME IInv, NEW s \in Sessions, NEW t \in Sessions, Reassign(s, t)
    PROVE  Keeps
  <1>2. UNCHANGED <<created, pass, repair>> /\ node \in [Stored -> Node]
    BY DEF Reassign, IInv, Typed
  <1>3. /\ Stored' = Stored /\ node' \in [Stored' -> Node]
        /\ \A n \in Stored' : /\ node'[n].srcs = node[n].srcs /\ node'[n].depth = node[n].depth
                               /\ node'[n].basis = node[n].basis /\ node'[n].text = node[n].text
    <2>1. ASSUME NEW n \in Stored
          PROVE  /\ [node[n] EXCEPT !.session = t] \in Node
                 /\ [node[n] EXCEPT !.session = t].srcs = node[n].srcs
                 /\ [node[n] EXCEPT !.session = t].depth = node[n].depth
                 /\ [node[n] EXCEPT !.session = t].basis = node[n].basis
                 /\ [node[n] EXCEPT !.session = t].text = node[n].text
      BY <1>2 DEF Node
    <2>2. node' = [n \in Stored |-> IF node[n].session = s
                                    THEN [node[n] EXCEPT !.session = t] ELSE node[n]]
      BY DEF Reassign
    <2>3. Stored' = Stored
      BY <2>2 DEF Stored
    <2> QED
      BY <1>2, <2>1, <2>2, <2>3
  <1>4. /\ Graph' /\ Stored' \subseteq 1..created'
        /\ \A p \in Pass : PassInv(p) => PassInv(p)'
        /\ \A r \in Repair : RepairInv(r) => RepairInv(r)'
    BY <1>2, <1>3, LessKeeps DEF IInv, Graph
  <1>5. IInv'
    BY <1>2, <1>3, <1>4 DEF IInv, Typed
  <1>6. ASSUME FInv PROVE FollowsSources' /\ \A f \in Engines : Current(f)'
    BY <1>2, <1>3, <1>6 DEF FInv, FollowsSources, Current
  <1> QED
    BY <1>5, <1>6 DEF Keeps, FInv

LEMMA SelectStep ==
    ASSUME IInv, NEW e \in Engines, Select(e)
    PROVE  Keeps
  <1>1. PICK d \in Depths :
          pass' = [pass EXCEPT ![e] = [NoPass EXCEPT !.pc = "chosen", !.depth = d,
                                        !.group = Group(Bound[e], d)]]
    BY DEF Select
  <1> DEFINE g == Group(Bound[e], d)
             p == [NoPass EXCEPT !.pc = "chosen", !.depth = d, !.group = g]
  <1>2. g \subseteq Stored /\ \A c \in g : node[c].depth = d
    BY DEF Group, Uncondensed
  <1>3. d \in Nat /\ g \subseteq 1..created /\ g \subseteq Nat
    <2>1. \A n \in Stored : node[n].depth \in Nat
      BY DEF IInv, Typed, Node
    <2>2. Stored \subseteq 1..created /\ created \in Nat
      BY DEF IInv, Typed
    <2>3. d \in Nat
      BY <2>1 DEF Depths
    <2> HIDE DEF g
    <2> QED
      BY <1>2, <2>2, <2>3
  <1>4. UNCHANGED <<node, created, repair>>
    BY DEF Select
  <1> HIDE DEF g
  <1>5. p \in Pass /\ p.pc = "chosen" /\ p.group = g /\ p.depth = d
    BY <1>3, NoPassTyped DEF Pass
  <1>6. pass' = [pass EXCEPT ![e] = p]
    BY <1>1 DEF g
  <1> HIDE DEF p
  <1>7. PassInv(p)
    BY <1>2, <1>3, <1>5 DEF PassInv
  <1> QED
    BY <1>4, <1>5, <1>6, <1>7, PassOnly

LEMMA RegisterStep ==
    ASSUME IInv, NEW e \in Engines, Register(e)
    PROVE  Keeps
  <1> DEFINE p == [pass[e] EXCEPT !.pc = "registered"]
  <1>1. pass[e] \in Pass /\ pass \in [Engines -> Pass] /\ PassInv(pass[e])
    BY DEF IInv, Typed
  <1>2. /\ p \in Pass /\ p.pc = "registered" /\ p.group = pass[e].group
        /\ p.depth = pass[e].depth
    BY <1>1 DEF Pass
  <1>3. pass' = [pass EXCEPT ![e] = p] /\ UNCHANGED <<node, created, repair>>
    BY <1>1 DEF Register
  <1> HIDE DEF p
  <1>4. PassInv(p)
    BY <1>1, <1>2 DEF PassInv
  <1> QED
    BY <1>2, <1>3, <1>4, PassOnly

LEMMA LeaveStep ==
    ASSUME IInv, NEW e \in Engines, Leave(e)
    PROVE  Keeps
  <1>1. pass' = [pass EXCEPT ![e] = NoPass] /\ UNCHANGED <<node, created, repair>>
    BY DEF Leave
  <1>2. PassInv(NoPass)
    BY NoPassTyped DEF PassInv
  <1> QED
    BY <1>1, <1>2, NoPassTyped, PassOnly

LEMMA ReadFreshStep ==
    ASSUME IInv, NEW e \in Engines, ReadFresh(e)
    PROVE  Keeps
  <1> DEFINE g == pass[e].group
  <1>1. pass[e] \in Pass /\ pass \in [Engines -> Pass] /\ PassInv(pass[e])
    BY DEF IInv, Typed
  <1>2. UNCHANGED <<node, created, repair>>
    BY DEF ReadFresh
  <1>3. CASE g \subseteq Stored
    <2> DEFINE p == [pass[e] EXCEPT !.pc = "call", !.copy = Texts(g)]
    <2>1. Texts(g) \in Copies /\ DOMAIN Texts(g) = g /\ \A c \in g : Texts(g)[c] = node[c].text
      <3>1. Texts(g) \in [g -> Nat]
        BY <1>3 DEF Texts, IInv, Typed, Node
      <3>2. g \in SUBSET Nat
        BY <1>1 DEF Pass
      <3> QED
        BY <3>1, <3>2 DEF Copies, Texts
    <2>2. /\ p \in Pass /\ p.pc = "call" /\ p.group = g
          /\ p.depth = pass[e].depth /\ p.copy = Texts(g)
      BY <1>1, <2>1 DEF Pass
    <2>3. pass' = [pass EXCEPT ![e] = p]
      BY <1>1, <1>3 DEF ReadFresh
    <2> HIDE DEF p
    <2>4. PassInv(p)
      BY <1>1, <2>1, <2>2 DEF PassInv
    <2> QED
      BY <1>2, <2>1, <2>2, <2>3, <2>4, PassOnly
  <1>4. CASE ~(g \subseteq Stored)
    <2> DEFINE p == [pass[e] EXCEPT !.pc = "leave"]
    <2>2. /\ p \in Pass /\ p.pc = "leave" /\ p.group = g /\ p.depth = pass[e].depth
      BY <1>1 DEF Pass
    <2>3. pass' = [pass EXCEPT ![e] = p]
      BY <1>1, <1>4 DEF ReadFresh
    <2> HIDE DEF p
    <2>4. PassInv(p)
      BY <1>1, <2>2 DEF PassInv
    <2> QED
      BY <1>2, <2>2, <2>3, <2>4, PassOnly
  <1> QED
    BY <1>3, <1>4

LEMMA CondenseStep ==
    ASSUME IInv, NEW e \in Engines, Condense(e), CondensationAssumption
    PROVE  Keeps
  <1> DEFINE q == pass[e]
             p == [pass[e] EXCEPT !.pc = "leave"]
  <1>1. pass[e] \in Pass /\ pass \in [Engines -> Pass] /\ PassInv(pass[e]) /\ q.pc = "call"
    BY DEF IInv, Typed, Condense
  <1>2. /\ p \in Pass /\ p.pc = "leave" /\ p.group = q.group /\ p.depth = q.depth
    BY <1>1 DEF Pass
  <1>3. pass' = [pass EXCEPT ![e] = p] /\ UNCHANGED repair
    BY <1>1 DEF Condense
  <1> HIDE DEF p
  <1>4. PassInv(p)
    BY <1>1, <1>2 DEF PassInv
  <1>5. CASE UNCHANGED <<node, created>>
    BY <1>2, <1>3, <1>4, <1>5, PassOnly
  <1>6. CASE ~UNCHANGED <<node, created>>
    <2>1. PICK frag \in BOOLEAN :
            Add([session |-> Bound[e], depth |-> q.depth + 1, srcs |-> q.group, text |-> 0,
                 frag |-> frag, basis |-> q.copy])
      BY <1>6 DEF Condense
    <2> DEFINE n == [session |-> Bound[e], depth |-> q.depth + 1, srcs |-> q.group, text |-> 0,
                     frag |-> frag, basis |-> q.copy]
    <2>2. /\ n \in Node /\ n.srcs = q.group /\ n.basis = q.copy /\ n.depth = q.depth + 1
      BY <1>1 DEF Node, Pass, CondensationAssumption
    <2>3. Add(n)
      BY <2>1
    <2> HIDE DEF n
    <2>4. /\ n.srcs \subseteq 1..created /\ DOMAIN n.basis = n.srcs
          /\ \A c \in n.srcs \cap Stored : node[c].depth < n.depth
      BY <1>1, <2>2 DEF PassInv, Pass
    <2>5. /\ created' \in Nat /\ node' \in [Stored' -> Node] /\ Stored' \subseteq 1..created'
          /\ Graph' /\ Stored' = Stored \cup {created + 1} /\ created + 1 \notin 1..created
          /\ \A m \in Stored : node'[m] = node[m]
          /\ node'[created + 1] = n
          /\ \A x \in Pass : PassInv(x) => PassInv(x)'
          /\ \A r \in Repair : RepairInv(r) => RepairInv(r)'
      BY <2>2, <2>3, <2>4, AddKeeps
    <2>6. pass' \in [Engines -> Pass] /\ pass'[e] = p
          /\ \A f \in Engines \ {e} : pass'[f] = pass[f]
      BY <1>1, <1>2, <1>3
    <2>7. IInv'
      <3>1. \A f \in Engines : PassInv(pass'[f]) /\ pass'[f] \in Pass
        BY <1>4, <2>6 DEF IInv
      <3>2. \A f \in Engines : PassInv(pass[f])'
        BY <2>5, <3>1
      <3> QED
        BY <1>3, <2>5, <2>6, <3>2 DEF IInv, Typed
    <2>8. ASSUME FInv PROVE FollowsSources' /\ \A f \in Engines : Current(f)'
      <3>1. FollowsSources'
        <4>1. \A c \in n.srcs \cap Stored : n.basis[c] = node[c].text
          BY <1>1, <2>2, <2>8 DEF FInv, Current
        <4> QED
          BY <2>4, <2>5, <2>8, <4>1 DEF FInv, IInv, Graph, FollowsSources
      <3>2. ASSUME NEW f \in Engines PROVE Current(f)'
        <4>1. pass'[f] = pass[f] \/ pass'[f].pc = "leave"
          BY <1>2, <2>6
        <4>2. repair'[f] = repair[f]
          BY <1>3
        <4> QED
          BY <2>5, <2>8, <4>1, <4>2 DEF FInv, IInv, PassInv, RepairInv, Current
      <3> QED
        BY <3>1, <3>2
    <2> QED
      BY <2>7, <2>8 DEF Keeps, FInv
  <1> QED
    BY <1>5, <1>6

-----------------------------------------------------------------------------
(* A repair that reads or skips. *)
LEMMA ScanStep ==
    ASSUME IInv, NEW e \in Engines, Scan(e) \/ ScanAncestors(e)
    PROVE  Keeps
  <1>1. repair[e] \in Repair /\ repair \in [Engines -> Repair] /\ RepairInv(repair[e])
        /\ Stored \subseteq Nat
    BY DEF IInv, Typed
  <1>2. PICK pc \in {"ancestors", "rows"}, ids \in SUBSET Nat :
          repair' = [repair EXCEPT ![e].pc = pc, ![e].ids = ids]
    <2>1. CASE Scan(e)
      BY <1>1, <2>1 DEF Scan
    <2>2. CASE ScanAncestors(e)
      <3>1. repair[e].ids \in SUBSET Nat
        BY <1>1 DEF Repair
      <3>2. Above(repair[e].ids) \in SUBSET Nat
        BY <1>1, <3>1 DEF Above
      <3>3. repair' = [repair EXCEPT ![e].pc = "rows", ![e].ids = Above(repair[e].ids)]
        BY <1>1, <2>2 DEF ScanAncestors
      <3> QED
        BY <3>2, <3>3
    <2> QED
      BY <2>1, <2>2
  <1> DEFINE r == [repair[e] EXCEPT !.pc = pc, !.ids = ids]
  <1>3. /\ r \in Repair /\ r.pc = pc /\ r.rows = repair[e].rows /\ r.group = repair[e].group
        /\ r.todo = repair[e].todo /\ r.new = repair[e].new
    BY <1>1 DEF Repair
  <1>4. repair' = [repair EXCEPT ![e] = r]
    BY <1>1, <1>2
  <1>5. UNCHANGED <<node, created, pass>>
    BY DEF Scan, ScanAncestors
  <1> HIDE DEF r
  <1>6. RepairInv(r)
    <2>1. repair[e].pc \in {"idle", "ancestors"}
      BY DEF Scan, ScanAncestors
    <2>2. repair[e].group = {} /\ DOMAIN repair[e].new = {}
      BY <1>1, <2>1 DEF RepairInv
    <2> QED
      BY <1>1, <1>3, <2>2 DEF RepairInv
  <1>7. FInv => \A n \in DOMAIN r.new : \A c \in (r.rows[n].srcs \cap Stored) \ r.group :
                  r.new[n][c] = node[c].text
    BY <1>3 DEF FInv, Current
  <1> QED
    BY <1>3, <1>4, <1>5, <1>6, <1>7, RepairOnly

LEMMA SkipKeeps ==
    ASSUME IInv, NEW e \in Engines, Skip(e)
    PROVE  /\ repair' \in [Engines -> Repair] /\ DOMAIN repair'[e].new = {}
           /\ \A f \in Engines \ {e} : repair'[f] = repair[f]
           /\ RepairInv(repair'[e])
           /\ UNCHANGED <<node, created, pass>> => Keeps
  <1> DEFINE r == [repair[e] EXCEPT !.pc = "next", !.group = {}, !.new = Empty]
  <1>1. repair[e] \in Repair /\ repair \in [Engines -> Repair] /\ RepairInv(repair[e])
    BY DEF IInv, Typed
  <1>2. /\ r \in Repair /\ r.pc = "next" /\ r.rows = repair[e].rows /\ r.group = {}
        /\ r.todo = repair[e].todo /\ r.new = Empty
    BY <1>1, EmptyTyped DEF Repair
  <1>3. repair' = [repair EXCEPT ![e] = r]
    BY <1>1 DEF Skip
  <1> HIDE DEF r
  <1>4. RepairInv(r)
    BY <1>1, <1>2, EmptyTyped DEF RepairInv
  <1>5. DOMAIN r.new = {}
    BY <1>2, EmptyTyped
  <1>6. ASSUME UNCHANGED <<node, created, pass>> PROVE Keeps
    BY <1>2, <1>3, <1>4, <1>5, <1>6, RepairOnly
  <1> QED
    BY <1>1, <1>2, <1>3, <1>4, <1>5, <1>6

LEMMA ReadRowsStep ==
    ASSUME IInv, NEW e \in Engines, ReadRows(e)
    PROVE  Keeps
  <1> DEFINE ids == repair[e].ids \cap Stored
             rows == On(node, ids)
             todo == {g \in Components(rows) : \A n \in g : rows[n].srcs \subseteq Stored}
             r == [repair[e] EXCEPT !.pc = "next", !.rows = rows, !.todo = todo]
  <1>1. repair[e] \in Repair /\ repair \in [Engines -> Repair] /\ RepairInv(repair[e])
        /\ Stored \subseteq 1..created /\ Stored \subseteq Nat /\ node \in [Stored -> Node]
    BY DEF IInv, Typed
  <1>2. /\ rows \in Rows /\ DOMAIN rows = ids /\ \A n \in ids : rows[n] = node[n]
    <2>1. rows \in [ids -> Node]
      BY <1>1 DEF On
    <2> QED
      BY <1>1, <2>1 DEF Rows, On
  <1>3. todo \subseteq SUBSET ids
    BY <1>2 DEF Components
  <1>4. repair' = [repair EXCEPT ![e] = r] /\ UNCHANGED <<node, created, pass>>
    BY <1>1 DEF ReadRows
  <1> HIDE DEF rows, todo
  <1>5. /\ r \in Repair /\ r.pc = "next" /\ r.rows = rows /\ r.group = repair[e].group
        /\ r.todo = todo /\ r.new = repair[e].new
    <2>1. todo \in SUBSET SUBSET Nat
      BY <1>1, <1>3
    <2> QED
      BY <1>1, <1>2, <2>1 DEF Repair
  <1> HIDE DEF r
  <1>6. repair[e].group = {} /\ DOMAIN repair[e].new = {}
    BY <1>1 DEF ReadRows, RepairInv
  <1>7. RepairInv(r)
    <2>1. \A n \in ids : rows[n].srcs \subseteq 1..created /\ node[n].srcs = rows[n].srcs
      BY <1>2 DEF IInv, Graph
    <2>2. \A n \in ids : \A c \in rows[n].srcs \cap ids : rows[c].depth < rows[n].depth
      BY <1>2 DEF IInv, Graph
    <2> QED
      BY <1>1, <1>2, <1>3, <1>5, <1>6, <2>1, <2>2 DEF RepairInv
  <1> QED
    BY <1>4, <1>5, <1>6, <1>7, RepairOnly

LEMMA NextGroupStep ==
    ASSUME IInv, NEW e \in Engines, NextGroup(e)
    PROVE  Keeps
  <1>1. repair[e] \in Repair /\ repair \in [Engines -> Repair] /\ RepairInv(repair[e])
    BY DEF IInv, Typed
  <1>2. UNCHANGED <<node, created, pass>>
    BY DEF NextGroup
  <1>3. CASE repair' = [repair EXCEPT ![e] = NoRepair]
    <2>1. RepairInv(NoRepair)
      BY NoRepairTyped DEF RepairInv
    <2> QED
      BY <1>2, <1>3, <2>1, NoRepairTyped, RepairOnly
  <1>4. CASE repair' # [repair EXCEPT ![e] = NoRepair]
    <2>1. PICK g \in repair[e].todo :
            repair' = [repair EXCEPT ![e].pc = "summarise", ![e].todo = @ \ {g},
                                     ![e].group = g, ![e].new = Empty]
      BY <1>4 DEF NextGroup
    <2> DEFINE r == [repair[e] EXCEPT !.pc = "summarise", !.todo = @ \ {g},
                                      !.group = g, !.new = Empty]
    <2>2. /\ r \in Repair /\ r.pc = "summarise" /\ r.rows = repair[e].rows /\ r.group = g
          /\ r.todo = repair[e].todo \ {g} /\ r.new = Empty
      BY <1>1, EmptyTyped DEF Repair
    <2>3. repair' = [repair EXCEPT ![e] = r]
      BY <1>1, <2>1
    <2> HIDE DEF r
    <2>4. RepairInv(r)
      BY <1>1, <2>2, EmptyTyped DEF RepairInv
    <2> QED
      BY <1>2, <2>2, <2>3, <2>4, EmptyTyped, RepairOnly
  <1> QED
    BY <1>3, <1>4

-----------------------------------------------------------------------------
(* The lowest node that is left has its sources in the group behind it. *)
LEMMA SummariseStep ==
    ASSUME IInv, NEW e \in Engines, Summarise(e)
    PROVE  Keeps
  <1> DEFINE q == repair[e]
             rest == q.group \ DOMAIN q.new
             Basis(n) == [c \in q.rows[n].srcs |->
                            IF c \in DOMAIN q.new THEN q.rows[c].text + 1 ELSE node[c].text]
  <1>1. q \in Repair /\ repair \in [Engines -> Repair] /\ RepairInv(q) /\ q.pc = "summarise"
    BY DEF IInv, Typed, Summarise
  <1>2. UNCHANGED <<node, created, pass>>
    BY DEF Summarise
  <1>3. ASSUME NEW n \in rest, \A m \in rest : Lower(q.rows, n, m),
               q.rows[n].srcs \subseteq DOMAIN q.new \cup Stored,
               repair' = [repair EXCEPT ![e].new = With(@, n, Basis(n))]
        PROVE  Keeps
    <2> DEFINE b == Basis(n)
               new == With(q.new, n, b)
               r == [q EXCEPT !.new = new]
    <2>1. /\ q.rows \in Rows /\ q.new \in News /\ q.group \subseteq DOMAIN q.rows
          /\ DOMAIN q.new \subseteq q.group
      BY <1>1 DEF Repair, RepairInv
    <2>2. \A c \in DOMAIN q.rows : q.rows[c] \in Node
      BY <2>1, ZenonT(40) DEF Rows
    <2>3. \A c \in DOMAIN q.rows : q.rows[c].depth \in Nat /\ q.rows[c].text \in Nat
                                     /\ q.rows[c].srcs \in SUBSET Nat
      BY <2>2 DEF Node
    <2>4. \A c \in Stored : node[c].text \in Nat
      BY DEF IInv, Typed, Node
    <2>5. /\ b \in [q.rows[n].srcs -> Nat] /\ DOMAIN b = q.rows[n].srcs
          /\ \A c \in q.rows[n].srcs :
               b[c] = IF c \in DOMAIN q.new THEN q.rows[c].text + 1 ELSE node[c].text
      BY <1>3, <2>1, <2>3, <2>4
    <2>6. b \in Copies
      BY <2>1, <2>3, <2>5 DEF Copies
    <2> HIDE DEF b, Basis
    <2>7. /\ DOMAIN new = DOMAIN q.new \cup {n} /\ new[n] = b
          /\ \A m \in DOMAIN q.new : new[m] = q.new[m]
      BY DEF With
    <2>8. new \in News
      <3>1. \A m \in DOMAIN q.new : q.new[m] \in Copies
        BY <2>1, ZenonT(40) DEF News
      <3>2. new \in [DOMAIN q.new \cup {n} -> Copies]
        BY <2>6, <3>1 DEF With
      <3>3. DOMAIN q.new \cup {n} \in SUBSET Nat
        BY <1>1, <2>1 DEF Repair
      <3> QED
        BY <3>2, <3>3 DEF News
    <2> HIDE DEF new
    <2>9. /\ r \in Repair /\ r.pc = "summarise" /\ r.rows = q.rows /\ r.group = q.group
          /\ r.todo = q.todo /\ r.new = new
      BY <1>1, <2>8 DEF Repair
    <2>10. repair' = [repair EXCEPT ![e] = r]
      BY <1>1, <1>3 DEF new, b, Basis
    <2> HIDE DEF r
    <2>11. \A c \in q.rows[n].srcs \cap q.group :
             c \in DOMAIN q.new /\ b[c] = q.rows[c].text + 1
      <3> SUFFICES ASSUME NEW c \in q.rows[n].srcs \cap q.group
                   PROVE  c \in DOMAIN q.new /\ b[c] = q.rows[c].text + 1
        OBVIOUS
      <3>1. q.rows[c].depth < q.rows[n].depth
        BY <1>1, <2>1 DEF RepairInv
      <3>2. ~Lower(q.rows, n, c)
        BY <2>1, <2>3, <3>1 DEF Lower
      <3> QED
        BY <1>3, <2>5, <3>2
    <2>12. RepairInv(r)
      <3>1. \A m \in DOMAIN new :
              /\ DOMAIN new[m] = q.rows[m].srcs
              /\ \A c \in q.rows[m].srcs \cap q.group :
                   c \in DOMAIN new /\ new[m][c] = q.rows[c].text + 1
        BY <1>1, <2>5, <2>7, <2>11 DEF RepairInv
      <3> QED
        BY <1>1, <2>7, <2>9, <3>1 DEF RepairInv
    <2>13. FInv => \A m \in DOMAIN r.new : \A c \in (r.rows[m].srcs \cap Stored) \ r.group :
                     r.new[m][c] = node[c].text
      <3> SUFFICES ASSUME FInv, NEW m \in DOMAIN new,
                          NEW c \in (q.rows[m].srcs \cap Stored) \ q.group
                   PROVE  new[m][c] = node[c].text
        BY <2>9
      <3>1. CASE m = n
        BY <2>1, <2>5, <2>7, <3>1
      <3>2. CASE m # n
        BY <2>7, <3>2 DEF FInv, Current
      <3> QED
        BY <3>1, <3>2
    <2> QED
      BY <1>2, <2>9, <2>10, <2>12, <2>13, RepairOnly
  <1>4. CASE Skip(e)
    BY <1>2, <1>4, SkipKeeps
  <1>5. ASSUME rest = {}, repair' = [repair EXCEPT ![e].pc = "commit"]
        PROVE  Keeps
    <2> DEFINE r == [q EXCEPT !.pc = "commit"]
    <2>1. /\ r \in Repair /\ r.pc = "commit" /\ r.rows = q.rows /\ r.group = q.group
          /\ r.todo = q.todo /\ r.new = q.new
      BY <1>1 DEF Repair
    <2>2. repair' = [repair EXCEPT ![e] = r]
      BY <1>1, <1>5
    <2> HIDE DEF r
    <2>3. RepairInv(r)
      <3>1. DOMAIN q.new = q.group
        BY <1>1, <1>5 DEF RepairInv
      <3> HIDE DEF q
      <3> QED
        BY <1>1, <2>1, <3>1 DEF RepairInv
    <2>4. FInv => \A m \in DOMAIN r.new : \A c \in (r.rows[m].srcs \cap Stored) \ r.group :
                    r.new[m][c] = node[c].text
      BY <2>1 DEF FInv, Current
    <2> QED
      BY <1>2, <2>1, <2>2, <2>3, <2>4, RepairOnly
  <1> QED
    BY <1>3, <1>4, <1>5 DEF Summarise

-----------------------------------------------------------------------------
LEMMA Rewritten ==
    ASSUME NEW x \in Node, NEW b \in Copies
    PROVE  LET m == [x EXCEPT !.text = @ + 1, !.frag = FALSE, !.basis = b]
           IN  /\ m \in Node /\ m.srcs = x.srcs /\ m.depth = x.depth
               /\ m.text = x.text + 1 /\ m.basis = b
  <1> DEFINE t == x.text + 1
  <1>1. t \in Nat
    BY DEF Node
  <1> HIDE DEF t
  <1>2. LET m == [x EXCEPT !.text = t, !.frag = FALSE, !.basis = b]
        IN  /\ m \in Node /\ m.srcs = x.srcs /\ m.depth = x.depth
            /\ m.text = t /\ m.basis = b
    BY <1>1 DEF Node
  <1> QED
    BY <1>2 DEF t

LEMMA CommitStep ==
    ASSUME IInv, NEW e \in Engines, Commit(e)
    PROVE  Keeps
  <1> DEFINE r == repair[e]
  <1>1. r \in Repair /\ RepairInv(r) /\ r.pc = "commit" /\ UNCHANGED <<created, pass>>
    BY DEF IInv, Typed, Commit
  <1>2. /\ repair' \in [Engines -> Repair] /\ DOMAIN repair'[e].new = {}
        /\ \A f \in Engines \ {e} : repair'[f] = repair[f]
        /\ RepairInv(repair'[e])
        /\ UNCHANGED <<node, created, pass>> => Keeps
    BY SkipKeeps DEF Commit
  <1>3. CASE UNCHANGED node
    BY <1>1, <1>2, <1>3
  <1>4. CASE ~UNCHANGED node
    <2>1. /\ CanCommit(e)
          /\ node' = [n \in Stored |->
                        IF n \in r.group
                        THEN [node[n] EXCEPT !.text = @ + 1, !.frag = FALSE, !.basis = r.new[n]]
                        ELSE node[n]]
      BY <1>4 DEF Commit
    <2>2. /\ r.group \subseteq Stored /\ r.group \subseteq DOMAIN r.rows /\ DOMAIN r.new = r.group
          /\ InFlight(e) \cap r.group = {}
          /\ \A n \in r.group : node[n].text = r.rows[n].text /\ node[n].srcs = r.rows[n].srcs
          /\ \A p \in Stored \ r.group : node[p].srcs \cap r.group = {}
      BY <1>1, <2>1 DEF CanCommit, Changed, NewParent, RepairInv
    <2>3. \A n \in r.group : /\ r.new[n] \in Copies /\ DOMAIN r.new[n] = node[n].srcs
                             /\ \A c \in node[n].srcs \cap r.group :
                                  r.new[n][c] = node[c].text + 1
      <3>1. r.new \in News
        BY <1>1 DEF Repair
      <3>2. \A n \in DOMAIN r.new : r.new[n] \in Copies
        BY <3>1 DEF News
      <3> QED
        BY <1>1, <2>2, <3>2 DEF RepairInv
    <2>4. \A n \in Stored : node[n] \in Node
      BY DEF IInv, Typed
    <2>5. ASSUME NEW n \in r.group
          PROVE  LET m == [node[n] EXCEPT !.text = @ + 1, !.frag = FALSE, !.basis = r.new[n]]
                 IN  /\ m \in Node /\ m.srcs = node[n].srcs /\ m.depth = node[n].depth
                     /\ m.text = node[n].text + 1 /\ m.basis = r.new[n]
      <3>1. node[n] \in Node /\ r.new[n] \in Copies
        BY <2>2, <2>3, <2>4
      <3> QED
        BY <3>1, Rewritten
    <2>6. Stored' = Stored
      BY <2>1 DEF Stored
    <2>7. ASSUME NEW n \in r.group
          PROVE  /\ node'[n] \in Node /\ node'[n].srcs = node[n].srcs
                 /\ node'[n].depth = node[n].depth
                 /\ node'[n].text = node[n].text + 1 /\ node'[n].basis = r.new[n]
      BY <2>1, <2>2, <2>5
    <2>8. \A n \in Stored \ r.group : node'[n] = node[n]
      BY <2>1
    <2>9. node' \in [Stored' -> Node]
      <3>1. \A n \in Stored : node'[n] \in Node
        BY <2>4, <2>7, <2>8
      <3> QED
        BY <2>1, <2>6, <3>1
    <2>10. \A n \in Stored' : /\ node'[n].srcs = node[n].srcs /\ node'[n].depth = node[n].depth
                              /\ DOMAIN node'[n].basis = node[n].srcs
      BY <2>3, <2>6, <2>7, <2>8 DEF IInv, Graph
    <2>11. /\ Graph' /\ Stored' \subseteq 1..created'
           /\ \A p \in Pass : PassInv(p) => PassInv(p)'
           /\ \A x \in Repair : RepairInv(x) => RepairInv(x)'
      BY <1>1, <2>6, <2>9, <2>10, LessKeeps
    <2>12. IInv'
      <3>1. \A f \in Engines : RepairInv(repair'[f]) /\ repair'[f] \in Repair
        BY <1>2 DEF IInv
      <3>2. \A f \in Engines : RepairInv(repair[f])'
        BY <2>11, <3>1
      <3>3. \A f \in Engines : PassInv(pass[f])'
        BY <1>1, <2>11 DEF IInv, Typed
      <3>4. Typed'
        BY <1>1, <1>2, <2>9, <2>11 DEF IInv, Typed
      <3> QED
        BY <2>11, <3>2, <3>3, <3>4 DEF IInv
    <2>13. ASSUME FInv, Single PROVE FollowsSources' /\ \A f \in Engines : Current(f)'
      <3>1. FollowsSources'
        <4> SUFFICES ASSUME NEW p \in Stored,
                            NEW c \in node[p].srcs \cap Stored, c \in DOMAIN node'[p].basis
                     PROVE  node'[p].basis[c] = node'[c].text
          BY <2>6, <2>10 DEF FollowsSources
        <4>1. CASE p \in r.group /\ c \in r.group
          BY <2>3, <2>7, <4>1
        <4>2. CASE p \in r.group /\ c \notin r.group
          <5>1. r.new[p][c] = node[c].text
            BY <2>2, <2>13, <4>2 DEF FInv, Current
          <5> QED
            BY <2>7, <2>8, <4>2, <5>1
        <4>3. CASE p \notin r.group
          <5>1. c \notin r.group
            BY <2>2, <4>3
          <5> QED
            BY <2>8, <2>13, <4>3, <5>1 DEF FInv, FollowsSources
        <4> QED
          BY <4>1, <4>2, <4>3
      <3>2. ASSUME NEW f \in Engines PROVE Current(f)'
        <4>1. f = e
          BY <2>13 DEF Single
        <4>2. ASSUME pass[e].pc = "call", NEW c \in pass[e].group \cap Stored
              PROVE  pass[e].copy[c] = node'[c].text
          <5>1. c \notin r.group
            BY <2>2, <4>2 DEF InFlight
          <5> QED
            BY <2>8, <2>13, <4>2, <5>1 DEF FInv, Current
        <4> QED
          BY <1>1, <1>2, <2>6, <4>1, <4>2 DEF Current
      <3> QED
        BY <3>1, <3>2
    <2> QED
      BY <2>12, <2>13 DEF Keeps, FInv
  <1> QED
    BY <1>3, <1>4

-----------------------------------------------------------------------------
LEMMA StutterKeeps == IInv /\ UNCHANGED vars => Keeps
  BY DEF vars, Keeps, FInv, IInv, Typed, Graph, PassInv, RepairInv, FollowsSources, Current,
         Stored, Single

LEMMA NextKeeps == IInv /\ [Next]_vars => Keeps
  <1> SUFFICES ASSUME IInv, [Next]_vars PROVE Keeps
    OBVIOUS
  <1>1. ASSUME NEW e \in Engines, PassStep(e) PROVE Keeps
    BY <1>1, CondensationAssumption, SelectStep, RegisterStep, ReadFreshStep, CondenseStep, LeaveStep DEF PassStep
  <1>2. ASSUME NEW e \in Engines, RepairStep(e) PROVE Keeps
    BY <1>2, ScanStep, ReadRowsStep, NextGroupStep, SummariseStep, CommitStep DEF RepairStep
  <1>3. ASSUME NEW s \in Sessions,
               AddLeaf(s) \/ Delete(s) \/ \E t \in Sessions : Reassign(s, t)
        PROVE  Keeps
    BY <1>3, AddLeafStep, DeleteStep, ReassignStep
  <1>4. CASE UNCHANGED vars
    BY <1>4, StutterKeeps
  <1> QED
    BY <1>1, <1>2, <1>3, <1>4 DEF Next

(* Whatever engines, sessions and fan-in there are, a condensed node was   *)
(* made from all its sources: neither a pass nor a repair stores a text    *)
(* from what deletions have left.                                          *)
THEOREM AllSources == Spec => []MadeOfAllSources
  <1>1. Init => IInv
    BY InitFInv DEF FInv
  <1>2. IInv /\ [Next]_vars => IInv'
    BY NextKeeps DEF Keeps
  <1>3. IInv => MadeOfAllSources
    BY DEF IInv, Graph, MadeOfAllSources
  <1> QED
    BY <1>1, <1>2, <1>3, PTL DEF Spec

(* When one engine works on the database, the registry of passes and the   *)
(* checks of _commit_group suffice: a condensed node always says what its  *)
(* sources say.                                                            *)
THEOREM OneEngineFollows ==
    ASSUME Single
    PROVE  Spec => []FollowsSources
  <1>1. Init => FInv
    BY InitFInv
  <1>2. FInv /\ [Next]_vars => FInv'
    BY NextKeeps, Single DEF Keeps, FInv
  <1>3. FInv => FollowsSources
    BY DEF FInv
  <1> QED
    BY <1>1, <1>2, <1>3, PTL DEF Spec

-----------------------------------------------------------------------------
(* The bounds of the instance, and ids that are given out in order: what    *)
(* TypeOK says beyond IInv.                                                *)
Sizes ==
    /\ created \in 0..MaxNodes /\ deletes \in 0..MaxDeletes
    /\ \A n \in Stored : node[n].srcs \subseteq 1..(n - 1)

LEMMA AddSizes ==
    ASSUME IInv, Sizes, NEW n \in Node, Add(n), n.srcs \subseteq 1..created, UNCHANGED deletes
    PROVE  Sizes'
  <1> DEFINE k == created + 1
  <1>1. created \in Nat /\ Stored \subseteq 1..created /\ MaxNodes \in Nat
    BY CondensationAssumption DEF IInv, Typed
  <1>2. created' = k /\ node' = With(node, k, n) /\ created < MaxNodes
    BY DEF Add
  <1>3. k \in 0..MaxNodes /\ 1..(k - 1) = 1..created /\ k \notin Stored
    BY <1>1, <1>2 DEF Sizes
  <1> HIDE DEF k
  <1>4. Stored' = Stored \cup {k} /\ node'[k] = n /\ \A m \in Stored : node'[m] = node[m]
    BY <1>2, <1>3 DEF With, Stored
  <1>5. \A m \in Stored' : node'[m].srcs \subseteq 1..(m - 1)
    BY <1>3, <1>4 DEF Sizes
  <1> QED
    BY <1>2, <1>3, <1>5 DEF Sizes

LEMMA SameSizes ==
    ASSUME Sizes, UNCHANGED created, deletes' \in 0..MaxDeletes, Stored' \subseteq Stored,
           \A n \in Stored' : node'[n].srcs = node[n].srcs
    PROVE  Sizes'
  BY DEF Sizes

LEMMA SizesStep == ASSUME IInv, Sizes, [Next]_vars PROVE Sizes'
  <1>0. created \in Nat /\ node \in [Stored -> Node] /\ deletes \in 0..MaxDeletes
    BY DEF IInv, Typed, Sizes
  <1>1. CASE UNCHANGED <<node, created, deletes>>
    BY <1>0, <1>1, SameSizes DEF Stored
  <1>2. ASSUME NEW s \in Sessions, AddLeaf(s) PROVE Sizes'
    <2>1. PICK frag \in BOOLEAN : Add([session |-> s, depth |-> 0, srcs |-> {}, text |-> 0,
                                       frag |-> frag, basis |-> Empty])
      BY <1>2 DEF AddLeaf
    <2> DEFINE n == [session |-> s, depth |-> 0, srcs |-> {}, text |-> 0, frag |-> frag,
                     basis |-> Empty]
    <2>2. n \in Node /\ n.srcs = {}
      BY EmptyTyped DEF Node
    <2>3. Add(n) /\ deletes' = deletes
      BY <1>2, <2>1 DEF AddLeaf
    <2> HIDE DEF n
    <2> QED
      BY <2>2, <2>3, AddSizes
  <1>3. ASSUME deletes < MaxDeletes, deletes' = deletes + 1 PROVE deletes' \in 0..MaxDeletes
    BY <1>0, <1>3, CondensationAssumption
  <1>4. ASSUME NEW s \in Sessions, Delete(s) PROVE Sizes'
    <2>1. PICK ns : node' = On(node, Stored \ ns)
      BY <1>4 DEF Delete
    <2>2. Stored' = Stored \ ns /\ \A n \in Stored' : node'[n] = node[n]
      BY <2>1 DEF On, Stored
    <2>3. created' = created /\ deletes' \in 0..MaxDeletes
      BY <1>3, <1>4 DEF Delete
    <2> QED
      BY <2>2, <2>3, SameSizes
  <1>5. ASSUME NEW s \in Sessions, NEW t \in Sessions, Reassign(s, t) PROVE Sizes'
    <2>1. node' = [n \in Stored |-> IF node[n].session = s
                                    THEN [node[n] EXCEPT !.session = t] ELSE node[n]]
      BY <1>5 DEF Reassign
    <2>2. \A n \in Stored : [node[n] EXCEPT !.session = t].srcs = node[n].srcs
      BY <1>0 DEF Node
    <2>3. Stored' = Stored /\ \A n \in Stored : node'[n].srcs = node[n].srcs
      BY <2>1, <2>2 DEF Stored
    <2>4. created' = created /\ deletes' \in 0..MaxDeletes
      BY <1>3, <1>5 DEF Reassign
    <2> QED
      BY <2>3, <2>4, SameSizes
  <1>6. ASSUME NEW e \in Engines, Condense(e) PROVE Sizes'
    <2> DEFINE p == pass[e]
    <2>1. p \in Pass /\ p.group \subseteq 1..created /\ deletes' = deletes
      BY <1>6 DEF IInv, Typed, PassInv, Condense
    <2>2. CASE UNCHANGED <<node, created>>
      BY <1>1, <2>1, <2>2
    <2>3. ASSUME NEW frag \in BOOLEAN,
                 Add([session |-> Bound[e], depth |-> p.depth + 1, srcs |-> p.group, text |-> 0,
                      frag |-> frag, basis |-> p.copy])
          PROVE  Sizes'
      <3> DEFINE d == p.depth + 1
                 n == [session |-> Bound[e], depth |-> d, srcs |-> p.group, text |-> 0,
                       frag |-> frag, basis |-> p.copy]
      <3>1. p.depth \in Nat /\ p.group \in SUBSET Nat /\ p.copy \in Copies /\ Bound[e] \in Sessions
        BY <2>1, CondensationAssumption DEF Pass
      <3>2. d \in Nat
        BY <3>1
      <3> HIDE DEF d
      <3>3. n \in Node /\ n.srcs = p.group
        BY <3>1, <3>2 DEF Node
      <3>4. Add(n)
        BY <2>3 DEF d
      <3> HIDE DEF n
      <3> QED
        BY <2>1, <3>3, <3>4, AddSizes
    <2> QED
      BY <1>6, <2>2, <2>3 DEF Condense
  <1>7. ASSUME NEW e \in Engines, Commit(e) PROVE Sizes'
    <2> DEFINE r == repair[e]
               New(n) == [node[n] EXCEPT !.text = @ + 1, !.frag = FALSE, !.basis = r.new[n]]
    <2>1. created' = created /\ deletes' = deletes
      BY <1>7 DEF Commit
    <2>2. CASE UNCHANGED node
      BY <1>1, <2>1, <2>2
    <2>3. CASE node' = [n \in Stored |-> IF n \in r.group THEN New(n) ELSE node[n]]
      <3>1. \A n \in Stored : New(n).srcs = node[n].srcs
        BY <1>0 DEF Node
      <3> HIDE DEF New
      <3>2. Stored' = Stored /\ \A n \in Stored : node'[n].srcs = node[n].srcs
        BY <2>3, <3>1 DEF Stored
      <3> QED
        BY <1>0, <2>1, <3>2, SameSizes
    <2> QED
      BY <1>7, <2>2, <2>3 DEF Commit
  <1>8. ASSUME NEW e \in Engines, Select(e) \/ Register(e) \/ ReadFresh(e) \/ Leave(e) PROVE Sizes'
    BY <1>1, <1>8 DEF Select, Register, ReadFresh, Leave
  <1>9. ASSUME NEW e \in Engines,
               Scan(e) \/ ScanAncestors(e) \/ ReadRows(e) \/ NextGroup(e) \/ Summarise(e)
        PROVE  Sizes'
    BY <1>1, <1>9 DEF Scan, ScanAncestors, ReadRows, NextGroup, Summarise
  <1>10. CASE UNCHANGED vars
    BY <1>1, <1>10 DEF vars
  <1> QED
    BY <1>2, <1>4, <1>5, <1>6, <1>7, <1>8, <1>9, <1>10 DEF Next, PassStep, RepairStep

(* A node is built from nodes with lower ids, so the summary DAG has no     *)
(* cycle; what a pass or a repair works on was stored once, and a repair    *)
(* writes only nodes of its group.                                         *)
THEOREM TypeCorrect == Spec => []TypeOK
  <1>1. Init => IInv /\ Sizes
    <2>1. Init => created = 0 /\ deletes = 0 /\ Stored = {}
      BY EmptyTyped DEF Init, Stored
    <2> QED
      BY <2>1, InitFInv, CondensationAssumption DEF FInv, Sizes
  <1>2. IInv /\ Sizes /\ [Next]_vars => (IInv /\ Sizes)'
    BY NextKeeps, SizesStep DEF Keeps
  <1>3. IInv /\ Sizes => TypeOK
    <2> SUFFICES ASSUME IInv, Sizes PROVE TypeOK
      OBVIOUS
    <2>1. \A n \in Stored : /\ node[n].session \in Sessions /\ node[n].depth \in Nat
                            /\ node[n].frag \in BOOLEAN /\ DOMAIN node[n].basis \subseteq node[n].srcs
      BY DEF IInv, Typed, Graph, Node
    <2>2. ASSUME NEW e \in Engines
          PROVE  /\ pass[e].pc \in {"idle", "chosen", "registered", "call", "leave"}
                 /\ pass[e].group \subseteq 1..created
                 /\ repair[e].pc \in {"idle", "ancestors", "rows", "next", "summarise", "commit"}
                 /\ repair[e].group \subseteq DOMAIN repair[e].rows
                 /\ DOMAIN repair[e].new \subseteq repair[e].group
      <3>1. pass[e] \in Pass /\ repair[e] \in Repair /\ PassInv(pass[e]) /\ RepairInv(repair[e])
        BY DEF IInv, Typed
      <3>2. /\ pass[e].pc \in {"idle", "chosen", "registered", "call", "leave"}
            /\ repair[e].pc \in {"idle", "ancestors", "rows", "next", "summarise", "commit"}
        BY <3>1 DEF Pass, Repair
      <3> QED
        BY <3>1, <3>2 DEF PassInv, RepairInv
    <2>3. Stored \subseteq 1..created
      BY DEF IInv, Typed
    <2> QED
      BY <2>1, <2>2, <2>3 DEF TypeOK, Sizes
  <1> QED
    BY <1>1, <1>2, <1>3, PTL DEF Spec

=============================================================================
