---------------------------- MODULE Condensation ----------------------------
(***************************************************************************)
(* The upper levels of the summary DAG: condensation passes (engine.py,    *)
(* _maybe_condense and _run_threshold_sweep_condensation) that build a     *)
(* node from a group of nodes, and the repair of level 3 fragments         *)
(* (level3_repair.py) that rewrites nodes in place while passes run.       *)
(*                                                                         *)
(* A text is the number of times it was rewritten; a node keeps with it    *)
(* the texts of its sources it was made from.  One step is one read of the *)
(* database, one write transaction, one answer of the summary route or one *)
(* update of the in-flight registry.                                       *)
(***************************************************************************)
EXTENDS Integers, FiniteSets, FiniteSetsExt

CONSTANTS
    Engines,    \* engines of one process on one database
    Sessions,
    Bound,      \* the session of each engine
    Fanin,      \* condensation_fanin, at least 1
    MaxNodes,   \* bound on the nodes ever created
    MaxDeletes  \* bound on deletions and moves

ASSUME CondensationAssumption ==
    /\ Bound \in [Engines -> Sessions]
    /\ Fanin \in Nat \ {0} /\ MaxNodes \in Nat /\ MaxDeletes \in Nat

VARIABLES
    node,     \* summary_nodes: a function on the ids that are stored
    created,  \* how many ids were given out
    deletes,  \* how often nodes were deleted or moved
    pass,     \* the condensation pass of each engine
    repair    \* the level 3 repair an operator runs on each engine

vars == <<node, created, deletes, pass, repair>>

(* The function without arguments, f with one more, f on fewer. *)
Empty == [x \in {} |-> 0]
With(f, x, y) == [z \in DOMAIN f \cup {x} |-> IF z = x THEN y ELSE f[z]]
On(f, xs) == [x \in xs |-> f[x]]

NoPass == [pc |-> "idle", group |-> {}, depth |-> 0, copy |-> Empty]
NoRepair == [pc |-> "idle", ids |-> {}, rows |-> Empty, todo |-> {},
             group |-> {}, new |-> Empty]

Stored == DOMAIN node

(* Every state component keeps its type, and what a pass or a repair works *)
(* on was stored once.                                                     *)
TypeOK ==
    /\ Stored \subseteq 1..created /\ created \in 0..MaxNodes
    /\ deletes \in 0..MaxDeletes
    /\ \A n \in Stored :
         /\ node[n].session \in Sessions /\ node[n].depth \in Nat
         /\ node[n].srcs \subseteq 1..(n - 1) /\ node[n].frag \in BOOLEAN
         /\ DOMAIN node[n].basis \subseteq node[n].srcs
    /\ \A e \in Engines :
         /\ pass[e].pc \in {"idle", "chosen", "registered", "call", "leave"}
         /\ pass[e].group \subseteq 1..created
         /\ repair[e].pc \in {"idle", "ancestors", "rows", "next", "summarise", "commit"}
         /\ repair[e].group \subseteq DOMAIN repair[e].rows
         /\ DOMAIN repair[e].new \subseteq repair[e].group

Init ==
    /\ node = Empty /\ created = 0 /\ deletes = 0
    /\ pass = [e \in Engines |-> NoPass]
    /\ repair = [e \in Engines |-> NoRepair]

-----------------------------------------------------------------------------
(* add_node: the next id. *)
Add(n) == /\ created < MaxNodes
          /\ created' = created + 1
          /\ node' = With(node, created + 1, n)

(* A compaction publishes a leaf; at level 3 it is a fragment. *)
AddLeaf(s) ==
    /\ \E frag \in BOOLEAN :
         Add([session |-> s, depth |-> 0, srcs |-> {}, text |-> 0, frag |-> frag,
              basis |-> Empty])
    /\ UNCHANGED <<deletes, pass, repair>>

(* delete_node_batch: a batch of a session's nodes below a depth, at a     *)
(* reset or a cleanup.                                                     *)
Delete(s) ==
    /\ deletes < MaxDeletes /\ deletes' = deletes + 1
    /\ \E d \in {node[n].depth : n \in Stored} :
       \E ns \in SUBSET {n \in Stored : node[n].session = s /\ node[n].depth <= d} \ {{}} :
         node' = On(node, Stored \ ns)
    /\ UNCHANGED <<created, pass, repair>>

(* reassign_session_nodes: the nodes are carried over to a new session. *)
Reassign(s, t) ==
    /\ s # t /\ deletes < MaxDeletes /\ deletes' = deletes + 1
    /\ node' = [n \in Stored |-> IF node[n].session = s
                                 THEN [node[n] EXCEPT !.session = t] ELSE node[n]]
    /\ UNCHANGED <<created, pass, repair>>

-----------------------------------------------------------------------------
(* get_uncondensed_at_depth *)
Uncondensed(s, d) ==
    {n \in Stored : /\ node[n].session = s /\ node[n].depth = d
                    /\ \A p \in Stored : node[p].session = s /\ node[p].depth > d
                                           => n \notin node[p].srcs}

(* Depths with enough for a full group; or, in a threshold sweep that      *)
(* finds none, the shallowest depth with more than one.                    *)
Depths == {node[n].depth : n \in Stored}
Eligible(s, d) ==
    LET Has(c, k) == Cardinality(Uncondensed(s, c)) >= k IN
    \/ Has(d, Fanin)
    \/ Has(d, 2) /\ \A c \in Depths : ~Has(c, Fanin) /\ (Has(c, 2) => d <= c)

(* The oldest, up to the fan-in. *)
Group(s, d) ==
    LET ns == Uncondensed(s, d)
    IN  {n \in ns : Cardinality({m \in ns : m < n}) < Fanin}

Select(e) ==
    /\ pass[e].pc = "idle"
    /\ \E d \in Depths :
         /\ Eligible(Bound[e], d)
         /\ pass' = [pass EXCEPT ![e] = [NoPass EXCEPT !.pc = "chosen", !.depth = d,
                                           !.group = Group(Bound[e], d)]]
    /\ UNCHANGED <<node, created, deletes, repair>>

(* _condensation_in_flight: the ids are registered, then read again. *)
Register(e) ==
    /\ pass[e].pc = "chosen"
    /\ pass' = [pass EXCEPT ![e].pc = "registered"]
    /\ UNCHANGED <<node, created, deletes, repair>>

InFlight(e) ==
    IF pass[e].pc \in {"registered", "call", "leave"} THEN pass[e].group ELSE {}

Texts(ns) == [n \in ns |-> node[n].text]

\* Mutant of ReadFresh: the nodes that are left will do.
ReadWhatIsLeft(e) ==
    /\ pass[e].pc = "registered"
    /\ pass' = [pass EXCEPT ![e].pc = "call", ![e].copy = Texts(pass[e].group \cap Stored)]
    /\ UNCHANGED <<node, created, deletes, repair>>

ReadFresh(e) ==
    LET g == pass[e].group IN
    /\ pass[e].pc = "registered"
    /\ pass' = IF g \subseteq Stored
               THEN [pass EXCEPT ![e].pc = "call", ![e].copy = Texts(g)]
               ELSE [pass EXCEPT ![e].pc = "leave"]
    /\ UNCHANGED <<node, created, deletes, repair>>

(* _condense_summary_nodes: the call fails, is rejected or meets a         *)
(* shutdown, or its text is stored as a node of the next depth.            *)
Condense(e) ==
    LET p == pass[e] IN
    /\ p.pc = "call"
    /\ \/ UNCHANGED <<node, created>>
       \/ \E frag \in BOOLEAN :
            Add([session |-> Bound[e], depth |-> p.depth + 1, srcs |-> p.group, text |-> 0,
                 frag |-> frag, basis |-> p.copy])
    /\ pass' = [pass EXCEPT ![e].pc = "leave"]
    /\ UNCHANGED <<deletes, repair>>

(* The ids are taken out of the registry. *)
Leave(e) ==
    /\ pass[e].pc = "leave"
    /\ pass' = [pass EXCEPT ![e] = NoPass]
    /\ UNCHANGED <<node, created, deletes, repair>>

-----------------------------------------------------------------------------
(* scan_level3_fragments: the fragments, then the nodes above them. *)
Scan(e) ==
    /\ repair[e].pc = "idle"
    /\ \E n \in Stored : node[n].frag
    /\ repair' = [repair EXCEPT ![e].pc = "ancestors", ![e].ids = {n \in Stored : node[n].frag}]
    /\ UNCHANGED <<node, created, deletes, pass>>

(* ns and everything built on it: the smallest such set. *)
Above(ns) ==
    {n \in ns \cup Stored : \A s \in SUBSET (ns \cup Stored) :
       ns \subseteq s /\ (\A p \in Stored : node[p].srcs \cap s # {} => p \in s) => n \in s}

ScanAncestors(e) ==
    /\ repair[e].pc = "ancestors"
    /\ repair' = [repair EXCEPT ![e].pc = "rows", ![e].ids = Above(@)]
    /\ UNCHANGED <<node, created, deletes, pass>>

(* The rows split into groups that no source links. *)
Components(rows) ==
    LET Linked(a, b) == a \in rows[b].srcs \/ b \in rows[a].srcs
        Apart(g) == \A a \in g : \A b \in DOMAIN rows \ g : ~Linked(a, b)
    IN  {g \in SUBSET DOMAIN rows \ {{}} :
           Apart(g) /\ \A h \in SUBSET g \ {{}} : Apart(h) => h = g}

(* _groups, and the groups with a source that is gone are left out. *)
ReadRows(e) ==
    LET rows == On(node, repair[e].ids \cap Stored) IN
    /\ repair[e].pc = "rows"
    /\ repair' = [repair EXCEPT ![e].pc = "next", ![e].rows = rows,
                    ![e].todo = {g \in Components(rows) :
                                   \A n \in g : rows[n].srcs \subseteq Stored}]
    /\ UNCHANGED <<node, created, deletes, pass>>

(* The next group; or the end, at once when no route or backup is to be had. *)
NextGroup(e) ==
    /\ repair[e].pc = "next"
    /\ \/ \E g \in repair[e].todo :
            /\ \A h \in repair[e].todo : Min(g) <= Min(h)
            /\ repair' = [repair EXCEPT ![e].pc = "summarise", ![e].todo = @ \ {g},
                                        ![e].group = g, ![e].new = Empty]
       \/ repair' = [repair EXCEPT ![e] = NoRepair]
    /\ UNCHANGED <<node, created, deletes, pass>>

\* Mutant of Skip: the texts of the group before stay around.
SkipKeepsNew(e) == repair' = [repair EXCEPT ![e].pc = "next", ![e].group = {}]

(* The group is left as it is. *)
Skip(e) == repair' = [repair EXCEPT ![e].pc = "next", ![e].group = {}, ![e].new = Empty]

(* Bottom-up: by depth, then by id. *)
Lower(rows, m, n) == \/ rows[m].depth < rows[n].depth
                     \/ rows[m].depth = rows[n].depth /\ m <= n

(* _summarise_group: the lowest node that is left gets a new text, from    *)
(* the new texts of its sources in the group and the stored ones of the    *)
(* others; the group is skipped when one is gone, the call fails or the    *)
(* result is of level 3.                                                   *)
Summarise(e) ==
    LET r == repair[e]
        rest == r.group \ DOMAIN r.new
        Basis(n) == [c \in r.rows[n].srcs |->
                       IF c \in DOMAIN r.new THEN r.rows[c].text + 1 ELSE node[c].text]
    IN
    /\ r.pc = "summarise"
    /\ \/ \E n \in rest :
            /\ \A m \in rest : Lower(r.rows, n, m)
            /\ r.rows[n].srcs \subseteq DOMAIN r.new \cup Stored
            /\ repair' = [repair EXCEPT ![e].new = With(@, n, Basis(n))]
       \/ rest # {} /\ Skip(e)
       \/ rest = {} /\ repair' = [repair EXCEPT ![e].pc = "commit"]
    /\ UNCHANGED <<node, created, deletes, pass>>

(* The checks of _commit_group, inside its transaction. *)
NewParent(group) == \E p \in Stored \ group : node[p].srcs \cap group # {}
Changed(r, n) == \/ n \notin Stored
                 \/ node[n].session # r.rows[n].session
                 \/ node[n].text # r.rows[n].text

\* Mutant of CanCommit: the registry is not looked at.
CanCommitInFlight(e) ==
    LET r == repair[e] IN
    /\ ~NewParent(r.group)
    /\ \A n \in r.group : ~Changed(r, n) /\ r.rows[n].srcs \subseteq Stored

CanCommit(e) ==
    LET r == repair[e] IN
    /\ InFlight(e) \cap r.group = {}
    /\ ~NewParent(r.group)
    /\ \A n \in r.group : ~Changed(r, n) /\ r.rows[n].srcs \subseteq Stored

(* _commit_group: all texts of the group are replaced in one transaction,  *)
(* or it is rolled back.                                                   *)
Commit(e) ==
    LET r == repair[e] IN
    /\ r.pc = "commit"
    /\ \/ /\ CanCommit(e)
          /\ node' = [n \in Stored |->
                        IF n \in r.group
                        THEN [node[n] EXCEPT !.text = @ + 1, !.frag = FALSE, !.basis = r.new[n]]
                        ELSE node[n]]
       \/ UNCHANGED node
    /\ Skip(e)
    /\ UNCHANGED <<created, deletes, pass>>

PassStep(e) == Select(e) \/ Register(e) \/ ReadFresh(e) \/ Condense(e) \/ Leave(e)
RepairStep(e) == \/ Scan(e) \/ ScanAncestors(e) \/ ReadRows(e) \/ NextGroup(e)
                 \/ Summarise(e) \/ Commit(e)

Next ==
    \/ \E e \in Engines : PassStep(e) \/ RepairStep(e)
    \/ \E s \in Sessions : AddLeaf(s) \/ Delete(s) \/ \E t \in Sessions : Reassign(s, t)

Spec == Init /\ [][Next]_vars

-----------------------------------------------------------------------------
(* Properties.                                                             *)

(* A condensed node was made from all its sources, never from those that   *)
(* happened to be left when nodes are deleted under a pass or a repair.    *)
MadeOfAllSources == \A p \in Stored : DOMAIN node[p].basis = node[p].srcs

(* A condensed node says what its sources say now: a repair that rewrites  *)
(* a node rewrites everything built on it in the same transaction, also    *)
(* what is being built while the repair runs.                              *)
FollowsSources ==
    \A p \in Stored : \A c \in node[p].srcs \cap Stored \cap DOMAIN node[p].basis :
        node[p].basis[c] = node[c].text

=============================================================================
