-------------------------- MODULE LeafPublication --------------------------
(***************************************************************************)
(* What the publication of a leaf promises, whoever made its summary and   *)
(* whenever: the leaf covers the rows of the bound session that follow the *)
(* frontier, and the summary of a leaf that was prepared in the background *)
(* is the one the committed rows and the configured route give at the very *)
(* moment it is published.                                                 *)
(***************************************************************************)
EXTENDS Integers, Sequences, FiniteSets, FiniteSetsExt

CONSTANTS
    Convs,      \* conversations of one database
    Sessions,   \* sessions the host may bind to a conversation
    Fingerprints, \* configurations of the summary route
    MaxRows,    \* bound on the rows of a conversation
    MaxVersion  \* bound on the rewrites of a row

ASSUME PublicationAssumption == MaxRows \in Nat /\ MaxVersion \in Nat

VARIABLES
    rows,       \* messages of each conversation: session and text version
    bound,      \* current_session_id
    frontier,   \* current_frontier_store_id
    route,      \* the fingerprint of the configuration
    last        \* the latest leaf of each conversation

pubVars == <<rows, bound, frontier, route, last>>

Row == [by: Sessions, v: 0..MaxVersion]
NoLeaf == [prepared |-> FALSE, text |-> << >>, route |-> ""]

(* The rows of session s above row f and up to row k of a conversation,    *)
(* and what they say.                                                      *)
Span(rs, s, f, k) == {i \in DOMAIN rs : f < i /\ i <= k /\ rs[i].by = s}
Text(rs, ids) == [i \in ids |-> rs[i].v]

PubInit ==
    /\ rows = [c \in Convs |-> << >>]
    /\ bound \in [Convs -> Sessions]
    /\ frontier = [c \in Convs |-> 0]
    /\ route \in Fingerprints
    /\ last = [c \in Convs |-> NoLeaf]

(* append: the bound session ingests a message. *)
Store(c) ==
    /\ Len(rows[c]) < MaxRows
    /\ rows' = [rows EXCEPT ![c] = Append(@, [by |-> bound[c], v |-> 0])]
    /\ UNCHANGED <<bound, frontier, route, last>>

(* gc_externalized_tool_result: a tool result becomes a placeholder. *)
Rewrite(c, i) ==
    /\ i \in DOMAIN rows[c] /\ rows[c][i].v < MaxVersion
    /\ rows' = [rows EXCEPT ![c][i].v = @ + 1]
    /\ UNCHANGED <<bound, frontier, route, last>>

(* A configuration with another route is loaded. *)
Configure(r) ==
    /\ r # route /\ route' = r
    /\ UNCHANGED <<rows, bound, frontier, last>>

(* bind_session to a session that has no frontier of its own. *)
Bind(c, s) ==
    /\ s # bound[c]
    /\ bound' = [bound EXCEPT ![c] = s]
    /\ frontier' = [frontier EXCEPT ![c] = 0]
    /\ UNCHANGED <<rows, route, last>>

(* A leaf over the rows up to k.  The text of a leaf made in the           *)
(* foreground is that of the host's list and is not compared with the      *)
(* rows.                                                                   *)
Publish(c, k, prepared) ==
    LET ids == Span(rows[c], bound[c], frontier[c], k) IN
    /\ k \in ids
    /\ last' = [last EXCEPT ![c] =
                  IF prepared THEN [prepared |-> TRUE, route |-> route,
                                    text |-> Text(rows[c], ids)]
                              ELSE NoLeaf]
    /\ frontier' = [frontier EXCEPT ![c] = k]
    /\ UNCHANGED <<rows, bound, route>>

PubNext ==
    \/ \E c \in Convs :
          \/ Store(c)
          \/ \E i \in 1..MaxRows : Rewrite(c, i)
          \/ \E s \in Sessions : Bind(c, s)
          \/ \E k \in DOMAIN rows[c], p \in BOOLEAN : Publish(c, k, p)
    \/ \E r \in Fingerprints : Configure(r)

PubSpec == PubInit /\ [][PubNext]_pubVars

=============================================================================
