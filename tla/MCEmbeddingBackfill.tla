------------------------ MODULE MCEmbeddingBackfill ------------------------
(* EmbeddingBackfill for TLC. *)
EXTENDS EmbeddingBackfill, TLC

\* Nothing is embedded, and the profile may change.
Fresh == {[embedded |-> {}, switches |-> 0]}
\* Nothing is embedded and the profile stays, or it may change and one
\* document is left to embed.
BatchesOrProfiles ==
    {[embedded |-> {}, switches |-> MaxSwitches]}
    \cup {[embedded |-> Docs \ {d}, switches |-> 0] : d \in Docs}

Symmetric ==
    Permutations(Docs) \cup Permutations(Workers) \cup Permutations(Profiles)

=============================================================================
