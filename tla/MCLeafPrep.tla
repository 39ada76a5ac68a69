----------------------------- MODULE MCLeafPrep -----------------------------
(* Instances of LeafPrep. *)
EXTENDS LeafPrep, TLC

Interchangeable ==
    Permutations(Convs) \cup Permutations(Sessions) \cup Permutations(Fingerprints)

=============================================================================
