---------------------------- MODULE Collections ----------------------------
(***************************************************************************)
(* Helpers that several components share, written as recursive functions   *)
(* so that what they compute can be proved (Collections_proofs).           *)
(***************************************************************************)
EXTENDS Integers, Sequences, FiniteSets

\* The elements of s that are in keep, in their order.
Kept(s, keep) ==
  LET upTo[n \in 0..Len(s)] ==
        IF n = 0 THEN <<>>
        ELSE IF s[n] \in keep THEN Append(upTo[n - 1], s[n]) ELSE upTo[n - 1]
  IN upTo[Len(s)]
=============================================================================
