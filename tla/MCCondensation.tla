--------------------------- MODULE MCCondensation ---------------------------
(* Condensation for TLC. *)
EXTENDS Condensation, TLC

CONSTANTS e1, s1, s2

OneEngine == e1 :> s1

=============================================================================
