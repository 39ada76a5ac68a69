------------------------------ MODULE MCRollups ------------------------------
(* Instances of Rollups.  On one day: a leaf and the node condensed from it.  *)
(* On two days: a leaf over both and a leaf on the second.                    *)
EXTENDS Rollups, TLC

OneDay == [n \in Nodes |-> 1]
OneDayKids == [n \in Nodes |-> IF n = 2 THEN {1} ELSE {}]

TwoDaysFirst == [n \in Nodes |-> n]
TwoDaysLast == [n \in Nodes |-> 2]
Leaves == [n \in Nodes |-> {}]

SomeBuilder == Permutations(Builders)

=============================================================================
