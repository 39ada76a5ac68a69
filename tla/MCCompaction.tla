---------------------------- MODULE MCCompaction ----------------------------
EXTENDS Compaction, TLC
Symmetry == Permutations(Engines) \cup Permutations(Sessions)
=============================================================================
