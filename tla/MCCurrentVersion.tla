-------------------------- MODULE MCCurrentVersion --------------------------
(* A small instance of current versions, for TLC.                          *)
EXTENDS CurrentVersion, TLC

Symmetry == Permutations(Threads) \cup Permutations(Names) \cup Permutations(Versions)

(* Bounds: at most three versions have been stored, and one erased.        *)
Bounds == Cardinality(ever) <= 3 /\ Cardinality(ever \ stored) <= 1
=============================================================================
