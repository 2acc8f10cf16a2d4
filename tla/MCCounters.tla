------------------------------ MODULE MCCounters ------------------------------
(* Instances of Counters for TLC: see the .cfg files.                        *)
EXTENDS Counters, TLC

Symmetry == Permutations(Writers) \cup Permutations(Users)

=============================================================================
