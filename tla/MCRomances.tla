------------------------------ MODULE MCRomances ------------------------------
(* Instances of Romances for TLC: see the .cfg files.                        *)
EXTENDS Romances, TLC

WorkerSymmetry == Permutations(Workers)

=============================================================================
