-------------------------- MODULE MCDeletionPipeline --------------------------
(* Instances of DeletionPipeline for TLC: see the .cfg files.                *)
EXTENDS DeletionPipeline, TLC

OnePeerEach == {<<1, 2>>, <<2, 3>>}
TwoPages == {<<1, 2>>, <<2, 3>>, <<2, 4>>}
TwoPagesAndOthers == TwoPages \cup {<<1, 3>>}

ProcessSymmetry == Permutations(Processes)

=============================================================================
