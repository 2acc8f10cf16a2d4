------------------------------- MODULE MCVoting -------------------------------
(* Instances of Voting for TLC: see the .cfg file.                           *)
EXTENDS Voting, TLC

WorkerSymmetry == Permutations(Workers)

\* What the steps of the vote path and VotesAreConserved depend on: all but the
\* answers given and the history of conflicts, which no action and neither side
\* of the balance reads.
WithoutAnswers ==
  <<romances, pc, cmd, snap, tries, sends, due, fresh, countersVars, crossed, missed>>

=============================================================================
