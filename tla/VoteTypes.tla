------------------------------ MODULE VoteTypes ------------------------------
(***************************************************************************)
(* The votes a user can cast on a peer, which vote may replace which, and  *)
(* the lifetime of a romance as a function of its two votes.  Pure         *)
(* operators: every module of the project that handles a vote uses them.   *)
(***************************************************************************)

VoteType == {"Empty", "Yes", "No", "Crush", "Compliment"}

IsPositive(v) == v \in {"Yes", "Crush", "Compliment"}
IsNegative(v) == v = "No"
IsEmpty(v) == v = "Empty"

\* The vote types the two API contracts let a client send.
AddUserVoteType == {"Yes", "No", "Crush", "Compliment"}
ChangeUserVoteType == {"Yes", "Crush", "Compliment"}

\* The types that may replace each type.  Crush and Compliment are terminal.
allowedVoteTransitions ==
  [v \in VoteType |->
     CASE v = "Empty" -> {"No", "Yes", "Crush", "Compliment"}
       [] v = "No"    -> {"Yes", "Crush", "Compliment"}
       [] v = "Yes"   -> {"Crush", "Compliment"}
       [] OTHER       -> {}]

isVoteTypeChangeAllowed(old, new) == new \in allowedVoteTransitions[old]

-----------------------------------------------------------------------------
\* The three configured lifetimes, by name (90, 546 and 180 days).
Ttl == {"Dead", "Mutual", "NonMutual"}

getTtlSecondsForVotesPair(active, peer) ==
  IF IsNegative(active) \/ IsNegative(peer) THEN "Dead"
  ELSE IF IsPositive(active) /\ IsPositive(peer) THEN "Mutual"
  ELSE "NonMutual"

=============================================================================
