---------------------------- MODULE RomanceCleanup ----------------------------
(***************************************************************************)
(* What DELETE /v1/romances promises for the romances of a user: the ones  *)
(* that are there when the request is accepted become due, and a due       *)
(* romance is removed in the end, unless the clean-up gives it up.  The     *)
(* clean-up takes romances of users who asked; any other romance leaves    *)
(* the table only by an act of one of its users, and acts are counted, so  *)
(* that a clean-up step cannot pass for one.                               *)
(***************************************************************************)
EXTENDS Naturals

CONSTANTS Users, Pairs

VARIABLES
  table,    \* the romances there are
  asked,    \* the users who asked
  due,      \* the romances promised to be removed
  acts      \* how many romances users created or deleted themselves

cleanupVars == <<table, asked, due, acts>>

PairsOf(u) == {pair \in Pairs : u \in {pair[1], pair[2]}}

CleanupInit ==
  /\ table \in SUBSET Pairs
  /\ asked = {}
  /\ due = {}
  /\ acts = 0

\* A user creates a romance by a vote.
Appear(pair) ==
  /\ acts' = acts + 1
  /\ table' = table \cup {pair}
  /\ UNCHANGED <<asked, due>>

\* A romance deleted by one of its users, who need not have asked.
Disappear(pair) ==
  /\ acts' = acts + 1
  /\ table' = table \ {pair}
  /\ due' = due \ {pair}
  /\ UNCHANGED asked

\* The request is taken in, accepted (all romances become due) or not.
Ask(u) ==
  /\ asked' = asked \cup {u}
  /\ due' \in {due, due \cup (table \cap PairsOf(u))}
  /\ UNCHANGED <<table, acts>>

\* The clean-up disposes of some romances: it removes them or gives them up.
Clean(pairs, removed) ==
  /\ \A pair \in pairs : \E u \in asked : pair \in PairsOf(u)
  /\ removed \subseteq pairs
  /\ table' = table \ removed
  /\ due' = due \ pairs
  /\ UNCHANGED <<asked, acts>>

CleanupNext ==
  \/ \E pair \in Pairs : Appear(pair) \/ Disappear(pair)
  \/ \E u \in Users : Ask(u)
  \/ \E pairs, removed \in SUBSET Pairs : Clean(pairs, removed)

CleanupSpec == CleanupInit /\ [][CleanupNext]_cleanupVars

=============================================================================
