SPECIFICATION Spec
CONSTANTS
  w1 = w1
  w2 = w2
  Workers = {w1, w2}
  Users = {1, 2}
  Kinds = {"Add", "Change", "DeleteVote", "Get"}
  Types = {"No", "Yes", "Crush"}
  Faults = {"requestLost", "responseLost", "unreadable", "crash"}
  MaxRetries = 1
  MaxSends = 2
  MaxVersion = 2
SYMMETRY WorkerSymmetry
INVARIANT TypeOK
INVARIANT NoLostUpdate
INVARIANT TtlMatchesVotes
INVARIANT VotesAreStamped
PROPERTY ImplementsLedger
