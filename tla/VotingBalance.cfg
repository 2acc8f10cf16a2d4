SPECIFICATION VotingSpec
CONSTANTS
  w1 = w1
  w2 = w2
  Workers = {w1, w2}
  Users = {1, 2}
  Kinds = {"Add", "DeleteVote"}
  Types = {"No", "Yes"}
  Faults = {"responseLost", "requestLost", "unreadable", "crash"}
  MaxRetries = 1
  MaxSends = 2
  MaxVersion = 2
  TtlHours = 1
  LastHour = 2
  MaxVotes = 3
SYMMETRY WorkerSymmetry
VIEW WithoutAnswers
CHECK_DEADLOCK FALSE
INVARIANT VotesAreConserved
