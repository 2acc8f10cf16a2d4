SPECIFICATION Spec
CONSTANTS
  w1 = w1
  w2 = w2
  Workers = {w1, w2}
  Users = {1, 2}
  Kinds = {"Add", "Change", "DeleteVote", "DeleteRomance", "Get"}
  Types = {"No", "Yes", "Crush"}
  Faults = {"responseLost", "unreadable"}
  MaxRetries = 1
  MaxSends = 2
  MaxVersion = 2
SYMMETRY WorkerSymmetry
INVARIANT NoLostUpdate
PROPERTY ConflictImpliesContention
PROPERTY CountsFollowVotes
