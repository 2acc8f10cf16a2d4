SPECIFICATION Spec
CONSTANTS
  w1 = w1
  w2 = w2
  Workers = {w1, w2}
  Users = {1, 2}
  Kinds = {"Add", "Change", "DeleteVote", "DeleteRomance"}
  Types = {"Yes", "Crush"}
  Faults = {}
  MaxRetries = 1
  MaxSends = 1
  MaxVersion = 3
INVARIANT ChangeNeedsVote
