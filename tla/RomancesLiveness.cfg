SPECIFICATION FairSpec
CONSTANTS
  w1 = w1
  w2 = w2
  Workers = {w1, w2}
  Users = {1, 2}
  Kinds = {"Add", "Change", "DeleteVote", "DeleteRomance", "Get"}
  Types = {"No", "Yes"}
  Faults = {"requestLost", "responseLost"}
  MaxRetries = 1
  MaxSends = 2
  MaxVersion = 1
PROPERTY RequestsEnd
PROPERTY RequestsRunOut
