SPECIFICATION Spec
CONSTANTS
  p1 = p1
  p2 = p2
  NoProcess = NoProcess
  Processes = {p1, p2}
  Users = {1, 2, 3, 4}
  Pairs <- TwoPagesAndOthers
  Requesters = {2}
  PageSize = 1
  ChanCap = 1
  GroupLimit = 2
  BatchLimit = 2
  Faults = {"publishFails", "queryFails", "unreadable", "staleRead", "unprocessed", "batchFails", "ackLost", "slow", "crash", "cancel"}
  MaxFaults = 1
  MaxRequests = 1
  MaxChanges = 0
SYMMETRY ProcessSymmetry
CHECK_DEADLOCK FALSE
INVARIANT TypeOK
INVARIANT NothingElseLost
INVARIANT GroupsAreDeletable
INVARIANT ChannelIsServed
PROPERTY ImplementsCleanup
