SPECIFICATION FairSpec
CONSTANTS
  p1 = p1
  NoProcess = NoProcess
  Processes = {p1}
  Users = {1, 2, 3}
  Pairs <- OnePeerEach
  Requesters = {2}
  PageSize = 1
  ChanCap = 1
  GroupLimit = 1
  BatchLimit = 1
  Faults = {"publishFails", "queryFails", "unreadable", "staleRead", "unprocessed", "batchFails", "ackLost", "slow", "crash", "cancel"}
  MaxFaults = 1
  MaxRequests = 2
  MaxChanges = 1
CHECK_DEADLOCK FALSE
INVARIANT NothingElseLost
PROPERTY OwedIsSettled
