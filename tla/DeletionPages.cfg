SPECIFICATION Spec
CONSTANTS
  p1 = p1
  NoProcess = NoProcess
  Processes = {p1}
  Users = {1, 2, 3, 4}
  Pairs <- TwoPages
  Requesters = {2}
  PageSize = 1
  ChanCap = 1
  GroupLimit = 2
  BatchLimit = 2
  Faults = {}
  MaxFaults = 0
  MaxRequests = 1
  MaxChanges = 0
CHECK_DEADLOCK FALSE
INVARIANT NothingLost
