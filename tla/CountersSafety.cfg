SPECIFICATION Spec
CONSTANTS
  w1 = w1
  w2 = w2
  r1 = r1
  Writers = {w1, w2}
  Readers = {r1}
  u1 = u1
  u2 = u2
  Users = {u1, u2}
  TtlHours = 2
  LastHour = 6
  MaxVotes = 2
  MaxSends = 2
SYMMETRY Symmetry
INVARIANT TypeOK
INVARIANT LifetimeCountsVotes
INVARIANT HourlyRowsCountVotes
INVARIANT HourlyReadIsExact
INVARIANT WindowsNested
