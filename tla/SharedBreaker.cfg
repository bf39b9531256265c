SPECIFICATION BreakerFairSpec
CONSTANTS
  Calls = {c1, c2}
  Threshold = 3
  Reset = 2
  Closed = Closed
  Absent = Absent
INVARIANT OpensOnStreak
INVARIANT RefusalsAreFresh
PROPERTY ImplementsLocal
PROPERTY Recovers
