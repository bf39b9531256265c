SPECIFICATION FairSpec
CONSTANTS
  Agents = {a1, a2, a3}
  Slots = 2
  Interval = 2
  MaxRetries = 1
  MaxRounds = 1
  Total = 4
  Costs = {0, 2}
  Nobody = Nobody
INVARIANT WithinBounds
PROPERTY StartsSpaced
PROPERTY Served
CHECK_DEADLOCK FALSE
