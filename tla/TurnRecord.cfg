SPECIFICATION Spec
CONSTANTS
  MaxTurns = 2
  Processes = {p1, p2}
  Amounts = {price, total}
  Contacts = {phone}
  Insights = {insight}
  Retained = 1
  MaxCalls = 1
  MaxFaults = 1
  None = None
SYMMETRY Symmetry
INVARIANT AlarmsAreReal
INVARIANT LogIsTrue
CHECK_DEADLOCK FALSE
