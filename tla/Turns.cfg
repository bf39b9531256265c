SPECIFICATION Spec
CONSTANTS
  Turns = {t1, t2, t3}
  Sessions = {s1, s2}
  Processes = {p1, p2}
  MaxSessions = 1
  MaxFaults = 1
  NoAgent = NoAgent
SYMMETRY Symmetry
INVARIANT SeesHistory
INVARIANT ConfirmsTheRightTurns
INVARIANT CountedWhileCached
INVARIANT RecordsFollowAgents
CHECK_DEADLOCK FALSE
