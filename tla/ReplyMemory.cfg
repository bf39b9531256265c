SPECIFICATION Spec
CONSTANTS
  Turns = {t1, t2, t3}
  Sessions = {s1, s2}
  Processes = {p1, p2}
  Preferences <- MCPreferences
  Questions = {"search", "order"}
  Unsafe = {"order"}
  TopK = 1
  BucketLimit = 1
  MaxFaults = 1
  MaxEdits = 2
  None = None
SYMMETRY Symmetry
INVARIANT HitsAreCurrent
INVARIANT DislikesAreHeard
INVARIANT KeptUnlessTorn
CHECK_DEADLOCK FALSE
