SPECIFICATION FairSpec
CONSTANTS
  r1 = r1
  r2 = r2
  r3 = r3
  w1 = w1
  w2 = w2
  f1 = f1
  f2 = f2
  f3 = f3
  s1 = s1
  s2 = s2
  Requests = {r1, r2}
  Sessions = {s1, s2}
  Fingerprints = {f1, f2}
  SessionOf <- MCSessionOf
  Workers = {w1}
  Concurrency = 1
  MaxDeliveries = 3
  MaxFaults = 1
  NoTask = NoTask
  NoWorker = NoWorker
  NoPrint = NoPrint
CHECK_DEADLOCK FALSE
PROPERTY Settled
