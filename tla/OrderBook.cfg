SPECIFICATION Spec
CONSTANTS
  s1 = s1
  s2 = s2
  c1 = c1
  c2 = c2
  c3 = c3
  Skus = {s1, s2}
  Buyers = {b1, b2}
  Processes = {api, worker}
  Calls = {c1, c2, c3}
  Baskets <- MCBaskets
  SeedStock = 5
  MaxOrders = 3
  MaxConcurrency = 2
  NoRow = NoRow
SYMMETRY MCSymmetry
INVARIANT StockConserved
INVARIANT NoPhantomStock
INVARIANT SerialNeverCollides
PROPERTY OnlyOwnerCancels
PROPERTY OrdersImplementLedger
