SPECIFICATION AuditsSpec
CONSTANTS
  Products = {1, 2, 3, 4}
  Currencies = {"CNY", "USD"}
  Price <- MCPrice
  CurrencyOf <- MCCurrencyOf
  Category <- MCCategory
  ShipsTo <- MCShipsTo
  RateToCNY <- MCRateToCNY
  Destinations = {"US", "EU"}
  DutyRate <- MCDutyRate
  DeMinimis <- MCDeMinimis
  BaseFreight <- MCBaseFreight
  MaxCombinations = 8
  Requests <- MCRequests
  Nil = Nil
  Cent = 1
  Major = 4
  MaxPool = 60
  OwnWords = {9}
  Remarks = {5}
  Cases = {a, b}
  Dialogues <- MCDialogues
  MinSessions = 2
  MinAmounts = 3
  MaxPercent = 25
  Decisions = {"wontfix", "fixed"}
  MaxConversations = 3
  MaxRuns = 2
  MaxDecided = 2
  Followed <- MCAudited
INVARIANT PricesAreRight
INVARIANT FiguresAreJudged
INVARIANT VerdictsFollowTheRun
PROPERTY PoolIsTrue
SYMMETRY CaseSymmetry
CHECK_DEADLOCK FALSE
