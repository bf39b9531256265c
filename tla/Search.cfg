SPECIFICATION SearchSpec
CONSTANTS
  Products = {1, 2, 3}
  Texts = {0, 11, 12, 13, 22}
  Query = 0
  Catalogs <- MCCatalogs
  Depth = 2
  RrfK = 60
  Unit = 3782
  TopK = 1
  FilteredOutLimit = 1
  MaxFaults = 2
  MaxStarts = 2
INVARIANT VectorsAreTheirOwn
INVARIANT AnswersAreTrue
CHECK_DEADLOCK FALSE
