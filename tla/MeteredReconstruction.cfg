SPECIFICATION MeteredSpec
CONSTANTS
  Horizon = 4
  Demands = {0, 3, 20}
  Stocks = {2, 5}
  Sizes = {5, 10, 23}
  Denominations = {4, 16}
  Cent = 4
  WorstSnap = 7
  Weights = {1}
INVARIANTS BoundWithRounding ErrorBounded
PROPERTIES FeedsReconstruction
CHECK_DEADLOCK FALSE
