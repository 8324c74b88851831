SPECIFICATION MeterSpec
CONSTANTS
  Horizon = 4
  Demands = {0, 2, 5}
  Stocks = {1, 2}
  Sizes = {3, 5, 9}
  Denominations = {2, 8}
  Cent = 2
  WorstSnap = 3
INVARIANTS RecordedBound
CHECK_DEADLOCK FALSE
