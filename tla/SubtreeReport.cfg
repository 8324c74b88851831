SPECIFICATION ReportSpec
CONSTANTS
  c1 = c1
  c2 = c2
  Conn <- TwoConns
  Kw <- KwTwo
  NodeTypeOrder <- FourLevels
  Transformer = "transformer"
  MaxConfidence = 1
  MaxNodes = 4
  MaxMoves = 2
INVARIANTS SubtreesNest AggregateAdditive QueuesReachEveryConnection
INVARIANTS UnmovedReportedOnce RepeatsBoundedByMoves
CHECK_DEADLOCK FALSE
